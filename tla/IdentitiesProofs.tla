-------------------------- MODULE IdentitiesProofs --------------------------
(***************************************************************************)
(* Proofs about Identities, for every set of modules and identities, also  *)
(* ones derived from themselves: Values hold exactly what is derived, once *)
(* a call has returned, and never lose anything; every base that is        *)
(* missing is reported.                                                    *)
(***************************************************************************)
EXTENDS Identities, FiniteSetTheorems, TLAPS

LEMMA SeqSets ==
    ASSUME NEW S, NEW p \in Seq(S), NEW q \in Seq(S), NEW x \in S
    PROVE  /\ ToSet(p) \subseteq S
           /\ ToSet(p \o q) = ToSet(p) \cup ToSet(q)
           /\ ToSet(Append(p, x)) = ToSet(p) \cup {x}
           /\ p # <<>> => /\ Head(p) \in S /\ Tail(p) \in Seq(S)
                          /\ ToSet(p) = {Head(p)} \cup ToSet(Tail(p))
  <1>1. ToSet(p) \subseteq S
    BY DEF ToSet
  <1>2. ToSet(p \o q) = ToSet(p) \cup ToSet(q)
    <2>1. /\ p \o q \in Seq(S) /\ Len(p \o q) = Len(p) + Len(q)
          /\ \A n \in 1 .. Len(p) + Len(q) :
                (p \o q)[n] = IF n <= Len(p) THEN p[n] ELSE q[n - Len(p)]
      OBVIOUS
    <2>2. ASSUME NEW e \in ToSet(p \o q) PROVE e \in ToSet(p) \cup ToSet(q)
      <3>1. PICK n \in 1 .. Len(p) + Len(q) : (p \o q)[n] = e
        BY <2>1 DEF ToSet
      <3>2. CASE n <= Len(p)
        BY <2>1, <3>1, <3>2 DEF ToSet
      <3>3. CASE n > Len(p)
        <4>1. n - Len(p) \in 1 .. Len(q) /\ q[n - Len(p)] = e
          BY <2>1, <3>1, <3>3
        <4> QED BY <4>1 DEF ToSet
      <3> QED BY <3>1, <3>2, <3>3
    <2>3. ASSUME NEW e \in ToSet(p) PROVE e \in ToSet(p \o q)
      <3>1. PICK n \in 1 .. Len(p) : p[n] = e
        BY DEF ToSet
      <3>2. n \in 1 .. Len(p \o q) /\ (p \o q)[n] = e
        BY <2>1, <3>1
      <3> QED BY <2>1, <3>2 DEF ToSet
    <2>4. ASSUME NEW e \in ToSet(q) PROVE e \in ToSet(p \o q)
      <3>1. PICK n \in 1 .. Len(q) : q[n] = e
        BY DEF ToSet
      <3>2. n + Len(p) \in 1 .. Len(p \o q) /\ (p \o q)[n + Len(p)] = e
        BY <2>1, <3>1
      <3> QED BY <2>1, <3>2 DEF ToSet
    <2> QED BY <2>2, <2>3, <2>4
  <1>3. ToSet(Append(p, x)) = ToSet(p) \cup {x}
    <2>1. /\ Len(Append(p, x)) = Len(p) + 1 /\ Append(p, x) \in Seq(S)
          /\ Append(p, x)[Len(p) + 1] = x
          /\ \A n \in 1 .. Len(p) : Append(p, x)[n] = p[n]
      OBVIOUS
    <2>2. DOMAIN Append(p, x) = 1 .. Len(p) + 1 /\ DOMAIN p = 1 .. Len(p) /\ Len(p) \in Nat
      BY <2>1
    <2> QED BY <2>1, <2>2 DEF ToSet
  <1>4. ASSUME p # <<>>
        PROVE  /\ Head(p) \in S /\ Tail(p) \in Seq(S)
               /\ ToSet(p) = {Head(p)} \cup ToSet(Tail(p))
    <2>1. /\ Head(p) = p[1] /\ Tail(p) \in Seq(S) /\ Len(p) \in Nat \ {0}
          /\ Len(Tail(p)) = Len(p) - 1
          /\ \A n \in 1 .. Len(p) - 1 : Tail(p)[n] = p[n + 1]
      BY <1>4
    <2>2. DOMAIN p = 1 .. Len(p) /\ DOMAIN Tail(p) = 1 .. Len(p) - 1
      BY <2>1
    <2>3. \A n \in 1 .. Len(p) : n = 1 \/ n - 1 \in 1 .. Len(p) - 1
      BY <2>1
    <2>4. ASSUME NEW n \in 1 .. Len(p) PROVE p[n] \in {Head(p)} \cup ToSet(Tail(p))
      <3>1. CASE n = 1
        BY <2>1, <3>1
      <3>2. CASE n # 1
        <4>1. n - 1 \in 1 .. Len(p) - 1 /\ Tail(p)[n - 1] = p[n]
          BY <2>1, <3>2
        <4> QED BY <2>2, <4>1 DEF ToSet
      <3> QED BY <3>1, <3>2
    <2>5. ASSUME NEW n \in 1 .. Len(p) - 1 PROVE Tail(p)[n] \in ToSet(p)
      <3>1. n + 1 \in 1 .. Len(p) /\ Tail(p)[n] = p[n + 1]
        BY <2>1
      <3> QED BY <2>2, <3>1 DEF ToSet
    <2>6. Head(p) \in ToSet(p)
      BY <2>1, <2>2 DEF ToSet
    <2>7. ToSet(p) = {p[n] : n \in 1 .. Len(p)}
      BY <2>2 DEF ToSet
    <2>8. ToSet(Tail(p)) = {Tail(p)[n] : n \in 1 .. Len(p) - 1}
      BY <2>2 DEF ToSet
    <2>9. Head(p) \in S
      BY <2>1
    <2> QED BY <2>1, <2>4, <2>5, <2>6, <2>7, <2>8, <2>9
  <1> QED BY <1>1, <1>2, <1>3, <1>4

\* Linking i appends i to the bases that its statements lead to, and nothing else.
LEMMA LinksSet ==
    ASSUME NEW i \in Identity, NEW b
    PROVE  /\ Links(i, b) \in Seq(Identity)
           /\ ToSet(Links(i, b)) = {e \in {i} : \E k \in ToSet(i.base) : Base(k) = b}
  <1> DEFINE P == {p \in DOMAIN i.base : Base(i.base[p]) = b}
  <1>1. i.base \in Seq(Key) /\ DOMAIN i.base = 1 .. Len(i.base) /\ Len(i.base) \in Nat
    BY IdentityAssumption
  <1>2. IsFiniteSet(P)
    <2>1. IsFiniteSet(1 .. Len(i.base))
      BY <1>1, FS_Interval
    <2>2. P \subseteq 1 .. Len(i.base)
      BY <1>1
    <2> QED BY <2>1, <2>2, FS_Subset
  <1>3. Cardinality(P) \in Nat /\ (Cardinality(P) = 0 <=> P = {})
    BY <1>2, FS_CardinalityType, FS_EmptySet
  <1>4. P # {} <=> \E k \in ToSet(i.base) : Base(k) = b
    BY <1>1 DEF ToSet
  <1> HIDE DEF P
  <1>5. Links(i, b) = [n \in 1 .. Cardinality(P) |-> i]
    BY DEF Links, P
  <1>6. Links(i, b) \in Seq(Identity)
    BY <1>3, <1>5
  <1>7. ToSet(Links(i, b)) = {e \in {i} : P # {}}
    <2>1. ToSet(Links(i, b)) = {i : n \in 1 .. Cardinality(P)}
      BY <1>5 DEF ToSet
    <2>2. P # {} <=> 1 \in 1 .. Cardinality(P)
      BY <1>3
    <2>3. P = {} => 1 .. Cardinality(P) = {}
      BY <1>3
    <2> QED BY <2>1, <2>2, <2>3
  <1> QED BY <1>4, <1>6, <1>7

-----------------------------------------------------------------------------
(* Types *)

\* While the first loop runs, work holds identities of a module; addChildren's is
\* empty outside of it.
TypeInv ==
    /\ TypeOK
    /\ pc = "collect" => todo \subseteq ModuleKeys
    /\ pc \in {"idle", "link", "sweep"} => work = <<>>

LEMMA InitType == Init => TypeInv
  BY NoneAssumption DEF Init, TypeInv, TypeOK, Entries

LEMMA NextType ==
    ASSUME TypeInv, [Next]_vars
    PROVE  TypeInv'
  <1> USE DEF TypeInv, TypeOK, Entries
  <1>1. CASE Read
    BY <1>1 DEF Read
  <1>2. CASE Resolve
    BY <1>2 DEF Resolve, ModuleKeys, Latest
  <1>3. CASE Collect
    <2>1. PICK e \in todo : work' = e[1].identities /\ todo' = todo \ {e}
      BY <1>3 DEF Collect, Left
    <2>2. e[1] \in Module
      BY <1>3, <2>1 DEF Collect, ModuleKeys
    <2>3. work' \in Seq(Identity) /\ todo' \subseteq ModuleKeys
      BY <1>3, <2>1, <2>2, ModuleAssumption DEF Collect
    <2>4. ModuleKeys' = ModuleKeys
      BY <1>3 DEF Collect, ModuleKeys, Latest
    <2> QED BY <1>3, <2>3, <2>4 DEF Collect
  <1>4. CASE Hoist
    <2>1. Head(work) \in Identity /\ Tail(work) \in Seq(Identity)
      BY <1>4, SeqSets DEF Hoist
    <2>2. Head(work).key \in Key
      BY <2>1, IdentityAssumption
    <2>3. dict' \in [Key -> Identity \cup {None}] /\ \A k \in Key : dict'[k] # None => dict'[k].key = k
      BY <1>4, <2>1, <2>2 DEF Hoist, PrefixedName
    <2>4. ModuleKeys' = ModuleKeys
      BY <1>4 DEF Hoist, ModuleKeys, Latest
    <2> QED BY <1>4, <2>1, <2>3, <2>4 DEF Hoist
  <1>5. CASE Collected
    BY <1>5 DEF Collected
  <1>6. CASE Link
    <2>1. PICK k \in todo :
              /\ values' = [b \in Identity |-> values[b] \o Links(dict[k], b)]
              /\ todo' = todo \ {k}
      BY <1>6 DEF Link, Left
    <2>2. dict[k] \in Identity
      BY <1>6, <2>1 DEF Link
    <2>3. \A b \in Identity : values[b] \o Links(dict[k], b) \in Seq(Identity)
      BY <2>2, LinksSet
    <2>4. values' \in [Identity -> Seq(Identity)]
      BY <2>1, <2>3
    <2> QED BY <1>6, <2>1, <2>4 DEF Link
  <1>7. CASE Linked
    BY <1>7 DEF Linked
  <1>8. CASE Sweep
    <2>1. PICK k \in todo : cur' = dict[k] /\ work' = values[dict[k]] /\ todo' = todo \ {k}
      BY <1>8 DEF Sweep, Left
    <2>2. dict[k] \in Identity
      BY <1>8, <2>1 DEF Sweep
    <2> QED BY <1>8, <2>1, <2>2, NoneAssumption DEF Sweep
  <1>9. CASE Add
    <2>1. Head(work) \in Identity /\ Tail(work) \in Seq(Identity)
      BY <1>9, SeqSets DEF Add
    <2>2. new' \in Seq(Identity)
      BY <1>9, <2>1 DEF Add, AppendIfNotIn
    <2>3. values[Head(work)] \o Tail(work) \in Seq(Identity)
      BY <2>1
    <2> QED BY <1>9, <2>2, <2>3 DEF Add, Children
  <1>10. CASE Swept
    BY <1>10 DEF Swept
  <1>11. CASE Resolved
    BY <1>11 DEF Resolved
  <1>12. CASE UNCHANGED vars
    BY <1>12 DEF vars, ModuleKeys, Latest
  <1> QED BY <1>1, <1>2, <1>3, <1>4, <1>5, <1>6, <1>7, <1>8, <1>9, <1>10, <1>11, <1>12 DEF Next

-----------------------------------------------------------------------------
(* Completeness *)

V(i) == ToSet(values[i])

\* With every identity in S, what is derived from it directly is in S too.
Closed(S) == \A x \in S, c \in InDict : DerivedFrom(c, x) => c \in S

\* An identity that the second loop has walked over is in the Values of its bases; after
\* this loop, every one is.
LinkInv ==
    /\ pc = "link" =>
           \A k \in Entries \ todo, x \in Identity : DerivedFrom(dict[k], x) => dict[k] \in V(x)
    /\ pc \in {"sweep", "add"} \/ (pc = "idle" /\ calls > 0) =>
           \A c \in InDict, x \in Identity : DerivedFrom(c, x) => c \in V(x)

\* The Values that the sweep has replaced are closed.
SweepInv ==
    /\ pc \in {"sweep", "add"} =>
           \A k \in Entries \ todo : dict[k] # cur => Closed(V(dict[k]))
    /\ pc = "idle" /\ calls > 0 => \A i \in InDict : Closed(V(i))

\* addChildren: the Values of cur, and of what it has added, are added or will be.
AddInv ==
    pc = "add" =>
        /\ V(cur) \subseteq ToSet(new) \cup ToSet(work)
        /\ \A x \in ToSet(new) : V(x) \subseteq ToSet(new) \cup ToSet(work)

CompleteInv == TypeInv /\ LinkInv /\ SweepInv /\ AddInv

\* A step of addChildren moves the next identity to the new Values and puts its own
\* Values before what is left.
LEMMA AddSets ==
    ASSUME TypeInv, Add
    PROVE  /\ Head(work) \in Identity
           /\ ToSet(work) = {Head(work)} \cup ToSet(Tail(work))
           /\ ToSet(work') = V(Head(work)) \cup ToSet(Tail(work))
           /\ ToSet(new') = ToSet(new) \cup {Head(work)}
  <1>1. /\ Head(work) \in Identity /\ Tail(work) \in Seq(Identity)
        /\ ToSet(work) = {Head(work)} \cup ToSet(Tail(work))
    BY SeqSets DEF Add, TypeInv, TypeOK
  <1>2. values[Head(work)] \in Seq(Identity)
    BY <1>1 DEF TypeInv, TypeOK
  <1>3. work' = values[Head(work)] \o Tail(work)
    BY DEF Add, Children
  <1>4. ToSet(work') = V(Head(work)) \cup ToSet(Tail(work))
    <2>1. ASSUME NEW p \in Seq(Identity), NEW q \in Seq(Identity)
          PROVE  ToSet(p \o q) = ToSet(p) \cup ToSet(q)
      BY <1>1, SeqSets
    <2>2. ToSet(values[Head(work)] \o Tail(work)) = ToSet(values[Head(work)]) \cup ToSet(Tail(work))
      BY <1>1, <1>2, <2>1
    <2> QED BY <1>3, <2>2 DEF V
  <1>5. ToSet(new') = ToSet(new) \cup {Head(work)}
    <2>1. new \in Seq(Identity)
      BY DEF TypeInv, TypeOK
    <2>2. CASE Head(work) \in ToSet(new)
      BY <2>2 DEF Add, AppendIfNotIn
    <2>3. CASE Head(work) \notin ToSet(new)
      <3>1. new' = Append(new, Head(work))
        BY <2>3 DEF Add, AppendIfNotIn
      <3> QED BY <1>1, <2>1, <3>1, SeqSets
    <2> QED BY <2>2, <2>3
  <1> QED BY <1>1, <1>4, <1>5

\* The end of addChildren loses nothing and closes the Values of cur.
LEMMA SweptSets ==
    ASSUME CompleteInv, Swept
    PROVE  /\ cur \in Identity
           /\ values'[cur] = new /\ V(cur) \subseteq ToSet(new)
           /\ \A i \in Identity : i # cur => values'[i] = values[i]
           /\ Closed(ToSet(new))
  <1>1. cur \in Identity /\ values' = [values EXCEPT ![cur] = new] /\ pc = "add"
    BY DEF Swept, CompleteInv, TypeInv, TypeOK
  <1>2. values \in [Identity -> Seq(Identity)] /\ new \in Seq(Identity)
    BY DEF CompleteInv, TypeInv, TypeOK
  <1>3. ToSet(work) = {}
    BY DEF Swept, ToSet
  <1>4. values'[cur] = new /\ \A i \in Identity : i # cur => values'[i] = values[i]
    BY <1>1, <1>2
  <1>5. V(cur) \subseteq ToSet(new) /\ \A x \in ToSet(new) : V(x) \subseteq ToSet(new)
    BY <1>1, <1>3 DEF CompleteInv, AddInv
  <1>6. Closed(ToSet(new))
    <2>1. ToSet(new) \subseteq Identity
      BY <1>2 DEF ToSet
    <2>2. \A c \in InDict, x \in Identity : DerivedFrom(c, x) => c \in V(x)
      BY <1>1 DEF CompleteInv, LinkInv
    <2> QED BY <1>5, <2>1, <2>2 DEF Closed
  <1> QED BY <1>1, <1>4, <1>5, <1>6

\* A step of the second loop adds its identity to the Values of the bases.
LEMMA LinkSets ==
    ASSUME TypeInv, NEW k \in todo, pc = "link",
           values' = [b \in Identity |-> values[b] \o Links(dict[k], b)]
    PROVE  /\ dict[k] \in Identity
           /\ \A x \in Identity :
                 ToSet(values'[x]) = V(x) \cup {e \in {dict[k]} : DerivedFrom(e, x)}
  <1>1. dict[k] \in Identity
    BY DEF TypeInv, TypeOK, Entries
  <1>2. ASSUME NEW x \in Identity
        PROVE  ToSet(values'[x]) = V(x) \cup {e \in {dict[k]} : DerivedFrom(e, x)}
    <2>1. /\ Links(dict[k], x) \in Seq(Identity)
          /\ ToSet(Links(dict[k], x)) = {e \in {dict[k]} : DerivedFrom(e, x)}
      BY <1>1, LinksSet DEF Base, DerivedFrom
    <2>2. ASSUME NEW p \in Seq(Identity), NEW q \in Seq(Identity)
          PROVE  ToSet(p \o q) = ToSet(p) \cup ToSet(q)
      BY <1>1, SeqSets
    <2>3. values[x] \in Seq(Identity) /\ values'[x] = values[x] \o Links(dict[k], x)
      BY DEF TypeInv, TypeOK
    <2> QED BY <2>1, <2>2, <2>3 DEF V
  <1> QED BY <1>1, <1>2

LEMMA Grows ==
    ASSUME CompleteInv, [Next]_vars
    PROVE  \A i \in Identity : V(i) \subseteq ToSet(values'[i])
  <1>1. CASE Link
    <2>1. PICK k \in todo : values' = [b \in Identity |-> values[b] \o Links(dict[k], b)]
      BY <1>1 DEF Link
    <2>2. TypeInv /\ pc = "link"
      BY <1>1 DEF CompleteInv, Link
    <2>3. \A x \in Identity : V(x) \subseteq ToSet(values'[x])
      BY <2>1, <2>2, LinkSets
    <2> QED BY <2>3
  <1>2. CASE Swept
    BY <1>2, SweptSets DEF V
  <1>3. CASE UNCHANGED values
    BY <1>3 DEF V
  <1> QED BY <1>1, <1>2, <1>3
          DEF Next, vars, Read, Resolve, Collect, Hoist, Collected, Linked, Sweep, Add, Resolved

LEMMA NextLink ==
    ASSUME CompleteInv, [Next]_vars
    PROVE  LinkInv'
  <1> USE DEF LinkInv, V
  <1>1. \A i \in Identity : ToSet(values[i]) \subseteq ToSet(values'[i])
    BY Grows
  <1>2. CASE Resolve \/ Collect \/ Hoist
    BY <1>2 DEF Resolve, Collect, Hoist
  <1>3. CASE Collected
    BY <1>3 DEF Collected, Entries
  <1>4. CASE Link
    <2>1. PICK k \in todo :
              /\ values' = [b \in Identity |-> values[b] \o Links(dict[k], b)]
              /\ todo' = todo \ {k}
      BY <1>4 DEF Link, Left
    <2>2. pc = "link" /\ pc' = "link" /\ UNCHANGED dict
      BY <1>4 DEF Link
    <2>3. ASSUME NEW l \in Entries \ todo', NEW x \in Identity, DerivedFrom(dict[l], x)
          PROVE  dict[l] \in ToSet(values'[x])
      <3>1. CASE l = k
        BY <2>1, <2>2, <2>3, <3>1, LinkSets DEF CompleteInv
      <3>2. CASE l # k
        BY <1>1, <2>1, <2>2, <2>3, <3>2 DEF CompleteInv
      <3> QED BY <3>1, <3>2
    <2> QED BY <2>2, <2>3 DEF Entries, DerivedFrom
  <1>5. CASE Linked
    <2>1. /\ pc = "link" /\ todo = {} /\ pc' = "sweep" /\ UNCHANGED <<dict, values>>
      BY <1>5 DEF Linked
    <2>2. \A c \in InDict, x \in Identity : DerivedFrom(c, x) => c \in V(x)
      BY <2>1 DEF CompleteInv, InDict
    <2> QED BY <2>1, <2>2 DEF InDict, Entries, DerivedFrom
  <1>6. CASE Read \/ Sweep \/ Add \/ Swept \/ Resolved \/ UNCHANGED vars
    <2>1. /\ UNCHANGED <<dict, calls>>
          /\ pc' = "link" => pc = "link" /\ UNCHANGED <<todo, values>>
          /\ pc' \in {"sweep", "add"} => pc \in {"sweep", "add"}
          /\ pc' = "idle" => pc \in {"idle", "sweep"}
      BY <1>6 DEF Read, Sweep, Add, Swept, Resolved, vars
    <2>2. CASE pc' = "link"
      BY <2>1, <2>2 DEF CompleteInv, Entries, DerivedFrom
    <2>3. CASE pc' \in {"sweep", "add"} \/ (pc' = "idle" /\ calls' > 0)
      <3>1. \A c \in InDict, x \in Identity : DerivedFrom(c, x) => c \in V(x)
        BY <2>1, <2>3 DEF CompleteInv
      <3> QED BY <1>1, <2>1, <2>3, <3>1 DEF InDict, Entries, DerivedFrom
    <2> QED BY <2>2, <2>3
  <1> QED BY <1>2, <1>3, <1>4, <1>5, <1>6 DEF Next

LEMMA NextSweep ==
    ASSUME CompleteInv, [Next]_vars
    PROVE  SweepInv'
  <1> USE DEF SweepInv, V
  <1>1. CASE Resolve \/ Collect \/ Hoist \/ Collected \/ Link
    BY <1>1 DEF Resolve, Collect, Hoist, Collected, Link
  <1>2. CASE Linked
    BY <1>2 DEF Linked, Entries
  <1>3. CASE Sweep
    <2>1. PICK k \in todo : cur' = dict[k] /\ todo' = todo \ {k}
      BY <1>3 DEF Sweep, Left
    <2>2. pc = "sweep" /\ pc' = "add" /\ UNCHANGED <<dict, values>> /\ cur = None
      BY <1>3 DEF Sweep, CompleteInv, TypeInv, TypeOK
    <2>3. ASSUME NEW l \in Entries \ todo', dict[l] # cur'
          PROVE  Closed(V(dict[l]))
      <3>1. l \in Entries \ todo /\ dict[l] # cur
        BY <2>1, <2>2, <2>3 DEF Entries
      <3> QED BY <2>2, <3>1 DEF CompleteInv
    <2> QED BY <2>2, <2>3 DEF Entries, Closed, InDict, DerivedFrom
  <1>4. CASE Swept
    <2>1. /\ pc = "add" /\ pc' = "sweep" /\ UNCHANGED <<dict, todo>>
      BY <1>4 DEF Swept
    <2>2. ASSUME NEW l \in Entries \ todo
          PROVE  Closed(ToSet(values'[dict[l]]))
      <3>1. dict[l] \in Identity
        BY DEF CompleteInv, TypeInv, TypeOK, Entries
      <3>2. CASE dict[l] = cur
        BY <1>4, <3>2, SweptSets
      <3>3. CASE dict[l] # cur
        <4>1. values'[dict[l]] = values[dict[l]]
          BY <1>4, <3>1, <3>3, SweptSets
        <4> QED BY <2>1, <3>3, <4>1 DEF CompleteInv
      <3> QED BY <3>2, <3>3
    <2> QED BY <2>1, <2>2 DEF Entries, Closed, InDict, DerivedFrom
  <1>5. CASE Resolved
    <2>1. /\ pc = "sweep" /\ todo = {} /\ cur = None /\ pc' = "idle"
          /\ UNCHANGED <<dict, values>>
      BY <1>5 DEF Resolved, CompleteInv, TypeInv, TypeOK
    <2>2. \A k \in Entries : Closed(V(dict[k]))
      BY <2>1 DEF CompleteInv, Entries
    <2> QED BY <2>1, <2>2 DEF Entries, Closed, InDict, DerivedFrom
  <1>6. CASE Read \/ Add \/ UNCHANGED vars
    <2>1. UNCHANGED <<pc, dict, values, todo, cur, calls>>
      BY <1>6 DEF Read, Add, vars
    <2> QED BY <2>1 DEF CompleteInv, Entries, Closed, InDict, DerivedFrom
  <1> QED BY <1>1, <1>2, <1>3, <1>4, <1>5, <1>6 DEF Next

LEMMA NextAdd ==
    ASSUME CompleteInv, [Next]_vars
    PROVE  AddInv'
  <1> USE DEF AddInv
  <1>1. CASE Sweep
    <2>1. PICK k \in todo : cur' = dict[k] /\ work' = values[dict[k]]
      BY <1>1 DEF Sweep
    <2>2. new' = <<>> /\ UNCHANGED values
      BY <1>1 DEF Sweep
    <2>3. ToSet(new') = {}
      BY <2>2 DEF ToSet
    <2> QED BY <2>1, <2>2, <2>3 DEF V
  <1>2. CASE Add
    <2>1. pc = "add" /\ pc' = "add" /\ UNCHANGED <<cur, values>>
      BY <1>2 DEF Add
    <2>2. /\ ToSet(work) = {Head(work)} \cup ToSet(Tail(work))
          /\ ToSet(work') = V(Head(work)) \cup ToSet(Tail(work))
          /\ ToSet(new') = ToSet(new) \cup {Head(work)}
      BY <1>2, AddSets DEF CompleteInv
    <2>3. /\ V(cur) \subseteq ToSet(new) \cup ToSet(work)
          /\ \A x \in ToSet(new) : V(x) \subseteq ToSet(new) \cup ToSet(work)
      BY <2>1 DEF CompleteInv
    <2>4. /\ V(cur) \subseteq ToSet(new') \cup ToSet(work')
          /\ \A x \in ToSet(new') : V(x) \subseteq ToSet(new') \cup ToSet(work')
      BY <2>2, <2>3
    <2> QED BY <2>1, <2>4 DEF V
  <1>3. CASE UNCHANGED vars
    BY <1>3 DEF vars, CompleteInv, V
  <1>4. CASE \/ Read \/ Resolve \/ Collect \/ Hoist \/ Collected \/ Link \/ Linked
             \/ Swept \/ Resolved
    <2>1. pc' # "add"
      BY <1>4 DEF Read, Resolve, Collect, Hoist, Collected, Link, Linked, Swept, Resolved
    <2> QED BY <2>1
  <1> QED BY <1>1, <1>2, <1>3, <1>4 DEF Next

LEMMA CompleteInvCorrect == Spec => []CompleteInv
  <1>1. Init => CompleteInv
    BY InitType DEF CompleteInv, Init, LinkInv, SweepInv, AddInv
  <1>2. CompleteInv /\ [Next]_vars => CompleteInv'
    BY NextType, NextLink, NextSweep, NextAdd DEF CompleteInv
  <1> QED BY <1>1, <1>2, PTL DEF Spec

\* The dictionary files each identity under its own key, and what the loops have left
\* is in it.
THEOREM TypeCorrect == Spec => []TypeOK
  <1>1. CompleteInv => TypeOK
    BY DEF CompleteInv, TypeInv
  <1> QED BY CompleteInvCorrect, <1>1, PTL

\* After every Process, Values hold what is derived, directly or through others.
THEOREM CompleteCorrect == Spec => []Complete
  <1>1. CompleteInv => Complete
    <2> SUFFICES ASSUME CompleteInv, pc = "idle", calls > 0, NEW i \in InDict
                 PROVE  /\ \A c \in InDict : DerivedFrom(c, i) => c \in V(i)
                        /\ Closed(V(i))
      BY DEF Complete, Closed, V
    <2>1. i \in Identity
      BY DEF CompleteInv, TypeInv, TypeOK, InDict, Entries
    <2> QED BY <2>1 DEF CompleteInv, LinkInv, SweepInv
  <1> QED BY CompleteInvCorrect, <1>1, PTL

\* No step, and no later Process, takes anything out of Values.
THEOREM ValuesOnlyGrowCorrect == Spec => ValuesOnlyGrow
  <1>1. CompleteInv /\ [Next]_vars => [\A i \in Identity : ToSet(values[i]) \subseteq ToSet(values'[i])]_vars
    BY Grows DEF V
  <1> QED BY CompleteInvCorrect, <1>1, PTL DEF Spec, ValuesOnlyGrow

-----------------------------------------------------------------------------
(* Soundness *)

\* What addChildren has added, or has still to add, is derived from cur.
SoundInv ==
    /\ Sound
    /\ pc = "add" =>
           \A S \in SUBSET Identity : HoldsDerived(S, cur) => ToSet(new) \cup ToSet(work) \subseteq S

\* A set that holds what is derived from i, and x itself, holds what is derived from x.
LEMMA HoldsBelow ==
    ASSUME NEW i \in Identity, NEW S \in SUBSET Identity, HoldsDerived(S, i), NEW x \in S
    PROVE  HoldsDerived(S, x)
  BY DEF HoldsDerived

LEMMA NextSound ==
    ASSUME CompleteInv, SoundInv, [Next]_vars
    PROVE  SoundInv'
  <1> USE DEF SoundInv, Sound
  <1>1. CASE Link
    <2>1. PICK k \in todo : values' = [b \in Identity |-> values[b] \o Links(dict[k], b)]
      BY <1>1 DEF Link
    <2>2. ASSUME NEW i \in Identity, NEW S \in SUBSET Identity, HoldsDerived(S, i)
          PROVE  ToSet(values'[i]) \subseteq S
      <3>1. /\ dict[k] \in Identity
            /\ ToSet(values'[i]) = V(i) \cup {e \in {dict[k]} : DerivedFrom(e, i)}
        BY <1>1, <2>1, LinkSets DEF CompleteInv, Link
      <3>2. V(i) \subseteq S
        BY <2>2 DEF V
      <3>3. ASSUME DerivedFrom(dict[k], i) PROVE dict[k] \in S
        <4>1. PICK b \in ToSet(dict[k].base) : dict[b] = i
          BY <3>3 DEF DerivedFrom
        <4>2. dict[k].base \in Seq(Key)
          BY <3>1, IdentityAssumption
        <4>3. b \in Key
          BY <4>1, <4>2 DEF ToSet
        <4>4. i.key = b
          BY <4>1, <4>3, NoneAssumption DEF CompleteInv, TypeInv, TypeOK, Entries
        <4> QED BY <2>2, <3>1, <4>1, <4>4 DEF HoldsDerived
      <3> QED BY <3>1, <3>2, <3>3
    <2>3. pc' # "add"
      BY <1>1 DEF Link
    <2> QED BY <2>2, <2>3 DEF HoldsDerived
  <1>2. CASE Sweep
    <2>1. PICK k \in todo : cur' = dict[k] /\ work' = values[dict[k]]
      BY <1>2 DEF Sweep
    <2>2. ToSet(new') = {} /\ UNCHANGED values
      BY <1>2 DEF Sweep, ToSet
    <2>3. dict[k] \in Identity
      BY <1>2 DEF Sweep, CompleteInv, TypeInv, TypeOK, Entries
    <2> QED BY <2>1, <2>2, <2>3 DEF HoldsDerived
  <1>3. CASE Add
    <2>1. /\ Head(work) \in Identity
          /\ ToSet(work) = {Head(work)} \cup ToSet(Tail(work))
          /\ ToSet(work') = V(Head(work)) \cup ToSet(Tail(work))
          /\ ToSet(new') = ToSet(new) \cup {Head(work)}
      BY <1>3, AddSets DEF CompleteInv
    <2>2. pc = "add" /\ UNCHANGED <<cur, values, pc>> /\ cur \in Identity
      BY <1>3 DEF Add, CompleteInv, TypeInv, TypeOK
    <2>3. ASSUME NEW S \in SUBSET Identity, HoldsDerived(S, cur)
          PROVE  ToSet(new') \cup ToSet(work') \subseteq S
      <3>1. ToSet(new) \cup ToSet(work) \subseteq S
        BY <2>2, <2>3
      <3>2. Head(work) \in S /\ HoldsDerived(S, Head(work))
        BY <2>1, <2>2, <2>3, <3>1, HoldsBelow
      <3>3. V(Head(work)) \subseteq S
        BY <2>1, <3>2 DEF V
      <3> QED BY <2>1, <3>1, <3>3
    <2> QED BY <2>2, <2>3 DEF HoldsDerived
  <1>4. CASE Swept
    <2>1. /\ cur \in Identity /\ values'[cur] = new
          /\ \A i \in Identity : i # cur => values'[i] = values[i]
      BY <1>4, SweptSets
    <2>2. pc = "add" /\ pc' = "sweep"
      BY <1>4 DEF Swept
    <2>3. ASSUME NEW i \in Identity, NEW S \in SUBSET Identity, HoldsDerived(S, i)
          PROVE  ToSet(values'[i]) \subseteq S
      <3>1. CASE i = cur
        BY <2>1, <2>2, <2>3, <3>1
      <3>2. CASE i # cur
        BY <2>1, <2>3, <3>2
      <3> QED BY <3>1, <3>2
    <2> QED BY <2>2, <2>3 DEF HoldsDerived
  <1>5. CASE UNCHANGED vars
    BY <1>5 DEF vars, HoldsDerived
  <1>6. CASE Read \/ Resolve \/ Collect \/ Hoist \/ Collected \/ Linked \/ Resolved
    <2>1. UNCHANGED values /\ pc' # "add"
      BY <1>6 DEF Read, Resolve, Collect, Hoist, Collected, Linked, Resolved
    <2> QED BY <2>1 DEF HoldsDerived
  <1> QED BY <1>1, <1>2, <1>3, <1>4, <1>5, <1>6 DEF Next

\* Values hold nothing that is not derived.
THEOREM SoundCorrect == Spec => []Sound
  <1>1. Init => SoundInv
    BY DEF Init, SoundInv, Sound, ToSet
  <1>2. CompleteInv /\ SoundInv /\ [Next]_vars => SoundInv'
    BY NextSound
  <1>3. SoundInv => Sound
    BY DEF SoundInv
  <1> QED BY CompleteInvCorrect, <1>1, <1>2, <1>3, PTL DEF Spec

-----------------------------------------------------------------------------
(* The bases that are missing *)

\* The base statements of the identities of S that lead to nothing.
Missing(S) ==
    {e \in Identity \X Key : e[1] \in S /\ e[2] \in ToSet(e[1].base) /\ dict[e[2]] = None}

\* The errors are those of the identities that the second loop has walked over; after
\* this loop, those of every identity.
MissingInv ==
    /\ pc = "collect" => errs = {}
    /\ pc = "link" => errs = Missing({dict[k] : k \in Entries \ todo})
    /\ pc \in {"sweep", "add"} \/ (pc = "idle" /\ calls > 0) => errs = Missing(InDict)

\* What one more identity adds.
LEMMA MissingOne ==
    ASSUME NEW i \in Identity, NEW S
    PROVE  Missing(S \cup {i}) =
               Missing(S) \cup {<<i, b>> : b \in {b \in ToSet(i.base) : dict[b] = None}}
  <1> DEFINE One == {<<i, b>> : b \in {b \in ToSet(i.base) : dict[b] = None}}
  <1>1. ToSet(i.base) \subseteq Key
    <2>1. i.base \in Seq(Key)
      BY IdentityAssumption
    <2> QED BY <2>1 DEF ToSet
  <1>2. ASSUME NEW e \in One PROVE e \in Missing(S \cup {i})
    <2>1. PICK b \in ToSet(i.base) : e = <<i, b>> /\ dict[b] = None
      OBVIOUS
    <2>2. e \in Identity \X Key /\ e[1] = i /\ e[2] = b
      BY <1>1, <2>1
    <2> QED BY <2>1, <2>2 DEF Missing
  <1>3. ASSUME NEW e \in Missing(S \cup {i}) PROVE e \in Missing(S) \cup One
    <2>1. e \in Identity \X Key /\ e = <<e[1], e[2]>>
      BY DEF Missing
    <2> QED BY <2>1 DEF Missing
  <1>4. Missing(S) \subseteq Missing(S \cup {i})
    BY DEF Missing
  <1> QED BY <1>2, <1>3, <1>4

LEMMA NextMissing ==
    ASSUME TypeInv, MissingInv, [Next]_vars
    PROVE  MissingInv'
  <1> USE DEF MissingInv
  <1>1. CASE Resolve \/ Collect \/ Hoist
    BY <1>1 DEF Resolve, Collect, Hoist
  <1>2. CASE Collected
    <2>1. errs' = {} /\ pc' = "link" /\ Entries' \ todo' = {}
      BY <1>2 DEF Collected, Entries
    <2>2. {dict'[k] : k \in Entries' \ todo'} = {}
      BY <2>1
    <2> QED BY <2>1, <2>2 DEF Missing
  <1>3. CASE Link
    <2>1. PICK k \in todo :
              /\ errs' = errs \cup {<<dict[k], b>> : b \in Unresolved(dict[k])}
              /\ todo' = todo \ {k}
      BY <1>3 DEF Link, Left
    <2>2. pc = "link" /\ pc' = "link" /\ UNCHANGED dict
      BY <1>3 DEF Link
    <2>3. todo \subseteq Entries /\ dict[k] \in Identity
      BY <2>2 DEF TypeInv, TypeOK, Entries
    <2> DEFINE S == {dict[l] : l \in Entries \ todo}
               T == {dict[l] : l \in Entries \ todo'}
    <2>4. T = S \cup {dict[k]}
      BY <2>1, <2>3
    <2>5. errs = Missing(S)
      BY <2>2
    <2> HIDE DEF S, T
    <2>6. errs' = Missing(T)
      BY <2>1, <2>3, <2>4, <2>5, MissingOne DEF Base, Unresolved
    <2> QED BY <2>2, <2>6 DEF T, Missing, Entries
  <1>4. CASE Linked
    <2>1. /\ pc = "link" /\ todo = {} /\ pc' = "sweep" /\ UNCHANGED <<dict, errs>>
      BY <1>4 DEF Linked
    <2>2. {dict[k] : k \in Entries \ todo} = InDict
      BY <2>1 DEF InDict
    <2>3. errs = Missing(InDict)
      BY <2>1, <2>2
    <2> QED BY <2>1, <2>3 DEF InDict, Entries, Missing
  <1>5. CASE Read \/ Sweep \/ Add \/ Swept \/ Resolved \/ UNCHANGED vars
    <2>1. /\ UNCHANGED <<dict, calls, errs>>
          /\ pc' = "collect" => pc = "collect"
          /\ pc' = "link" => pc = "link" /\ UNCHANGED todo
          /\ pc' \in {"sweep", "add"} => pc \in {"sweep", "add"}
          /\ pc' = "idle" => pc \in {"idle", "sweep"}
      BY <1>5 DEF Read, Sweep, Add, Swept, Resolved, vars
    <2> QED BY <2>1 DEF InDict, Entries, Missing
  <1> QED BY <1>1, <1>2, <1>3, <1>4, <1>5 DEF Next

\* Every Process reports exactly the bases that no module known so far defines.
THEOREM MissingReportedCorrect == Spec => []MissingReported
  <1>1. Init => MissingInv
    BY DEF Init, MissingInv
  <1>2. CompleteInv /\ MissingInv /\ [Next]_vars => MissingInv'
    BY NextMissing DEF CompleteInv
  <1>3. MissingInv => MissingReported
    BY DEF MissingInv, MissingReported, Missing
  <1> QED BY CompleteInvCorrect, <1>1, <1>2, <1>3, PTL DEF Spec
=============================================================================
