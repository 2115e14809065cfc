----------------------------- MODULE Identities -----------------------------
(***************************************************************************)
(* Identities and the identities derived from them: resolveIdentities of   *)
(* pkg/yang/identity.go, which Process runs after every include is linked. *)
(*                                                                         *)
(* A dictionary gathers the identities of all modules under their module's *)
(* and their own name.  Each is appended to the Values of its bases, and a *)
(* last sweep makes Values transitive.  The dictionary and Values outlive  *)
(* the call: modules may be read, and Process called, again.               *)
(*                                                                         *)
(* addChildren's recursion is a sequence of the identities it has still to *)
(* add.  Go's maps are walked in any order.                                *)
(***************************************************************************)
EXTENDS Integers, FiniteSets, SequencesExt

CONSTANTS
    Key,        \* <<name of a module, name of an identity>>
    Identity,   \* the identity statements, of every revision of a module
    Module,     \* the modules that may be read
    None,       \* an entry that the dictionary does not have
    MaxProcess  \* bound on the calls of Process

ASSUME IdentityAssumption ==
    \A i \in Identity : i.key \in Key /\ i.base \in Seq(Key)

\* m.identities lists the identities of m and then those of the submodules that m
\* itself includes; m.rev is 0 when m has no revision.
ASSUME ModuleAssumption ==
    \A m \in Module : m.rev \in Nat /\ m.identities \in Seq(Identity)

ASSUME NoneAssumption == None \notin Identity

VARIABLES
    known,      \* the modules in ms.Modules
    dict,       \* the identity dictionary
    values,     \* Identity.Values
    pc,         \* the loop of resolveIdentities that runs
    todo,       \* what this loop has not yet walked over
    cur,        \* the identity whose Values are swept
    work,       \* what the first loop, or addChildren, has still to add, in order
    new,        \* newValues
    errs,       \* the bases that were not found
    calls       \* calls of Process so far

vars == <<known, dict, values, pc, todo, cur, work, new, errs, calls>>

-----------------------------------------------------------------------------
Init ==
    /\ known = {}
    /\ dict = [k \in Key |-> None]
    /\ values = [i \in Identity |-> <<>>]
    /\ pc = "idle"
    /\ todo = {} /\ cur = None /\ work = <<>> /\ new = <<>>
    /\ errs = {}
    /\ calls = 0

\* A caller reads a module, or an import has it read before the identities are resolved.
Read ==
    /\ pc = "idle"
    /\ \E m \in Module \ known : known' = known \cup {m}
    /\ UNCHANGED <<dict, values, pc, todo, cur, work, new, errs, calls>>

Latest(m) == \A o \in known : o.name = m.name => o.rev <= m.rev

\* The keys of ms.Modules: each module under its full name, and the latest revision
\* under the bare name, which is the full name of a module without a revision.
ModuleKeys ==
    {<<m, "full">> : m \in {n \in known : n.rev # 0 \/ Latest(n)}} \cup
    {<<m, "bare">> : m \in {n \in known : n.rev # 0 /\ Latest(n)}}

Resolve ==
    /\ pc = "idle" /\ calls < MaxProcess
    /\ pc' = "collect" /\ todo' = ModuleKeys
    /\ errs' = {}
    /\ calls' = calls + 1
    /\ UNCHANGED <<known, dict, values, cur, work, new>>

\* modulePrefixedName.
PrefixedName(i) == i.key

\* What a loop has left after e.
Left(e) == todo \ {e}

\* One key of ms.Modules, whose identities are added in their order.
Collect ==
    /\ pc = "collect" /\ work = <<>>
    /\ \E e \in todo :
          /\ work' = e[1].identities
          /\ todo' = Left(e)
    /\ UNCHANGED <<known, dict, values, pc, cur, new, errs, calls>>

Hoist ==
    /\ pc = "collect" /\ work # <<>>
    /\ dict' = [dict EXCEPT ![PrefixedName(Head(work))] = Head(work)]
    /\ work' = Tail(work)
    /\ UNCHANGED <<known, values, pc, todo, cur, new, errs, calls>>

Entries == {k \in Key : dict[k] # None}

Collected ==
    /\ pc = "collect" /\ todo = {} /\ work = <<>>
    /\ pc' = "link" /\ todo' = Entries
    /\ UNCHANGED <<known, dict, values, cur, work, new, errs, calls>>

\* findIdentityBase.  Mutant: an identity of the same name in any module is taken.
BaseByName(k) ==
    IF \E o \in Entries : o[2] = k[2]
    THEN dict[CHOOSE o \in Entries : o[2] = k[2]]
    ELSE None
Base(k) == dict[k]

\* i once for each of its base statements that leads to b.
Links(i, b) ==
    [n \in 1 .. Cardinality({p \in DOMAIN i.base : Base(i.base[p]) = b}) |-> i]

\* The bases of i that there are not.  Mutant: none, of what has been linked before.
NotLinkedAgain(i) ==
    {b \in ToSet(i.base) : Base(b) = None /\ \A o \in Identity : i \notin ToSet(values[o])}
Unresolved(i) == {b \in ToSet(i.base) : Base(b) = None}

Link ==
    /\ pc = "link"
    /\ \E k \in todo :
          LET i == dict[k] IN
          /\ values' = [b \in Identity |-> values[b] \o Links(i, b)]
          /\ errs' = errs \cup {<<i, b>> : b \in Unresolved(i)}
          /\ todo' = Left(k)
    /\ UNCHANGED <<known, dict, pc, cur, work, new, calls>>

Linked ==
    /\ pc = "link" /\ todo = {}
    /\ pc' = "sweep" /\ todo' = Entries
    /\ UNCHANGED <<known, dict, values, cur, work, new, errs, calls>>

Sweep ==
    /\ pc = "sweep"
    /\ \E k \in todo :
          /\ cur' = dict[k]
          /\ work' = values[dict[k]]
          /\ todo' = Left(k)
    /\ new' = <<>>
    /\ pc' = "add"
    /\ UNCHANGED <<known, dict, values, errs, calls>>

\* appendIfNotIn.  Mutant: only what has no values itself.
LeavesAppended(ids, i) ==
    IF i \in ToSet(ids) \/ values[i] # <<>> THEN ids ELSE Append(ids, i)
AppendIfNotIn(ids, i) == IF i \in ToSet(ids) THEN ids ELSE Append(ids, i)

\* What addChildren recurses into after adding i.  Mutant: nothing.
NoChildren(i) == <<>>
Children(i) == values[i]

\* addChildren of the next identity.
Add ==
    /\ pc = "add" /\ work # <<>>
    /\ new' = AppendIfNotIn(new, Head(work))
    /\ work' = Children(Head(work)) \o Tail(work)
    /\ UNCHANGED <<known, dict, values, pc, todo, cur, errs, calls>>

Swept ==
    /\ pc = "add" /\ work = <<>>
    /\ values' = [values EXCEPT ![cur] = new]
    /\ pc' = "sweep"
    /\ cur' = None /\ new' = <<>>
    /\ UNCHANGED <<known, dict, todo, work, errs, calls>>

Resolved ==
    /\ pc = "sweep" /\ todo = {}
    /\ pc' = "idle"
    /\ UNCHANGED <<known, dict, values, todo, cur, work, new, errs, calls>>

Next ==
    \/ Read \/ Resolve \/ Collect \/ Hoist \/ Collected \/ Link \/ Linked
    \/ Sweep \/ Add \/ Swept \/ Resolved

Spec == Init /\ [][Next]_vars

-----------------------------------------------------------------------------
(* Properties *)

\* Values hold identities, the dictionary files each identity under its own key, and
\* only a running loop has something left.
TypeOK ==
    /\ known \subseteq Module
    /\ dict \in [Key -> Identity \cup {None}]
    /\ \A k \in Entries : dict[k].key = k
    /\ values \in [Identity -> Seq(Identity)]
    /\ pc \in {"idle", "collect", "link", "sweep", "add"}
    /\ pc \in {"link", "sweep", "add"} => todo \subseteq Entries
    /\ pc = "idle" => todo = {}
    /\ pc = "add" <=> cur # None
    /\ cur \in Identity \cup {None}
    /\ work \in Seq(Identity) /\ new \in Seq(Identity)
    /\ calls \in Nat

\* c is derived directly from i, as the dictionary has it.
DerivedFrom(c, i) == \E k \in ToSet(c.base) : dict[k] = i

InDict == {dict[k] : k \in Entries}

\* After resolveIdentities, Values of every identity in the dictionary hold what is
\* derived from it, directly or through others, whatever the order of the maps and
\* however often modules are read and Process is called in between.
Complete ==
    pc = "idle" /\ calls > 0 =>
        \A i \in InDict :
            /\ \A c \in InDict : DerivedFrom(c, i) => c \in ToSet(values[i])
            /\ \A x \in ToSet(values[i]), c \in InDict :
                  DerivedFrom(c, x) => c \in ToSet(values[i])

\* S holds what is derived from i, by any identity statement there is.
HoldsDerived(S, i) ==
    \A x \in S \cup {i}, c \in Identity : x.key \in ToSet(c.base) => c \in S

\* Values hold nothing else: whatever addChildren has added is derived from the identity.
Sound ==
    \A i \in Identity, S \in SUBSET Identity :
        ToSet(values[i]) \subseteq S \/ ~ HoldsDerived(S, i)

\* Each Process reports the bases that no module defines, those it reported before
\* included, and no base that a module it has yet to walk over defines.
MissingReported ==
    pc = "idle" /\ calls > 0 =>
        errs = {e \in Identity \X Key :
                   e[1] \in InDict /\ e[2] \in ToSet(e[1].base) /\ dict[e[2]] = None}

\* The sweep replaces Values by what addChildren collected, and must lose nothing.
ValuesOnlyGrow == [][\A i \in Identity : ToSet(values[i]) \subseteq ToSet(values'[i])]_vars
=============================================================================
