------------------------- MODULE AugmentationProofs -------------------------
(***************************************************************************)
(* Augmentation implements AugmentOrder: whatever the modules, augments    *)
(* and orders of the maps, Process's passes apply each augment at most     *)
(* once and stop only when none of those left has a target; what is left   *)
(* at the end is reported; without clashes the tree is the same in every   *)
(* order; and FixChoice inserts the cases choices need and nothing else.   *)
(*                                                                         *)
(* The heart of the argument is TriedInv: as long as a pass has applied    *)
(* nothing the tree has not changed since it began, so what the pass has   *)
(* skipped is still without a target; and LeftInv: a module that is no     *)
(* longer in mods has no augments left, although removing one moves        *)
(* another into its place.                                                 *)
(*                                                                         *)
(* That of FixChoice's is NoneMeet: no two entries of a tree come to one   *)
(* path, and none to that of an implied case, since two that did would be  *)
(* below two that do.                                                      *)
(***************************************************************************)
EXTENDS Augmentation, TLAPS, WellFoundedInduction

\* The types of the variables that control the passes.
TypeInv ==
    /\ pending \in [Mod -> Seq(Aug)]
    /\ mods \in Seq(Mod)
    /\ i \in Nat \ {0} /\ i <= Len(mods) + 1
    /\ m \in Mod \cup {None}
    /\ queue \in Seq(Aug) /\ unapplied \in Seq(Aug)
    /\ processed \in BOOLEAN
    /\ phase \in {"augment", "fix", "leftover", "done"}

\* An Augment call is in progress for mods[i] or not at all.
CallInv ==
    /\ m = None => queue = <<>>
    /\ m # None => phase \in {"augment", "leftover"} /\ i <= Len(mods) /\ m = mods[i]
    /\ phase = "fix" => i = 1

Distinct(s) == \A j, k \in DOMAIN s : s[j] = s[k] => j = k

\* An augment is in one place, and the call in progress holds each once.
OnceInv ==
    /\ \A x \in Mod : Distinct(pending[x])
    /\ \A x, y \in Mod : x # y => Elements(pending[x]) \cap Elements(pending[y]) = {}
    /\ m # None =>
          /\ Distinct(queue) /\ Distinct(unapplied)
          /\ Elements(queue) \cap Elements(unapplied) = {}
          /\ Elements(queue) \cup Elements(unapplied) \subseteq Elements(pending[m])

Missing(s) == \A a \in Elements(s) : Target[a] \notin DOMAIN tree

\* What a pass that has applied nothing has tried.
TriedInv ==
    phase = "augment" /\ ~ processed =>
        /\ \A k \in 1 .. i - 1 : Missing(pending[mods[k]])
        /\ m # None => Missing(unapplied)

\* Modules with augments left are still visited.
LeftInv == \A x \in Mod : pending[x] # <<>> => x \in Elements(mods)

Reported(s) == \A a \in Elements(s) : Err("missing", a) \in errs

\* What the last round has reported or is about to.
ReportInv ==
    ~ ignoring =>
        /\ phase = "leftover" => \A k \in 1 .. i - 1 : Reported(pending[mods[k]])
        /\ phase = "leftover" /\ m # None =>
              \A a \in Elements(unapplied) : << <<m>>, Err("missing", a)>> \in faults
        /\ phase = "done" => \A k \in 1 .. Len(mods) : Reported(pending[mods[k]])

Inv == TypeInv /\ CallInv /\ OnceInv /\ TriedInv /\ LeftInv /\ ReportInv

-----------------------------------------------------------------------------
(* Sequences as sets *)

\* A sequence that is not empty is its head and its tail.
LEMMA HeadTail ==
    ASSUME NEW S, NEW s \in Seq(S), s # <<>>
    PROVE  /\ Head(s) \in S /\ Tail(s) \in Seq(S)
           /\ Elements(s) = {Head(s)} \cup Elements(Tail(s))
           /\ Distinct(s) => Distinct(Tail(s)) /\ Head(s) \notin Elements(Tail(s))
<1>1. Len(s) \in Nat /\ Len(s) >= 1 /\ DOMAIN s = 1 .. Len(s) /\ Head(s) = s[1]
    OBVIOUS
<1>2. Tail(s) \in Seq(S) /\ Len(Tail(s)) = Len(s) - 1 /\ DOMAIN Tail(s) = 1 .. Len(s) - 1
    OBVIOUS
<1>3. \A k \in 1 .. Len(s) - 1 : Tail(s)[k] = s[k + 1]
    OBVIOUS
<1>4. Head(s) \in S
    BY <1>1
<1>5. Elements(s) \subseteq {Head(s)} \cup Elements(Tail(s))
  <2>1. ASSUME NEW k \in 1 .. Len(s), k # 1
        PROVE  s[k] \in Elements(Tail(s))
    <3>1. k - 1 \in 1 .. Len(s) - 1 /\ (k - 1) + 1 = k
        BY <2>1, <1>1
    <3>2. s[k] = Tail(s)[k - 1]
        BY <3>1, <1>3
    <3> QED
        BY <3>1, <3>2, <1>2 DEF Elements
  <2>2. \A k \in DOMAIN s : s[k] \in {Head(s)} \cup Elements(Tail(s))
      BY <2>1, <1>1
  <2> QED
      BY <2>2 DEF Elements
<1>6. {Head(s)} \cup Elements(Tail(s)) \subseteq Elements(s)
    BY <1>1, <1>2, <1>3 DEF Elements
<1>7. ASSUME Distinct(s)
      PROVE  Distinct(Tail(s)) /\ Head(s) \notin Elements(Tail(s))
  <2>1. \A k \in 1 .. Len(s) - 1 : k + 1 \in 1 .. Len(s) /\ k + 1 # 1
      BY <1>1
  <2>2. Distinct(Tail(s))
    <3> SUFFICES ASSUME NEW j \in 1 .. Len(s) - 1, NEW k \in 1 .. Len(s) - 1,
                        Tail(s)[j] = Tail(s)[k]
                 PROVE  j = k
        BY <1>2 DEF Distinct
    <3>1. s[j + 1] = s[k + 1]
        BY <1>3
    <3>2. j + 1 = k + 1
        BY <3>1, <1>1, <1>7, <2>1 DEF Distinct
    <3> QED
        BY <3>2
  <2>3. Head(s) \notin Elements(Tail(s))
      BY <1>1, <1>2, <1>3, <1>7, <2>1 DEF Distinct, Elements
  <2> QED
      BY <2>2, <2>3
<1> QED
    BY <1>2, <1>4, <1>5, <1>6, <1>7

\* Appending adds an element.
LEMMA AppendElement ==
    ASSUME NEW S, NEW s \in Seq(S), NEW e \in S
    PROVE  /\ Append(s, e) \in Seq(S)
           /\ Elements(Append(s, e)) = Elements(s) \cup {e}
           /\ Distinct(s) /\ e \notin Elements(s) => Distinct(Append(s, e))
<1>1. /\ Len(s) \in Nat /\ DOMAIN s = 1 .. Len(s)
      /\ Append(s, e) \in Seq(S) /\ DOMAIN Append(s, e) = 1 .. Len(s) + 1
    OBVIOUS
<1>2. Append(s, e)[Len(s) + 1] = e /\ \A k \in 1 .. Len(s) : Append(s, e)[k] = s[k]
    OBVIOUS
<1>3. \A k \in 1 .. Len(s) + 1 : k = Len(s) + 1 \/ k \in 1 .. Len(s)
    BY <1>1
<1>4. 1 .. Len(s) \subseteq 1 .. Len(s) + 1 /\ Len(s) + 1 \in 1 .. Len(s) + 1
    BY <1>1
<1>5. Elements(Append(s, e)) = Elements(s) \cup {e}
    BY <1>1, <1>2, <1>3, <1>4 DEF Elements
<1>6. ASSUME Distinct(s), e \notin Elements(s)
      PROVE  Distinct(Append(s, e))
    BY <1>1, <1>2, <1>3, <1>6 DEF Distinct, Elements
<1> QED
    BY <1>1, <1>5, <1>6

\* The empty sequence has no elements.
LEMMA EmptyElements ==
    Elements(<<>>) = {} /\ Distinct(<<>>)
BY DEF Elements, Distinct

-----------------------------------------------------------------------------
(* The inductive invariant *)

\* The invariant holds at the start.
LEMMA InitInv ==
    Init => Inv
<1> SUFFICES ASSUME Init
             PROVE  Inv
    OBVIOUS
<1>1. pending \in [Mod -> Seq(Aug)] /\ mods \in Seq(Mod) /\ Mod \subseteq Elements(mods)
    BY WrittenAssumption, OrderAssumption DEF Init
<1>2. TypeInv
  <2>1. i \in Nat \ {0} /\ i <= Len(mods) + 1
      BY <1>1 DEF Init
  <2>2. queue \in Seq(Aug) /\ unapplied \in Seq(Aug) /\ m \in Mod \cup {None}
      BY DEF Init
  <2> QED
      BY <1>1, <2>1, <2>2 DEF Init, TypeInv
<1>3. CallInv
    BY DEF Init, CallInv
<1>4. OnceInv
  <2>1. \A x, y \in Mod : \A j \in DOMAIN pending[x], k \in DOMAIN pending[y] :
            pending[x][j] = pending[y][k] => x = y /\ j = k
      BY WrittenAssumption DEF Init
  <2>2. \A x \in Mod : Distinct(pending[x])
      BY <2>1 DEF Distinct
  <2>3. \A x, y \in Mod : x # y => Elements(pending[x]) \cap Elements(pending[y]) = {}
      BY <2>1 DEF Elements
  <2> QED
      BY <2>2, <2>3 DEF Init, OnceInv
<1>5. TriedInv
    BY DEF Init, TriedInv
<1>6. LeftInv
    BY <1>1 DEF LeftInv
<1>7. ReportInv
    BY DEF Init, ReportInv
<1> QED
    BY <1>2, <1>3, <1>4, <1>5, <1>6, <1>7 DEF Inv

\* The call of Augment that begins finds the module's augments as they were left.
LEMMA AugmentInv ==
    ASSUME Inv, Augment, UNCHANGED ignoring
    PROVE  Inv'
<1> USE DEF Inv
<1>1. /\ m = None /\ phase \in {"augment", "leftover"}
      /\ m' = mods[i] /\ queue' = pending[mods[i]] /\ unapplied' = <<>>
      /\ UNCHANGED <<tree, faults, pending, mods, i, processed, phase, errs>>
    BY DEF Augment, treeVars
<1>2. i \in DOMAIN mods /\ i <= Len(mods) /\ mods[i] \in Mod
    BY DEF Augment, TypeInv
<1>3. TypeInv'
    BY <1>1, <1>2 DEF TypeInv
<1>4. CallInv'
    BY <1>1, <1>2, NoModuleAssumption DEF CallInv
<1>5. OnceInv'
    BY <1>1, <1>2, EmptyElements DEF OnceInv
<1>6. TriedInv'
    BY <1>1, EmptyElements DEF TriedInv, Missing
<1>7. LeftInv'
    BY <1>1 DEF LeftInv
<1>8. ReportInv'
    BY <1>1, EmptyElements DEF ReportInv, Reported
<1> QED
    BY <1>3, <1>4, <1>5, <1>6, <1>7, <1>8

\* While an augment remains to be tried a call is in progress.
LEMMA Calling ==
    ASSUME Inv, queue # <<>>
    PROVE  /\ m \in Mod /\ m # None
           /\ Head(queue) \in Aug /\ Tail(queue) \in Seq(Aug)
           /\ Elements(queue) = {Head(queue)} \cup Elements(Tail(queue))
           /\ Distinct(Tail(queue)) /\ Head(queue) \notin Elements(Tail(queue))
           /\ Head(queue) \in Elements(pending[m]) /\ Head(queue) \notin Elements(unapplied)
<1>1. m \in Mod /\ m # None /\ queue \in Seq(Aug)
    BY DEF Inv, CallInv, TypeInv
<1>2. Distinct(queue)
    BY <1>1 DEF Inv, OnceInv
<1>3. /\ Head(queue) \in Aug /\ Tail(queue) \in Seq(Aug)
      /\ Elements(queue) = {Head(queue)} \cup Elements(Tail(queue))
      /\ Distinct(Tail(queue)) /\ Head(queue) \notin Elements(Tail(queue))
    BY <1>1, <1>2, HeadTail
<1> QED
    BY <1>1, <1>3 DEF Inv, OnceInv

\* Once an augment is applied nothing is claimed of this pass any more.
LEMMA ApplyInv ==
    ASSUME Inv, Apply, UNCHANGED ignoring
    PROVE  Inv'
<1> USE DEF Inv
<1>1. /\ queue # <<>> /\ queue' = Tail(queue) /\ processed' = TRUE
      /\ faults \subseteq faults'
      /\ UNCHANGED <<pending, mods, i, m, unapplied, phase, errs>>
    BY DEF Apply
<1>2. /\ m \in Mod /\ m # None /\ Tail(queue) \in Seq(Aug)
      /\ Elements(queue) = {Head(queue)} \cup Elements(Tail(queue)) /\ Distinct(Tail(queue))
    BY <1>1, Calling
<1>3. TypeInv'
    BY <1>1, <1>2 DEF TypeInv
<1>4. CallInv'
    BY <1>1, <1>2 DEF CallInv
<1>5. OnceInv'
    BY <1>1, <1>2 DEF OnceInv
<1>6. TriedInv'
    BY <1>1 DEF TriedInv
<1>7. LeftInv'
    BY <1>1 DEF LeftInv
<1>8. ReportInv'
    BY <1>1 DEF ReportInv, Reported
<1> QED
    BY <1>3, <1>4, <1>5, <1>6, <1>7, <1>8

\* What is skipped has no target in the tree.
LEMMA SkipInv ==
    ASSUME Inv, Skip, UNCHANGED ignoring
    PROVE  Inv'
<1> USE DEF Inv
<1> DEFINE a == Head(queue)
<1>1. /\ queue # <<>> /\ Target[a] \notin DOMAIN tree
      /\ queue' = Tail(queue) /\ unapplied' = Append(unapplied, a)
      /\ faults \subseteq faults'
      /\ phase = "leftover" /\ ~ ignoring => << <<m>>, Err("missing", a)>> \in faults'
      /\ UNCHANGED <<tree, pending, mods, i, m, processed, phase, errs>>
    BY DEF Skip, Found
<1>2. /\ m \in Mod /\ m # None /\ a \in Aug /\ Tail(queue) \in Seq(Aug)
      /\ Elements(queue) = {a} \cup Elements(Tail(queue))
      /\ Distinct(Tail(queue)) /\ a \notin Elements(Tail(queue))
      /\ a \in Elements(pending[m]) /\ a \notin Elements(unapplied)
    BY <1>1, Calling
<1>3. unapplied \in Seq(Aug) /\ Distinct(unapplied)
    BY <1>2 DEF TypeInv, OnceInv
<1>4. /\ Append(unapplied, a) \in Seq(Aug)
      /\ Elements(Append(unapplied, a)) = Elements(unapplied) \cup {a}
      /\ Distinct(Append(unapplied, a))
    BY <1>2, <1>3, AppendElement
<1> HIDE DEF a
<1>5. TypeInv'
    BY <1>1, <1>2, <1>4 DEF TypeInv
<1>6. CallInv'
    BY <1>1, <1>2 DEF CallInv
<1>7. OnceInv'
    BY <1>1, <1>2, <1>3, <1>4 DEF OnceInv
<1>8. TriedInv'
    BY <1>1, <1>2, <1>4 DEF TriedInv, Missing
<1>9. LeftInv'
    BY <1>1 DEF LeftInv
<1>10. ReportInv'
    BY <1>1, <1>4 DEF ReportInv, Reported
<1> QED
    BY <1>5, <1>6, <1>7, <1>8, <1>9, <1>10

\* Removing mods[i] moves the last module into its place: the modules before i stay,
\* and every module but the removed one is still there.
LEMMA RemovedElements ==
    ASSUME Inv, i <= Len(mods)
    PROVE  /\ Removed \in Seq(Mod) /\ Len(Removed) = Len(mods) - 1
           /\ \A k \in 1 .. i - 1 : Removed[k] = mods[k]
           /\ \A x \in Elements(mods) : x # mods[i] => x \in Elements(Removed)
<1> DEFINE n == Len(mods)
<1>1. /\ n \in Nat /\ n >= 1 /\ i \in 1 .. n /\ DOMAIN mods = 1 .. n
      /\ \A k \in 1 .. n : mods[k] \in Mod
    BY DEF Inv, TypeInv
<1>2. Removed = [k \in 1 .. n - 1 |-> IF k = i THEN mods[n] ELSE mods[k]]
    BY DEF Removed
<1> HIDE DEF n
<1>3. n - 1 \in Nat /\ 1 .. n - 1 \subseteq 1 .. n /\ n \in 1 .. n
    BY <1>1
<1>4. Removed \in [1 .. n - 1 -> Mod]
    BY <1>1, <1>2, <1>3
<1>5. Removed \in Seq(Mod) /\ Len(Removed) = n - 1 /\ DOMAIN Removed = 1 .. n - 1
    BY <1>3, <1>4
<1>6. \A k \in 1 .. i - 1 : Removed[k] = mods[k]
  <2>1. \A k \in 1 .. i - 1 : k \in 1 .. n - 1 /\ k # i
      BY <1>1
  <2> QED
      BY <1>2, <2>1
<1>7. ASSUME NEW k \in 1 .. n, mods[k] # mods[i]
      PROVE  mods[k] \in Elements(Removed)
  <2>1. CASE k = n
    <3>1. i \in 1 .. n - 1
        BY <2>1, <1>1, <1>7
    <3>2. Removed[i] = mods[k]
        BY <2>1, <3>1, <1>2
    <3> QED
        BY <3>1, <3>2, <1>5 DEF Elements
  <2>2. CASE k # n
    <3>1. k \in 1 .. n - 1
        BY <2>2, <1>1
    <3>2. Removed[k] = mods[k]
        BY <3>1, <1>2, <1>7
    <3> QED
        BY <3>1, <3>2, <1>5 DEF Elements
  <2> QED
      BY <2>1, <2>2
<1>8. \A x \in Elements(mods) : x # mods[i] => x \in Elements(Removed)
    BY <1>1, <1>7 DEF Elements
<1> QED
    BY <1>5, <1>6, <1>8 DEF n

\* A returning call leaves what it skipped, and its module leaves mods only when
\* that is nothing.
LEMMA ReturnInv ==
    ASSUME Inv, Return, UNCHANGED ignoring
    PROVE  Inv'
<1> USE DEF Inv
<1>1. /\ m # None /\ queue = <<>> /\ queue' = <<>>
      /\ pending' = [pending EXCEPT ![m] = unapplied]
      /\ m' = None /\ unapplied' = <<>>
      /\ UNCHANGED <<tree, faults, processed, phase>>
    BY DEF Return, PendingAfter, treeVars
<1>2. m \in Mod /\ m = mods[i] /\ i <= Len(mods) /\ i \in DOMAIN mods
    BY <1>1 DEF TypeInv, CallInv
<1>3. pending'[m] = unapplied /\ \A x \in Mod : x # m => pending'[x] = pending[x]
    BY <1>1, <1>2 DEF TypeInv
<1>4. \/ phase = "augment" /\ unapplied = <<>> /\ mods' = Removed /\ i' = i
      \/ phase = "augment" /\ unapplied # <<>> /\ i' = i + 1 /\ mods' = mods
      \/ /\ phase = "leftover" /\ i' = i + 1 /\ mods' = mods
         /\ errs' = errs \cup Errors(m)
    BY DEF Return, NothingSkipped
<1>5. /\ Removed \in Seq(Mod) /\ Len(Removed) = Len(mods) - 1
      /\ \A k \in 1 .. i - 1 : Removed[k] = mods[k]
      /\ \A x \in Elements(mods) : x # mods[i] => x \in Elements(Removed)
    BY <1>2, RemovedElements
<1>6. TypeInv'
  <2>1. pending' \in [Mod -> Seq(Aug)] /\ queue' \in Seq(Aug) /\ unapplied' \in Seq(Aug)
      BY <1>1, <1>2 DEF TypeInv
  <2>2. mods' \in Seq(Mod) /\ i' \in Nat \ {0} /\ i' <= Len(mods') + 1
    <3>1. mods \in Seq(Mod) /\ i \in Nat \ {0} /\ Len(mods) \in Nat
        BY DEF TypeInv
    <3>2. CASE mods' = Removed /\ i' = i
        BY <1>2, <1>5, <3>1, <3>2
    <3>3. CASE mods' = mods /\ i' = i + 1
        BY <1>2, <3>1, <3>3
    <3> QED
        BY <1>4, <3>2, <3>3
  <2> QED
      BY <1>1, <2>1, <2>2 DEF TypeInv
<1>7. CallInv'
    BY <1>1 DEF CallInv
<1>8. OnceInv'
  <2>1. Elements(unapplied) \subseteq Elements(pending[m]) /\ Distinct(unapplied)
      BY <1>1 DEF OnceInv
  <2>2. \A x \in Mod : Elements(pending'[x]) \subseteq Elements(pending[x]) /\ Distinct(pending'[x])
      BY <1>2, <1>3, <2>1 DEF OnceInv
  <2> QED
      BY <1>1, <2>2 DEF OnceInv
<1>9. \A k \in 1 .. i - 1 : mods[k] \in Mod /\ mods[k] \in Elements(mods)
    BY <1>2 DEF TypeInv, Elements
<1>10. \A k \in 1 .. (i + 1) - 1 : k = i \/ k \in 1 .. i - 1
    BY DEF TypeInv
<1>11. LeftInv'
  <2>1. m \in Elements(mods)
      BY <1>2 DEF Elements
  <2> QED
      BY <1>2, <1>3, <1>4, <1>5, <2>1 DEF LeftInv
<1>12. TriedInv'
  <2> SUFFICES ASSUME phase = "augment", ~ processed
               PROVE  \A k \in 1 .. i' - 1 : Missing(pending'[mods'[k]])
      BY <1>1 DEF TriedInv, Missing
  <2>1. Missing(unapplied) /\ \A k \in 1 .. i - 1 : Missing(pending[mods[k]])
      BY <1>1 DEF TriedInv
  <2>2. \A k \in 1 .. i - 1 : Missing(pending'[mods[k]])
      BY <1>3, <1>9, <2>1
  <2>3. CASE unapplied = <<>> /\ mods' = Removed /\ i' = i
      BY <1>5, <2>2, <2>3
  <2>4. CASE i' = i + 1 /\ mods' = mods
      BY <1>2, <1>3, <1>10, <2>1, <2>2, <2>4
  <2> QED
      BY <1>4, <2>3, <2>4
<1>13. ReportInv'
  <2> SUFFICES ASSUME ~ ignoring, phase = "leftover"
               PROVE  \A k \in 1 .. i' - 1 : \A a \in Elements(pending'[mods'[k]]) :
                          Err("missing", a) \in errs'
    <3>1. phase # "done"
        BY <1>1 DEF CallInv
    <3> QED
        BY <1>1, <3>1 DEF ReportInv, Reported
  <2>1. i' = i + 1 /\ mods' = mods /\ errs' = errs \cup Errors(m)
      BY <1>4
  <2>2. \A a \in Elements(unapplied) : Err("missing", a) \in Errors(m)
    <3>1. \A a \in Elements(unapplied) : << <<m>>, Err("missing", a)>> \in faults
        BY <1>1 DEF ReportInv
    <3> SUFFICES ASSUME NEW a \in Elements(unapplied)
                 PROVE  Err("missing", a) \in Errors(m)
        OBVIOUS
    <3> DEFINE f == << <<m>>, Err("missing", a)>>
    <3>2. f \in faults /\ f[1][1] = m /\ f[2] = Err("missing", a)
        BY <3>1
    <3> HIDE DEF f
    <3> QED
        BY <3>2 DEF Errors
  <2>3. \A a \in Elements(pending'[m]) : Err("missing", a) \in errs'
      BY <1>3, <1>2, <2>1, <2>2
  <2>4. \A k \in 1 .. i - 1 : \A a \in Elements(pending[mods[k]]) : Err("missing", a) \in errs
      BY DEF ReportInv, Reported
  <2>5. \A k \in 1 .. i - 1 : \A a \in Elements(pending'[mods[k]]) : Err("missing", a) \in errs'
      BY <1>3, <1>9, <2>1, <2>3, <2>4
  <2> QED
      BY <1>2, <1>10, <2>1, <2>3, <2>5
<1> QED
    BY <1>6, <1>7, <1>8, <1>11, <1>12, <1>13

\* A new pass has tried nothing.
LEMMA EndPassInv ==
    ASSUME Inv, EndPass, UNCHANGED ignoring
    PROVE  Inv'
<1> USE DEF Inv
<1>1. /\ m = None /\ phase = "augment" /\ phase' \in {"augment", "fix"}
      /\ i' = 1 /\ processed' = FALSE
      /\ UNCHANGED <<tree, pending, mods, m, queue, unapplied>>
    BY DEF EndPass, AtEnd, treeVars, callVars
<1>2. TypeInv'
  <2>1. i' \in Nat \ {0} /\ i' <= Len(mods') + 1
      BY <1>1 DEF TypeInv
  <2> QED
      BY <1>1, <2>1 DEF TypeInv
<1>3. CallInv'
    BY <1>1 DEF CallInv
<1>4. OnceInv'
    BY <1>1 DEF OnceInv
<1>5. TriedInv'
    BY <1>1 DEF TriedInv
<1>6. LeftInv'
    BY <1>1 DEF LeftInv
<1>7. ReportInv'
    BY <1>1 DEF ReportInv
<1> QED
    BY <1>2, <1>3, <1>4, <1>5, <1>6, <1>7

\* The rest of Process does not come back to the passes.
LEMMA LaterInv ==
    ASSUME Inv, FixChoice \/ Finish, UNCHANGED ignoring
    PROVE  Inv'
<1> USE DEF Inv
<1>1. /\ m = None
      /\ UNCHANGED <<pending, mods, i, m, queue, unapplied, processed, errs>>
      /\ \/ phase' = "leftover" /\ i = 1
         \/ phase = "leftover" /\ phase' = "done" /\ i > Len(mods)
    BY DEF FixChoice, Finish, AtEnd, callVars, CallInv
<1>2. TypeInv'
    BY <1>1 DEF TypeInv
<1>3. CallInv'
    BY <1>1 DEF CallInv
<1>4. OnceInv'
    BY <1>1 DEF OnceInv
<1>5. TriedInv'
    BY <1>1 DEF TriedInv
<1>6. LeftInv'
    BY <1>1 DEF LeftInv
<1>7. ReportInv'
  <2>1. CASE phase' = "leftover" /\ i = 1
      BY <1>1, <2>1 DEF ReportInv
  <2>2. CASE phase = "leftover" /\ phase' = "done" /\ i > Len(mods)
    <3>1. \A k \in 1 .. Len(mods) : k \in 1 .. i - 1
        BY <2>2 DEF TypeInv
    <3> QED
        BY <1>1, <2>2, <3>1 DEF ReportInv, Reported
  <2> QED
      BY <1>1, <2>1, <2>2
<1> QED
    BY <1>2, <1>3, <1>4, <1>5, <1>6, <1>7

\* The invariant holds throughout.
LEMMA InvCorrect ==
    Spec => []Inv
<1>1. Inv /\ [Next]_vars => Inv'
  <2> SUFFICES ASSUME Inv, [Next]_vars
               PROVE  Inv'
      OBVIOUS
  <2>1. CASE UNCHANGED vars
    <3>1. UNCHANGED <<tree, faults, pending, mods, i, m, queue, unapplied, processed, phase, errs, ignoring>>
        BY <2>1 DEF vars, treeVars, callVars
    <3> QED
        BY <3>1 DEF Inv, TypeInv, CallInv, OnceInv, TriedInv, Missing, LeftInv, ReportInv, Reported
  <2> QED
      BY <2>1, AugmentInv, ApplyInv, SkipInv, ReturnInv, EndPassInv, LaterInv DEF Next
<1> QED
    BY <1>1, InitInv, PTL DEF Spec

-----------------------------------------------------------------------------
(* The theorems *)

\* A call that begins or returns, or a skipped augment, leaves the same augments waiting.
LEMMA SameWaiting ==
    ASSUME Inv, Augment \/ Skip \/ Return
    PROVE  Waiting' = Waiting
<1> USE DEF Inv
<1>1. CASE Augment
  <2>1. /\ m = None /\ mods[i] \in Mod /\ m' = mods[i]
        /\ queue' = pending[mods[i]] /\ unapplied' = <<>> /\ pending' = pending
      BY <1>1 DEF Augment, TypeInv
  <2>2. \A x \in Mod : Left(x)' = Left(x)
      BY <2>1, EmptyElements, NoModuleAssumption DEF Left
  <2> QED
      BY <2>2 DEF Waiting
<1>2. CASE Skip
  <2>1. /\ queue # <<>> /\ queue' = Tail(queue)
        /\ unapplied' = Append(unapplied, Head(queue)) /\ UNCHANGED <<pending, m>>
      BY <1>2 DEF Skip
  <2>2. /\ Elements(queue) = {Head(queue)} \cup Elements(Tail(queue)) /\ Head(queue) \in Aug
        /\ unapplied \in Seq(Aug)
      BY <2>1, Calling DEF TypeInv
  <2>3. Elements(unapplied') = Elements(unapplied) \cup {Head(queue)}
      BY <2>1, <2>2, AppendElement
  <2>4. \A x \in Mod : Left(x)' = Left(x)
      BY <2>1, <2>2, <2>3 DEF Left
  <2> QED
      BY <2>4 DEF Waiting
<1>3. CASE Return
  <2>1. /\ m # None /\ queue = <<>> /\ pending' = [pending EXCEPT ![m] = unapplied] /\ m' = None
      BY <1>3 DEF Return, PendingAfter
  <2>2. \A x \in Mod : Left(x)' = Left(x)
      BY <2>1, EmptyElements, NoModuleAssumption DEF Left, TypeInv
  <2> QED
      BY <2>2 DEF Waiting
<1> QED
    BY <1>1, <1>2, <1>3

\* Applying an augment takes it, and nothing else, from those that wait.
LEMMA ApplyWaiting ==
    ASSUME Inv, Apply
    PROVE  Head(queue) \in Aug /\ Head(queue) \in Waiting /\ Waiting' = Waiting \ {Head(queue)}
<1> USE DEF Inv
<1> DEFINE a == Head(queue)
<1>1. queue # <<>> /\ queue' = Tail(queue) /\ UNCHANGED <<pending, m, unapplied>>
    BY DEF Apply
<1>2. /\ m \in Mod /\ m # None /\ a \in Aug
      /\ Elements(queue) = {a} \cup Elements(Tail(queue)) /\ a \notin Elements(Tail(queue))
      /\ a \in Elements(pending[m]) /\ a \notin Elements(unapplied)
    BY <1>1, Calling
<1> HIDE DEF a
<1>3. a \in Left(m) /\ Left(m)' = Left(m) \ {a}
    BY <1>1, <1>2 DEF Left
<1>4. \A x \in Mod : x # m => Left(x)' = Left(x) /\ a \notin Left(x)
    BY <1>1, <1>2 DEF Left, OnceInv
<1>5. ASSUME NEW x \in Mod
      PROVE  Left(x)' = Left(x) \ {a}
  <2>1. CASE x = m
      BY <1>1, <1>2, <2>1 DEF Left
  <2>2. CASE x # m
      BY <1>4, <2>2
  <2> QED
      BY <2>1, <2>2
<1>6. Waiting' = Waiting \ {a} /\ a \in Waiting
    BY <1>2, <1>3, <1>5 DEF Waiting
<1> QED
    BY <1>2, <1>6 DEF a

\* A pass that has come to its end with nothing applied leaves nothing to apply.
LEMMA NothingLeft ==
    ASSUME Inv, EndPass, ~ AnotherPass
    PROVE  \A a \in Waiting : Target[a] \notin DOMAIN tree
<1> USE DEF Inv
<1>1. m = None /\ phase = "augment" /\ i > Len(mods) /\ (mods = <<>> \/ ~ processed)
    BY DEF EndPass, AtEnd, AnotherPass, TypeInv
<1> SUFFICES ASSUME NEW a \in Waiting
             PROVE  Target[a] \notin DOMAIN tree
    OBVIOUS
<1>2. PICK x \in Mod : a \in Elements(pending[x])
    BY <1>1, NoModuleAssumption DEF Waiting, Left
<1>3. x \in Elements(mods)
    BY <1>2, EmptyElements DEF LeftInv
<1>4. PICK k \in DOMAIN mods : mods[k] = x
    BY <1>3 DEF Elements
<1>5. k \in 1 .. i - 1 /\ mods # <<>>
    BY <1>1, <1>4 DEF TypeInv
<1>6. Missing(pending[x])
    BY <1>1, <1>4, <1>5 DEF TriedInv
<1> QED
    BY <1>2, <1>6 DEF Missing

\* Every step of Process is a step of AugmentOrder or changes nothing it speaks of.
LEMMA StepInOrder ==
    ASSUME Inv, [Next]_vars
    PROVE  [Order!Next]_Order!vars
<1> USE DEF Inv
<1>1. CASE Augment \/ Skip \/ Return
  <2>1. UNCHANGED <<tree, phase>>
      BY <1>1 DEF Augment, Skip, Return, treeVars
  <2> QED
      BY <1>1, <2>1, SameWaiting DEF Order!vars
<1>2. CASE Apply
  <2>1. /\ Head(queue) \in Aug /\ Head(queue) \in Waiting
        /\ Waiting' = Waiting \ {Head(queue)}
      BY <1>2, ApplyWaiting
  <2>2. /\ Target[Head(queue)] \in DOMAIN tree
        /\ tree' = Merged(tree, Head(queue)) /\ UNCHANGED phase
      BY <1>2 DEF Apply, Found
  <2>3. CASE phase = "augment"
    <3>1. Order!Apply(Head(queue))
        BY <2>1, <2>2, <2>3 DEF Order!Apply, Order!Applicable, Order!Merged, Order!Added,
              Order!Clashes, Order!Below, Merged, Added, Clashes, Below
    <3> QED
        BY <2>1, <3>1 DEF Order!Next
  <2>4. CASE phase # "augment"
      BY <2>1, <2>2, <2>4 DEF Order!Next, Order!Afterwards
  <2> QED
      BY <2>3, <2>4
<1>3. CASE EndPass
  <2>1. /\ m = None /\ phase = "augment" /\ phase' = IF AnotherPass THEN "augment" ELSE "fix"
        /\ UNCHANGED <<tree, pending, m, queue, unapplied>>
      BY <1>3 DEF EndPass, AtEnd, treeVars, callVars
  <2>2. Waiting' = Waiting
      BY <2>1 DEF Waiting, Left
  <2>3. CASE AnotherPass
      BY <2>1, <2>2, <2>3 DEF Order!vars
  <2>4. CASE ~ AnotherPass
    <3>1. Order!Stop
        BY <1>3, <2>1, <2>2, <2>4, NothingLeft DEF Order!Stop, Order!Applicable
    <3> QED
        BY <3>1 DEF Order!Next
  <2> QED
      BY <2>3, <2>4
<1>4. CASE FixChoice \/ Finish
  <2>1. /\ phase # "augment" /\ phase' # "augment"
        /\ UNCHANGED <<pending, m, queue, unapplied>>
      BY <1>4 DEF FixChoice, Finish, callVars
  <2>2. Waiting' = Waiting
      BY <2>1 DEF Waiting, Left
  <2> QED
      BY <2>1, <2>2 DEF Order!Next, Order!Afterwards
<1>5. CASE UNCHANGED vars
  <2>1. UNCHANGED <<tree, pending, m, queue, unapplied, phase>>
      BY <1>5 DEF vars, treeVars, callVars
  <2> QED
      BY <2>1 DEF Order!vars, Waiting, Left
<1> QED
    BY <1>1, <1>2, <1>3, <1>4, <1>5 DEF Next

\* Process's passes implement AugmentOrder, for every tree, every placement of the
\* augments in modules and every order of the maps: each augment is applied at most
\* once, to an entry that exists, and the passes stop only when none can be.
THEOREM InOrderCorrect ==
    Spec => InOrder
<1>1. Init => Order!Init
  <2> SUFFICES ASSUME Init
               PROVE  Order!Init
      OBVIOUS
  <2>1. pending \in [Mod -> Seq(Aug)] /\ m = None
      BY WrittenAssumption DEF Init
  <2>2. Waiting \subseteq Aug
      BY <2>1, NoModuleAssumption DEF Waiting, Left, Elements
  <2> QED
      BY <2>2 DEF Init, Order!Init
<1>2. Inv /\ [Next]_vars => [Order!Next]_Order!vars
    BY StepInOrder
<1> QED
    BY <1>1, <1>2, InvCorrect, PTL DEF Spec, InOrder, Order!Spec

\* Unless errors are ignored, every augment that is not applied at the end is reported.
THEOREM UnappliedReportedCorrect ==
    Spec => []UnappliedReported
<1>1. Inv => UnappliedReported
  <2> SUFFICES ASSUME Inv, phase = "done", ~ ignoring, NEW a \in Waiting
               PROVE  Err("missing", a) \in errs
      BY DEF UnappliedReported
  <2>1. m = None
      BY DEF Inv, CallInv
  <2>2. PICK x \in Mod : a \in Elements(pending[x])
      BY <2>1, NoModuleAssumption DEF Waiting, Left
  <2>3. x \in Elements(mods)
      BY <2>2, EmptyElements DEF Inv, LeftInv
  <2>4. PICK k \in DOMAIN mods : mods[k] = x
      BY <2>3 DEF Elements
  <2>5. k \in 1 .. Len(mods)
      BY <2>4 DEF Inv, TypeInv
  <2> QED
      BY <2>2, <2>4, <2>5 DEF Inv, ReportInv, Reported
<1> QED
    BY <1>1, InvCorrect, PTL

-----------------------------------------------------------------------------
(* Confluence *)

Applied == written \ Waiting

\* S holds every statement whose target is in Base or added by a member.
ClosedUnder(S) == \A b \in written : Target[b] \in Entries(S) => b \in S

\* As long as nothing has failed, the tree has the entries of the statements applied,
\* each of which is in every closed set; after the passes, none of the others has a
\* target.
ConfluenceInv ==
    /\ Waiting \subseteq written
    /\ phase \in {"augment", "fix"} /\ faults = {} =>
          /\ DOMAIN tree = Entries(Applied)
          /\ \A S \in SUBSET written : ClosedUnder(S) => Applied \subseteq S
    /\ phase = "fix" => \A a \in Waiting : Target[a] \notin DOMAIN tree

\* More statements have more entries.
LEMMA EntriesMonotone ==
    ASSUME NEW S, NEW T, S \subseteq T
    PROVE  Entries(S) \subseteq Entries(T)
BY DEF Entries

\* Merging a statement without an error adds exactly its entries.
LEMMA MergedEntries ==
    ASSUME NEW S, NEW a, DOMAIN tree = Entries(S), MergeFaults(tree, a) = {}
    PROVE  DOMAIN Merged(tree, a) = Entries(S \cup {a})
<1>1. Clashes(tree, a) = {}
  <2>1. ASSUME NEW p \in Clashes(tree, a)
        PROVE  <<Target[a], Err("duplicate", a)>> \in MergeFaults(tree, a)
      BY <2>1 DEF MergeFaults
  <2> QED
      BY <2>1
<1>2. Added(tree, a) = {Target[a] \o p : p \in DOMAIN Adds[a]}
    BY <1>1 DEF Added
<1>3. DOMAIN Merged(tree, a) = DOMAIN tree \cup Added(tree, a)
    BY DEF Merged
<1>4. Entries(S \cup {a}) = Entries(S) \cup {Target[a] \o p : p \in DOMAIN Adds[a]}
  <2> DEFINE Of(b) == {Target[b] \o p : p \in DOMAIN Adds[b]}
  <2>1. \A T : Entries(T) = DOMAIN Base \cup UNION {Of(b) : b \in T}
      BY DEF Entries
  <2> HIDE DEF Of
  <2>2. (UNION {Of(b) : b \in S \cup {a}}) = (UNION {Of(b) : b \in S}) \cup Of(a)
      OBVIOUS
  <2>3. Entries(S \cup {a}) = Entries(S) \cup Of(a)
      BY <2>1, <2>2
  <2> QED
      BY <2>3 DEF Of
<1> QED
    BY <1>2, <1>3, <1>4

LEMMA NextConfluence ==
    ASSUME Inv, ConfluenceInv, [Next]_vars
    PROVE  ConfluenceInv'
<1> USE DEF ConfluenceInv
<1>0. UNCHANGED written
    BY DEF Next, vars
<1>1. CASE Augment \/ Skip \/ Return
  <2>1. UNCHANGED <<tree, phase>> /\ (phase = "augment" => faults' = faults) /\ phase # "fix"
    <3>1. m # None => phase \in {"augment", "leftover"}
        BY DEF Inv, CallInv
    <3>2. queue # <<>> => m # None
        BY DEF Inv, CallInv
    <3> QED
        BY <1>1, <3>1, <3>2 DEF Augment, Skip, Return, treeVars
  <2>2. Waiting' = Waiting
      BY <1>1, SameWaiting
  <2> QED
      BY <1>0, <2>1, <2>2 DEF Applied, Entries, ClosedUnder
<1>2. CASE Apply
  <2> DEFINE a == Head(queue)
  <2>1. a \in Waiting /\ Waiting' = Waiting \ {a} /\ a \in written
      BY <1>2, ApplyWaiting
  <2>2. /\ Target[a] \in DOMAIN tree /\ tree' = Merged(tree, a)
        /\ faults' = faults \cup MergeFaults(tree, a) /\ UNCHANGED phase
      BY <1>2 DEF Apply, Found
  <2>3. Applied' = Applied \cup {a}
      BY <1>0, <2>1 DEF Applied
  <2>4. phase # "fix"
      BY <1>2 DEF Apply, Inv, CallInv
  <2> HIDE DEF a
  <2>5. ASSUME phase = "augment", faults' = {}
        PROVE  /\ DOMAIN tree' = Entries(Applied')
               /\ \A S \in SUBSET written : ClosedUnder(S) => Applied' \subseteq S
    <3>1. faults = {} /\ MergeFaults(tree, a) = {}
        BY <2>2, <2>5
    <3>2. DOMAIN tree = Entries(Applied)
        BY <2>5, <3>1
    <3>3. DOMAIN tree' = Entries(Applied')
        BY <2>2, <2>3, <3>1, <3>2, MergedEntries
    <3>4. ASSUME NEW S \in SUBSET written, ClosedUnder(S)
          PROVE  Applied' \subseteq S
      <4>1. Applied \subseteq S
          BY <2>5, <3>1, <3>4
      <4>2. Target[a] \in Entries(S)
          BY <2>2, <3>2, <4>1, EntriesMonotone
      <4>3. a \in S
          BY <2>1, <3>4, <4>2 DEF ClosedUnder
      <4> QED
          BY <2>3, <4>1, <4>3
    <3> QED
        BY <3>3, <3>4
  <2>6. Waiting' \subseteq written'
      BY <1>0, <2>1
  <2> QED
      BY <1>0, <2>2, <2>4, <2>5, <2>6 DEF Entries, ClosedUnder
<1>3. CASE EndPass
  <2>1. /\ phase = "augment" /\ phase' = IF AnotherPass THEN "augment" ELSE "fix"
        /\ UNCHANGED <<tree, faults, pending, m, queue, unapplied>>
      BY <1>3 DEF EndPass, AtEnd, treeVars, callVars
  <2>2. Waiting' = Waiting
      BY <2>1 DEF Waiting, Left
  <2>3. ~ AnotherPass => \A a \in Waiting : Target[a] \notin DOMAIN tree
      BY <1>3, NothingLeft
  <2> QED
      BY <1>0, <2>1, <2>2, <2>3 DEF Applied, Entries, ClosedUnder
<1>4. CASE FixChoice \/ Finish
  <2>1. phase' \in {"leftover", "done"} /\ UNCHANGED <<pending, m, queue, unapplied>>
      BY <1>4 DEF FixChoice, Finish, callVars
  <2>2. Waiting' = Waiting
      BY <2>1 DEF Waiting, Left
  <2> QED
      BY <1>0, <2>1, <2>2
<1>5. CASE UNCHANGED vars
  <2>1. UNCHANGED <<tree, faults, pending, m, queue, unapplied, phase, written>>
      BY <1>5 DEF vars, treeVars, callVars
  <2>2. Waiting' = Waiting
      BY <2>1 DEF Waiting, Left
  <2>3. Applied' = Applied /\ \A S : ClosedUnder(S)' = ClosedUnder(S)
      BY <2>1, <2>2 DEF Applied, Entries, ClosedUnder
  <2> QED
      BY <2>1, <2>2, <2>3 DEF Entries
<1> QED
    BY <1>1, <1>2, <1>3, <1>4, <1>5 DEF Next

\* When nothing has failed, the entries of the augmented tree are those of the least
\* closed set of statements, which no order of the maps can change.
THEOREM ConfluentCorrect ==
    Spec => []Confluent
<1>1. Init => ConfluenceInv
  <2> SUFFICES ASSUME Init
               PROVE  ConfluenceInv
      OBVIOUS
  <2>1. m = None /\ tree = Base /\ phase = "augment"
      BY DEF Init
  <2>2. Waiting = written
      BY <2>1, NoModuleAssumption DEF Init, Waiting, Left
  <2>3. Applied = {}
      BY <2>2 DEF Applied
  <2>4. Entries(Applied) = DOMAIN tree
      BY <2>1, <2>3 DEF Entries
  <2> QED
      BY <2>1, <2>2, <2>3, <2>4 DEF ConfluenceInv
<1>2. Inv /\ ConfluenceInv /\ [Next]_vars => ConfluenceInv'
    BY NextConfluence
<1>3. ConfluenceInv => Confluent
  <2> SUFFICES ASSUME ConfluenceInv, phase = "fix", faults = {}
               PROVE  DOMAIN tree = Entries(Reachable)
      BY DEF Confluent
  <2>1. /\ DOMAIN tree = Entries(Applied)
        /\ \A S \in SUBSET written : ClosedUnder(S) => Applied \subseteq S
        /\ \A a \in Waiting : Target[a] \notin DOMAIN tree
      BY DEF ConfluenceInv
  <2>2. Applied \in SUBSET written /\ ClosedUnder(Applied)
      BY <2>1 DEF Applied, ClosedUnder
  <2>3. Reachable = {a \in written : \A S \in SUBSET written : ClosedUnder(S) => a \in S}
      BY DEF Reachable, ClosedUnder
  <2>4. Applied = Reachable
      BY <2>1, <2>2, <2>3
  <2> QED
      BY <2>1, <2>4
<1> QED
    BY <1>1, <1>2, <1>3, InvCorrect, PTL DEF Spec

-----------------------------------------------------------------------------
(* Sequences that are joined *)

\* A set of numbers that is not empty has a least element.
LEMMA LeastNatural ==
    ASSUME NEW T, T \subseteq Nat, T # {}
    PROVE  \E n \in T : \A k \in T : n <= k
<1> DEFINE R == OpToRel(<, Nat)
<1>1. IsWellFoundedOn(R, Nat)
    BY NatLessThanWellFounded
<1>2. \A x, y \in Nat : x < y => <<x, y>> \in R
    BY DEF OpToRel
<1> HIDE DEF R
<1>3. PICK n \in T : \A k \in T : ~ (<<k, n>> \in R)
    BY <1>1, WFMin
<1>4. \A k \in T : ~ (k < n)
    BY <1>2, <1>3
<1>5. n \in Nat /\ \A k \in T : k \in Nat
    OBVIOUS
<1>6. ASSUME NEW k \in T PROVE n <= k
    BY <1>4, <1>5
<1> QED
    BY <1>6

\* f[n] is what the first n members of q are, joined.
Joins(f, q, n) == \A k \in 1 .. n : f[k] = IF k = 1 THEN q[1] ELSE f[k - 1] \o q[k]

\* The recursion of FlattenSeq has a solution for any number of members.
LEMMA JoinsExists ==
    ASSUME NEW q, NEW n \in Nat
    PROVE  \E f : Joins(f, q, n)
<1> DEFINE Some(k) == \E f : Joins(f, q, k)
           T == {k \in Nat : ~ Some(k)}
<1>1. T = {}
  <2> SUFFICES ASSUME T # {} PROVE FALSE
      OBVIOUS
  <2>1. PICK k \in T : \A j \in T : k <= j
    <3>1. T \subseteq Nat
        OBVIOUS
    <3> HIDE DEF T
    <3> QED
        BY <3>1, LeastNatural
  <2>2. k \in Nat /\ ~ Some(k)
      BY <2>1
  <2>3. k # 0
    <3>1. Joins([j \in {} |-> q], q, 0)
        BY DEF Joins
    <3> QED
        BY <2>2, <3>1
  <2>4. k - 1 \in Nat /\ ~ (k <= k - 1)
      BY <2>2, <2>3
  <2>5. PICK f : Joins(f, q, k - 1)
      BY <2>1, <2>4
  <2> DEFINE g == [j \in 1 .. k |->
                      IF j = k THEN IF k = 1 THEN q[1] ELSE f[k - 1] \o q[k] ELSE f[j]]
  <2>6. Joins(g, q, k)
    <3> SUFFICES ASSUME NEW j \in 1 .. k
                 PROVE  g[j] = IF j = 1 THEN q[1] ELSE g[j - 1] \o q[j]
        BY DEF Joins
    <3>1. CASE j = k
      <4>1. j # 1 => j - 1 \in 1 .. k /\ j - 1 # k
          BY <2>2, <2>3, <3>1
      <4> QED
          BY <3>1, <4>1
    <3>2. CASE j # k
      <4>1. j \in 1 .. k - 1 /\ (j # 1 => j - 1 \in 1 .. k /\ j - 1 # k)
          BY <2>2, <3>2
      <4>2. f[j] = IF j = 1 THEN q[1] ELSE f[j - 1] \o q[j]
          BY <2>5, <4>1 DEF Joins
      <4> QED
          BY <3>2, <4>1, <4>2
    <3> QED
        BY <3>1, <3>2
  <2> QED
      BY <2>2, <2>6
<1> QED
    BY <1>1

\* FlattenSeq is what its recursion comes to.
LEMMA FlattenIs ==
    ASSUME NEW S, NEW q \in Seq(S), q # <<>>
    PROVE  \E f : Joins(f, q, Len(q)) /\ FlattenSeq(q) = f[Len(q)]
<1>1. Len(q) \in Nat /\ Len(q) # 0 /\ 1 \in 1 .. Len(q)
    OBVIOUS
<1> DEFINE Solves(a) == a = [k \in 1 .. Len(q) |-> IF k = 1 THEN q[k] ELSE a[k - 1] \o q[k]]
           A == CHOOSE a : Solves(a)
<1>2. PICK f : Joins(f, q, Len(q))
    BY <1>1, JoinsExists
<1> DEFINE g == [k \in 1 .. Len(q) |-> f[k]]
<1>3. Solves(g)
  <2>1. \A k \in 1 .. Len(q) : f[k] = IF k = 1 THEN q[1] ELSE f[k - 1] \o q[k]
      BY <1>2 DEF Joins
  <2>2. \A k \in 1 .. Len(q) : k # 1 => k - 1 \in 1 .. Len(q)
      BY <1>1
  <2>3. \A k \in 1 .. Len(q) : f[k] = IF k = 1 THEN q[k] ELSE g[k - 1] \o q[k]
      BY <2>1, <2>2
  <2> HIDE DEF g
  <2>4. g = [k \in 1 .. Len(q) |-> f[k]]
      BY DEF g
  <2> QED
      BY <2>3, <2>4
<1>4. Solves(A)
    BY <1>3
<1>5. FlattenSeq(q) = A[Len(q)]
    BY <1>1 DEF FlattenSeq
<1> HIDE DEF A
<1>6. \A k \in 1 .. Len(q) : A[k] = IF k = 1 THEN q[k] ELSE A[k - 1] \o q[k]
    BY <1>4
<1>7. Joins(A, q, Len(q))
    BY <1>6 DEF Joins
<1> QED
    BY <1>5, <1>7

\* What Append makes.
LEMMA AppendIs ==
    ASSUME NEW Q, NEW q \in Seq(Q), NEW x \in Q
    PROVE  /\ Len(q) \in Nat /\ DOMAIN q = 1 .. Len(q)
           /\ Append(q, x) \in Seq(Q) /\ Append(q, x) # <<>>
           /\ Len(Append(q, x)) = Len(q) + 1 /\ Append(q, x)[Len(q) + 1] = x
           /\ \A k \in 1 .. Len(q) : Append(q, x)[k] = q[k] /\ q[k] \in Q
<1> QED
    OBVIOUS

\* Joining one more appends it.
LEMMA FlattenAppend ==
    ASSUME NEW S, NEW q \in Seq(Seq(S)), NEW x \in Seq(S)
    PROVE  /\ FlattenSeq(q) \in Seq(S)
           /\ FlattenSeq(Append(q, x)) = FlattenSeq(q) \o x
<1>1. /\ Len(q) \in Nat /\ DOMAIN q = 1 .. Len(q)
      /\ Append(q, x) \in Seq(Seq(S)) /\ Append(q, x) # <<>>
      /\ Len(Append(q, x)) = Len(q) + 1 /\ Append(q, x)[Len(q) + 1] = x
      /\ \A k \in 1 .. Len(q) : Append(q, x)[k] = q[k] /\ q[k] \in Seq(S)
    BY AppendIs
<1>2. PICK g : Joins(g, Append(q, x), Len(q) + 1) /\ FlattenSeq(Append(q, x)) = g[Len(q) + 1]
    BY <1>1, FlattenIs
<1>3. CASE q = <<>>
  <2>1. FlattenSeq(q) = <<>> /\ Len(q) = 0
      BY <1>3 DEF FlattenSeq
  <2>2. g[1] = x
      BY <1>1, <1>2, <2>1 DEF Joins
  <2> QED
      BY <1>2, <2>1, <2>2
<1>4. CASE q # <<>>
  <2>1. PICK f : Joins(f, q, Len(q)) /\ FlattenSeq(q) = f[Len(q)]
      BY <1>4, FlattenIs
  <2> DEFINE T == {k \in Nat : k \in 1 .. Len(q) /\ ~ (f[k] = g[k] /\ f[k] \in Seq(S))}
  <2>2. T = {}
    <3> SUFFICES ASSUME T # {} PROVE FALSE
        OBVIOUS
    <3>1. PICK k \in T : \A j \in T : k <= j
      <4>1. T \subseteq Nat
          OBVIOUS
      <4> HIDE DEF T
      <4> QED
          BY <4>1, LeastNatural
    <3>2. k \in Nat /\ k \in 1 .. Len(q) /\ k \in 1 .. Len(q) + 1 /\ ~ (f[k] = g[k] /\ f[k] \in Seq(S))
        BY <1>1, <3>1
    <3>3. f[k] = (IF k = 1 THEN q[1] ELSE f[k - 1] \o q[k])
        BY <2>1, <3>2 DEF Joins
    <3>4. g[k] = (IF k = 1 THEN Append(q, x)[1] ELSE g[k - 1] \o Append(q, x)[k])
        BY <1>2, <3>2 DEF Joins
    <3>5. Append(q, x)[k] = q[k] /\ q[k] \in Seq(S)
        BY <1>1, <3>2
    <3>6. k # 1
        BY <3>2, <3>3, <3>4, <3>5
    <3>7. k - 1 \in Nat /\ k - 1 \in 1 .. Len(q) /\ ~ (k <= k - 1)
        BY <1>1, <3>2, <3>6
    <3>8. f[k - 1] = g[k - 1] /\ f[k - 1] \in Seq(S)
        BY <3>1, <3>7
    <3>9. f[k - 1] \o q[k] \in Seq(S)
        BY <3>5, <3>8
    <3> QED
        BY <3>2, <3>3, <3>4, <3>5, <3>6, <3>8, <3>9
  <2>3. Len(q) \in 1 .. Len(q) /\ Len(q) + 1 \in 1 .. Len(q) + 1 /\ Len(q) + 1 # 1
        /\ (Len(q) + 1) - 1 = Len(q)
      BY <1>1, <1>4
  <2>4. f[Len(q)] = g[Len(q)] /\ f[Len(q)] \in Seq(S)
    <3>1. Len(q) \notin T
        BY <2>2
    <3> QED
        BY <1>1, <2>3, <3>1
  <2>5. g[Len(q) + 1] = g[Len(q)] \o Append(q, x)[Len(q) + 1]
      BY <1>2, <2>3 DEF Joins
  <2> QED
      BY <1>1, <1>2, <2>1, <2>4, <2>5
<1> QED
    BY <1>3, <1>4

-----------------------------------------------------------------------------
(* Paths *)

\* Short sequences.
LEMMA ShortIs ==
    ASSUME NEW Q, NEW x \in Q
    PROVE  <<x>> \in Seq(Q) /\ <<x, x>> \in Seq(Q) /\ <<>> \in Seq(Q)
<1> QED
    OBVIOUS

\* A sequence is all but its last element, and that.
LEMMA FrontIs ==
    ASSUME NEW Q, NEW p \in Seq(Q), p # <<>>
    PROVE  LET q == SubSeq(p, 1, Len(p) - 1) IN
           /\ Len(p) \in Nat /\ Len(p) >= 1 /\ \A n \in 1 .. Len(p) : p[n] \in Q
           /\ q \in Seq(Q) /\ Len(q) = Len(p) - 1 /\ (q = <<>> <=> Len(p) = 1)
           /\ p = Append(q, p[Len(p)]) /\ SubSeq(p, 1, Len(p)) = p
           /\ \A n \in 1 .. Len(p) - 1 : q[n] = p[n] /\ SubSeq(q, 1, n) = SubSeq(p, 1, n)
<1>1. Len(p) \in Nat /\ Len(p) >= 1 /\ \A n \in 1 .. Len(p) : p[n] \in Q
    OBVIOUS
<1>2. PICK q : q = SubSeq(p, 1, Len(p) - 1)
    OBVIOUS
<1>3. q \in Seq(Q) /\ Len(q) = Len(p) - 1 /\ \A n \in 1 .. Len(p) - 1 : q[n] = p[n]
  <2>1. q = [n \in 1 .. Len(p) - 1 |-> p[n]]
      BY <1>1, <1>2
  <2>2. Len(p) - 1 \in Nat /\ \A n \in 1 .. Len(p) - 1 : p[n] \in Q
      BY <1>1
  <2> QED
      BY <2>1, <2>2
<1>4. p = Append(q, p[Len(p)])
    BY <1>1, <1>3
<1>5. SubSeq(p, 1, Len(p)) = p
    BY <1>1
<1>6. ASSUME NEW n \in 1 .. Len(p) - 1
      PROVE  SubSeq(q, 1, n) = SubSeq(p, 1, n)
    BY <1>1, <1>3
<1>7. q = <<>> <=> Len(p) = 1
    BY <1>1, <1>3
<1> QED
    BY <1>1, <1>2, <1>3, <1>4, <1>5, <1>6, <1>7

\* A path is that of the entry above and a name.
LEMMA PathIs ==
    ASSUME NEW Q, NEW p \in Seq(Q), p # <<>>
    PROVE  /\ Len(p) \in Nat /\ Len(p) >= 1 /\ \A n \in 1 .. Len(p) : p[n] \in Q
           /\ Parent(p) \in Seq(Q) /\ Len(Parent(p)) = Len(p) - 1
           /\ p = Append(Parent(p), p[Len(p)]) /\ Prefix(p, Len(p)) = p
           /\ \A n \in 1 .. Len(p) - 1 :
                 Parent(p)[n] = p[n] /\ Prefix(Parent(p), n) = Prefix(p, n)
           /\ Parent(p) = <<>> <=> Len(p) = 1
<1> QED
    BY FrontIs DEF Parent, Prefix

\* The name of the entry at p, and that of its implied case before it.
Name(p) == p[Len(p)]
Names(t, fs, p) == IF NeedsCase(t, fs, p) THEN <<Name(p), Name(p)>> ELSE <<Name(p)>>

\* Where an entry is after FixChoice depends on where the entry above it is.
LEMMA FixedStep ==
    ASSUME NEW t, NEW fs, NEW Q, NEW p \in Seq(Q), p # <<>>
    PROVE  /\ Fixed(t, fs, p) = Fixed(t, fs, Parent(p)) \o Names(t, fs, p)
           /\ Fixed(t, fs, Parent(p)) \in Seq(Q)
           /\ Names(t, fs, p) \in Seq(Q)
<1> DEFINE part(r, n) == IF NeedsCase(t, fs, Prefix(r, n)) THEN <<r[n], r[n]>> ELSE <<r[n]>>
<1>1. PICK q : q = Parent(p) /\ q \in Seq(Q) /\ Len(q) = Len(p) - 1
               /\ \A n \in 1 .. Len(p) - 1 : q[n] = p[n] /\ Prefix(q, n) = Prefix(p, n)
    BY PathIs
<1>2. /\ Len(p) \in Nat /\ Len(p) >= 1 /\ Prefix(p, Len(p)) = p
      /\ \A n \in 1 .. Len(p) : p[n] \in Q
    BY PathIs
<1>3. \A n \in 1 .. Len(p) - 1 : part(q, n) = part(p, n)
    BY <1>1
<1>4. \A n \in 1 .. Len(p) : part(p, n) \in Seq(Q)
  <2> SUFFICES ASSUME NEW n \in 1 .. Len(p) PROVE part(p, n) \in Seq(Q)
      OBVIOUS
  <2>1. PICK x \in Q : x = p[n]
      BY <1>2
  <2>2. <<x>> \in Seq(Q) /\ <<x, x>> \in Seq(Q)
      BY ShortIs
  <2> QED
      BY <2>1, <2>2
<1>5. part(p, Len(p)) = Names(t, fs, p)
    BY <1>2 DEF Names, Name
<1> DEFINE u == [n \in 1 .. Len(q) |-> part(q, n)]
           v == [n \in 1 .. Len(p) |-> part(p, n)]
<1>6. Fixed(t, fs, q) = FlattenSeq(u) /\ Fixed(t, fs, p) = FlattenSeq(v)
    BY DEF Fixed
<1> HIDE DEF part
<1>7. PICK S : S = Seq(Q)
    OBVIOUS
<1>8. u \in Seq(S) /\ v \in Seq(S)
    BY <1>1, <1>2, <1>3, <1>4, <1>7
<1>9. v = Append(u, part(p, Len(p)))
    BY <1>1, <1>2, <1>3, <1>4, <1>7
<1> HIDE DEF u, v
<1>10. part(p, Len(p)) \in Seq(Q)
    BY <1>2, <1>4
<1>11. FlattenSeq(u) \in Seq(Q) /\ FlattenSeq(v) = FlattenSeq(u) \o part(p, Len(p))
    BY <1>7, <1>8, <1>9, <1>10, FlattenAppend
<1> QED
    BY <1>1, <1>5, <1>6, <1>10, <1>11

\* The same of the path in the data tree.
LEMMA DataStep ==
    ASSUME NEW t, NEW Q, NEW p \in Seq(Q), p # <<>>
    PROVE  /\ DataNames(t, p) = DataNames(t, Parent(p)) \o
                  (IF t[p] = "other" THEN <<Name(p)>> ELSE <<>>)
           /\ DataNames(t, Parent(p)) \in Seq(Q)
<1> DEFINE part(r, n) == IF t[Prefix(r, n)] = "other" THEN <<r[n]>> ELSE <<>>
<1>1. PICK q : q = Parent(p) /\ q \in Seq(Q) /\ Len(q) = Len(p) - 1
               /\ \A n \in 1 .. Len(p) - 1 : q[n] = p[n] /\ Prefix(q, n) = Prefix(p, n)
    BY PathIs
<1>2. /\ Len(p) \in Nat /\ Len(p) >= 1 /\ Prefix(p, Len(p)) = p
      /\ \A n \in 1 .. Len(p) : p[n] \in Q
    BY PathIs
<1>3. \A n \in 1 .. Len(p) - 1 : part(q, n) = part(p, n)
    BY <1>1
<1>4. \A n \in 1 .. Len(p) : part(p, n) \in Seq(Q)
  <2> SUFFICES ASSUME NEW n \in 1 .. Len(p) PROVE part(p, n) \in Seq(Q)
      OBVIOUS
  <2>1. PICK x \in Q : x = p[n]
      BY <1>2
  <2>2. <<x>> \in Seq(Q) /\ <<>> \in Seq(Q)
      BY ShortIs
  <2> QED
      BY <2>1, <2>2
<1>5. part(p, Len(p)) = IF t[p] = "other" THEN <<Name(p)>> ELSE <<>>
    BY <1>2 DEF Name
<1> DEFINE u == [n \in 1 .. Len(q) |-> part(q, n)]
           v == [n \in 1 .. Len(p) |-> part(p, n)]
<1>6. DataNames(t, q) = FlattenSeq(u) /\ DataNames(t, p) = FlattenSeq(v)
    BY DEF DataNames
<1> HIDE DEF part
<1>7. PICK S : S = Seq(Q)
    OBVIOUS
<1>8. u \in Seq(S) /\ v \in Seq(S)
    BY <1>1, <1>2, <1>3, <1>4, <1>7
<1>9. v = Append(u, part(p, Len(p)))
    BY <1>1, <1>2, <1>3, <1>4, <1>7
<1> HIDE DEF u, v
<1>10. part(p, Len(p)) \in Seq(Q)
    BY <1>2, <1>4
<1>11. FlattenSeq(u) \in Seq(Q) /\ FlattenSeq(v) = FlattenSeq(u) \o part(p, Len(p))
    BY <1>7, <1>8, <1>9, <1>10, FlattenAppend
<1> QED
    BY <1>1, <1>5, <1>6, <1>11

\* The empty path stays, and has no names in the data tree.
LEMMA EmptyPath ==
    \A t, fs : Fixed(t, fs, <<>>) = <<>> /\ DataNames(t, <<>>) = <<>>
<1>1. \A f : Len([n \in 1 .. Len(<<>>) |-> f[n]]) = 0
    OBVIOUS
<1> QED
    BY DEF Fixed, DataNames, FlattenSeq

-----------------------------------------------------------------------------
(* No two entries come to the same place *)

\* The path of the entry named x directly below p.
Child(p, x) == Append(p, x)
Proper(p) == p # <<>>

\* It belongs to one entry above.
LEMMA ChildOf ==
    ASSUME NEW Q, NEW u \in Seq(Q), NEW v \in Seq(Q), NEW x \in Q, NEW y \in Q,
           Child(u, x) = Child(v, y)
    PROVE  u = v /\ x = y
<1>1. Append(u, x) = Append(v, y)
    BY DEF Child
<1>2. Len(u) \in Nat /\ Len(v) \in Nat /\ Len(u) = Len(v)
    BY <1>1
<1>3. x = y
    BY <1>1, <1>2
<1>4. \A k \in 1 .. Len(u) : u[k] = v[k]
    BY <1>1, <1>2
<1> QED
    BY <1>2, <1>3, <1>4

\* It is a path of an entry.
LEMMA ChildIs ==
    ASSUME NEW Q, NEW S, S = Seq(Q), NEW u \in S, NEW x \in Q
    PROVE  Child(u, x) \in S /\ Proper(Child(u, x))
<1> QED
    BY AppendIs DEF Child, Proper

\* Where an entry comes to: below the one above it, or below its own case.
Placed(t, fs, Q, S, p) ==
    /\ \E above, here, name :
          /\ above \in S /\ here \in S /\ name \in Q
          /\ above = Fixed(t, fs, Parent(p)) /\ name = Name(p) /\ here = Child(above, name)
          /\ p = Child(Parent(p), name)
          /\ Fixed(t, fs, p) = IF NeedsCase(t, fs, p) THEN Child(here, name) ELSE here
    /\ Fixed(t, fs, p) \in S /\ Proper(Fixed(t, fs, p))

LEMMA FixedIs ==
    ASSUME NEW t, NEW fs, NEW Q, NEW S, S = Seq(Q), NEW p \in S, Proper(p)
    PROVE  Placed(t, fs, Q, S, p)
<1>1. PICK u, x : /\ u = Fixed(t, fs, Parent(p)) /\ x = Name(p) /\ p = Child(Parent(p), x)
                  /\ u \in S /\ x \in Q
    BY FixedStep, PathIs DEF Name, Child, Proper
<1>2. PICK h : h = Child(u, x)
    OBVIOUS
<1>3. h \in S /\ Proper(h)
    BY <1>1, <1>2, ChildIs
<1>4. Child(h, x) \in S /\ Proper(Child(h, x))
    BY <1>1, <1>3, ChildIs
<1>5. Fixed(t, fs, p) = u \o (IF NeedsCase(t, fs, p) THEN <<x, x>> ELSE <<x>>)
    BY <1>1, FixedStep DEF Names, Proper
<1>6. u \o <<x>> = Append(u, x)
    BY <1>1
<1>7. u \o <<x, x>> = Append(Append(u, x), x)
    BY <1>1
<1>8. Fixed(t, fs, p) = IF NeedsCase(t, fs, p) THEN Child(h, x) ELSE h
    BY <1>2, <1>5, <1>6, <1>7 DEF Child
<1> QED
    BY <1>1, <1>2, <1>3, <1>4, <1>8 DEF Placed

\* q comes to where p does, or to the case of an entry directly below p.
Meets(t, fs, p, q) ==
    \/ p # q /\ Fixed(t, fs, p) = Fixed(t, fs, q)
    \/ \E c \in DOMAIN t :
          /\ Parent(c) = p /\ NeedsCase(t, fs, c)
          /\ Fixed(t, fs, q) = Child(Fixed(t, fs, p), Name(c))

\* Two that meet are below two that meet.
LEMMA MeetAbove ==
    ASSUME NEW t, NEW fs, NEW Q, NEW S, S = Seq(Q), \A r \in DOMAIN t : r \in S /\ Proper(r),
           NEW p \in DOMAIN t \cup {<<>>}, NEW q \in DOMAIN t \cup {<<>>},
           Meets(t, fs, p, q)
    PROVE  /\ q # <<>>
           /\ \/ Meets(t, fs, p, Parent(q)) \/ Meets(t, fs, Parent(q), p)
              \/ p # <<>> /\ (Meets(t, fs, Parent(p), Parent(q)) \/ Meets(t, fs, Parent(q), Parent(p)))
<1>1. Fixed(t, fs, <<>>) = <<>> /\ <<>> \in S /\ ~ Proper(<<>>)
    BY EmptyPath DEF Proper
<1>2. \A u, v \in S : \A x, y \in Q :
         Proper(Child(u, x)) /\ (Child(u, x) = Child(v, y) => u = v /\ x = y)
  <2>1. \A u \in S : \A x \in Q : Proper(Child(u, x))
      BY ChildIs
  <2>2. \A u, v \in S : \A x, y \in Q : Child(u, x) = Child(v, y) => u = v /\ x = y
      BY ChildOf
  <2> QED
      BY <2>1, <2>2
<1>3. \A r \in DOMAIN t : Placed(t, fs, Q, S, r)
    BY FixedIs
<1>4. \A r \in DOMAIN t : Fixed(t, fs, r) \in S /\ Proper(Fixed(t, fs, r))
    BY <1>3 DEF Placed
<1>5. CASE p # q /\ Fixed(t, fs, p) = Fixed(t, fs, q)
  <2>1. p \in DOMAIN t /\ q \in DOMAIN t
      BY <1>1, <1>4, <1>5
  <2>2. PICK u, a, x :
            /\ u \in S /\ a \in S /\ x \in Q
            /\ u = Fixed(t, fs, Parent(p)) /\ x = Name(p) /\ a = Child(u, x)
            /\ p = Child(Parent(p), x)
            /\ Fixed(t, fs, p) = IF NeedsCase(t, fs, p) THEN Child(a, x) ELSE a
      BY <2>1, <1>3 DEF Placed
  <2>3. PICK v, b, y :
            /\ v \in S /\ b \in S /\ y \in Q
            /\ v = Fixed(t, fs, Parent(q)) /\ y = Name(q) /\ b = Child(v, y)
            /\ q = Child(Parent(q), y)
            /\ Fixed(t, fs, q) = IF NeedsCase(t, fs, q) THEN Child(b, y) ELSE b
      BY <2>1, <1>3 DEF Placed
  <2>4. CASE NeedsCase(t, fs, p) /\ ~ NeedsCase(t, fs, q)
    <3>1. Child(a, x) = Child(v, y)
        BY <1>5, <2>2, <2>3, <2>4
    <3>2. v = a
        BY <2>2, <2>3, <3>1, <1>2
    <3>3. Meets(t, fs, Parent(p), Parent(q))
        BY <2>1, <2>2, <2>3, <2>4, <3>2 DEF Meets
    <3> QED
        BY <1>1, <1>4, <2>1, <3>3
  <2>5. CASE ~ NeedsCase(t, fs, p) /\ NeedsCase(t, fs, q)
    <3>1. Child(b, y) = Child(u, x)
        BY <1>5, <2>2, <2>3, <2>5
    <3>2. u = b
        BY <2>2, <2>3, <3>1, <1>2
    <3>3. Meets(t, fs, Parent(q), Parent(p))
        BY <2>1, <2>2, <2>3, <2>5, <3>2 DEF Meets
    <3> QED
        BY <1>1, <1>4, <2>1, <3>3
  <2>6. CASE NeedsCase(t, fs, p) <=> NeedsCase(t, fs, q)
    <3>1. a = b
      <4>1. CASE NeedsCase(t, fs, p)
        <5>1. Child(a, x) = Child(b, y)
            BY <1>5, <2>2, <2>3, <2>6, <4>1
        <5> QED
            BY <2>2, <2>3, <5>1, <1>2
      <4>2. CASE ~ NeedsCase(t, fs, p)
          BY <1>5, <2>2, <2>3, <2>6, <4>2
      <4> QED
          BY <4>1, <4>2
    <3>2. Child(u, x) = Child(v, y)
        BY <2>2, <2>3, <3>1
    <3>3. u = v /\ x = y
        BY <2>2, <2>3, <3>2, <1>2
    <3>4. Parent(p) # Parent(q)
        BY <1>5, <2>2, <2>3, <3>3
    <3>5. Meets(t, fs, Parent(p), Parent(q))
        BY <2>2, <2>3, <3>3, <3>4 DEF Meets
    <3> QED
        BY <1>1, <1>4, <2>1, <3>5
  <2> QED
      BY <2>4, <2>5, <2>6
<1>6. ASSUME NEW c \in DOMAIN t, Parent(c) = p, NeedsCase(t, fs, c),
             Fixed(t, fs, q) = Child(Fixed(t, fs, p), Name(c))
      PROVE  q # <<>> /\ (Meets(t, fs, p, Parent(q)) \/ Meets(t, fs, Parent(q), p))
  <2>1. PICK w, z : /\ w = Fixed(t, fs, p) /\ z = Name(c) /\ w \in S /\ z \in Q
                    /\ c = Child(p, z)
    <3>1. Fixed(t, fs, p) \in S
        BY <1>1, <1>4
    <3> QED
        BY <1>6, <3>1, <1>3 DEF Placed
  <2>2. Fixed(t, fs, q) = Child(w, z)
      BY <1>6, <2>1
  <2>3. q \in DOMAIN t
      BY <1>1, <2>1, <2>2, <1>2
  <2>4. PICK v, b, y :
            /\ v \in S /\ b \in S /\ y \in Q
            /\ v = Fixed(t, fs, Parent(q)) /\ y = Name(q) /\ b = Child(v, y)
            /\ q = Child(Parent(q), y)
            /\ Fixed(t, fs, q) = IF NeedsCase(t, fs, q) THEN Child(b, y) ELSE b
      BY <2>3, <1>3 DEF Placed
  <2>5. CASE NeedsCase(t, fs, q)
    <3>1. Child(b, y) = Child(w, z)
        BY <2>2, <2>4, <2>5
    <3>2. w = b
        BY <2>1, <2>4, <3>1, <1>2
    <3>3. Meets(t, fs, Parent(q), p)
        BY <2>1, <2>3, <2>4, <2>5, <3>2 DEF Meets
    <3> QED
        BY <1>1, <1>4, <2>3, <3>3
  <2>6. CASE ~ NeedsCase(t, fs, q)
    <3>1. Child(v, y) = Child(w, z)
        BY <2>2, <2>4, <2>6
    <3>2. v = w /\ y = z
        BY <2>1, <2>4, <3>1, <1>2
    <3>3. p # Parent(q)
        BY <1>6, <2>1, <2>4, <2>6, <3>2
    <3>4. Meets(t, fs, p, Parent(q))
        BY <2>1, <2>4, <3>2, <3>3 DEF Meets
    <3> QED
        BY <1>1, <1>4, <2>3, <3>4
  <2> QED
      BY <2>5, <2>6
<1> QED
    BY <1>5, <1>6, <1>1, <1>4 DEF Meets

\* So none meet: entries stay apart, and no entry is taken for an implied case.
LEMMA NoneMeet ==
    ASSUME NEW t, NEW fs, IsTree(t), NEW p \in DOMAIN t \cup {<<>>}, NEW q \in DOMAIN t \cup {<<>>}
    PROVE  ~ Meets(t, fs, p, q)
<1> DEFINE D == DOMAIN t \cup {<<>>}
           T == {n \in Nat : \E r, s \in D : n = Len(r) + Len(s) /\ Meets(t, fs, r, s)}
<1>1. PICK Q : Q = STRING
    OBVIOUS
<1>2. \A r \in DOMAIN t : r \in Seq(Q) /\ r # <<>> /\ (Len(r) > 1 => Parent(r) \in DOMAIN t)
    BY <1>1 DEF IsTree
<1>3. \A r \in D : Len(r) \in Nat
    BY <1>2
<1>4. \A r \in D : r # <<>> => Parent(r) \in D /\ Len(Parent(r)) = Len(r) - 1
  <2> SUFFICES ASSUME NEW r \in D, r # <<>>
               PROVE  Parent(r) \in D /\ Len(Parent(r)) = Len(r) - 1
      OBVIOUS
  <2>1. /\ Len(Parent(r)) = Len(r) - 1 /\ Len(r) >= 1 /\ Len(r) \in Nat
        /\ Len(r) = 1 => Parent(r) = <<>>
      BY <1>2, PathIs
  <2> QED
      BY <1>2, <2>1
<1>5. T = {}
  <2> SUFFICES ASSUME T # {} PROVE FALSE
      OBVIOUS
  <2>1. PICK n \in T : \A k \in T : n <= k
    <3>1. T \subseteq Nat
        OBVIOUS
    <3> HIDE DEF T
    <3> QED
        BY <3>1, LeastNatural
  <2>2. PICK r \in D, s \in D : n = Len(r) + Len(s) /\ Meets(t, fs, r, s)
      BY <2>1
  <2>3. \A u, v \in D : Meets(t, fs, u, v) => ~ (Len(u) + Len(v) < n)
    <3> SUFFICES ASSUME NEW u \in D, NEW v \in D, Meets(t, fs, u, v), Len(u) + Len(v) < n
                 PROVE  FALSE
        OBVIOUS
    <3>1. Len(u) + Len(v) \in Nat /\ n \in Nat
        BY <1>3, <2>1
    <3>2. Len(u) + Len(v) \in T
        BY <3>1
    <3> QED
        BY <2>1, <3>1, <3>2
  <2> HIDE DEF T
  <2>4. /\ s # <<>>
        /\ \/ Meets(t, fs, r, Parent(s)) \/ Meets(t, fs, Parent(s), r)
           \/ r # <<>> /\ (Meets(t, fs, Parent(r), Parent(s)) \/ Meets(t, fs, Parent(s), Parent(r)))
    <3>1. PICK S : S = Seq(Q)
        OBVIOUS
    <3>2. \A u \in DOMAIN t : u \in S /\ Proper(u)
        BY <1>2, <3>1 DEF Proper
    <3> QED
        BY <2>2, <3>1, <3>2, MeetAbove
  <2>5. /\ Len(r) \in Nat /\ Len(s) \in Nat /\ Parent(s) \in D /\ Len(Parent(s)) = Len(s) - 1
        /\ r # <<>> => Parent(r) \in D /\ Len(Parent(r)) = Len(r) - 1
      BY <1>3, <1>4, <2>4
  <2>6. CASE Meets(t, fs, r, Parent(s)) \/ Meets(t, fs, Parent(s), r)
      BY <2>2, <2>3, <2>5, <2>6
  <2>7. CASE r # <<>> /\ (Meets(t, fs, Parent(r), Parent(s)) \/ Meets(t, fs, Parent(s), Parent(r)))
      BY <2>2, <2>3, <2>5, <2>7
  <2> QED
      BY <2>4, <2>6, <2>7
<1> QED
  <2>1. Len(p) + Len(q) \in Nat
      BY <1>3
  <2> QED
      BY <1>5, <2>1

-----------------------------------------------------------------------------
(* What FixChoice makes of a tree *)

\* The path above a child.
LEMMA ParentOf ==
    ASSUME NEW Q, NEW u \in Seq(Q), NEW x \in Q
    PROVE  Parent(Child(u, x)) = u /\ Name(Child(u, x)) = x
<1>1. PICK p : p = Append(u, x)
    OBVIOUS
<1>2. p \in Seq(Q) /\ p # <<>> /\ Len(p) = Len(u) + 1 /\ p[Len(u) + 1] = x
    BY <1>1, AppendIs
<1>3. Parent(p) \in Seq(Q) /\ Len(Parent(p)) = Len(u) /\ \A n \in 1 .. Len(u) : Parent(p)[n] = p[n]
  <2>1. Len(u) \in Nat /\ Len(p) - 1 = Len(u)
      BY <1>2
  <2> QED
      BY <1>2, <2>1, PathIs
<1>4. \A n \in 1 .. Len(u) : u[n] = p[n]
    BY <1>1, AppendIs
<1>5. Parent(p) = u
    BY <1>3, <1>4
<1> QED
    BY <1>1, <1>2, <1>5 DEF Child, Name

\* An entry of a tree is a child of the entry above it, or of none.
LEMMA EntryIs ==
    ASSUME NEW t, NEW fs, IsTree(t), NEW p \in DOMAIN t, NEW S, S = Seq(STRING)
    PROVE  /\ Parent(p) \in DOMAIN t \cup {<<>>} /\ Len(p) \in Nat /\ Len(Parent(p)) = Len(p) - 1
           /\ p \in S /\ p # <<>> /\ (Len(p) > 1 <=> Parent(p) # <<>>)
           /\ Fixed(t, fs, Parent(p)) \in S /\ Name(p) \in STRING
           /\ Child(Fixed(t, fs, Parent(p)), Name(p)) \in S
           /\ ~ NeedsCase(t, fs, p) =>
                 /\ Fixed(t, fs, p) = Child(Fixed(t, fs, Parent(p)), Name(p))
                 /\ Parent(Fixed(t, fs, p)) = Fixed(t, fs, Parent(p))
           /\ NeedsCase(t, fs, p) =>
                 /\ Parent(Fixed(t, fs, p)) = Child(Fixed(t, fs, Parent(p)), Name(p))
                 /\ Fixed(t, fs, p) = Child(Parent(Fixed(t, fs, p)), Name(p))
                 /\ Parent(p) \in DOMAIN t
<1>1. p \in S /\ p # <<>> /\ (Len(p) > 1 => Parent(p) \in DOMAIN t)
    BY DEF IsTree
<1>2. Len(p) \in Nat /\ Len(p) >= 1 /\ Len(Parent(p)) = Len(p) - 1 /\ (Parent(p) = <<>> <=> Len(p) = 1)
    BY <1>1, PathIs
<1>3. Parent(p) \in DOMAIN t \cup {<<>>} /\ (Len(p) > 1 <=> Parent(p) # <<>>)
    BY <1>1, <1>2
<1>4. PICK u, h, x :
          /\ u \in S /\ h \in S /\ x \in STRING
          /\ u = Fixed(t, fs, Parent(p)) /\ x = Name(p) /\ h = Child(u, x)
          /\ Fixed(t, fs, p) = IF NeedsCase(t, fs, p) THEN Child(h, x) ELSE h
    BY <1>1, FixedIs DEF Proper, Placed
<1>5. Parent(Child(u, x)) = u /\ Parent(Child(h, x)) = h
    BY <1>4, ParentOf
<1>6. NeedsCase(t, fs, p) => Len(p) > 1
    BY DEF NeedsCase, Shorthand
<1> QED
    BY <1>1, <1>2, <1>3, <1>4, <1>5, <1>6

\* Every entry keeps its kind, and above those that need one there is a case.
LEMMA CasesAre ==
    ASSUME NEW t, NEW fs, IsTree(t)
    PROVE  LET u == WithCases(t, fs) IN
           /\ DOMAIN u = {Fixed(t, fs, p) : p \in DOMAIN t}
                  \cup {Parent(Fixed(t, fs, p)) : p \in {q \in DOMAIN t : NeedsCase(t, fs, q)}}
           /\ \A p \in DOMAIN t : u[Fixed(t, fs, p)] = t[p]
           /\ \A p \in DOMAIN t : NeedsCase(t, fs, p) => u[Parent(Fixed(t, fs, p))] = "case"
<1> DEFINE F(p) == Fixed(t, fs, p)
           C == Cases(t, fs)
           From(q) == CHOOSE p \in DOMAIN t : F(p) = q
           M == {F(p) : p \in DOMAIN t}
<1>1. PICK u : u = WithCases(t, fs)
    OBVIOUS
<1>2. u = [q \in M \cup C |-> IF q \in C THEN "case" ELSE t[From(q)]]
    BY <1>1 DEF WithCases
<1>3. C = {Parent(F(p)) : p \in {q \in DOMAIN t : NeedsCase(t, fs, q)}}
    BY DEF Cases
<1>4. ASSUME NEW p \in DOMAIN t, F(p) \in C
      PROVE  FALSE
  <2>1. PICK c \in DOMAIN t : NeedsCase(t, fs, c) /\ F(p) = Parent(F(c))
      BY <1>3, <1>4
  <2>2. PICK S : S = Seq(STRING)
      OBVIOUS
  <2>3. F(p) = Child(F(Parent(c)), Name(c)) /\ Parent(c) \in DOMAIN t
      BY <2>1, <2>2, EntryIs
  <2>4. Meets(t, fs, Parent(c), p)
      BY <2>1, <2>3 DEF Meets
  <2> QED
      BY <2>3, <2>4, NoneMeet
<1>5. ASSUME NEW p \in DOMAIN t
      PROVE  From(F(p)) = p
  <2>1. From(F(p)) \in DOMAIN t /\ F(From(F(p))) = F(p)
      OBVIOUS
  <2> QED
      BY <2>1, NoneMeet DEF Meets
<1> HIDE DEF F, C, From
<1>6. ASSUME NEW p \in DOMAIN t
      PROVE  u[F(p)] = t[p]
    BY <1>2, <1>4, <1>5
<1>7. \A q \in C : u[q] = "case"
    BY <1>2
<1>8. DOMAIN u = M \cup C
    BY <1>2
<1> QED
    BY <1>1, <1>3, <1>6, <1>7, <1>8 DEF F

\* Joining nothing.
LEMMA JoinNothing ==
    ASSUME NEW Q, NEW u \in Seq(Q)
    PROVE  u \o <<>> = u
<1> QED
    OBVIOUS

\* An entry has the names in the data tree it had before.
LEMMA SameNames ==
    ASSUME NEW t, NEW fs, IsTree(t), NEW p \in DOMAIN t \cup {<<>>}
    PROVE  DataNames(WithCases(t, fs), Fixed(t, fs, p)) = DataNames(t, p)
<1> DEFINE F(r) == Fixed(t, fs, r)
           D == DOMAIN t \cup {<<>>}
           Differ(r) == DataNames(WithCases(t, fs), F(r)) # DataNames(t, r)
           T == {n \in Nat : \E r \in D : n = Len(r) /\ Differ(r)}
<1>1. PICK u : u = WithCases(t, fs)
    OBVIOUS
<1>2. PICK Q, S : Q = STRING /\ S = Seq(Q)
    OBVIOUS
<1>3. /\ \A r \in DOMAIN t : u[F(r)] = t[r]
      /\ \A r \in DOMAIN t : NeedsCase(t, fs, r) => u[Parent(F(r))] = "case"
    BY <1>1, CasesAre
<1>4. \A r \in D : Len(r) \in Nat
    BY <1>2, EntryIs
<1>5. T = {}
  <2> SUFFICES ASSUME T # {} PROVE FALSE
      OBVIOUS
  <2>1. PICK n \in T : \A k \in T : n <= k
    <3>1. T \subseteq Nat
        OBVIOUS
    <3> HIDE DEF T
    <3> QED
        BY <3>1, LeastNatural
  <2>2. PICK r \in D : n = Len(r) /\ Differ(r)
      BY <2>1
  <2>3. r \in DOMAIN t
      BY <2>2, EmptyPath
  <2>4. PICK q : q = Parent(r)
      OBVIOUS
  <2>5. /\ q \in D /\ n \in Nat /\ Len(q) = n - 1 /\ r \in S /\ r # <<>>
        /\ F(q) \in S /\ Name(r) \in Q /\ Child(F(q), Name(r)) \in S
        /\ ~ NeedsCase(t, fs, r) => F(r) = Child(F(q), Name(r)) /\ Parent(F(r)) = F(q)
        /\ NeedsCase(t, fs, r) =>
              Parent(F(r)) = Child(F(q), Name(r)) /\ F(r) = Child(Parent(F(r)), Name(r))
      BY <1>2, <2>2, <2>3, <2>4, EntryIs
  <2>6. DataNames(u, F(q)) = DataNames(t, q)
    <3>1. n - 1 \in Nat /\ ~ (n <= n - 1)
        BY <1>4, <2>5
    <3>2. n - 1 \notin T
        BY <2>1, <3>1
    <3> QED
        BY <1>1, <2>5, <3>1, <3>2
  <2> DEFINE own(k, x) == IF k = "other" THEN <<x>> ELSE <<>>
  <2>7. ASSUME NEW a \in S, NEW x \in Q, NEW h, h = Child(a, x)
        PROVE  DataNames(u, h) = DataNames(u, a) \o own(u[h], x) /\ DataNames(u, a) \in S
    <3>1. h \in Seq(Q) /\ h # <<>> /\ Parent(h) = a /\ Name(h) = x
      <4>1. a \in Seq(Q) /\ x \in Q
          BY <1>2
      <4>2. Child(a, x) \in S /\ Child(a, x) # <<>>
          BY <1>2, <4>1, ChildIs DEF Proper
      <4>3. Parent(Child(a, x)) = a /\ Name(Child(a, x)) = x
          BY <4>1, ParentOf
      <4> QED
          BY <1>2, <2>7, <4>2, <4>3
    <3>2. /\ DataNames(u, h) = DataNames(u, Parent(h)) \o (IF u[h] = "other" THEN <<Name(h)>> ELSE <<>>)
          /\ DataNames(u, Parent(h)) \in Seq(Q)
        BY <3>1, DataStep
    <3> QED
        BY <1>2, <3>1, <3>2
  <2>8. DataNames(t, r) = DataNames(t, q) \o own(t[r], Name(r))
    <3>1. r \in Seq(Q)
        BY <1>2, <2>5
    <3> QED
        BY <2>4, <2>5, <3>1, DataStep
  <2> HIDE DEF own
  <2>9. DataNames(u, F(r)) = DataNames(u, F(q)) \o own(t[r], Name(r))
    <3>1. CASE ~ NeedsCase(t, fs, r)
        BY <1>3, <2>3, <2>5, <2>7, <3>1
    <3>2. CASE NeedsCase(t, fs, r)
      <4>1. PICK h : h = Parent(F(r))
          OBVIOUS
      <4>2. h \in S /\ h = Child(F(q), Name(r)) /\ F(r) = Child(h, Name(r)) /\ u[h] = "case"
          BY <1>3, <2>3, <2>5, <3>2, <4>1
      <4>3. DataNames(u, h) = DataNames(u, F(q)) \o own("case", Name(r)) /\ DataNames(u, F(q)) \in S
          BY <2>5, <2>7, <4>2
      <4>4. own("case", Name(r)) = <<>>
          BY DEF own
      <4>5. DataNames(u, h) = DataNames(u, F(q))
          BY <1>2, <4>3, <4>4, JoinNothing
      <4>6. DataNames(u, F(r)) = DataNames(u, h) \o own(u[F(r)], Name(r))
          BY <2>5, <2>7, <4>2
      <4> QED
          BY <1>3, <2>3, <4>5, <4>6
    <3> QED
        BY <3>1, <3>2
  <2> QED
      BY <1>1, <2>2, <2>6, <2>8, <2>9
<1> QED
  <2>1. Len(p) \in Nat
      BY <1>4
  <2> QED
      BY <1>5, <2>1

-----------------------------------------------------------------------------
(* The trees of a run *)

\* A path below another.
LEMMA BelowIs ==
    ASSUME NEW Q, NEW b \in Seq(Q), NEW p \in Seq(Q), p # <<>>
    PROVE  /\ b \o p \in Seq(Q) /\ b \o p # <<>>
           /\ Parent(b \o p) = IF Len(p) > 1 THEN b \o Parent(p) ELSE b
           /\ Len(p) > 1 => Parent(p) \in Seq(Q) /\ Parent(p)[1] = p[1]
<1>1. PICK u, x : u = Parent(p) /\ u \in Seq(Q) /\ x \in Q /\ p = Append(u, x)
                  /\ Len(u) = Len(p) - 1 /\ (u = <<>> <=> Len(p) = 1) /\ Len(p) \in Nat /\ Len(p) >= 1
                  /\ \A n \in 1 .. Len(p) - 1 : u[n] = p[n]
    BY PathIs
<1>2. PICK c : c = b \o u
    OBVIOUS
<1>3. c \in Seq(Q)
    BY <1>1, <1>2
<1>4. b \o p = Append(c, x)
    BY <1>1, <1>2
<1>5. Append(c, x) \in Seq(Q) /\ Append(c, x) # <<>>
    BY <1>1, <1>3, AppendIs
<1>6. Parent(Append(c, x)) = c
    BY <1>1, <1>3, ParentOf DEF Child
<1>7. CASE Len(p) > 1
  <2>1. u[1] = p[1]
      BY <1>1, <1>7
  <2> QED
      BY <1>1, <1>2, <1>4, <1>5, <1>6, <1>7, <2>1
<1>8. CASE ~ (Len(p) > 1)
  <2>1. u = <<>>
      BY <1>1, <1>8
  <2>2. c = b
      BY <1>2, <2>1, JoinNothing
  <2> QED
      BY <1>4, <1>5, <1>6, <1>8, <2>2
<1> QED
    BY <1>7, <1>8

\* Merging into an entry of a tree makes a tree.
LEMMA MergedTree ==
    ASSUME NEW t, IsTree(t), NEW a \in Aug, Target[a] \in DOMAIN t
    PROVE  IsTree(Merged(t, a))
<1>1. DOMAIN Merged(t, a) = DOMAIN t \cup Added(t, a)
    BY DEF Merged
<1>2. PICK Q : Q = STRING
    OBVIOUS
<1>3. /\ Target[a] \in Seq(Q)
      /\ \A p \in DOMAIN t : p \in Seq(Q) /\ p # <<>> /\ (Len(p) > 1 => Parent(p) \in DOMAIN t)
      /\ \A p \in DOMAIN Adds[a] :
            p \in Seq(Q) /\ p # <<>> /\ (Len(p) > 1 => Parent(p) \in DOMAIN Adds[a])
    BY <1>2, TreeAssumption DEF IsTree
<1>4. ASSUME NEW q \in Added(t, a)
      PROVE  q \in Seq(Q) /\ q # <<>> /\ Parent(q) \in DOMAIN t \cup Added(t, a)
  <2>1. PICK p \in DOMAIN Adds[a] : p \notin Clashes(t, a) /\ q = Target[a] \o p
      BY <1>4 DEF Added
  <2>2. p \in Seq(Q) /\ p # <<>> /\ (Len(p) > 1 => Parent(p) \in DOMAIN Adds[a])
      BY <1>3
  <2>3. /\ q \in Seq(Q) /\ q # <<>>
        /\ Parent(q) = IF Len(p) > 1 THEN Target[a] \o Parent(p) ELSE Target[a]
        /\ Len(p) > 1 => Parent(p)[1] = p[1]
    <3>1. PICK b : b = Target[a] /\ b \in Seq(Q)
        BY <1>3
    <3>2. /\ b \o p \in Seq(Q) /\ b \o p # <<>>
          /\ Parent(b \o p) = IF Len(p) > 1 THEN b \o Parent(p) ELSE b
          /\ Len(p) > 1 => Parent(p)[1] = p[1]
        BY <2>2, <3>1, BelowIs
    <3> QED
        BY <2>1, <3>1, <3>2
  <2>4. CASE Len(p) > 1
    <3>1. Parent(p) \in DOMAIN Adds[a] \ Clashes(t, a)
        BY <2>1, <2>2, <2>3, <2>4 DEF Clashes
    <3> QED
        BY <2>3, <2>4, <3>1 DEF Added
  <2>5. CASE ~ (Len(p) > 1)
      BY <2>3, <2>5
  <2> QED
      BY <2>3, <2>4, <2>5
<1>5. \A q \in DOMAIN t \cup Added(t, a) :
         q \in Seq(Q) /\ q # <<>> /\ (Len(q) > 1 => Parent(q) \in DOMAIN t \cup Added(t, a))
    BY <1>3, <1>4
<1> QED
    BY <1>1, <1>2, <1>5 DEF IsTree

\* What FixChoice is called on is a tree.
TreeInv == phase \in {"augment", "fix"} => IsTree(tree)

LEMMA TreeInvCorrect == Spec => []TreeInv
<1>1. Init => TreeInv
    BY TreeAssumption DEF Init, TreeInv
<1>2. Inv /\ TreeInv /\ [Next]_vars => TreeInv'
  <2> SUFFICES ASSUME Inv, TreeInv, [Next]_vars
               PROVE  TreeInv'
      OBVIOUS
  <2>1. CASE Augment
      BY <2>1 DEF Augment, treeVars, TreeInv
  <2>2. CASE Apply
    <3> SUFFICES ASSUME phase' \in {"augment", "fix"} PROVE IsTree(tree')
        BY DEF TreeInv
    <3>1. IsTree(tree)
        BY <2>2 DEF Apply, TreeInv
    <3>2. Head(queue) \in Aug
        BY <2>2, HeadTail DEF Apply, Inv, TypeInv
    <3>3. Target[Head(queue)] \in DOMAIN tree /\ tree' = Merged(tree, Head(queue))
        BY <2>2 DEF Apply, Found
    <3> QED
        BY <3>1, <3>2, <3>3, MergedTree
  <2>3. CASE Skip
      BY <2>3 DEF Skip, TreeInv
  <2>4. CASE Return
      BY <2>4 DEF Return, treeVars, TreeInv
  <2>5. CASE EndPass
      BY <2>5 DEF EndPass, treeVars, TreeInv
  <2>6. CASE FixChoice
      BY <2>6 DEF FixChoice, TreeInv
  <2>7. CASE Finish
      BY <2>7 DEF Finish, TreeInv
  <2>8. CASE UNCHANGED vars
      BY <2>8 DEF vars, treeVars, TreeInv
  <2> QED
      BY <2>1, <2>2, <2>3, <2>4, <2>5, <2>6, <2>7, <2>8 DEF Next
<1> QED
    BY <1>1, <1>2, InvCorrect, PTL DEF Spec

\* FixChoice leaves choices without errors only cases, and the data tree as it was.
LEMMA FixStep ==
    ASSUME IsTree(tree), FixChoice
    PROVE  (\A p \in DOMAIN tree' : Normal(p)') /\ DataTree(tree') = DataTree(tree)
<1> DEFINE F(p) == Fixed(tree, faults, p)
           Needs(p) == NeedsCase(tree, faults, p)
<1>1. tree' = WithCases(tree, faults) /\ faults' = {<<F(f[1]), f[2]>> : f \in faults}
    BY DEF FixChoice
<1>2. /\ DOMAIN tree' = {F(p) : p \in DOMAIN tree} \cup {Parent(F(p)) : p \in {q \in DOMAIN tree : Needs(q)}}
      /\ \A p \in DOMAIN tree : tree'[F(p)] = tree[p]
      /\ \A p \in DOMAIN tree : Needs(p) => tree'[Parent(F(p))] = "case"
    BY <1>1, CasesAre
<1>3. PICK S : S = Seq(STRING)
    OBVIOUS
<1>4. ASSUME NEW q \in DOMAIN tree', Shorthand(tree, q)'
      PROVE  Faulty(faults, Parent(q))'
  <2>1. tree'[q] # "case" /\ Len(q) > 1 /\ tree'[Parent(q)] = "choice"
      BY <1>4 DEF Shorthand
  <2>2. PICK p \in DOMAIN tree : q = F(p) /\ tree'[q] = tree[p]
      BY <1>2, <2>1
  <2>3. ~ Needs(p)
      BY <1>2, <2>1, <2>2
  <2>4. Parent(q) = F(Parent(p)) /\ Parent(p) \in DOMAIN tree \cup {<<>>}
        /\ (Len(p) > 1 <=> Parent(p) # <<>>)
      BY <1>3, <2>2, <2>3, EntryIs
  <2>5. Parent(p) # <<>>
    <3> SUFFICES ASSUME Parent(p) = <<>> PROVE FALSE
        OBVIOUS
    <3>1. q = Child(<<>>, Name(p))
        BY <1>3, <2>2, <2>3, EntryIs, EmptyPath
    <3>2. Len(q) = 1
        BY <3>1 DEF Child
    <3> QED
        BY <2>1, <3>2
  <2>6. Parent(p) \in DOMAIN tree /\ tree[Parent(p)] = "choice" /\ Len(p) > 1 /\ tree[p] # "case"
      BY <1>2, <2>1, <2>2, <2>4, <2>5
  <2>7. Faulty(faults, Parent(p))
      BY <2>3, <2>6 DEF NeedsCase, Shorthand
  <2>8. PICK f \in faults : f[1] = Parent(p)
      BY <2>7 DEF Faulty
  <2>9. <<F(f[1]), f[2]>> \in faults' /\ F(f[1]) = Parent(q)
      BY <1>1, <2>4, <2>8
  <2> QED
      BY <2>9 DEF Faulty
<1>5. \A p \in DOMAIN tree : DataNames(tree', F(p)) = DataNames(tree, p)
    BY <1>1, SameNames
<1>6. {q \in DOMAIN tree' : tree'[q] = "other"} = {F(p) : p \in {r \in DOMAIN tree : tree[r] = "other"}}
    BY <1>2
<1>7. DataTree(tree') = DataTree(tree)
    BY <1>5, <1>6 DEF DataTree
<1> QED
    BY <1>4, <1>7 DEF Normal

\* For every tree: FixChoice gives every choice without errors nothing but cases, however
\* deep choices nest in shorthand cases, and moves no node of the data tree.
THEOREM ChoicesFixedCorrect == Spec => ChoicesFixed
<1> DEFINE Step == phase = "fix" => /\ \A p \in DOMAIN tree' : Normal(p)'
                                    /\ DataTree(tree') = DataTree(tree)
<1>1. ASSUME Inv, TreeInv, Next
      PROVE  Step
  <2> SUFFICES ASSUME phase = "fix"
               PROVE  (\A p \in DOMAIN tree' : Normal(p)') /\ DataTree(tree') = DataTree(tree)
      OBVIOUS
  <2>1. m = None /\ queue = <<>>
      BY <1>1 DEF Inv, CallInv
  <2>2. FixChoice
      BY <1>1, <2>1 DEF Next, Augment, Apply, Skip, Return, EndPass, Finish
  <2>3. IsTree(tree)
      BY <1>1 DEF TreeInv
  <2> QED
      BY <2>2, <2>3, FixStep
<1>2. Inv /\ TreeInv /\ [Next]_vars => [Step]_vars
    BY <1>1
<1> QED
    BY <1>2, InvCorrect, TreeInvCorrect, PTL DEF Spec, ChoicesFixed
=============================================================================
