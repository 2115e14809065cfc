---------------------------- MODULE Augmentation ----------------------------
(***************************************************************************)
(* The second half of Modules.Process (pkg/yang/modules.go), which starts  *)
(* when every module and submodule has an entry without errors: passes     *)
(* over all modules that apply the augments whose targets exist (Augment   *)
(* in pkg/yang/entry.go) until a pass makes no progress, FixChoice on      *)
(* every module, and a last round over the modules with augments left,     *)
(* whose errors are collected.                                             *)
(*                                                                         *)
(* Maps are walked in no particular order, and a module of a revision is   *)
(* in ms.Modules under two keys, so that it is visited twice a pass.       *)
(***************************************************************************)
EXTENDS SchemaTree

CONSTANTS
    Mod,        \* the modules and submodules
    Orders,     \* the orders in which Go's maps may yield them
    Written,    \* the augment statements to consider: functions to sequences
    None        \* no module

Elements(s) == {s[k] : k \in DOMAIN s}

\* Every known module is visited, some of them twice.
ASSUME OrderAssumption == \A o \in Orders : o \in Seq(Mod) /\ Mod \subseteq Elements(o)

\* A statement is written in one place.
ASSUME WrittenAssumption ==
    \A f \in Written :
        /\ f \in [Mod -> Seq(Aug)]
        /\ \A x, y \in Mod : \A j \in DOMAIN f[x], k \in DOMAIN f[y] :
               f[x][j] = f[y][k] => x = y /\ j = k

ASSUME NoModuleAssumption == None \notin Mod

VARIABLES
    tree,       \* the entries of all modules
    faults,     \* pairs of an entry and an error it holds
    pending,    \* e.Augments of each module and submodule
    mods,       \* the modules that may have augments left
    i,          \* index of Process's loops over mods
    m,          \* the module whose Augment call is in progress, or None
    queue,      \* what that call has not tried yet
    unapplied,  \* what it has skipped
    processed,  \* whether this pass has applied an augment
    phase,      \* "augment", "fix", "leftover" or "done"
    errs,       \* the errors Process returns
    ignoring,   \* ParseOptions.IgnoreModuleResolveErrors
    written     \* the augment statements of all modules

treeVars == <<tree, faults>>
callVars == <<m, queue, unapplied>>
vars == <<treeVars, pending, mods, i, callVars, processed, phase, errs, ignoring, written>>

-----------------------------------------------------------------------------
Init ==
    /\ tree = Base
    /\ faults = {}
    /\ pending \in Written
    /\ mods \in Orders
    /\ i = 1
    /\ m = None /\ queue = <<>> /\ unapplied = <<>>
    /\ processed = FALSE
    /\ phase = "augment"
    /\ errs = {}
    /\ ignoring \in BOOLEAN
    /\ written = UNION {Elements(pending[x]) : x \in Mod}

\* ToEntry(mods[i]).Augment is called.
Augment ==
    /\ phase \in {"augment", "leftover"}
    /\ m = None /\ i <= Len(mods)
    /\ m' = mods[i]
    /\ queue' = pending[mods[i]]
    /\ unapplied' = <<>>
    /\ UNCHANGED <<treeVars, pending, mods, i, processed, phase, errs>>

\* Find gives the target of the next augment, which is merged into it.
Found == Target[Head(queue)] \in DOMAIN tree

Apply ==
    /\ queue # <<>> /\ Found
    /\ tree' = Merged(tree, Head(queue))
    /\ faults' = faults \cup MergeFaults(tree, Head(queue))
    /\ queue' = Tail(queue)
    /\ processed' = TRUE
    /\ UNCHANGED <<pending, mods, i, m, unapplied, phase, errs>>

\* Find gives nil.
Skip ==
    /\ queue # <<>> /\ ~ Found
    /\ queue' = Tail(queue)
    /\ unapplied' = Append(unapplied, Head(queue))
    /\ faults' = IF phase = "leftover" /\ ~ ignoring
                 THEN faults \cup {<< <<m>>, Err("missing", Head(queue))>>}
                 ELSE faults
    /\ UNCHANGED <<tree, pending, mods, i, m, processed, phase, errs>>

\* e.Augments after the call.
PendingAfter == unapplied

\* The errors GetErrors finds in the module's entries.
Errors(x) == {f[2] : f \in {g \in faults : g[1][1] = x}}

\* The last module takes the place of mods[i].
Removed == [k \in 1 .. Len(mods) - 1 |-> IF k = i THEN mods[Len(mods)] ELSE mods[k]]

\* Whether the module leaves mods.  Mutant: it leaves when something was applied.
SomeApplied == Len(unapplied) < Len(pending[m])
NothingSkipped == unapplied = <<>>

\* Augment returns.
Return ==
    /\ m # None /\ queue = <<>>
    /\ pending' = [pending EXCEPT ![m] = PendingAfter]
    /\ m' = None /\ unapplied' = <<>>
    /\ \/ /\ phase = "augment" /\ NothingSkipped
          /\ mods' = Removed
          /\ UNCHANGED <<i, errs>>
       \/ /\ phase = "augment" /\ ~ NothingSkipped
          /\ i' = i + 1
          /\ UNCHANGED <<mods, errs>>
       \/ /\ phase = "leftover"
          /\ i' = i + 1
          /\ errs' = errs \cup Errors(m)
          /\ UNCHANGED mods
    /\ UNCHANGED <<treeVars, queue, processed, phase>>

AtEnd == m = None /\ i > Len(mods)

\* Whether another pass is made.  Mutants: never, or as long as modules are left.
SinglePass == FALSE
WhileModules == mods # <<>>
AnotherPass == mods # <<>> /\ processed

EndPass ==
    /\ phase = "augment" /\ AtEnd
    /\ processed' = FALSE
    /\ i' = 1
    /\ phase' = IF AnotherPass THEN "augment" ELSE "fix"
    /\ UNCHANGED <<treeVars, pending, mods, callVars, errs>>

\* FixChoice is called on the entries of all modules and submodules.
FixChoice ==
    /\ phase = "fix"
    /\ tree' = WithCases(tree, faults)
    /\ faults' = {<<Fixed(tree, faults, f[1]), f[2]>> : f \in faults}
    /\ phase' = "leftover"
    /\ UNCHANGED <<pending, mods, i, callVars, processed, errs>>

Finish ==
    /\ phase = "leftover" /\ AtEnd
    /\ phase' = "done"
    /\ UNCHANGED <<treeVars, pending, mods, i, callVars, processed, errs>>

Next ==
    /\ Augment \/ Apply \/ Skip \/ Return \/ EndPass \/ FixChoice \/ Finish
    /\ UNCHANGED <<ignoring, written>>

Spec == Init /\ [][Next]_vars

\* Process runs to its end.
FairSpec == Spec /\ WF_vars(Next)

-----------------------------------------------------------------------------
(* Properties *)

\* The augments not applied yet, those of the call in progress included.
Left(x) == IF x = m THEN Elements(queue) \cup Elements(unapplied) ELSE Elements(pending[x])
Waiting == UNION {Left(x) : x \in Mod}

Order == INSTANCE AugmentOrder WITH waiting <- Waiting, done <- phase # "augment"

\* The passes over the modules, with their removals from mods and their count of
\* what was processed, do what AugmentOrder promises: they apply each augment once,
\* only to an entry that exists, and leave no augment that could be applied.
InOrder == Order!Spec

\* The passes end, and Process with them.
ProcessEnds == <>(phase = "done")

\* The entries of an augmented tree according to the statements alone: the least
\* set of augments that holds every augment whose target is in Base or added by a
\* member.
Entries(S) == DOMAIN Base \cup UNION {{Target[a] \o p : p \in DOMAIN Adds[a]} : a \in S}

Reachable ==
    {a \in written : \A S \in SUBSET written :
        (\A b \in written : Target[b] \in Entries(S) => b \in S) => a \in S}

\* When no two statements define the same entry the augmented tree is that of the
\* statements, whatever the order of the maps.
Confluent ==
    (phase = "fix" /\ faults = {}) => DOMAIN tree = Entries(Reachable)

\* An entry's path without choices and cases, as in the data tree of t.
DataNames(t, p) ==
    FlattenSeq([n \in 1 .. Len(p) |-> IF t[Prefix(p, n)] = "other" THEN <<p[n]>> ELSE <<>>])
DataTree(t) == {DataNames(t, p) : p \in {q \in DOMAIN t : t[q] = "other"}}

Normal(p) == Shorthand(tree, p) => Faulty(faults, Parent(p))

\* FixChoice gives every choice without errors nothing but cases, however deep
\* choices nest in shorthand cases, and moves no node of the data tree.
ChoicesFixed ==
    [][phase = "fix" => /\ \A p \in DOMAIN tree' : Normal(p)'
                        /\ DataTree(tree') = DataTree(tree)]_vars

\* Unless errors are ignored, an augment without a target is never dropped
\* silently: at the end every augment that was not applied is reported.
UnappliedReported ==
    (phase = "done" /\ ~ ignoring) => \A a \in Waiting : Err("missing", a) \in errs

\* merge's doc: "It is an error if e and oe contain common elements."  The errors of
\* merged augments are among those Process returns.
MergeErrorsReported == phase = "done" => \A f \in faults : f[2] \in errs

\* Process's doc: "Following augmentation, Process inserts implied case statements."
\* At the end every choice without errors holds nothing but cases.
CasesInserted == phase = "done" => \A p \in DOMAIN tree : Normal(p)
=============================================================================
