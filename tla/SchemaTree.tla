----------------------------- MODULE SchemaTree -----------------------------
(***************************************************************************)
(* Trees of schema entries (type Entry of pkg/yang/entry.go), and what     *)
(* merging an augment and inserting implied cases do to them.              *)
(*                                                                         *)
(* A tree is a function from the paths of its entries to their kinds.  A   *)
(* path starts with the name of the module or submodule it belongs to and  *)
(* is what Entry.Find looks up.  RPCs, whose input and output are not in   *)
(* Entry.Dir, are left out.                                                *)
(***************************************************************************)
EXTENDS Naturals, SequencesExt

CONSTANTS
    Base,       \* the entries of all modules before augmentation: each a "choice",
                \* a "case" or "other"
    Aug,        \* augment statements
    Target,     \* the path each augment names
    Adds,       \* the entries it adds, by their paths below the target
    Bad         \* those of them that hold errors of their own

Prefix(p, n) == SubSeq(p, 1, n)
Parent(p) == Prefix(p, Len(p) - 1)

\* Entries are in the Dir of other entries, those of modules in none.
IsTree(t) ==
    \A p \in DOMAIN t : p \in Seq(STRING) /\ p # <<>> /\ (Len(p) > 1 => Parent(p) \in DOMAIN t)

ASSUME TreeAssumption ==
    IsTree(Base) /\ \A a \in Aug : Target[a] \in Seq(STRING) /\ IsTree(Adds[a])

\* merge meets an entry of this name already: what is below it is left out too.
Clashes(t, a) == {p \in DOMAIN Adds[a] : Append(Target[a], p[1]) \in DOMAIN t}

\* The paths merge adds, and the tree it leaves.  Entries that exist stay.
Added(t, a) == {Target[a] \o p : p \in DOMAIN Adds[a] \ Clashes(t, a)}
Below(a, q) == SubSeq(q, Len(Target[a]) + 1, Len(q))

Merged(t, a) ==
    [q \in DOMAIN t \cup Added(t, a) |-> IF q \in DOMAIN t THEN t[q] ELSE Adds[a][Below(a, q)]]

\* An error is "missing", "duplicate" or "content".
Err(kind, a) == [kind |-> kind, aug |-> a]

\* The errors merge leaves, with the entries that hold them.  An error in what is
\* added is imported by the target and copied with the entry.
MergeFaults(t, a) ==
    {<<Target[a], Err("duplicate", a)>> : p \in Clashes(t, a)}
        \cup {<<Target[a], Err("content", a)>> : p \in Bad[a]}
        \cup {<<Target[a] \o p, Err("content", a)>> : p \in Bad[a] \ Clashes(t, a)}

-----------------------------------------------------------------------------
(* FixChoice *)

\* The choice at p holds errors, so that FixChoice leaves it alone.
Faulty(faults, p) == \E f \in faults : f[1] = p

\* p is an entry directly below a choice and no case.
Shorthand(t, p) ==
    Len(p) > 1 /\ t[Parent(p)] = "choice" /\ t[p] # "case"

\* The implied case is inserted above p.  Mutant: not below another choice.
NeedsOuterCase(t, faults, p) ==
    Shorthand(t, p) /\ \A n \in 1 .. Len(p) - 2 : t[Prefix(p, n)] # "choice"
NeedsCase(t, faults, p) == Shorthand(t, p) /\ ~ Faulty(faults, Parent(p))

\* Where the entry at p is found when every implied case above it has been
\* inserted: the case has the name of the entry it is for.
Fixed(t, faults, p) ==
    FlattenSeq([n \in 1 .. Len(p) |->
        IF NeedsCase(t, faults, Prefix(p, n)) THEN <<p[n], p[n]>> ELSE <<p[n]>>])

Cases(t, faults) == {Parent(Fixed(t, faults, p)) : p \in {q \in DOMAIN t : NeedsCase(t, faults, q)}}

\* The tree FixChoice leaves.
WithCases(t, faults) ==
    LET moved == {Fixed(t, faults, p) : p \in DOMAIN t}
        From(q) == CHOOSE p \in DOMAIN t : Fixed(t, faults, p) = q
    IN  [q \in moved \cup Cases(t, faults) |->
            IF q \in Cases(t, faults) THEN "case" ELSE t[From(q)]]

=============================================================================
