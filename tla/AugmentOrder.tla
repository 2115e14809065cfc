---------------------------- MODULE AugmentOrder ----------------------------
(***************************************************************************)
(* What augmentation promises, whatever order the modules come in: augment *)
(* statements are applied one at a time, each to a target that exists, and *)
(* it stops only when no waiting augment has a target ("repeat until no    *)
(* progress is made", pkg/yang/modules.go).  What later happens to the     *)
(* tree is not its business.                                               *)
(***************************************************************************)
EXTENDS SchemaTree

VARIABLES
    tree,       \* the entries of all modules
    waiting,    \* the augments not applied yet
    done        \* whether augmentation has stopped

vars == <<tree, waiting, done>>

Applicable(a) == Target[a] \in DOMAIN tree

Init ==
    /\ tree = Base
    /\ waiting \subseteq Aug
    /\ done = FALSE

Apply(a) ==
    /\ ~ done
    /\ a \in waiting /\ Applicable(a)
    /\ tree' = Merged(tree, a)
    /\ waiting' = waiting \ {a}
    /\ UNCHANGED done

Stop ==
    /\ ~ done
    /\ \A a \in waiting : ~ Applicable(a)
    /\ done' = TRUE
    /\ UNCHANGED <<tree, waiting>>

Afterwards == done /\ done' /\ waiting' \subseteq waiting

Next == (\E a \in Aug : Apply(a)) \/ Stop \/ Afterwards

Spec == Init /\ [][Next]_vars
=============================================================================
