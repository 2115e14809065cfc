--------------------------- MODULE MCAugmentation ---------------------------
(***************************************************************************)
(* A module m with a container and a choice with another choice below it,  *)
(* a module n of a revision, so that it is visited twice a pass, and a     *)
(* submodule s.                                                            *)
(* Their augments build on each other, clash with each other, hold errors, *)
(* or name what only FixChoice makes or nothing ever makes.                *)
(***************************************************************************)
EXTENDS Augmentation, SequencesExt

Leaf(name) == <<name>> :> "other"

MCBase ==
    (<<"m">> :> "other") @@ (<<"m", "c">> :> "other") @@
    (<<"m", "ch">> :> "choice") @@
    (<<"m", "ch", "k">> :> "case") @@ (<<"m", "ch", "k", "y">> :> "other") @@
    (<<"m", "ch", "b">> :> "other") @@ (<<"m", "ch", "b", "in">> :> "choice") @@
    (<<"m", "ch", "b", "in", "x">> :> "other") @@
    (<<"n">> :> "other") @@ (<<"s">> :> "other")

Statement == [
    first  |-> [target |-> <<"m", "c">>,
                adds   |-> (<<"d">> :> "choice") @@ (<<"d", "e">> :> "other"), bad |-> {}],
    second |-> [target |-> <<"m", "c", "d">>, adds |-> Leaf("f"), bad |-> {}],
    third  |-> [target |-> <<"m", "c", "d", "f">>, adds |-> Leaf("g"), bad |-> {}],
    clash  |-> [target |-> <<"m", "c", "d">>, adds |-> Leaf("e") @@ Leaf("h"), bad |-> {}],
    wrong  |-> [target |-> <<"m", "ch", "b", "in">>, adds |-> Leaf("w"), bad |-> {<<"w">>}],
    late   |-> [target |-> <<"m", "ch", "b", "b", "in", "x", "x">>,
                adds   |-> (<<"z">> :> "choice"), bad |-> {}],
    later  |-> [target |-> <<"m", "ch", "b", "b", "in", "x", "x", "z">>,
                adds   |-> Leaf("v"), bad |-> {}],
    never  |-> [target |-> <<"m", "gone">>, adds |-> Leaf("u"), bad |-> {}]]

MCAug == DOMAIN Statement
MCTarget == [a \in MCAug |-> Statement[a].target]
MCAdds == [a \in MCAug |-> Statement[a].adds]
MCBad == [a \in MCAug |-> Statement[a].bad]

\* Every way to write the statements of S in the modules.
Placements(S) ==
    {f \in [{"m", "n", "s"} -> UNION {SetToSeqs(T) : T \in SUBSET S}] :
        /\ \A a \in S : \E x \in {"m", "n", "s"} : a \in ToSet(f[x])
        /\ Len(f["m"]) + Len(f["n"]) + Len(f["s"]) = Cardinality(S)}

MCWritten ==
    UNION {Placements(S) : S \in {{"first", "second", "third"}, {"first", "clash", "wrong"},
                                  {"late", "later", "never"}}}

\* The keys of ms.Modules come before those of ms.SubModules; n has two.
MCOrders == {<<"m", "n", "n", "s">>, <<"n", "m", "n", "s">>, <<"n", "n", "m", "s">>}
=============================================================================
