-------------------------- MODULE MCSubmoduleMerge --------------------------
(***************************************************************************)
(* One module "m" with up to three submodules that include each other, in  *)
(* paths, diamonds and cycles of one, two and three.                       *)
(***************************************************************************)
EXTENDS SubmoduleMerge, TLC

CONSTANTS m, m2, a, b, c

Lists == {<<>>, <<a>>, <<b>>, <<c>>, <<b, c>>, <<c, a>>}

OneModule == {m}
OneGraphs ==
    {(m :> ms) @@ (a :> as) @@ (b :> bs) @@ (c :> cs) :
        ms \in {<<a>>, <<a, b>>}, as \in Lists, bs \in Lists, cs \in Lists}

\* Two revisions of the module "m" that include the same submodule.
TwoRevisions == {m, m2}
TwoGraphs == {(m :> <<a>>) @@ (m2 :> <<a>>) @@ (a :> <<>>) @@ (b :> <<>>) @@ (c :> <<>>)}

ThreeSubmodules == {a, b, c}
Names == (m :> "m") @@ (m2 :> "m") @@ (a :> "a") @@ (b :> "b") @@ (c :> "c")
Owners == (a :> "m") @@ (b :> "m") @@ (c :> "m")
=============================================================================
