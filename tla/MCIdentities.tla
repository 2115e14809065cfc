---------------------------- MODULE MCIdentities ----------------------------
(***************************************************************************)
(* A base module a, a module b of two revisions that derives a diamond     *)
(* from it, and a module c that derives from b and from what is missing.   *)
(***************************************************************************)
EXTENDS Identities

Id(m, r, n, base) == [key |-> <<m, n>>, rev |-> r, base |-> base]
Mod(m, r, ids) == [name |-> m, rev |-> r, identities |-> ids]

R == Id("a", 0, "r", <<>>)
X1 == Id("b", 1, "x", <<<<"a", "r">>>>)
X2 == Id("b", 2, "x", <<<<"a", "r">>>>)
Y1 == Id("b", 1, "y", <<<<"b", "x">>, <<"a", "r">>>>)
X3 == Id("c", 0, "x", <<<<"b", "x">>, <<"c", "y">>>>)
Z3 == Id("c", 0, "z", <<<<"b", "y">>>>)

MCKey == {<<"a", "r">>, <<"b", "x">>, <<"b", "y">>, <<"c", "x">>, <<"c", "y">>, <<"c", "z">>}
MCIdentity == {R, X1, X2, Y1, X3, Z3}
MCModule ==
    {Mod("a", 0, <<R>>), Mod("b", 1, <<X1, Y1>>), Mod("b", 2, <<X2>>), Mod("c", 0, <<X3, Z3>>)}
=============================================================================
