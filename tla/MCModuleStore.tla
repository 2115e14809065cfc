--------------------------- MODULE MCModuleStore ---------------------------
(***************************************************************************)
(* A small repository of files for ModuleStore: a module a of two          *)
(* revisions and a module b with and without a revision that import each   *)
(* other in a circle, submodules s and u that include each other, a file   *)
(* whose second statement is refused, and imports of a missing module.     *)
(***************************************************************************)
EXTENDS ModuleStore, TLC

Inc(n) == [kind |-> "submodule", name |-> n, rev |-> 0]
Imp(n, r) == [kind |-> "module", name |-> n, rev |-> r]

Txt(k, n, r, ns, refs) == [kind |-> k, name |-> n, rev |-> r, ns |-> ns, refs |-> refs]

A1 == Txt("module", "a", 1, "x", <<Inc("s"), Imp("b", 1)>>)
A2 == Txt("module", "a", 2, "x", <<Imp("b", 0)>>)
B0 == Txt("module", "b", 0, "y", <<Imp("a", 1)>>)
B1 == Txt("module", "b", 1, "y", <<Imp("a", 0), Imp("c", 0)>>)
C0 == Txt("module", "c", 0, "x", <<>>)
S0 == Txt("submodule", "s", 0, "x", <<Inc("u")>>)
U0 == Txt("submodule", "u", 0, "x", <<Inc("s"), Imp("a", 2)>>)
Bad == Txt("other", "c", 0, "x", <<>>)

MCName == {"a", "b", "c", "s", "u"}
MCText == {A1, A2, B0, B1, C0, S0, U0, Bad}
MCDisk ==
    (<<"a", 1>> :> <<A1>>) @@ (<<"a", 2>> :> <<A2>>) @@
    (<<"b", 0>> :> <<B0>>) @@ (<<"b", 1>> :> <<B1>>) @@
    (<<"c", 0>> :> <<C0, Bad>>) @@
    (<<"s", 0>> :> <<S0>>) @@ (<<"u", 0>> :> <<U0>>)
=============================================================================
