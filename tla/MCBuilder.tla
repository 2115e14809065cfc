------------------------------ MODULE MCBuilder ------------------------------
(***************************************************************************)
(* Documents for Builder: modules, submodules and other statements with up *)
(* to three statements below what is required, and a second file.          *)
(***************************************************************************)
EXTENDS Builder

\* Statements are written as keyword, argument and the statement they are below.
Doc(s) ==
    LET Below(n) == SelectSeq([i \in DOMAIN s |-> i], LAMBDA i : s[i][3] = n)
    IN  [stmt |-> [n \in DOMAIN s |-> [kw |-> s[n][1], arg |-> s[n][2], sub |-> Below(n)]],
         files |-> Below(0)]

MCPrefixed == {"p:x"}

InModule == <<<<"module", "m", 0>>, <<"namespace", "n", 1>>, <<"prefix", "p", 1>>>>
InSubmodule == <<<<"submodule", "s", 0>>, <<"belongs-to", "m", 1>>, <<"prefix", "p", 2>>>>

Common ==
    {"container", "leaf", "typedef", "type", "description", "p:x", "Name", "Statement",
     "Parent", "prefix", "belongs-to", "zz"}

\* Any three statements in a module or submodule.
Small ==
    {Doc(root \o <<<<k1, "t", 1>>, <<k2, "t", u2>>, <<k3, "t", u3>>>>) :
        root \in {InModule, InSubmodule}, k1 \in Common, k2 \in Common, k3 \in Common,
        u2 \in {1, 4}, u3 \in {1, 5}}

\* A typedef with its type in a node, and what comes after it.
Holders ==
    {"container", "list", "grouping", "rpc", "notification", "input", "output", "action",
     "choice", "leaf"}
Typedefs ==
    {Doc(InModule \o <<<<k1, "a", 1>>, <<k2, "", 4>>,
                       <<"typedef", "t", u1>>, <<"type", "int", 6>>,
                       <<"typedef", name, u2>>, <<k3, "int", 8>>,
                       <<k4, "d", u3>>, <<"submodule", "s", 0>>, <<"belongs-to", "m", 11>>,
                       <<"prefix", "p", 12>>, <<"typedef", "t", 11>>, <<"type", "int", 14>>>>) :
        k1 \in Holders, k2 \in {"container", "grouping", "input", "action", "leaf"},
        u1 \in {1, 4, 5}, u2 \in {4, 5}, name \in {"t", "u"}, k3 \in {"type", "units"},
        k4 \in {"description", "organization"}, u3 \in {1, 5}}

\* Statements that are no modules, or lack what they must have.
Tops ==
    {Doc(<<<<k, arg, 0>>, <<k1, "t", 1>>, <<k2, "t", 1>>, <<"container", "c", 0>>,
           <<"typedef", "t", 4>>, <<"type", "int", 5>>>>) :
        k \in {"module", "submodule", "container", "typedef", "input", "leaf", "enum", "zz"},
        arg \in {"", "t"}, k1 \in Common \cup {"namespace", "value"},
        k2 \in Common \cup {"namespace", "value"}}

\* Two typedefs that may have no argument, and what may be the Name of each.
Nameless ==
    {Doc(InModule \o <<<<k, "c", 1>>, <<"typedef", a1, 4>>, <<"type", "int", 5>>, <<k1, n1, 5>>,
                       <<k2, n2, 5>>, <<"typedef", a2, 4>>, <<"Name", "t", 9>>,
                       <<"type", "int", 9>>>>) :
        k \in {"container", "rpc", "leaf"}, a1 \in {"", "t"}, a2 \in {"", "t"},
        k1 \in {"Name", "units"}, k2 \in {"Name", "description"},
        n1 \in {"", "t", "u"}, n2 \in {"", "t", "u"}}

MCDocuments == Small \cup Typedefs \cup Tops \cup Nameless
=============================================================================
