---------------------------- MODULE MCDeviations ----------------------------
(***************************************************************************)
(* Documents for Deviations: module "m" with submodule "s" and containers  *)
(* "a" and "b" that use one grouping of a list, a leaf-list and an action, *)
(* and module "n", which imports "m" and is imported by it.                *)
(***************************************************************************)
EXTENDS Deviations

Stmt(kw, name, up) ==
    [kw |-> kw, name |-> name, up |-> up, of |-> 0, prefix |-> "", path |-> <<>>,
     config |-> None, default |-> <<>>, mandatory |-> None, units |-> None,
     type |-> None, min |-> None, max |-> None]

Base ==
    << [Stmt("module", "m", 0) EXCEPT !.prefix = "m"],
       [Stmt("module", "n", 0) EXCEPT !.prefix = "n"],
       [Stmt("submodule", "s", 0) EXCEPT !.prefix = "m", !.of = 1],
       [Stmt("import", "n", 1) EXCEPT !.prefix = "n", !.of = 2],
       [Stmt("import", "m", 2) EXCEPT !.prefix = "p", !.of = 1],
       [Stmt("include", "s", 1) EXCEPT !.of = 3],
       Stmt("grouping", "g", 1),
       [Stmt("list", "l", 7) EXCEPT !.min = 1],
       [Stmt("leaf", "v", 8) EXCEPT !.type = "t", !.default = <<"d">>],
       [Stmt("leaf-list", "ll", 7) EXCEPT !.type = "t", !.default = <<"d">>, !.max = 5],
       Stmt("action", "act", 7),
       Stmt("input", "input", 11),
       [Stmt("leaf", "x", 12) EXCEPT !.type = "t"],
       Stmt("container", "a", 1),
       Stmt("uses", "g", 14),
       Stmt("container", "b", 1),
       Stmt("uses", "g", 16),
       Stmt("rpc", "r", 1),
       Stmt("input", "input", 18),
       [Stmt("leaf", "y", 19) EXCEPT !.type = "t"],
       Stmt("container", "c", 3),
       [Stmt("list", "k", 21) EXCEPT !.max = 7] >>

Doc(stmts) == [stmt |-> stmts, ignore |-> FALSE]

\* Where the grouping is and how it is named, and another of that name.
Lookups ==
    {[Doc([Base EXCEPT ![7].up = place, ![15].prefix = p, ![17].prefix = q]
            \o <<Stmt("grouping", "g", other), Stmt("leaf", "z", 23)>>)
        EXCEPT !.ignore = i] :
        place \in {1, 2, 3, 14}, other \in {1, 2, 3, 16}, p \in {"", "m", "n"},
        q \in {"", "n", "u"}, i \in BOOLEAN}

\* One more statement, which may be in the way of others or be wrong.
Additions ==
    {Doc(Append(Base, [Stmt(kw, name, up) EXCEPT !.config = c, !.max = n])) :
        kw \in {"leaf", "leaf-list", "list", "container"}, name \in {"a", "l", "v", "z"},
        up \in {1, 3, 7, 8, 12, 14, 19}, c \in {None, "false", Bad}, n \in {None, 0}}
    \cup {Doc(Append(Base, [Stmt("uses", name, up) EXCEPT !.prefix = p])) :
            name \in {"g", "h"}, up \in {1, 2, 3, 14, 19, 21}, p \in {"", "m", "p"}}

\* A grouping that uses another, twice, once, or not at all.
Nested ==
    {Doc(Base \o <<Stmt("grouping", "h", 7), Stmt(kw, "w", 23), Stmt("uses", "h", u), Stmt("uses", "h", v)>>) :
        kw \in {"leaf", "action", "container"}, u \in {7, 8, 12}, v \in {7, 8, 12}}

\* Module "n" has submodules "s", "t" and "v", which hold groupings alone and of which the
\* later may include the earlier, and "m" a submodule "w"; "k" has a grouping like one of
\* these.  The prefix "p" is that of "n" in "m" or not at all, and that of "n" or "k" in "w".
Submodule(name, prefix, of) == [Stmt("submodule", name, 0) EXCEPT !.prefix = prefix, !.of = of]
Import(prefix, up, of) == [Stmt("import", "", up) EXCEPT !.prefix = prefix, !.of = of]
Include(up, of) == [Stmt("include", "", up) EXCEPT !.of = of]
Uses(name, prefix, up) == [Stmt("uses", name, up) EXCEPT !.prefix = prefix]
Including3(n, t, v) ==
    [i \in DOMAIN n |-> Include(2, n[i])] \o [i \in DOMAIN t |-> Include(4, t[i])]
    \o [i \in DOMAIN v |-> Include(5, v[i])]
Diamonds ==
    {Doc(<<[Stmt("module", "m", 0) EXCEPT !.prefix = "m"],
           [Stmt("module", "n", 0) EXCEPT !.prefix = "n"],
           Submodule("s", "n", 2), Submodule("t", "n", 2), Submodule("v", "n", 2),
           Submodule("w", "m", 1), [Stmt("module", "k", 0) EXCEPT !.prefix = "k"],
           Include(1, 6), Import(own, 1, 2), Import("p", 6, other),
           Stmt("container", "a", 1), Uses("g", "p", 11),
           Stmt("grouping", "h", 5), Uses("g", "n", 13),
           Stmt("grouping", "g", 7), Stmt("grouping", "g", place), Stmt("leaf", "x", 16)>>
         \o Including3(n, t, v)) :
        own \in {"p", "q"}, other \in {2, 7}, place \in {2, 3, 4, 5, 6},
        n \in {<<3>>, <<5>>, <<3, 4>>, <<4, 5>>, <<5, 4>>, <<5, 4, 3>>},
        t \in {<<>>, <<3>>}, v \in {<<>>, <<4>>, <<4, 3>>, <<3, 4>>}}

\* The empty path is "/.", the module.
Paths ==
    {<<"a">>, <<"a", "l">>, <<"a", "l", "v">>, <<"a", "ll">>, <<"a", "act">>,
     <<"a", "act", "input">>, <<"a", "act", "input", "x">>, <<"b", "l">>, <<"c", "k">>,
     <<"r">>, <<"r", "input", "y">>, <<"r", "y">>, <<"zz">>, <<>>}

D(name) == Stmt("deviate", name, 0)
Options ==
    {[D("add") EXCEPT !.config = "false"], [D("replace") EXCEPT !.config = Bad],
     [D("delete") EXCEPT !.config = "true", !.mandatory = "true"],
     [D("add") EXCEPT !.default = <<"e">>], [D("replace") EXCEPT !.default = <<"e">>],
     [D("delete") EXCEPT !.default = <<"d">>], [D("delete") EXCEPT !.default = <<"e">>],
     [D("add") EXCEPT !.min = 2, !.units = "u"], [D("replace") EXCEPT !.max = 3],
     [D("add") EXCEPT !.max = Bad], [D("delete") EXCEPT !.min = 1], [D("delete") EXCEPT !.max = 5],
     [D("replace") EXCEPT !.type = "w"], [D("replace") EXCEPT !.type = Bad],
     D("not-supported"), D(Bad)}
Second ==
    {[D("replace") EXCEPT !.max = 4], [D("add") EXCEPT !.config = "true"],
     [D("delete") EXCEPT !.default = <<"d">>], D("not-supported")}

\* A deviation of m, s or n and one or two deviates.
Deviation(m, path, first) ==
    [Stmt("deviation", "", m) EXCEPT !.path = path,
        !.prefix = CASE m = 2 -> "p" [] m = 3 -> first [] OTHER -> ""]
Once ==
    {Doc(Base \o <<Deviation(m, path, first), [x EXCEPT !.up = 23]>>) :
        m \in {1, 2, 3}, path \in Paths, first \in {"", "m", "q"}, x \in Options}
OneTarget ==
    {Doc(Base \o <<Deviation(1, path, ""), [x EXCEPT !.up = 23], [y EXCEPT !.up = 23]>>) :
        path \in {<<"a", "l">>, <<"a", "l", "v">>, <<"a", "ll">>, <<"c", "k">>},
        x \in Options, y \in Options}
TwoTargets ==
    {Doc([Base EXCEPT ![2].name = name] \o
         <<Deviation(1, path, ""), [x EXCEPT !.up = 23], Deviation(2, other, ""), [y EXCEPT !.up = 25]>>) :
        name \in {"n", "m"}, x \in Options, y \in Second,
        path \in {<<"a">>, <<"a", "l">>, <<"a", "act", "input", "x">>, <<"a", "ll">>},
        other \in {<<"a", "l">>, <<"b", "l">>, <<"b", "act", "input", "x">>}}

\* A leaf-list of up to four defaults, of which the copies in "a" and "b" get more, one of
\* them maybe twice.
Added(v) == [D("add") EXCEPT !.default = <<v>>]
Replaced(v) == [D("replace") EXCEPT !.default = <<v>>]
ManyDefaults ==
    {Doc([Base EXCEPT ![10].default = SubSeq(<<"d", "e", "f", "g">>, 1, n)] \o
         <<Deviation(1, <<"a", "ll">>, ""), [x EXCEPT !.up = 23], [y EXCEPT !.up = 23],
           Deviation(2, <<to, "ll">>, ""), [z EXCEPT !.up = 26]>>) :
        n \in 0 .. 4, x \in {Added("x"), Replaced("x"), [D("add") EXCEPT !.units = "u"]},
        y \in {Added("y"), Replaced("y"), [D("add") EXCEPT !.mandatory = "true"]},
        z \in {Added("z"), Replaced("z"), D("not-supported")}, to \in {"a", "b"}}

MCDocuments ==
    Diamonds \cup ManyDefaults \cup Lookups \cup Additions \cup Nested \cup Once \cup OneTarget \cup TwoTargets
=============================================================================
