------------------------------- MODULE MCTypes -------------------------------
(***************************************************************************)
(* Documents for Types: a module "m" with a container "c", a submodule "s" *)
(* and an imported module "x", in families that vary one thing each.       *)
(***************************************************************************)
EXTENDS Types

BuiltinTypes == {"string", "uint", "decimal64", "identityref", "enumeration", "bits", "union"}
MCMinEnum == -1
BuiltinRanges == [b \in BuiltinTypes |-> IF b = "uint" THEN 0 .. 3 ELSE None]

InModule == <<"m">>
InContainer == <<"c", "m">>

Type(path, name) ==
    [path |-> path, prefix |-> "", name |-> name, range |-> None, digits |-> 0,
     base |-> None, enum |-> <<>>, bit |-> <<>>, patterns |-> <<>>, ext |-> FALSE,
     members |-> <<>>]

Typedef(node, name, type) == [node |-> node, name |-> name, type |-> type, default |-> None]

Document(typedefs, types, leaves) ==
    [typedef |-> typedefs, type |-> types, leaves |-> leaves,
     prefix |-> [m |-> "m", s |-> "m", x |-> "x"],
     include |-> [m |-> <<"s">>, s |-> <<>>, x |-> <<>>],
     import |-> [m |-> [x |-> "x"], s |-> <<>>, x |-> <<>>],
     submodules |-> {"s"}, identities |-> {"i", "k"}, ignore |-> FALSE]

\* Typedef A, B based on A, and two leaves based on A or B.
Chain(ta, tb, t1, t2) ==
    Document([A |-> Typedef("m", "a", "tA"), B |-> Typedef("c", "b", "tB")],
             [tA |-> ta, tB |-> tb, t1 |-> t1, t2 |-> t2], {"t1", "t2"})

Patterns ==
    {Chain([Type(InModule, "string") EXCEPT !.patterns = pa],
           [Type(InContainer, "a") EXCEPT !.patterns = pb],
           [Type(InContainer, n1) EXCEPT !.patterns = p1],
           [Type(InContainer, "b") EXCEPT !.patterns = p2]) :
        pa \in {<<>>, <<"p">>, <<"p", "q", "r">>},
        pb \in {<<>>, <<"p">>, <<"s">>},
        n1 \in {"a", "b"},
        p1 \in {<<>>, <<"s">>, <<"t">>}, p2 \in {<<>>, <<"t">>, <<"s", "u">>}}

Limits ==
    {[Chain([Type(InModule, "uint") EXCEPT !.range = ra],
            [Type(InContainer, "a") EXCEPT !.range = rb],
            [Type(InContainer, n1) EXCEPT !.range = r1],
            [Type(InContainer, "b") EXCEPT !.range = r2, !.ext = (r2 # None /\ n1 = "a")])
        EXCEPT !.typedef.A.default = da, !.typedef.B.default = db] :
        ra \in {None, 1 .. 2, 0 .. 4}, rb \in {None, {1}, 0 .. 1},
        n1 \in {"a", "b"}, r1 \in {None, {1}, {3}}, r2 \in {None, {1}},
        da \in {None, "d"}, db \in {None, "e"}}

Decimals ==
    {Chain([Type(InModule, "decimal64") EXCEPT !.digits = da],
           [Type(InContainer, "a") EXCEPT !.digits = db],
           [Type(InContainer, "b") EXCEPT !.digits = d1],
           [Type(InContainer, "uint") EXCEPT !.digits = d2]) :
        da \in {0, 2, 19}, db \in {0, 3}, d1 \in {0, 2}, d2 \in {0, 2}}

Bases ==
    {Chain([Type(InModule, "identityref") EXCEPT !.base = ia],
           [Type(InContainer, "a") EXCEPT !.base = ib],
           [Type(InContainer, "b") EXCEPT !.ext = ext],
           [Type(InContainer, n) EXCEPT !.base = i2]) :
        ia \in {None, "i", "j"}, ib \in {None, "i", "j", "k"}, ext \in BOOLEAN,
        n \in {"identityref", "string"}, i2 \in {None, "i", "j"}}

EnumStatements ==
    [name : {"v", "w"}, value : {NoValue, -1, 0, 2, 3}]
EnumLists ==
    {<<>>} \cup {<<a, b>> : a, b \in EnumStatements} \cup
    {<<[name |-> "u", value |-> n], a, b>> : n \in {NoValue, 1, 2}, a, b \in EnumStatements}

Enumerations ==
    {Document([A |-> Typedef("m", "a", "tA")],
              [tA |-> [Type(InModule, "enumeration") EXCEPT !.enum = q],
               t1 |-> Type(InContainer, "a")], {"t1"}) : q \in EnumLists} \cup
    {Document([A |-> Typedef("m", "a", "tA")],
              [tA |-> [Type(InModule, "bits") EXCEPT !.bit = q],
               t1 |-> Type(InContainer, "a")], {"t1"}) : q \in EnumLists}

\* A union of two types, of which one may be a union, and a leaf that adds nothing.
Unions ==
    {Document([A |-> [Typedef("m", "a", "tA") EXCEPT !.default = da],
               U |-> Typedef("m", "u", "tU")],
              [tA |-> [Type(InModule, "string") EXCEPT !.patterns = pa],
               tU |-> [Type(InModule, "union") EXCEPT !.members = <<"u1", "u2">>],
               u1 |-> Type(InModule, n1),
               u2 |-> [Type(InModule, n2) EXCEPT !.members = ms],
               t1 |-> Type(InContainer, n3)], {"t1"}) :
        da \in {None, "d"}, pa \in {<<>>, <<"p">>}, n1 \in {"string", "a", "b"},
        n2 \in {"string", "a", "union"}, ms \in {<<>>, <<"u1">>}, n3 \in {"u", "a"}}

\* A union of a union of a union.
Nested ==
    {Document([U |-> Typedef("m", "u", "tU")],
              [tU |-> [Type(InModule, "union") EXCEPT !.members = <<"u1">>],
               u1 |-> [Type(InModule, "union") EXCEPT !.members = <<"u2">>],
               u2 |-> [Type(InModule, "union") EXCEPT !.members = <<"u3">>],
               u3 |-> Type(InModule, n), t1 |-> Type(InContainer, "u")], {"t1"}) :
        n \in {"string", "b"}}

\* Typedefs of one name in any of the places, and references to it from all of them.
Places ==
    {LET all == [M |-> Typedef("m", "a", "tM"), C |-> Typedef("c", "a", "tC"),
                 S |-> Typedef("s", "a", "tS"), X |-> Typedef("x", "a", "tX")]
     IN  [Document([d \in D |-> all[d]],
                   [tM |-> Type(InModule, "string"), tC |-> Type(InContainer, "uint"),
                    tS |-> Type(<<"s">>, "bits"), tX |-> Type(<<"x">>, "union"),
                    t1 |-> [Type(path, "a") EXCEPT !.prefix = prefix]],
                   {"t1"}) EXCEPT !.ignore = i] :
        D \in SUBSET {"M", "C", "S", "X"}, prefix \in {"", "m", "x", "y"},
        path \in {InContainer, InModule, <<"s">>}, i \in BOOLEAN}

\* A typedef of a module that is missing, below another typedef and in a union.
Missing ==
    {[Document([A |-> Typedef("m", "a", "tA"), B |-> Typedef("c", "b", "tB")],
               [tA |-> [Type(InModule, "nope") EXCEPT !.prefix = "y"],
                tB |-> [Type(InContainer, n) EXCEPT !.members = ms],
                u1 |-> Type(InContainer, "a"), u2 |-> Type(InContainer, "string"),
                t1 |-> Type(InContainer, "b")], {"t1"})
        EXCEPT !.typedef.B.default = db, !.ignore = i] :
        n \in {"a", "union"}, ms \in {<<>>, <<"u1", "u2">>},
        db \in {None, "d"}, i \in BOOLEAN}

MCDocuments ==
    Patterns \cup Limits \cup Decimals \cup Bases \cup Enumerations \cup Unions \cup Nested \cup
    Places \cup Missing
=============================================================================
