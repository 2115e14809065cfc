----------------------------- MODULE Conversion -----------------------------
(***************************************************************************)
(* ToEntry of pkg/yang/entry.go: the entries made of the statements of     *)
(* modules, with FindGrouping of pkg/yang/find.go and the duplication and  *)
(* merging of groupings.                                                   *)
(*                                                                         *)
(* A document d is a sequence of statements, d.stmt, of which each names   *)
(* the one it is below in "up" (0 for a module or submodule), and the      *)
(* option IgnoreModuleResolveErrors, d.ignore.  An absent substatement is  *)
(* None, and an argument without meaning is Bad.                           *)
(*                                                                         *)
(* An entry is known by its key: the module or grouping whose conversion   *)
(* made it, and the names from there.  A tree is a function from keys to   *)
(* entries.  What dup copies as a pointer stays the key, or statement, it  *)
(* points to: the input and output of an operation, the list attributes,   *)
(* and the array of the defaults, of which an entry has a slice.           *)
(* Conditions, documentation and extensions are left out, and a grouping   *)
(* does not use itself (ToEntry would not return).                         *)
(***************************************************************************)
EXTENDS Naturals, FiniteSets, SequencesExt

CONSTANTS
    None,       \* no value
    Bad,        \* a value that is refused
    Unbounded   \* the largest number of elements

ASSUME UnboundedAssumption == Unbounded \in Nat \ {0}

\* The fields of the node types that ToEntry makes entries of, last to first.
FieldOrder ==
    <<"uses", "rpc", "output", "notification", "list", "leaf-list", "leaf", "input",
      "include", "grouping", "container", "choice", "case", "anyxml", "action", "anydata">>

\* The substatements of n with a keyword, and all of them in the order ToEntry
\* takes them.
Sub(d, n, kw) ==
    SelectSeq([i \in DOMAIN d.stmt |-> i], LAMBDA i : d.stmt[i].up = n /\ d.stmt[i].kw = kw)
Fields(d, n) ==
    LET all == SelectSeq([i \in DOMAIN d.stmt |-> i], LAMBDA i : d.stmt[i].up = n)
        Of(kw) == SelectSeq(all, LAMBDA i : d.stmt[i].kw = kw)
    IN  IF all = <<>> THEN <<>> ELSE FoldLeft(LAMBDA s, kw : s \o Of(kw), <<>>, FieldOrder)

Roots(d) == {n \in DOMAIN d.stmt : d.stmt[n].kw \in {"module", "submodule"}}

\* n, the statement it is below, and so on up to its module.
RECURSIVE Above(_, _)
Above(d, n) == IF n = 0 THEN <<>> ELSE <<n>> \o Above(d, d.stmt[n].up)
RootNode(d, n) == Last(Above(d, n))

\* GetPrefix of the module or submodule n is in.
LocalPrefix(d, n) == d.stmt[RootNode(d, n)].prefix

-----------------------------------------------------------------------------
(* FindGrouping *)

RECURSIVE FindGrouping(_, _, _, _, _)

\* What is seen with submodule s.  Mutant: all that belong to the same module.
ModuleSeen(d, s) == {x \in Roots(d) : d.stmt[x].kw = "submodule" /\ d.stmt[x].of = d.stmt[s].of}
Seen(d, s) == {s}

\* A grouping is looked up in the nodes above n; in a module also in the modules
\* imported with this prefix and in the submodules not seen yet, as from there.
FindGrouping(d, n, prefix, name, seen) ==
    LET p == IF prefix = LocalPrefix(d, n) THEN "" ELSE prefix
        Own(a) == SelectSeq(Sub(d, a, "grouping"), LAMBDA g : p = "" /\ d.stmt[g].name = name)
        Imported(r, i) ==
            IF r.found # 0 \/ p = "" \/ d.stmt[i].prefix # p THEN r
            ELSE FindGrouping(d, d.stmt[i].of, "", name, r.seen)
        Included(r, i) ==
            IF r.found # 0 \/ d.stmt[i].of \in r.seen THEN r
            ELSE FindGrouping(d, d.stmt[i].of, p, name, r.seen \cup Seen(d, d.stmt[i].of))
        In(r, a) ==
            IF r.found # 0 THEN r
            ELSE IF Own(a) # <<>> THEN [r EXCEPT !.found = Head(Own(a))]
            ELSE FoldLeft(Included, FoldLeft(Imported, r, Sub(d, a, "import")),
                          Sub(d, a, "include"))
    IN  FoldLeft(In, [found |-> 0, seen |-> seen], Above(d, n))

GroupingOf(d, u) == FindGrouping(d, u, d.stmt[u].prefix, d.stmt[u].name, {}).found

-----------------------------------------------------------------------------
(* Trees *)

Error(n, what) == {[at |-> n, what |-> what]}
Note(t, k, errs) == [t EXCEPT ![k].errs = @ \cup errs]

Beneath(k, q) == IsPrefix(k, q)
From(k, q) == SubSeq(q, Len(k) + 1, Len(q))

\* The entries that are reached from k through Dir, which the input and output of
\* an operation are not.
Operations == {"rpc", "action"}
DirKeys(t, k) ==
    {q \in DOMAIN t : Beneath(k, q) /\
        \A i \in Len(k) .. Len(q) - 1 :
            SubSeq(q, 1, i) \in DOMAIN t /\ t[SubSeq(q, 1, i)].kw \notin Operations}

\* The errors importErrors and GetErrors find.
ErrorsBelow(t, k) == UNION {t[q].errs : q \in DirKeys(t, k)}

\* Entry.add.  What is below the entry at k comes with it, but for one whose name is
\* taken.  Mutant: that is left out without an error.
Silently(t, k, sub, c) == IF c \in DOMAIN t THEN t ELSE t @@ sub
Add(t, k, sub, c) ==
    IF c \in DOMAIN t THEN Note(t, k, Error(t[k].node, "duplicate")) ELSE t @@ sub

\* Entry.merge of what is below key g of the tree s: children that exist stay.
\* Mutant: they are left out without an error.
NoClash(t, k, s, g) == {}
Clashes(t, k, s, g) ==
    {q \in DirKeys(s, g) : Len(q) > Len(g) /\ k \o SubSeq(q, Len(g) + 1, Len(g) + 1) \in DOMAIN t}
ClashErrors(t, k, s, g) ==
    UNION {Error(s[q].node, "duplicate") :
               q \in {x \in Clashes(t, k, s, g) : Len(x) = Len(g) + 1}}
Merge(t, k, s, g) ==
    LET copied == DirKeys(s, g) \ ({g} \cup Clashes(t, k, s, g))
    IN  Note(t, k, ErrorsBelow(s, g) \cup ClashErrors(t, k, s, g)) @@
            [q \in {k \o From(g, x) : x \in copied} |-> s[g \o From(k, q)]]

-----------------------------------------------------------------------------
(* ToEntry *)

Set(v) == v \notin {None, Bad}
Tristate(v) == IF v = Bad THEN None ELSE v

\* semCheckMaxElements and semCheckMinElements.
RefusedMax(v) == v \in {Bad, 0}
MaxElements(v) == IF v = None THEN Unbounded ELSE IF v = Bad THEN 0 ELSE v
RefusedMin(v) == v = Bad
MinElements(v) == IF v \in {None, Bad} THEN 0 ELSE v

Listlike == {"list", "leaf-list"}

\* Values appended one by one are in an array of the next power of two, which is known
\* by the statement that made it.
Room(n) == Min({2 ^ i : i \in {j \in 0 .. n : 2 ^ j >= n}})
Array(values) == values \o [i \in 1 .. Room(Len(values)) - Len(values) |-> None]

NoValues == [array |-> None, len |-> 0]
Slice(n, values) ==
    IF values = <<>> THEN NoValues ELSE [array |-> n, len |-> Len(values)]
Content(arrays, s) == IF s.len = 0 THEN <<>> ELSE SubSeq(arrays[s.array], 1, s.len)
Full(arrays, s) == s.len = 0 \/ s.len = Len(arrays[s.array])

\* The errors of a statement's own arguments.
OwnErrors(d, n) ==
    LET s == d.stmt[n] IN
    UNION {IF bad THEN Error(n, "argument") ELSE {} :
              bad \in {s.config = Bad, s.mandatory = Bad, s.type = Bad,
                       s.kw \in Listlike /\ (RefusedMax(s.max) \/ RefusedMin(s.min))}}

\* newLeaf and newDirectory with the fields of the statement.
NewEntry(d, n) ==
    LET s == d.stmt[n] IN
    [kw |-> s.kw, node |-> n, config |-> Tristate(s.config),
     default |-> Slice(n, s.default), mandatory |-> Tristate(s.mandatory), units |-> None, type |-> Tristate(s.type),
     attr |-> IF s.kw \in Listlike THEN n ELSE None, input |-> None, output |-> None,
     errs |-> OwnErrors(d, n)]

\* A deviation has its deviates' keywords checked, and not their substatements.
UnknownDeviates(d, n) ==
    UNION {Error(x, "deviate") :
              x \in {y \in DOMAIN d.stmt : /\ d.stmt[y].kw = "deviate"
                                           /\ d.stmt[y].name = Bad
                                           /\ d.stmt[d.stmt[y].up].up = n}}

RECURSIVE ToEntry(_, _, _)

\* The tree of n, with n at key k.
ToEntry(d, n, k) ==
    LET Child(c) == Append(k, d.stmt[c].name)
        Field(t, c) ==
            CASE d.stmt[c].kw = "uses" ->
                    LET g == GroupingOf(d, c)
                    IN  IF g # 0 THEN Merge(t, k, ToEntry(d, g, <<g>>), <<g>>)
                        ELSE IF d.ignore THEN t
                        ELSE Note(t, k, Error(c, "unknown group"))
              [] d.stmt[c].kw = "include" ->
                    LET m == d.stmt[c].of IN Merge(t, k, ToEntry(d, m, <<m>>), <<m>>)
              [] d.stmt[c].kw = "grouping" ->
                    Note(t, k, ErrorsBelow(ToEntry(d, c, <<c>>), <<c>>))
              [] d.stmt[c].kw \in {"input", "output"} ->
                    [t EXCEPT ![k][d.stmt[c].kw] = Append(k, d.stmt[c].kw)] @@
                        ToEntry(d, c, Append(k, d.stmt[c].kw))
              [] OTHER -> Add(t, k, ToEntry(d, c, Child(c)), Child(c))
    IN  FoldLeft(Field, k :> [NewEntry(d, n) EXCEPT !.errs = @ \cup UnknownDeviates(d, n)],
                 Fields(d, n))

\* Everything that has been converted.
Converted(d) ==
    LET made == Roots(d) \cup {n \in DOMAIN d.stmt : d.stmt[n].kw = "grouping"}
        t == [n \in made |-> ToEntry(d, n, <<n>>)]
    IN  FoldSet(LAMBDA n, r : r @@ t[n], <<>>, made)

\* The list attributes of every list and leaf-list.
ListAttrs(d) ==
    [n \in {x \in DOMAIN d.stmt : d.stmt[x].kw \in Listlike} |->
        [min |-> MinElements(d.stmt[n].min), max |-> MaxElements(d.stmt[n].max)]]

\* The arrays of the defaults of every leaf, leaf-list and choice.
DefaultArrays(d) ==
    [n \in {x \in DOMAIN d.stmt : d.stmt[x].kw # "deviate" /\ d.stmt[x].default # <<>>} |->
        Array(d.stmt[n].default)]

\* The errors Process collects of the entries of all modules and submodules.
Reported(d, t) == UNION {ErrorsBelow(t, <<n>>) : n \in Roots(d)}

-----------------------------------------------------------------------------
(* What the statements say *)

\* r and the submodules it includes, directly or through others.
Includes(d, r) == {d.stmt[i].of : i \in ToSet(Sub(d, r, "include"))}
Including(d, r) ==
    {x \in Roots(d) : \A R \in SUBSET Roots(d) :
        r \in R /\ (\A y \in R : Includes(d, y) \subseteq R) => x \in R}

\* The modules and submodules whose groupings prefix p leads to in r.
IsLocal(d, r, p) == p \in {"", d.stmt[r].prefix}
Scope(d, r, p) ==
    IF IsLocal(d, r, p) THEN Including(d, r)
    ELSE UNION {Including(d, d.stmt[i].of) :
                    i \in {x \in ToSet(Sub(d, r, "import")) : d.stmt[x].prefix = p}}

\* The groupings a uses statement may mean: the one in the innermost statement above it
\* that has one of this name, or, with a prefix or when there is none, those in scope.
NamedIn(d, u, a) == {g \in ToSet(Sub(d, a, "grouping")) : d.stmt[g].name = d.stmt[u].name}
Visible(d, u) ==
    LET r == RootNode(d, u)
        p == d.stmt[u].prefix
        near == SelectSeq(Above(d, u), LAMBDA a : IsLocal(d, r, p) /\ NamedIn(d, u, a) # {})
    IN  IF near # <<>> THEN NamedIn(d, u, Head(near))
        ELSE UNION {NamedIn(d, u, y) : y \in Scope(d, r, p)}

\* Those in scope in a submodule that is included where the uses statement is.
VisibleBelow(d, u) ==
    UNION {UNION {NamedIn(d, u, y) : y \in Scope(d, s, d.stmt[u].prefix)} :
               s \in Including(d, RootNode(d, u))}

\* The statements that are below a statement as written: a uses statement stands
\* for what is in its grouping and an include statement for the submodule.  A walk
\* goes from n down through them.
Body(d, n) ==
    CASE d.stmt[n].kw = "uses" -> GroupingOf(d, n)
      [] d.stmt[n].kw = "include" -> d.stmt[n].of
      [] OTHER -> n
Children(d, n) == {c \in ToSet(Fields(d, n)) : d.stmt[c].kw # "grouping"}

RECURSIVE Walks(_, _)
Walks(d, n) ==
    UNION {{<<c>>} \cup {<<c>> \o w : w \in IF Body(d, c) = 0 THEN {} ELSE Walks(d, Body(d, c))} :
              c \in Children(d, n)}

Link(d, n) == d.stmt[n].kw \in {"uses", "include"}
Written(d, W) == {w \in W : ~ Link(d, Last(w))}
Spelled(d, w) ==
    LET named == SelectSeq(w, LAMBDA n : ~ Link(d, n))
    IN  [i \in DOMAIN named |-> d.stmt[named[i]].name]

\* A walk goes through the input or output of an operation.
InOperation(d, w) == \E i \in DOMAIN w : d.stmt[w[i]].kw \in {"input", "output"}

\* What is wrong in a document: with the last statement of a walk, or with two
\* walks, of the set W of those from one statement, that are spelled alike.
Faulty(d, n) ==
    \/ OwnErrors(d, n) # {}
    \/ d.stmt[n].kw = "uses" /\ GroupingOf(d, n) = 0 /\ ~ d.ignore
Repeated(d, W, w) == \E v \in Written(d, W) : v # w /\ Spelled(d, v) = Spelled(d, w)

=============================================================================
