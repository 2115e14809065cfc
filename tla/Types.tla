-------------------------------- MODULE Types --------------------------------
(***************************************************************************)
(* Typedefs and types: typeDictionary, Typedef.resolve and Type.resolve of *)
(* pkg/yang/types.go, which Process calls for every typedef, and then, if  *)
(* nothing failed, ToEntry for the type of every leaf.                     *)
(*                                                                         *)
(* A YangType is known by the typedef or type statement it was made for    *)
(* (t.YangType is a pointer to it); yt holds the YangTypes.  A copy of a   *)
(* YangType shares the array of its list of patterns: a list is an array   *)
(* of the heap and a length, and append writes into the array while there  *)
(* is room.  The recursion of the two functions is a stack.                *)
(*                                                                         *)
(* range stands for range and length, patterns for pattern and             *)
(* posix-pattern.  A restriction is a set of values: how it is computed is *)
(* in Ranges.  Flags that are only copied are left out.                    *)
(***************************************************************************)
EXTENDS EnumType, FiniteSets, SequencesExt

CONSTANTS
    Documents,  \* what may have been read
    Builtin,    \* the base types
    BuiltinRange,   \* their ranges, None for those that have none
    None,       \* no typedef, YangType, statement or module
    MaxProcess  \* bound on the calls of Process

\* A document d has
\*    d.typedef[i]  node (where it is defined), name, type, default
\*    d.type[i]     path (the nodes above it, innermost first), prefix, name, and the
\*                  statements range, digits, base, enum, bit, patterns, ext, members
\*    d.leaves      the types of leaves
\*    d.prefix[m]   the prefix a module or submodule has for itself,
\*    d.include[m]  its submodules and d.import[m] its imports by prefix
\*    d.submodules, d.identities
\*    d.ignore      the option IgnoreModuleResolveErrors
ASSUME DocumentsAssumption ==
    \A d \in Documents :
        /\ DOMAIN d.typedef \cap DOMAIN d.type = {}
        /\ Builtin \cap (DOMAIN d.typedef \cup DOMAIN d.type) = {}
        /\ IsFiniteSet(DOMAIN d.typedef) /\ IsFiniteSet(DOMAIN d.type)
        /\ d.leaves \subseteq DOMAIN d.type
        /\ \A i \in DOMAIN d.typedef : d.typedef[i].type \in DOMAIN d.type
        /\ \A i, j \in DOMAIN d.typedef :
              d.typedef[i].node = d.typedef[j].node /\ d.typedef[i].name = d.typedef[j].name => i = j
        /\ \A m \in DOMAIN d.include : d.include[m] \in Seq(STRING)
        /\ \A i \in DOMAIN d.type :
              /\ d.type[i].path \in Seq(STRING) /\ Last(d.type[i].path) \in DOMAIN d.include
              /\ d.type[i].members \in Seq(DOMAIN d.type)
              /\ d.type[i].patterns \in Seq(STRING)
              /\ d.type[i].enum \in Seq(EnumStatement)
              /\ d.type[i].bit \in Seq(EnumStatement)
        /\ None \notin DOMAIN d.typedef \cup d.identities

ASSUME BuiltinAssumption == {"decimal64", "identityref"} \subseteq Builtin

VARIABLES
    doc,        \* what has been read
    yt,         \* the YangTypes made so far
    heap,       \* the arrays of lists of patterns
    loop,       \* the loop that runs: over typedefs, or over leaves
    todo,       \* what it has not yet come to
    stack,      \* the calls of Typedef.resolve and Type.resolve in progress
    enter,      \* what is called next
    ret,        \* the errors being returned
    errs,       \* the errors of this Process
    pc,
    calls       \* calls of Process so far

vars == <<doc, yt, heap, loop, todo, stack, enter, ret, errs, pc, calls>>

Typedefs == DOMAIN doc.typedef
Types == DOMAIN doc.type

-----------------------------------------------------------------------------
(* Lists that share arrays *)

NoPatterns == [arr |-> 0, len |-> 0]

Content(h, s) == IF s.len = 0 THEN <<>> ELSE SubSeq(h[s.arr], 1, s.len)

\* append(s, x).  An array that is full is copied into one of twice its size.
Full(h, s) == s.arr = 0 \/ s.len = Len(h[s.arr])
Grown(h, s, x) ==
    Content(h, s) \o <<x>> \o
        [i \in 1 .. (IF s.len = 0 THEN 0 ELSE s.len - 1) |-> None]
AppendTo(m, x) ==
    IF Full(m.heap, m.list)
    THEN [heap |-> Append(m.heap, Grown(m.heap, m.list, x)),
          list |-> [arr |-> Len(m.heap) + 1, len |-> m.list.len + 1]]
    ELSE [heap |-> [m.heap EXCEPT ![m.list.arr][m.list.len + 1] = x],
          list |-> [m.list EXCEPT !.len = @ + 1]]

\* The patterns of a statement that are not in the list yet are appended to it.
AddPattern(m, x) == IF x \in ToSet(Content(m.heap, m.list)) THEN m ELSE AppendTo(m, x)
AddPatterns(h, s, patterns) ==
    LET after[k \in 0 .. Len(patterns)] ==
            IF k = 0 THEN [heap |-> h, list |-> s]
            ELSE AddPattern(after[k - 1], patterns[k])
    IN  after[Len(patterns)]

-----------------------------------------------------------------------------
(* YangTypes *)

BuiltinType(b) ==
    [kind |-> b, range |-> BuiltinRange[b], digits |-> 0, base |-> None, enum |-> None,
     bit |-> None, patterns |-> NoPatterns, members |-> <<>>, default |-> None,
     root |-> b]

Enumerated(new, statements, old) ==
    IF statements = <<>> THEN old ELSE After(new, statements)[Len(statements)]

\* The YangTypes that the statements of a document d can make.
YangType(d) ==
    LET written(f) == {d.type[t][f] : t \in DOMAIN d.type} IN
    [kind : Builtin,
     range : written("range") \cup {BuiltinRange[b] : b \in Builtin},
     digits : written("digits") \cup {0},
     base : written("base") \cup {None},
     enum : {Enumerated(NewEnumType, q, None) : q \in written("enum")} \cup {None},
     bit : {Enumerated(NewBitfield, q, None) : q \in written("bit")} \cup {None},
     patterns : [arr : Nat, len : Nat],
     members : Seq(DOMAIN d.type),
     default : {d.typedef[i].default : i \in DOMAIN d.typedef} \cup {None},
     root : Builtin \cup DOMAIN d.typedef \cup DOMAIN d.type]

\* A pointer to a YangType is not nil.
ASSUME NoneAssumption == \A d \in Documents : None \notin YangType(d)

\* YangType.Equal without the members.  Bit is not compared.
Alike(h, y, z) ==
    /\ y.kind = z.kind /\ y.range = z.range /\ y.digits = z.digits
    /\ y.base = z.base /\ y.enum = z.enum /\ y.default = z.default
    /\ Content(h, y.patterns) = Content(h, z.patterns)

\* YangType.Equal, with tsEqual.  Unions of unions are compared by their pointers.
Equal(ts, h, y, z) ==
    /\ Alike(h, y, z)
    /\ Len(y.members) = Len(z.members)
    /\ \A i \in DOMAIN y.members :
          \/ y.members[i] = z.members[i]
          \/ /\ Alike(h, ts[y.members[i]], ts[z.members[i]])
             /\ ts[y.members[i]].members = ts[z.members[i]].members

-----------------------------------------------------------------------------
(* Where a name leads *)

Root(t) == Last(doc.type[t].path)
FindIn(n, name) ==
    {d \in Typedefs : doc.typedef[d].node = n /\ doc.typedef[d].name = name}

IsBuiltin(t) == doc.type[t].prefix = "" /\ doc.type[t].name \in Builtin
IsLocal(t) == doc.type[t].prefix \in {"", doc.prefix[Root(t)]}

\* The nodes where a local name is looked up.  Mutant: from the module inwards.
OutermostFirst(t) == Reverse(doc.type[t].path)
NodesAbove(t) == doc.type[t].path

\* A local name is looked up in the nodes above t, then in the submodules that its
\* module includes; another one in the module imported under its prefix.
Scopes(t) ==
    IF IsLocal(t)
    THEN NodesAbove(t) \o doc.include[Root(t)]
    ELSE LET imports == doc.import[Root(t)] IN
         IF doc.type[t].prefix \in DOMAIN imports
         THEN <<imports[doc.type[t].prefix]>> ELSE <<>>

\* The places in Scopes(t) where the name of t is defined.
Defining(t) == {i \in DOMAIN Scopes(t) : FindIn(Scopes(t)[i], doc.type[t].name) # {}}

\* The typedef t is based on, or None.
Found(t) ==
    IF Defining(t) = {} THEN None
    ELSE CHOOSE d \in FindIn(Scopes(t)[Min(Defining(t))], doc.type[t].name) : TRUE

-----------------------------------------------------------------------------
Init ==
    /\ doc \in Documents
    /\ yt = [p \in Builtin \cup Typedefs \cup Types |->
                IF p \in Builtin THEN BuiltinType(p) ELSE None]
    /\ heap = <<>>
    /\ loop = "typedefs" /\ todo = {} /\ stack = <<>>
    /\ enter = None /\ ret = {} /\ errs = {}
    /\ pc = "idle"
    /\ calls = 0

Process ==
    /\ pc = "idle" /\ calls < MaxProcess
    /\ pc' = "loop" /\ loop' = "typedefs" /\ todo' = Typedefs
    /\ errs' = {}
    /\ calls' = calls + 1
    /\ UNCHANGED <<doc, yt, heap, stack, enter, ret>>

\* resolveTypedefs walks over maps; ToEntry comes to the leaves of modules in random order.
Resolve ==
    /\ pc = "loop"
    /\ \E x \in todo : enter' = x /\ todo' = todo \ {x}
    /\ pc' = "enter"
    /\ UNCHANGED <<doc, yt, heap, loop, stack, ret, errs, calls>>

EndTypedefs ==
    /\ pc = "loop" /\ loop = "typedefs" /\ todo = {}
    /\ IF errs = {} THEN loop' = "leaves" /\ todo' = doc.leaves /\ UNCHANGED pc
       ELSE pc' = "idle" /\ UNCHANGED <<loop, todo>>
    /\ UNCHANGED <<doc, yt, heap, stack, enter, ret, errs, calls>>

EndLeaves ==
    /\ pc = "loop" /\ loop = "leaves" /\ todo = {}
    /\ pc' = "idle"
    /\ UNCHANGED <<doc, yt, heap, loop, todo, stack, enter, ret, errs, calls>>

Returns(e) == pc' = "return" /\ ret' = e

\* What is resolved is not resolved again.
AlreadyResolved ==
    /\ pc = "enter" /\ yt[enter] # None
    /\ Returns({})
    /\ UNCHANGED <<doc, yt, heap, loop, todo, stack, enter, errs, calls>>

Push(x) == stack' = Append(stack, [of |-> x, n |-> 0, errs |-> {}])

EnterTypedef ==
    /\ pc = "enter" /\ enter \in Typedefs /\ yt[enter] = None
    /\ Push(enter)
    /\ enter' = doc.typedef[enter].type
    /\ UNCHANGED <<doc, yt, heap, loop, todo, ret, errs, pc, calls>>

-----------------------------------------------------------------------------
(* The restrictions of a type statement s on the YangType y of its typedef *)

IsDecimal(s, y) ==
    y.kind = "decimal64" /\ ((s.prefix = "" /\ s.name = "decimal64") \/ y.digits # 0)

Overrides(s, y) == IsDecimal(s, y) /\ y.digits # 0 /\ s.digits # 0
NeedsDigits(s, y) == IsDecimal(s, y) /\ y.digits = 0
NeedsBase(s, y) == s.digits = 0 /\ s.prefix = "" /\ s.name = "identityref"

Digits(s, y) ==
    IF NeedsDigits(s, y) THEN (IF s.digits \in 1 .. 18 THEN s.digits ELSE 0) ELSE y.digits
Base(s, y) == IF NeedsBase(s, y) /\ s.base \in doc.identities THEN s.base ELSE y.base

Narrows(s, y) == s.range # None /\ (y.range = None \/ s.range \subseteq y.range)

\* The statements of an enumeration that Set or SetNext refuses.
EnumErrors(new, statements) ==
    {i \in DOMAIN statements : StatementFails(After(new, statements)[i - 1], statements[i])}

\* The errors found while the statements are applied.
StatementErrors(s, y) ==
    {k \in {"digits", "base", "range", "enum"} :
        \/ k = "digits" /\ NeedsDigits(s, y) /\ s.digits \notin 1 .. 18
        \/ k = "digits" /\ ~ IsDecimal(s, y) /\ s.digits # 0
        \/ k = "base" /\ NeedsBase(s, y) /\ s.base \notin doc.identities
        \/ k = "range" /\ s.range # None /\ ~ Narrows(s, y)
        \/ k = "enum" /\ EnumErrors(NewEnumType, s.enum) # {}
        \/ k = "enum" /\ EnumErrors(NewBitfield, s.bit) # {}}

Restricted(s, y, list) ==
    [y EXCEPT !.digits = Digits(s, y), !.base = Base(s, y),
              !.range = IF Narrows(s, y) THEN s.range ELSE @,
              !.enum = Enumerated(NewEnumType, s.enum, @),
              !.bit = Enumerated(NewBitfield, s.bit, @),
              !.patterns = list]

\* An extension whose prefix is unknown makes resolve return that error alone.
\* Mutant: the others alone.
OthersAlone(e) == e
ErrorAlone(e) == {"ext"}

Tagged(t, e) == {<<t, k>> : k \in e}

\* Type.resolve from the copy of the YangType of what t is based on to the members of
\* a union.  t.YangType is set first: what fails later does not take it back.
Derive(t, y, frames) ==
    LET s == doc.type[t]
        e == StatementErrors(s, y)
        m == AddPatterns(heap, y.patterns, s.patterns)
    IN  IF Overrides(s, y)
        THEN /\ yt' = [yt EXCEPT ![t] = y]
             /\ stack' = frames
             /\ Returns(Tagged(t, {"digits"}))
             /\ UNCHANGED heap
        ELSE /\ yt' = [yt EXCEPT ![t] = Restricted(s, y, m.list)]
             /\ heap' = m.heap
             /\ IF s.ext
                THEN stack' = frames /\ Returns(Tagged(t, ErrorAlone(e)))
                ELSE /\ stack' = Append(frames, [of |-> t, n |-> 1, errs |-> Tagged(t, e)])
                     /\ pc' = "members" /\ UNCHANGED ret

EnterBuiltin ==
    /\ pc = "enter" /\ enter \in Types /\ yt[enter] = None /\ IsBuiltin(enter)
    /\ Derive(enter, yt[doc.type[enter].name], stack)
    /\ UNCHANGED <<doc, loop, todo, enter, errs, calls>>

EnterType ==
    /\ pc = "enter" /\ enter \in Types /\ yt[enter] = None
    /\ ~ IsBuiltin(enter) /\ Found(enter) # None
    /\ Push(enter)
    /\ enter' = Found(enter)
    /\ UNCHANGED <<doc, yt, heap, loop, todo, ret, errs, pc, calls>>

\* The error for a local name is worded with root.Prefix, which a submodule has not.
Panics(t) == IsLocal(t) /\ Root(t) \in doc.submodules

UnknownType ==
    /\ pc = "enter" /\ enter \in Types /\ yt[enter] = None
    /\ ~ IsBuiltin(enter) /\ Found(enter) = None
    /\ IF Panics(enter) THEN pc' = "panic" /\ UNCHANGED ret
       ELSE Returns(IF doc.ignore /\ ~ IsLocal(enter) THEN {} ELSE Tagged(enter, {"unknown"}))
    /\ UNCHANGED <<doc, yt, heap, loop, todo, stack, enter, errs, calls>>

-----------------------------------------------------------------------------
(* Returns *)

Top == Last(stack)
Waiting(x) == pc = "return" /\ stack # <<>> /\ Top.of \in x /\ Top.n = 0

\* resolveTypedefs or ToEntry gets the errors.
Collect ==
    /\ pc = "return" /\ stack = <<>>
    /\ errs' = errs \cup ret
    /\ ret' = {}
    /\ pc' = "loop"
    /\ UNCHANGED <<doc, yt, heap, loop, todo, stack, enter, calls>>

Fail ==
    /\ Waiting(Typedefs \cup Types) /\ ret # {}
    /\ stack' = Front(stack)
    /\ UNCHANGED <<doc, yt, heap, loop, todo, enter, ret, errs, pc, calls>>

\* The YangType of typedef d: a copy of its type's, with its own default and, if the
\* type statement has a base, that identity.
TypedefType(d) ==
    LET y == yt[doc.typedef[d].type]
        s == doc.type[doc.typedef[d].type]
    IN  [y EXCEPT !.default = IF doc.typedef[d].default # None
                              THEN doc.typedef[d].default ELSE @,
                  !.base = IF s.base # None THEN s.base ELSE @]

\* The YangType becomes its own root if it differs from its root, or its root is the
\* type of the typedef statement.  Mutant: only if it differs.
OwnRootIfChanged(d, y) == ~ Equal(yt, heap, y, yt[y.root])
OwnRoot(d, y) ==
    y.root = doc.typedef[d].type \/ ~ Equal(yt, heap, y, yt[y.root])

TypedefResolved ==
    /\ Waiting(Typedefs) /\ ret = {} /\ yt[doc.typedef[Top.of].type] # None
    /\ LET d == Top.of
           y == TypedefType(d)
       IN  IF y.base # None /\ y.base \notin doc.identities
           THEN Returns(Tagged(d, {"base"})) /\ UNCHANGED yt
           ELSE /\ yt' = [yt EXCEPT ![d] = IF OwnRoot(d, y) THEN [y EXCEPT !.root = d] ELSE y]
                /\ UNCHANGED <<pc, ret>>
    /\ stack' = Front(stack)
    /\ UNCHANGED <<doc, heap, loop, todo, enter, errs, calls>>

\* Errors of modules that are missing are ignored: the type stays unresolved.
Ignored ==
    /\ Waiting(Typedefs \cup Types) /\ ret = {}
    /\ yt[IF Top.of \in Types THEN Found(Top.of) ELSE doc.typedef[Top.of].type] = None
    /\ stack' = Front(stack)
    /\ UNCHANGED <<doc, yt, heap, loop, todo, enter, ret, errs, pc, calls>>

TypeFound ==
    /\ Waiting(Types) /\ ret = {} /\ yt[Found(Top.of)] # None
    /\ Derive(Top.of, yt[Found(Top.of)], Front(stack))
    /\ UNCHANGED <<doc, loop, todo, enter, errs, calls>>

\* The next member of a union is resolved.
Member ==
    /\ pc = "members" /\ Top.n <= Len(doc.type[Top.of].members)
    /\ enter' = doc.type[Top.of].members[Top.n]
    /\ pc' = "enter"
    /\ UNCHANGED <<doc, yt, heap, loop, todo, stack, ret, errs, calls>>

\* The members go on after n.
NextMember(n) == n + 1

\* A member joins the union unless it equals one that is there.
MemberReturns ==
    /\ pc = "return" /\ stack # <<>> /\ Top.of \in Types /\ Top.n > 0
    /\ LET t == Top.of
           u == doc.type[t].members[Top.n]
           new == /\ yt[u] # None
                  /\ \A i \in DOMAIN yt[t].members :
                        ~ Equal(yt, heap, yt[u], yt[yt[t].members[i]])
       IN  yt' = IF new THEN [yt EXCEPT ![t].members = Append(@, u)] ELSE yt
    /\ stack' = [stack EXCEPT ![Len(stack)].n = NextMember(@),
                              ![Len(stack)].errs = @ \cup ret]
    /\ pc' = "members" /\ ret' = {}
    /\ UNCHANGED <<doc, heap, loop, todo, enter, errs, calls>>

TypeResolved ==
    /\ pc = "members" /\ Top.n > Len(doc.type[Top.of].members)
    /\ LET t == Top.of IN
       yt' = [yt EXCEPT ![t].root = IF Equal(yt, heap, yt[t], yt[@]) THEN @ ELSE t]
    /\ stack' = Front(stack)
    /\ Returns(Top.errs)
    /\ UNCHANGED <<doc, heap, loop, todo, enter, errs, calls>>

Step ==
    \/ Resolve \/ EndTypedefs \/ EndLeaves
    \/ AlreadyResolved \/ EnterTypedef \/ EnterBuiltin \/ EnterType \/ UnknownType
    \/ Collect \/ Fail \/ TypedefResolved \/ TypeFound \/ Ignored
    \/ Member \/ MemberReturns \/ TypeResolved

Next == Process \/ Step

Spec == Init /\ [][Next]_vars

-----------------------------------------------------------------------------
(* Properties *)

\* The typedefs that the name of t may mean are those of the nodes above t and of the
\* included submodules, the nearest first, or those of the imported module.
Meant(t) ==
    LET s == doc.type[t]
        near == s.path \o doc.include[Root(t)]
    IN  {d \in Typedefs :
            /\ doc.typedef[d].name = s.name
            /\ IF IsLocal(t)
               THEN \E i \in DOMAIN near :
                       /\ doc.typedef[d].node = near[i]
                       /\ \A j \in 1 .. i - 1 : FindIn(near[j], s.name) = {}
               ELSE /\ s.prefix \in DOMAIN doc.import[Root(t)]
                    /\ doc.typedef[d].node = doc.import[Root(t)][s.prefix]}

\* What the members of T lead to, in any number of steps of the function to.
Reached(to, T) ==
    LET after[n \in 0 .. Cardinality(DOMAIN to)] ==
            IF n = 0 THEN T
            ELSE LET before == after[n - 1] IN before \cup UNION {to[x] : x \in before}
    IN  after[Cardinality(DOMAIN to)]

\* What a typedef or type is based on in one step; the chain of t, t included.
BasedOn ==
    [p \in Typedefs \cup Types |->
        IF p \in Typedefs THEN {doc.typedef[p].type} ELSE IF IsBuiltin(p) THEN {} ELSE Meant(p)]
ChainOf(t) == Reached(BasedOn, {t})

Statements(t) == {doc.type[u] : u \in ChainOf(t) \cap Types}
Base0(t) == CHOOSE b \in Builtin : \E u \in ChainOf(t) \cap Types : IsBuiltin(u) /\ doc.type[u].name = b

\* The types that Process comes to: those of typedefs and leaves, and their members.
TypesOf(T) == Reached([t \in Types |-> ToSet(doc.type[t].members)], T)
TypedefTypes == TypesOf({doc.typedef[d].type : d \in Typedefs})
LeafTypes == TypesOf(doc.leaves)

\* The ranges that those before t in its chain allow.
Allowed(t) ==
    {BuiltinRange[Base0(t)]} \cup {doc.type[u].range : u \in (ChainOf(t) \cap Types) \ {t}}

\* What is wrong with the statement t itself.
Faulty(t) ==
    LET s == doc.type[t]
        kind == Base0(t)
    IN  \/ ~ IsBuiltin(t) /\ Meant(t) = {}
        \/ \E u \in ChainOf(t) \cap Types : ~ IsBuiltin(u) /\ Meant(u) = {}
        \/ kind = "decimal64" /\ IsBuiltin(t) /\ s.digits \notin 1 .. 18
        \/ s.digits # 0 /\ ~ (kind = "decimal64" /\ IsBuiltin(t))
        \/ kind = "identityref" /\ IsBuiltin(t) /\ s.base \notin doc.identities
        \/ s.range # None /\ \E r \in Allowed(t) \ {None} : ~ s.range \subseteq r
        \/ EnumErrors(NewEnumType, s.enum) # {} \/ EnumErrors(NewBitfield, s.bit) # {}
        \/ s.ext

FaultyTypedef(d) ==
    LET s == doc.type[doc.typedef[d].type] IN s.base # None /\ s.base \notin doc.identities

Done == pc = "idle" /\ calls > 0

\* The first Process fails exactly if something is wrong with a typedef or its type, or
\* else with the type of a leaf.  A type with an error is taken for resolved when it is
\* met again, and the maps decide what is met first: the error must have been returned.
FaultsReported ==
    Done /\ calls = 1 /\ ~ doc.ignore =>
        (errs # {} <=>
            \/ \E d \in Typedefs : FaultyTypedef(d)
            \/ \E t \in TypedefTypes \cup LeafTypes : Faulty(t))

\* t holds exactly the patterns of its chain ...
PatternsOf(t) == UNION {ToSet(s.patterns) : s \in Statements(t)}
HasItsPatterns(t) ==
    /\ ToSet(Content(heap, yt[t].patterns)) = PatternsOf(t)
    /\ yt[t].patterns.len = Cardinality(PatternsOf(t))

\* ... unless one of the chain and another type have both added patterns to a list whose
\* array has room.
Shares(t) ==
    \E u \in ChainOf(t) \cap Types, v \in Types : \E d \in Meant(u), e \in Meant(v) :
        /\ u # v /\ doc.type[u].patterns # <<>> /\ doc.type[v].patterns # <<>>
        /\ yt[d].patterns = yt[e].patterns
        /\ ~ Full(heap, yt[d].patterns)

\* After a Process without errors every type is what its chain of typedefs says: the kind
\* of the base type, the narrowest of the ranges, the digits and base that were given,
\* and all patterns, in whatever order typedefs and leaves were resolved.
TypesAsWritten ==
    Done /\ calls = 1 /\ errs = {} /\ ~ doc.ignore =>
        \A t \in TypedefTypes \cup LeafTypes :
            /\ yt[t].kind = Base0(t)
            /\ \A s \in Statements(t) :
                  /\ s.range # None => yt[t].range \subseteq s.range
                  /\ s.digits # 0 => yt[t].digits = s.digits
            /\ yt[t].kind = "identityref" =>
                  yt[t].base \in {s.base : s \in Statements(t)} \ {None}
            /\ yt[t].range \in {BuiltinRange[Base0(t)]} \cup {s.range : s \in Statements(t)}
            /\ \A d \in ChainOf(t) \cap Typedefs :
                  doc.typedef[d].default # None => yt[t].default # None
            /\ HasItsPatterns(t) \/ Shares(t)

\* "Append any newly found patterns to the end of the list of patterns.  Patterns are
\* ANDed": a type holds the patterns of its chain and no other.
PatternsAsWritten ==
    Done /\ calls = 1 /\ errs = {} /\ ~ doc.ignore =>
        \A t \in TypedefTypes \cup LeafTypes : HasItsPatterns(t)

\* Whatever failed, Root leads to a YangType that is its own root and equals this one,
\* unless resolve stopped at an extension before it compared them; it is never that of
\* a type statement, which nobody else refers to, except this one.
RootIsSame ==
    pc = "idle" =>
        \A p \in {q \in DOMAIN yt : yt[q] # None} :
            /\ yt[yt[p].root].root = yt[p].root
            /\ Equal(yt, heap, yt[p], yt[yt[p].root]) \/ (p \in Types /\ doc.type[p].ext)
            /\ yt[p].root \in Types => yt[p].root = p

\* The names of an enumeration or a bits type and their values lead to each other.  An
\* automatic value is greater than all that were given before it, and a statement is
\* refused only if its name or value is taken, or its value or the next one out of range.
EnumAsWritten(new, e, q) ==
    LET refused == EnumErrors(new, q)
        before(i) == {q[j].name : j \in (1 .. i - 1) \ refused}
        values(i) == {e.toInt[n] : n \in before(i)}
    IN  /\ WellFormed(e)
        /\ \A i \in DOMAIN q \ refused :
              IF q[i].value # NoValue THEN e.toInt[q[i].name] = q[i].value
              ELSE \A v \in values(i) : v < e.toInt[q[i].name]
        /\ \A i \in refused :
              \/ q[i].name \in before(i)
              \/ q[i].value # NoValue /\ q[i].value \notin e.min .. e.max
              \/ e.unique /\ q[i].value \in values(i)
              \/ q[i].value = NoValue /\ {MaxEnum, e.max} \cap values(i) # {}
\* The digits of a decimal64 may not be given twice, and resolve comes to no statement
\* after them.
EnumsAsWritten ==
    \A t \in Types : yt[t] # None /\ yt[t].kind # "decimal64" =>
        /\ doc.type[t].enum # <<>> => EnumAsWritten(NewEnumType, yt[t].enum, doc.type[t].enum)
        /\ doc.type[t].bit # <<>> => EnumAsWritten(NewBitfield, yt[t].bit, doc.type[t].bit)

\* "using the next possible value that is greater than all previous values"
\* (types_builtin.go:630): a statement without a value is refused only if its name is
\* taken or there is no greater value.  This does not hold: SetNext of a bitfield ends
\* at MaxEnum, too.
NextIsPossible(new, e, q) ==
    LET refused == EnumErrors(new, q)
        before(i) == {q[j].name : j \in (1 .. i - 1) \ refused}
    IN  \A i \in refused :
            q[i].value = NoValue =>
                q[i].name \in before(i) \/ e.max \in {e.toInt[n] : n \in before(i)}
NextPossible ==
    \A t \in Types : yt[t] # None /\ yt[t].kind # "decimal64" =>
        /\ doc.type[t].enum # <<>> => NextIsPossible(NewEnumType, yt[t].enum, doc.type[t].enum)
        /\ doc.type[t].bit # <<>> => NextIsPossible(NewBitfield, yt[t].bit, doc.type[t].bit)
=============================================================================
