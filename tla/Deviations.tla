----------------------------- MODULE Deviations -----------------------------
(***************************************************************************)
(* The deviations of a schema: Process (pkg/yang/modules.go) converts all  *)
(* modules and submodules, stops if one has an error, and else calls       *)
(* ApplyDeviate (pkg/yang/entry.go) for the modules, then the submodules,  *)
(* each name once.  The maps of modules, and of the deviates of one        *)
(* deviation by their keyword, are walked in no particular order.          *)
(*                                                                         *)
(* Augments and implied cases, which come between the two, are in          *)
(* Augmentation.                                                           *)
(***************************************************************************)
EXTENDS Conversion

CONSTANT Documents      \* what may have been read

VARIABLES
    doc,        \* the document
    tree,       \* the entries
    attrs,      \* the list attributes that the entries point to
    arrays,     \* the arrays of the defaults that the entries have slices of
    pc,         \* "convert", "deviate" or "done"
    todo,       \* the modules and submodules Process has not come to
    dvP,        \* the names of those it has come to
    rest,       \* the deviations left in the current one
    current,    \* the deviation being applied, or 0
    at,         \* the key of its target
    detached,   \* the target, when it is no longer in the tree, or None
    kinds,      \* the keywords of its deviates that are left
    queue,      \* the deviates left of the current keyword
    errs,       \* the errors Process returns
    converted   \* the entries, list attributes and arrays before any deviation

walk == <<todo, dvP, rest, current, at, kinds>>
vars == <<doc, tree, attrs, arrays, pc, walk, detached, queue, errs, converted>>

S(n) == doc.stmt[n]
Deviates(n) == Sub(doc, n, "deviate")
OfKind(n, kind) == SelectSeq(Deviates(n), LAMBDA x : S(x).name = kind)

-----------------------------------------------------------------------------
(* Find *)

\* FindModuleByPrefix, with the module a submodule belongs to.
Owner(m) == IF S(m).kw = "submodule" THEN S(m).of ELSE m
ModuleByPrefix(m, prefix) ==
    LET imports == SelectSeq(Sub(doc, m, "import"), LAMBDA i : S(i).prefix = prefix)
    IN  IF prefix = S(m).prefix THEN Owner(m)
        ELSE IF imports = <<>> THEN 0 ELSE Owner(S(Head(imports)).of)

\* One part of a path.  An operation has its input and its output and takes any
\* other part as nothing.
Step(t, k, name) ==
    LET c == Append(k, name) IN
    IF k = None THEN None
    ELSE IF t[k].kw = "rpc" \/ t[k].input # None \/ t[k].output # None
         THEN IF name \in {"input", "output"} THEN t[k][name] ELSE k
         ELSE IF c \in DOMAIN t THEN c ELSE None

\* Entry.Find of a path from the root, from module m.
Find(t, m, prefix, path) ==
    LET r == IF prefix = "" THEN m ELSE ModuleByPrefix(m, prefix)
    IN  IF r = 0 THEN None
        ELSE FoldLeft(LAMBDA k, name : Step(t, k, name), <<r>>, path)

TargetIn(t, n) == Find(t, S(n).up, S(n).prefix, S(n).path)

-----------------------------------------------------------------------------
(* The deviates *)

Lists(e) == e.attr # None

\* The values a deviate sets config, mandatory, units and the type to, or removes.
\* A type that does not resolve is dropped.
Said(x, f) == IF f = "default" THEN S(x).default # <<>> ELSE Set(S(x)[f])
Plain == {"config", "mandatory", "units", "type"}

\* What is done after the list attributes is left out when they cannot be changed.
HasBounds(x) == S(x).min # None \/ S(x).max # None
Aborted(x, e) == HasBounds(x) /\ ~ Lists(e)
Reaches(x, e) == IF Aborted(x, e) THEN Plain \ {"units", "type"} ELSE Plain

\* deviate add and deviate replace.  One more default of a leaf-list is written into
\* the array it has, if that is not full; other defaults are in a new one.
AddedDefault(x, e) ==
    IF S(x).name = "replace" THEN Slice(x, S(x).default)
    ELSE IF e.kw = "leaf-list"
         THEN [array |-> IF Full(arrays, e.default) THEN x ELSE e.default.array,
               len |-> e.default.len + 1]
    ELSE IF e.default.len = 0 THEN Slice(x, S(x).default) ELSE e.default
DefaultWritten(x, e) ==
    LET new == AddedDefault(x, e)
        kept == IF S(x).name = "replace" THEN <<>> ELSE Content(arrays, e.default)
    IN  IF ~ Said(x, "default") \/ new = e.default THEN arrays
        ELSE IF new.array = x THEN x :> Array(kept \o S(x).default) @@ arrays
        ELSE [arrays EXCEPT ![new.array][new.len] = S(x).default[1]]

Changed(x, e) ==
    [f \in DOMAIN e |->
        IF f = "default" /\ Said(x, f) THEN AddedDefault(x, e)
        ELSE IF f \in Reaches(x, e) /\ Said(x, f) THEN S(x)[f] ELSE e[f]]
\* Mutant: what is not given is taken for the default of the attribute.
GivenOnly(x, a) == [min |-> MinElements(S(x).min), max |-> MaxElements(S(x).max)]
ChangedAttr(x, a) ==
    [min |-> IF S(x).min = None THEN a.min ELSE MinElements(S(x).min),
     max |-> IF S(x).max = None THEN a.max ELSE MaxElements(S(x).max)]
ChangeFails(x, e, a) ==
    \/ Aborted(x, e)
    \/ S(x).name = "add" /\ Said(x, "default") /\ e.kw # "leaf-list" /\ e.default.len # 0

\* deviate delete.  What is no leaf-list has one default at most.
Matches(x, e) == Content(arrays, e.default) = S(x).default
Deleted(x, e) ==
    [f \in DOMAIN e |->
        IF f = "default" /\ Said(x, f) /\ e.kw # "leaf-list" /\ Matches(x, e) THEN NoValues
        ELSE IF f \in {"config", "mandatory"} /\ Said(x, f) THEN None ELSE e[f]]
DeletedAttr(x, a) ==
    [min |-> IF S(x).min = None THEN a.min ELSE 0,
     max |-> IF S(x).max = None THEN a.max ELSE Unbounded]
\* Mutant: only the minimum is compared.
MinDiffers(x, a) == S(x).min # None /\ MinElements(S(x).min) # a.min
AttrDiffers(x, a) ==
    \/ S(x).min # None /\ MinElements(S(x).min) # a.min
    \/ S(x).max # None /\ MaxElements(S(x).max) # a.max
DeleteFails(x, e, a) ==
    \/ Aborted(x, e)
    \/ Lists(e) /\ AttrDiffers(x, a)
    \/ Said(x, "default") /\ (e.kw = "leaf-list" \/ ~ Matches(x, e))

-----------------------------------------------------------------------------
Init ==
    /\ doc \in Documents
    /\ tree = <<>> /\ attrs = <<>> /\ arrays = <<>>
    /\ pc = "convert"
    /\ todo = {} /\ dvP = {} /\ rest = <<>> /\ current = 0
    /\ at = None /\ detached = None /\ kinds = {} /\ queue = <<>>
    /\ errs = {}
    /\ converted = <<>>

Convert ==
    /\ pc = "convert"
    /\ tree' = Converted(doc)
    /\ attrs' = ListAttrs(doc) /\ arrays' = DefaultArrays(doc)
    /\ errs' = Reported(doc, tree')
    /\ pc' = IF errs' = {} THEN "deviate" ELSE "done"
    /\ todo' = Roots(doc)
    /\ converted' = [tree |-> tree', attrs |-> attrs', arrays |-> arrays']
    /\ UNCHANGED <<doc, dvP, rest, current, at, detached, kinds, queue>>

\* The map of modules is walked before the map of submodules.
NextModule ==
    /\ pc = "deviate" /\ queue = <<>> /\ kinds = {} /\ rest = <<>>
    /\ \E m \in todo :
          /\ S(m).kw = "submodule" => \A x \in todo : S(x).kw = "submodule"
          /\ todo' = todo \ {m}
          /\ rest' = IF S(m).name \in dvP THEN <<>> ELSE Sub(doc, m, "deviation")
          /\ dvP' = dvP \cup {S(m).name}
    /\ current' = 0 /\ at' = None /\ detached' = None
    /\ UNCHANGED <<doc, tree, attrs, arrays, pc, kinds, queue, errs, converted>>

NextDeviation ==
    /\ pc = "deviate" /\ queue = <<>> /\ kinds = {} /\ rest # <<>>
    /\ rest' = Tail(rest)
    /\ current' = Head(rest)
    /\ at' = TargetIn(tree, Head(rest))
    /\ IF at' = None
       THEN kinds' = {} /\ errs' = errs \cup Error(Head(rest), "not found")
       ELSE kinds' = {S(x).name : x \in ToSet(Deviates(Head(rest)))} /\ errs' = errs
    /\ detached' = None
    /\ UNCHANGED <<doc, tree, attrs, arrays, pc, todo, dvP, queue, converted>>

NextKind ==
    /\ pc = "deviate" /\ queue = <<>>
    /\ \E k \in kinds :
          /\ kinds' = kinds \ {k}
          /\ queue' = OfKind(current, k)
    /\ UNCHANGED <<doc, tree, attrs, arrays, pc, todo, dvP, rest, current, at, detached, errs, converted>>

\* The entry the deviates change, in the tree or not, and its list attributes.
Target == IF detached = None THEN tree[at] ELSE detached
Attr == IF Lists(Target) THEN attrs[Target.attr] ELSE None

Applies(x, e, a, fails) ==
    /\ IF detached = None
       THEN tree' = [tree EXCEPT ![at] = e] /\ UNCHANGED detached
       ELSE detached' = e /\ UNCHANGED tree
    /\ attrs' = IF Lists(e) THEN [attrs EXCEPT ![e.attr] = a] ELSE attrs
    /\ errs' = IF fails THEN errs \cup Error(x, "deviate") ELSE errs

Deviate(kind) ==
    /\ pc = "deviate" /\ queue # <<>> /\ S(Head(queue)).name \in kind
    /\ queue' = Tail(queue)
    /\ UNCHANGED <<doc, pc, walk, converted>>

AddOrReplace ==
    /\ Deviate({"add", "replace"})
    /\ LET x == Head(queue) IN
       Applies(x, Changed(x, Target), IF Lists(Target) THEN ChangedAttr(x, Attr) ELSE None,
               ChangeFails(x, Target, Attr))
       /\ arrays' = DefaultWritten(x, Target)

Delete ==
    /\ Deviate({"delete"})
    /\ LET x == Head(queue) IN
       Applies(x, Deleted(x, Target), IF Lists(Target) THEN DeletedAttr(x, Attr) ELSE None,
               DeleteFails(x, Target, Attr))
    /\ UNCHANGED arrays

\* What is below the target goes with it.
Subtree(t, k) == DirKeys(t, k)

\* The target is deleted from the Dir of its parent.  An input or output is not
\* found there, and neither is what has been deleted before: the error goes to the
\* parent, whose errors are not read any more.
NotSupported ==
    /\ Deviate({"not-supported"})
    /\ UNCHANGED <<attrs, arrays>>
    /\ IF Len(at) = 1
       THEN /\ errs' = errs \cup Error(Head(queue), "no parent")
            /\ UNCHANGED <<tree, detached>>
       ELSE LET parent == SubSeq(at, 1, Len(at) - 1) IN
            /\ errs' = errs
            /\ IF detached = None /\ at \in DirKeys(tree, parent)
               THEN /\ tree' = [q \in DOMAIN tree \ Subtree(tree, at) |-> tree[q]]
                    /\ detached' = tree[at]
               ELSE /\ tree' = IF parent \in DOMAIN tree
                               THEN Note(tree, parent, Error(tree[parent].node, "unknown child"))
                               ELSE tree
                    /\ UNCHANGED detached

Finish ==
    /\ pc = "deviate" /\ queue = <<>> /\ kinds = {} /\ rest = <<>> /\ todo = {}
    /\ pc' = "done"
    /\ UNCHANGED <<doc, tree, attrs, arrays, walk, detached, queue, errs, converted>>

Next ==
    \/ Convert \/ NextModule \/ NextDeviation \/ NextKind
    \/ AddOrReplace \/ Delete \/ NotSupported \/ Finish

Spec == Init /\ [][Next]_vars

-----------------------------------------------------------------------------
(* Properties of the conversion *)

\* When no error has been reported, the entries of a module are the statements
\* that are written in it, with every uses and include statement replaced by what
\* it stands for, each under its own name.  In the input and output of operations,
\* whose errors are not collected, a repeated name has no such entry.
TreeAsWritten ==
    pc = "deviate" /\ dvP = {} =>
        \A m \in Roots(doc) :
            LET W == Walks(doc, m)
                outside == {w \in Written(doc, W) : ~ InOperation(doc, w)}
            IN
            /\ DirKeys(tree, <<m>>) \ {<<m>>} = {<<m>> \o Spelled(doc, w) : w \in outside}
            /\ \A w \in Written(doc, W) :
                  IF Repeated(doc, W, w) THEN InOperation(doc, w)
                  ELSE LET k == Find(tree, m, "", Spelled(doc, w)) IN
                       k # None /\ tree[k].node = Last(w)

\* Groupings are converted where they are, for their errors.
Checked(g) == S(g).kw = "grouping" /\ \A n \in ToSet(Above(doc, g)) : S(n).kw \notin {"input", "output"}
FaultOutside(n) ==
    LET W == Walks(doc, n) IN
    \E w \in W : /\ ~ InOperation(doc, w)
                 /\ Faulty(doc, Last(w)) \/ (~ Link(doc, Last(w)) /\ Repeated(doc, W, w))

\* Process stops before the deviations when a statement outside the input and output
\* of operations is in error, or two of them have one place, or a deviate has an
\* unknown keyword: importErrors and GetErrors lose none of these on the way up
\* through duplicates, groupings, used or not, and submodules.  And it stops only if
\* something is wrong in what has been read, be it in an operation.
UnknownDeviate == \E x \in DOMAIN doc.stmt : S(x).kw = "deviate" /\ S(x).name = Bad
FaultAnywhere(n) ==
    LET W == Walks(doc, n) IN
    \E w \in W : Faulty(doc, Last(w)) \/ (~ Link(doc, Last(w)) /\ Repeated(doc, W, w))
FaultsReported ==
    pc # "convert" /\ dvP = {} =>
        LET checked == Roots(doc) \cup {g \in DOMAIN doc.stmt : Checked(g)}
            stops == pc = "done"
        IN  /\ UnknownDeviate \/ (\E n \in checked : FaultOutside(n)) => stops
            /\ stops => UnknownDeviate \/ \E n \in checked : FaultAnywhere(n)

\* "Any errors encountered are found in the Errors fields of the returned Entry and
\* its children.  Use GetErrors to determine if there were any errors."
\* (entry.go:526).  Process reports no error only if no statement is in error.
\* This does not hold: GetErrors does not look into operations, and the entries of
\* deviates are not children.
ErrorsFound ==
    pc = "done" /\ errs = {} =>
        /\ \A m \in Roots(doc) : \A w \in Walks(doc, m) : ~ Faulty(doc, Last(w))
        /\ \A x \in DOMAIN doc.stmt : S(x).kw = "deviate" =>
              Bad \notin {S(x)[f] : f \in {"config", "mandatory", "type", "min", "max"}}

-----------------------------------------------------------------------------
(* Properties of the deviations *)

\* One module of each name, the one that is come to first, has its deviations
\* applied.
Heard(M) == {x \in DOMAIN doc.stmt : S(x).kw = "deviate" /\ S(S(x).up).up \in M}
FirstOfName ==
    {M \in SUBSET Roots(doc) : /\ {S(m).name : m \in M} = {S(m).name : m \in Roots(doc)}
                               /\ \A m, n \in M : S(m).name = S(n).name => m = n
                               /\ \A m \in M : \/ S(m).kw = "module"
                                                \/ \A n \in Roots(doc) : S(n).name = S(m).name => S(n).kw = "submodule"}

\* The entry a deviate names, before there have been deviations.
Named(x) == TargetIn(converted.tree, S(x).up)
Before(k) == converted.tree[k]
AttrNamed(x) == IF Named(x) = None THEN None ELSE Before(Named(x)).attr

Removed(X, k) ==
    \E x \in X : /\ S(x).name = "not-supported" /\ Named(x) # None
                 /\ k \in DirKeys(converted.tree, Named(x))
                 /\ Last(Named(x)) \notin {"input", "output"}

\* What a deviate asks for.
Meant(x, f, old) ==
    CASE S(x).name = "delete" -> IF f = "default" THEN <<>> ELSE IF f \in {"config", "mandatory"} THEN None ELSE old
      [] S(x).name = "not-supported" -> old
      [] S(x).name = "add" /\ f = "default" -> old \o S(x).default
      [] OTHER -> S(x)[f]
MeantBound(x, f, old) ==
    CASE S(x).name = "delete" -> IF f = "min" THEN 0 ELSE Unbounded
      [] S(x).name = "not-supported" -> old
      [] OTHER -> IF f = "min" THEN MinElements(S(x).min) ELSE MaxElements(S(x).max)

Alone(X, new, old, Asked(_)) ==
    /\ X = {} => new = old
    /\ \A x \in X : X = {x} => new = Asked(x)

\* The defaults an entry has, before the deviations and after them.
DefaultsBefore(e) == Content(converted.arrays, e.default)
Defaults(e) == Content(arrays, e.default)
Of(X, k, f) == {x \in X : Named(x) = k /\ Said(x, f)}
AsMeant(X, k, new(_), old(_), f) ==
    Alone(Of(X, k, f), new(tree[k]), old(Before(k)), LAMBDA x : Meant(x, f, old(Before(k))))

\* A default is added to the entry at k, and one to another entry with the same array,
\* which has room: the leaf-list is in a grouping that is used twice.
Overwritten(X, k) ==
    \E x \in Of(X, k, "default"), y \in X :
        /\ S(x).name = "add" /\ S(y).name = "add" /\ Said(y, "default")
        /\ Named(y) \notin {None, k}
        /\ Before(Named(y)).default = Before(k).default
        /\ ~ Full(converted.arrays, Before(k).default)

\* Whatever the submodules include, twice or through each other, a uses statement gets a
\* grouping it may mean if there is one, and the innermost; and if there is none, none,
\* or one that only its prefix in an included submodule leads to.
GroupingsFound ==
    pc = "done" =>
        \A u \in {n \in DOMAIN doc.stmt : S(n).kw = "uses"} :
            IF Visible(doc, u) # {} THEN GroupingOf(doc, u) \in Visible(doc, u)
            ELSE GroupingOf(doc, u) \in {0} \cup VisibleBelow(doc, u)

\* When all deviations have been applied without an error, what has been declared
\* not supported is gone, and whatever the order, what only one deviate is about
\* is what it asks for, and what none is about is as it was.  A list shares its
\* attributes with the copies of its grouping, so that a deviate of one is about
\* all of them; and so does a leaf-list the array of its defaults, so that of the
\* defaults added to two copies one may be overwritten.
AsDeviated ==
    pc = "done" /\ errs = {} =>
        \E M \in FirstOfName :
            LET X == Heard(M)
                attr == [x \in X |-> AttrNamed(x)]
            IN
            /\ DOMAIN tree = {k \in DOMAIN converted.tree : ~ Removed(X, k)}
            /\ \A k \in DOMAIN tree :
                  /\ \A f \in Plain : AsMeant(X, k, LAMBDA e : e[f], LAMBDA e : e[f], f)
                  /\ Overwritten(X, k) \/ AsMeant(X, k, Defaults, DefaultsBefore, "default")
            /\ \A n \in DOMAIN attrs : \A f \in {"min", "max"} :
                  Alone({x \in X : attr[x] = n /\ S(x)[f] # None}, attrs[n][f],
                        converted.attrs[n][f], LAMBDA x : MeantBound(x, f, converted.attrs[n][f]))

\* "We need to return a duplicate so we resolve properly when the group is used in
\* multiple locations" (entry.go:637), "dup makes a deep duplicate of e" (entry.go:1429):
\* what only one deviate says of the defaults of an entry is so, whatever others say of
\* other entries.  This does not hold: the duplicates share the array of the defaults.
DefaultsApart ==
    pc = "done" /\ errs = {} =>
        \E M \in FirstOfName : \A k \in DOMAIN tree :
            AsMeant(Heard(M), k, Defaults, DefaultsBefore, "default")

\* What RFC 7950 lets a deviate do to an entry.  That an input or output is not
\* supported is taken without an error, and ignored.
Possible(x, e) ==
    /\ S(x).name = "not-supported" => Len(Named(x)) > 1
    /\ HasBounds(x) => e.kw \in Listlike
    /\ S(x).name = "add" /\ S(x).default # <<>> => e.kw = "leaf-list" \/ e.default.len = 0
    /\ S(x).name = "delete" =>
          /\ S(x).default # <<>> => e.kw # "leaf-list" /\ DefaultsBefore(e) = S(x).default
          /\ S(x).min # None => converted.attrs[e.attr].min = MinElements(S(x).min)
          /\ S(x).max # None => converted.attrs[e.attr].max = MaxElements(S(x).max)

Apart(x, y) ==
    /\ ~ IsPrefix(Named(x), Named(y)) /\ ~ IsPrefix(Named(y), Named(x))
    /\ AttrNamed(x) = None \/ AttrNamed(x) # AttrNamed(y)

\* When the deviates are about different entries, an error is reported exactly if
\* one of them has no target or asks for what cannot be done.
FailuresReported ==
    pc = "done" /\ dvP # {} /\ FirstOfName = {Roots(doc)} =>
        LET X == Heard(Roots(doc)) IN
        IF \E x \in X : Named(x) = None THEN errs # {}
        ELSE (\A x, y \in X : x = y \/ Apart(x, y)) =>
                (errs = {} <=> \A x \in X : Possible(x, Before(Named(x))))
=============================================================================
