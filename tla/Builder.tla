------------------------------- MODULE Builder -------------------------------
(***************************************************************************)
(* buildASTWithTypeDict and build of pkg/yang/ast.go: the statements that  *)
(* have been parsed become nodes, and the typedefs of each node that is    *)
(* complete go to the dictionary of types (pkg/yang/types.go).             *)
(*                                                                         *)
(* A document has statements, numbered in the order they are written, each *)
(* with a keyword, an argument and the sequence of its substatements, and  *)
(* files: the statements at the top, of which each is what one call of     *)
(* Modules.Parse is given.  The recursion of build is a stack.             *)
(***************************************************************************)
EXTENDS Statements, Naturals, FiniteSets, SequencesExt

CONSTANTS
    Documents,  \* what may be parsed
    Prefixed    \* keywords with a prefix: those of extensions

\* A document d has d.stmt[n].kw, d.stmt[n].arg, d.stmt[n].sub, and d.files.  What is
\* parsed is trees, whose statements are written before those below them.
ASSUME DocumentsAssumption ==
    \A d \in Documents :
        /\ d.stmt \in Seq([kw : STRING, arg : STRING, sub : Seq(Nat)])
        /\ d.files \in Seq(DOMAIN d.stmt)
        /\ \A i, j \in DOMAIN d.files : i < j => d.files[i] < d.files[j]
        /\ \A n \in DOMAIN d.stmt :
              /\ d.stmt[n].sub \in Seq(DOMAIN d.stmt)
              /\ \A i \in DOMAIN d.stmt[n].sub : n < d.stmt[n].sub[i]
              /\ \A i, j \in DOMAIN d.stmt[n].sub :
                    i < j => d.stmt[n].sub[i] < d.stmt[n].sub[j]
              /\ ToSet(d.stmt[n].sub) \cap ToSet(d.files) = {}
              /\ \A m \in DOMAIN d.stmt :
                    m # n => ToSet(d.stmt[m].sub) \cap ToSet(d.stmt[n].sub) = {}

\* The functions of the fields Name, Statement and Parent are found like those of
\* any keyword.
Meta == {"Name", "Statement", "Parent"}

ASSUME PrefixedAssumption == Prefixed \cap (Keywords \cup Meta) = {}

VARIABLES
    doc,
    files,      \* the statements at the top that are left
    stack,      \* the calls of build in progress, innermost last
    complete,   \* the nodes that have been built
    names,      \* the field Name of each node that has been built
    dict,       \* the typedef each node has for a name
    outcome     \* of each statement at the top: "built", "error" or "panic"

vars == <<doc, files, stack, complete, names, dict, outcome>>

Stmts == DOMAIN doc.stmt
Kw(n) == doc.stmt[n].kw
Arg(n) == doc.stmt[n].arg
Sub(n) == doc.stmt[n].sub
Top == ToSet(doc.files)

\* A call of build: its statement, its next substatement, and the field Name.
Frame(n) == [node |-> n, next |-> 1, name |-> Arg(n)]

InBuild == stack # <<>>
Inner == stack[Len(stack)]
Build == Inner.node
Following == Sub(Build)[Inner.next]
Reading == InBuild /\ Inner.next <= Len(Sub(Build))

Seen(n) == {Kw(c) : c \in ToSet(Sub(n))}

Taken == [stack EXCEPT ![Len(stack)].next = @ + 1]

-----------------------------------------------------------------------------
Init ==
    /\ doc \in Documents
    /\ files = doc.files
    /\ stack = <<>> /\ complete = {} /\ dict = {}
    /\ names = [n \in Stmts |-> ""]
    /\ outcome = [n \in Top |-> "none"]

Ends(result) ==
    /\ stack' = <<>>
    /\ outcome' = [outcome EXCEPT ![stack[1].node] = result]

\* A statement at the top with an unknown keyword has no type.
Parse ==
    /\ ~ InBuild /\ files # <<>> /\ \A n \in Top : outcome[n] # "panic"
    /\ files' = Tail(files)
    /\ IF Alias(Kw(Head(files))) \in Keywords
       THEN stack' = <<Frame(Head(files))>> /\ outcome' = outcome
       ELSE stack' = <<>> /\ outcome' = [outcome EXCEPT ![Head(files)] = "panic"]
    /\ UNCHANGED <<doc, complete, names, dict>>

\* The substatement is a field, which takes one statement and has none, or takes
\* any number.  Mutant: the field is not looked at.
NotChecked(n, c) == TRUE
Unset(n, c) == \A x \in ToSet(Sub(n)) : x < c => Kw(x) # Kw(c)
Taking(n, c) ==
    \/ Kw(c) \in FieldsOf(Kw(n)).many
    \/ Kw(c) \in FieldsOf(Kw(n)).one /\ Unset(n, c)

Field ==
    /\ Reading
    /\ Kw(Following) \notin Meta /\ Taking(Build, Following)
    /\ stack' = Append(Taken, Frame(Following))
    /\ UNCHANGED <<doc, files, complete, names, dict, outcome>>

\* Name sets a name that is empty.  Statement and Parent change no more than where
\* the node says it is from.
MetaField ==
    /\ Reading
    /\ \/ Kw(Following) = "Name" /\ Inner.name = ""
       \/ Kw(Following) = "Statement"
       \/ Kw(Following) = "Parent" /\ Len(stack) > 1
    /\ stack' = [Taken EXCEPT ![Len(stack)].name =
                    IF Kw(Following) = "Name" THEN Arg(Following) ELSE @]
    /\ UNCHANGED <<doc, files, complete, names, dict, outcome>>

\* The parent of a statement at the top is no value whose type could be asked for.
NoParent ==
    /\ Reading
    /\ Kw(Following) = "Parent" /\ Len(stack) = 1
    /\ Ends("panic")
    /\ UNCHANGED <<doc, files, complete, names, dict>>

\* A keyword with a prefix is kept as an extension.
KeepExtension ==
    /\ Reading
    /\ Kw(Following) \in Prefixed
    /\ stack' = Taken
    /\ UNCHANGED <<doc, files, complete, names, dict, outcome>>

\* The error returns through all calls of build.
Refuse ==
    /\ Reading
    /\ ~ Taking(Build, Following)
    /\ Kw(Following) \notin Prefixed \cup {"Statement", "Parent"}
    /\ Kw(Following) = "Name" => Inner.name # ""
    /\ Ends("error")
    /\ UNCHANGED <<doc, files, complete, names, dict>>

\* Fields that are required, for the keyword too, and none of the other keyword.
HasRequired(n) ==
    /\ FieldsOf(Kw(n)).required \subseteq Seen(n)
    /\ Kw(n) \in DOMAIN RequiredOf => RequiredOf[Kw(n)] \subseteq Seen(n)
    /\ Alias(Kw(n)) = "module" =>
          \A kw \in DOMAIN RequiredOf \ {Kw(n)} : RequiredOf[kw] \cap Seen(n) = {}

Missing ==
    /\ InBuild /\ ~ Reading
    /\ ~ HasRequired(Build)
    /\ Ends("error")
    /\ UNCHANGED <<doc, files, complete, names, dict>>

\* addTypedefs.  Of two typedefs with one Name the later is kept.
TypedefsOf(n) == {t \in ToSet(Sub(n)) : Kw(t) = "typedef"}
Kept(n, name) ==
    {t \in TypedefsOf(n) : \A u \in TypedefsOf(n) : u > t => name[u] # name[t]}
Entries(n, name) == {<<n, name[t], t>> : t \in Kept(n, name)}
\* Mutant: they are known by their arguments.
ByArgument(n) ==
    IF Kw(n) \in Typedefers THEN Entries(n, [t \in Stmts |-> Arg(t)]) ELSE {}
AddTypedefs(n) == IF Kw(n) \in Typedefers THEN Entries(n, names) ELSE {}

Complete ==
    /\ InBuild /\ ~ Reading
    /\ HasRequired(Build)
    /\ complete' = complete \cup {Build}
    /\ names' = [names EXCEPT ![Build] = Inner.name]
    /\ dict' = dict \cup AddTypedefs(Build)
    /\ IF Len(stack) = 1 THEN Ends("built")
       ELSE stack' = Front(stack) /\ UNCHANGED outcome
    /\ UNCHANGED <<doc, files>>

Next ==
    \/ Parse \/ Field \/ MetaField \/ NoParent \/ KeepExtension \/ Refuse \/ Missing \/ Complete

Spec == Init /\ [][Next]_vars

-----------------------------------------------------------------------------
(* What may be built *)

\* A node takes its substatement c: one that may be repeated, the first of a field
\* that is single, or one that is no field.
Earlier(n, c) == {x \in ToSet(Sub(n)) : x < c /\ Kw(x) = Kw(c)}
Acceptable(n, c) ==
    \/ Kw(c) \in FieldsOf(Kw(n)).many \cup Prefixed \cup {"Statement"}
    \/ Kw(c) \in FieldsOf(Kw(n)).one /\ Earlier(n, c) = {}
    \/ Kw(c) = "Parent" /\ n \notin Top
    \/ Kw(c) = "Name" /\ Arg(n) = "" /\ \A x \in Earlier(n, c) : Arg(x) = ""

Has(n, kws) == kws \subseteq Seen(n)
Lacks(n, kws) == kws \cap Seen(n) = {}
Legal(n) ==
    /\ \A c \in ToSet(Sub(n)) : Acceptable(n, c)
    /\ Has(n, FieldsOf(Kw(n)).required)
    /\ Kw(n) = "module" => Has(n, {"namespace", "prefix"}) /\ Lacks(n, {"belongs-to"})
    /\ Kw(n) = "submodule" => Has(n, {"belongs-to"}) /\ Lacks(n, {"namespace", "prefix"})

\* The substatements that become nodes, and the nodes from n downwards.
NodesIn(n) == {c \in ToSet(Sub(n)) : Kw(c) \notin Prefixed \cup Meta}
Under(n) ==
    LET under[x \in Stmts] == {x} \cup UNION {under[c] : c \in NodesIn(x)}
    IN  under[n]

Valid(n) == \A x \in Under(n) : Legal(x)
Finished(n) == ~ InBuild /\ outcome[n] # "none"

\* A statement is built exactly when it is one there is a type for, and every node
\* below it has only fields of its type, those that are single at most once, and
\* those that are required.  What only one of module and submodule may have
\* is with that one.  It panics, which the comment on build does not say, only for
\* an unknown keyword or "Parent" in a statement at the top.
Accepts ==
    \A n \in Top :
        Finished(n) =>
            /\ outcome[n] = "built" <=> Alias(Kw(n)) \in Keywords /\ Valid(n)
            /\ outcome[n] = "panic" =>
                  Alias(Kw(n)) \notin Keywords \/ "Parent" \in Seen(n)

\* A node that has been built is legal, also one of a file that is refused: build
\* checks all that a node may and must have before it is complete and, for its
\* typedefs, known to the dictionary.
BuiltIsLegal == \A n \in complete : Legal(n)

\* x is reached from n: nothing before it on the way is refused.
ReachedFrom(n, x) ==
    \A a \in Under(n) : \A c \in NodesIn(a) :
        x \in Under(c) =>
            \A e \in ToSet(Sub(a)) :
                /\ e <= c => Acceptable(a, e)
                /\ e < c /\ e \in NodesIn(a) => Valid(e)

\* The name of a statement: its argument, or when that is empty the argument of the
\* substatement Name that has one.
Given(n) == {Arg(c) : c \in {x \in ToSet(Sub(n)) : Kw(x) = "Name"}} \ {""}
Only(set) == CHOOSE a \in set : TRUE
NameOf ==
    [n \in Stmts |-> IF Arg(n) = "" /\ Given(n) # {} THEN Only(Given(n)) ELSE Arg(n)]

\* When a file has been parsed, the dictionary holds, for each name, the last
\* typedef of that name of every node that can be built and is reached, also when
\* the file is refused for something that comes after the node.
TypedefsOfNodes ==
    \A n \in Top :
        Finished(n) =>
            \A x \in Under(n) :
                LET built == Alias(Kw(n)) \in Keywords /\ Valid(x) /\ ReachedFrom(n, x)
                IN  {e \in dict : e[1] = x} = IF built THEN Entries(x, NameOf) ELSE {}
=============================================================================
