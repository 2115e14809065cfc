----------------------------- MODULE Statements -----------------------------
(***************************************************************************)
(* The node types of pkg/yang/yang.go: which substatements a statement may *)
(* have once, which more than once, and which it must have.  initTypes of  *)
(* pkg/yang/ast.go reads this off the fields of the types and their tags.  *)
(* Every type has extensions too, and the fields Name, Statement, Parent.  *)
(***************************************************************************)

Fields(one, many, required) == [one |-> one, many |-> many, required |-> required]

DataNodes == {"anydata", "anyxml", "choice", "container", "leaf", "leaf-list", "list"}
Documented == {"description", "reference", "status"}
Explained == {"description", "error-app-tag", "error-message", "reference"}

Value == Fields({"description"}, {}, {})
Module ==
    Fields({"belongs-to", "contact", "description", "namespace", "organization",
    "prefix", "reference", "yang-version"}, DataNodes \cup {"augment", "deviation",
    "extension", "feature", "grouping", "identity", "import", "include",
    "notification", "revision", "rpc", "typedef", "uses"}, {})
Import ==
    Fields({"prefix", "revision-date", "reference", "description"}, {}, {"prefix"})
Include == Fields({"revision-date"}, {}, {})
Revision == Fields({"description", "reference"}, {}, {})
BelongsTo == Fields({"prefix"}, {}, {"prefix"})
Typedef == Fields(Documented \cup {"default", "type", "units"}, {}, {"type"})
TypeStatement ==
    Fields({"base", "fraction-digits", "length", "path", "range",
    "require-instance"}, {"bit", "enum", "pattern", "type"}, {})
Container ==
    Fields(Documented \cup {"config", "presence", "when"}, DataNodes \cup {"action",
    "grouping", "if-feature", "must", "notification", "typedef", "uses"}, {})
Must == Fields(Explained, {}, {})
Leaf ==
    Fields(Documented \cup {"config", "default", "mandatory", "type", "units",
    "when"}, {"if-feature", "must"}, {"type"})
LeafList ==
    Fields(Documented \cup {"config", "max-elements", "min-elements", "ordered-by",
    "type", "units", "when"}, {"default", "if-feature", "must"}, {"type"})
List ==
    Fields(Documented \cup {"config", "key", "max-elements", "min-elements",
    "ordered-by", "when"}, DataNodes \cup {"action", "grouping", "if-feature",
    "must", "notification", "typedef", "unique", "uses"}, {})
Choice ==
    Fields(Documented \cup {"config", "default", "mandatory", "when"}, {"anydata",
    "anyxml", "case", "container", "if-feature", "leaf", "leaf-list", "list"}, {})
Case == Fields(Documented \cup {"when"}, DataNodes \cup {"if-feature", "uses"}, {})
AnyXML ==
    Fields(Documented \cup {"config", "mandatory", "when"}, {"if-feature", "must"},
    {})
AnyData ==
    Fields(Documented \cup {"config", "mandatory", "when"}, {"if-feature", "must"},
    {})
Grouping ==
    Fields(Documented, DataNodes \cup {"action", "grouping", "notification",
    "typedef", "uses"}, {})
Uses == Fields(Documented \cup {"augment", "when"}, {"if-feature", "refine"}, {})
Refine ==
    Fields({"default", "description", "reference", "config", "mandatory",
    "presence", "max-elements", "min-elements"}, {"if-feature", "must"}, {})
RPC ==
    Fields(Documented \cup {"input", "output"}, {"grouping", "if-feature",
    "typedef"}, {})
Input == Fields({}, DataNodes \cup {"grouping", "typedef", "uses"}, {})
Output == Fields({}, DataNodes \cup {"grouping", "typedef", "uses"}, {})
Notification ==
    Fields(Documented, DataNodes \cup {"grouping", "if-feature", "typedef", "uses"},
    {})
Augment ==
    Fields(Documented \cup {"when"}, DataNodes \cup {"action", "case", "if-feature",
    "notification", "uses"}, {})
Identity == Fields(Documented, {"base", "if-feature"}, {})
Extension == Fields(Documented \cup {"argument"}, {}, {})
Argument == Fields({"yin-element"}, {}, {})
Feature == Fields(Documented, {"if-feature"}, {})
Deviation == Fields({"description", "reference"}, {"deviate"}, {"deviate"})
Deviate ==
    Fields({"config", "default", "mandatory", "max-elements", "min-elements",
    "type", "units"}, {"must", "unique"}, {})
Enum == Fields(Documented \cup {"value"}, {"if-feature"}, {})
Bit == Fields(Documented \cup {"position"}, {"if-feature"}, {})
RangeStatement == Fields(Explained, {}, {})
Length == Fields(Explained, {}, {})
Pattern == Fields(Explained, {}, {})
Action ==
    Fields(Documented \cup {"input", "output"}, {"grouping", "if-feature",
    "typedef"}, {})

\* The types by their keywords (nameMap and typeMap): those that are names of fields here,
\* and all.
Unhyphenated ==
    [module |-> Module, import |-> Import, include |-> Include, revision |-> Revision,
     typedef |-> Typedef, type |-> TypeStatement, container |-> Container, must |-> Must,
     leaf |-> Leaf, list |-> List, choice |-> Choice, case |-> Case, anyxml |-> AnyXML,
     anydata |-> AnyData, grouping |-> Grouping, uses |-> Uses, refine |-> Refine,
     rpc |-> RPC, input |-> Input, output |-> Output, notification |-> Notification,
     augment |-> Augment, identity |-> Identity, extension |-> Extension,
     argument |-> Argument, feature |-> Feature, deviation |-> Deviation,
     deviate |-> Deviate, enum |-> Enum, bit |-> Bit, range |-> RangeStatement,
     length |-> Length, pattern |-> Pattern, action |-> Action]
NodeType ==
    [k \in DOMAIN Unhyphenated \cup {"leaf-list", "belongs-to"} |->
        CASE k = "leaf-list" -> LeafList
          [] k = "belongs-to" -> BelongsTo
          [] OTHER -> Unhyphenated[k]]

\* A keyword that is some field's and no type's own is one of a Value.
Named == UNION {NodeType[k].one \cup NodeType[k].many : k \in DOMAIN NodeType}
Keywords == DOMAIN NodeType \cup Named

\* A submodule has the type of a module.
Alias(k) == IF k = "submodule" THEN "module" ELSE k
FieldsOf(k) == IF Alias(k) \in DOMAIN NodeType THEN NodeType[Alias(k)] ELSE Value

\* The fields that only one of two keywords of a type has, and must have.
RequiredOf == [module |-> {"namespace", "prefix"}, submodule |-> {"belongs-to"}]

\* The types that implement Typedefer.
Typedefers ==
    {"module", "submodule", "container", "list", "grouping", "rpc", "input", "output",
     "notification", "action"}

=============================================================================
