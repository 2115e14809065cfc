# goyang in TLA+

goyang reads YANG modules and turns them into trees of schema entries. The
package `pkg/yang` does the work; the command `yang.go` and its output formats
are clients of it. This directory holds TLA+ specifications of the parts of
`pkg/yang` whose correctness depends on the order of steps, the TLC
configurations that check them on small instances, and proofs, checked by
TLAPS, of what holds for instances of every size.

Every definition was written from the Go source. `PROJECT.json` gives, for each,
the file and the lines it stands for.

## 1. The system and its parts

```
 files -> lexer -> parser -> AST builder -> module store
                                             |  Process
                                             v
     include walk -> identities -> typedefs -> ToEntry (uses, includes)
                                             |
                                             v
                 augment passes -> FixChoice -> leftovers -> deviations
                                             |
                                             v
                             entry trees -> output formats
```

Everything runs in the goroutine of the caller. Two mutexes protect caches
(`nsMu`, the type dictionary's `mu`) but the maps of the store are not protected,
so calls on one `Modules` do not overlap. What makes the code hard is not
threads but

* Go's maps, which yield their keys in a different order every time: the order in
  which modules are walked, converted, augmented and deviated is arbitrary;
* recursion through caches and marks: modules import each other in circles, and
  each recursion is cut by a set (`includes`, `mergedSubmodule`, `entryCache`,
  `YangType`) that is filled either before or after the recursive call;
* values that are copied with the pointers and slices in them: uses of a grouping
  share list attributes and an array of defaults, types based on one typedef share an array of patterns;
* state that outlives a call: `Read` and `Process` may be called again in any
  order, also after one of them has failed half-way;
* repeated passes that must end and must not lose work.

| Component | Source | State | Operations | What must be right |
|---|---|---|---|---|
| Module store | `modules.go`, `file.go` | `Modules`, `SubModules` (full and bare names), `includes`, links `i.Module`, `byNS` | `Read`, `Parse`, `add`, `GetModule`, `FindModule`, `FindModuleByNamespace`, `process`, `include` | the bare name is the latest revision; every statement is linked, once; circular imports end; what is missing is reported |
| Include merging | `entry.go` (ToEntry, include case) | `mergedSubmodule`, `entryCache`, the calls in progress | `ToEntry` on modules | each submodule merged once and completely; cycles found, diamonds not taken for cycles |
| Augmentation, implied cases | `entry.go` (`Augment`, `merge`, `FixChoice`), `modules.go` (`Process`) | entry trees, `e.Augments`, the list of modules with augments left | the passes of `Process` | order does not matter; nothing applied twice or lost; loops end; every choice holds cases |
| Deviations | `entry.go` (`ApplyDeviate`) | entry trees, `dvP` | once per module name | each target is what its deviates ask for, in whatever order the maps give them; what cannot be done is reported |
| Schema conversion | `entry.go` (rest of `ToEntry`) | `entryCache` | recursive over the statements | the tree is what is written, uses and includes replaced; errors reach the caller |
| Lookup | `find.go`, `node.go` | none | `FindGrouping`, `FindNode`, `FindModuleByPrefix` | the right grouping; ends on circular includes; prefix of a submodule |
| Identities | `identity.go` | dictionary, `Identity.Values` | `resolveIdentities` | `Values` is the set of derived identities, on every `Process` |
| Types | `types.go`, `yangtype.go` | type dictionary, `YangType` caches, arrays of patterns | `resolve` of typedefs and types | the nearest typedef; a type is what its chain says; what is wrong is reported by the first `Process`; the root of a type is equal to it |
| Numbers, ranges, enumerations | `types_builtin.go` | none; `EnumType` | parse, sort, coalesce, validate, contain; `Set`, `SetNext` | ranges denote the set written, without overflow; names and values are one to one |
| Lexer | `lex.go` | position, channel of tokens, error count | `NextToken` and state functions | no token lost; ends after too many errors |
| Parser | `parse.go` | pushed-back tokens, depth | `nextStatement`, `next` | nesting; concatenation; recovery ends |
| AST builder | `ast.go`, `yang.go` | tables filled at start, type dictionary | `build`, `addTypedefs` | exactly the legal statements are built; the dictionary holds the typedefs of what was built |
| indent | `pkg/indent` | whether a line is begun | `Write`, `String` | each line is prefixed once; no count above what was written |
| Clients | `yang.go`, `pkg/yangentry`, `tree.go`, `types.go`, `xml.go`, `crd*.go` | none | print a finished tree | output, not state |

The components interact by direct calls. `Process` is the conductor: it resets
`mergedSubmodule` and `entryCache`, walks includes and imports (which calls back
into `Read`), resolves identities and typedefs, converts every module and
submodule with `ToEntry`, and then changes the finished trees in place by
augments, implied cases and deviations. The hazards this brings, each at its
line, are listed in `PROJECT.json` with the properties that watch them.

## 2. The modules

| Module | What it is |
|---|---|
| `ModuleStore` | the store and the walk of include and import statements |
| `ModuleStoreProofs` | theorems about it |
| `SubmoduleMerge` | conversion of modules and merging of included submodules |
| `SubmoduleMergeProofs` | completeness of modules, no duplicates, real circles, as theorems |
| `SchemaTree` | trees of entries, `merge` and `FixChoice` as operators |
| `AugmentOrder` | abstract: augments applied one at a time until none can be |
| `Augmentation` | the passes of `Process` over the modules; implements `AugmentOrder` |
| `AugmentationProofs` | that refinement, confluence, what is reported and what `FixChoice` does, as theorems |
| `Ranges` | parsing, coalescing and containing ranges of numbers |
| `RangesProofs` | what a range denotes and why one is rejected, as theorems |
| `Identities` | the dictionary of identities and the values derived from each |
| `IdentitiesProofs` | that the values are the derived identities and missing bases reported, as theorems |
| `Lexer` | the tokens of a text and the channel they go through |
| `Parser` | from the tokens to a forest of statements; extends `Lexer` |
| `ParserProofs` | that what is accepted is what the grammar allows, and the text in order, as theorems |
| `Statements` | which substatements each node type may, and must, have |
| `Builder` | from statements to nodes and the typedefs of the dictionary |
| `BuilderProofs` | that exactly what is legal is built and in the dictionary, as theorems |
| `EnumType` | names and values of enumerations and bits |
| `Types` | resolution of typedefs and types; extends `EnumType` |
| `TypesProofs` | what every resolved type is, what it holds and where its `Root` leads, and which errors are reported, as theorems |
| `Conversion` | `ToEntry`: from statements to trees of entries, as operators |
| `Deviations` | conversion and the deviates of `Process`; extends `Conversion` |
| `Indent` | writers that prefix lines, one on another |
| `MC...` | instances for TLC |

They follow the way of a module. `Parser` returns statements, `Builder` makes nodes
of them and fills the dictionary of types, and `ModuleStore` adds those to the
store. Then they follow `Process`: `ModuleStore` ends where every statement is linked,
`Identities` and then `Types` run on the modules of the store, `SubmoduleMerge` and
`Conversion` start where statements are linked and end when every module has an
entry, and `Augmentation` and `Deviations` start from such entries. The two
conversions look at it from two sides: `SubmoduleMerge` has the recursion, the marks and the cache
and no more of an entry than which nodes are in it, `Conversion` has the entries and no
recursion through circular includes. `Augmentation` and `AugmentOrder` share `SchemaTree`.
`Ranges` stands alone: `Type.resolve` calls it.

### ModuleStore

A file is a sequence of *texts*, the statements found in it; a text has a kind
(`module`, `submodule`, or another that `add` refuses), a name, a latest
revision, a namespace and its include and import statements in the order the
walk takes them. `store[kind]` is the Go map of that kind: the key
`<<n, r>>` is "n@r" and `<<n, NoRev>>` is "n".

The API calls `Read`, `Process`, `GetModule` and `FindModuleByNamespace` are
actions that start when `pc = "idle"`. A call is then executed in steps, since each can
fail and leave the earlier ones done: `AddStatement` (one statement of
`Parse`), `FailRead` and `FinishRead`, `NextModule` (the loop of `process`),
`Hit` and `Miss` (`FindModule` answers from the store or goes to disk, first for
the revision and then for the bare name), `Reread` (the lookup after a read) and
`Return` (of a recursive `include`). `stack` holds the active calls of
`include` with the index of the statement each is at; `Enter` marks a module
before its statements are looked at, and `Return` links the caller's statement
afterwards, as in the code.

A `*Module` is identified with its text. That is sound because a text stays under
its full name for ever, so that a second object made from it is refused. The
option to ignore resolve errors is chosen before the first call. Not modelled: the
search path (which of several directories has the file), and what
`buildASTWithTypeDict` leaves in the type dictionary when a file fails.

### SubmoduleMerge

A data node is identified with the (sub)module that defines it, so that an entry is a set
of those and a set of errors. `Convert` is the loop of `Process` (modules first, then
submodules, each in any order), `SkipInclude`, `CircularInclude` and
`MergeInclude` are the branches of the include case, and `Return` fills the cache
and merges into the caller. `merged` holds pairs of *names*, as the code's keys
do. The include graph is chosen in `Init`, and `Process` may be called again.

### SchemaTree, AugmentOrder, Augmentation

A tree maps paths to kinds of entries; the first element of a path is a module,
so that `Find` is membership. `merge` adds the entries of an augment below its
target, leaves out those whose name is taken (with all below them), and records
errors at the target; errors inside the augment are copied along. `FixChoice` is a
function of the tree: an entry directly below a choice that is no case moves below a new case of its
name, except below a choice that holds errors.

`Augmentation` has an action for each call of `Augment` and its return and for each
augment tried in between, for the end of a pass, for `FixChoice`, and the same
again for the last round that collects errors. `mods` is the Go slice with its
removal by swapping; `Orders` are the orders in which the maps may yield the
modules, with a module of a revision in it twice. One behaviour is one `Process`.
Left out: prefixes and namespaces, paths into RPCs, the errors of `Find` for a
prefix it cannot resolve, relative paths, and the list `Augmented`.

### Ranges

`parseChildRanges` restricts the range `base` of a type by the parts of a statement.
`ParsePart` reads one (`ParseFails`: it is not a number), `Sort` sorts them,
`Coalesce` is an iteration of the loop of `coalesce`, `Contains` one of the loops of
`Contains`, and `Validate` ends the call. `Derive` is `Type.resolve` on a type
derived from this one, which keeps the old range when a restriction was refused. `sort.Sort`
is not stable, so `Sortings` is the set of the orders it may produce. A number is a
sign and a word of 0 .. `Top` whose addition wraps around; as in the code there are
two zeros, and `-0` is less than `0`. The text of numbers is left out, and so are
decimals: within one statement all numbers have the same number of fraction digits, and
then compare like integers.

### Identities

`dict` is the dictionary, whose keys have a module's name and an identity's but no
revision, and `values` is `Identity.Values`; neither is reset between calls. One loop of
`resolveIdentities` runs at a time: `Collect` and `Hoist` file the identities of the keys of
`ms.Modules`, `Link` appends an identity to the values of its bases and reports the
bases it does not find, `Sweep`, `Add` and `Swept` replace the values of an identity by what
`addChildren` collects. `todo` is the set of what the loop has not yet walked over, since maps
are walked in any order. The recursion of `addChildren` is depth first, so that the sequence `work` of
what is still to be added stands for its stack.

A base is given by the key that its prefix leads to. The identities of
a module are followed by those of the submodules that it includes itself, which is
where the code looks. `Read` is possible between calls, and so are two revisions of a module, of which
the one walked last is in the dictionary.

### Lexer and Parser

One behaviour is one call of `Parse` on one text, a sequence of characters. `Lexer` has an
action for each branch of `lexGround`, with `lexUnquoted` in the one that calls it, and for
each turn of the loop of `lexQString`. `input`, `pos`, `tcol`, `items` and
`errcnt` are the fields of the Go lexer; the rest of them, line and column, are a function of a
position, so that tokens have positions. `string` holds the local variables of
`lexQString`. `peek` has no lasting effect and is reading the text. The channel `items` is bounded by `MaxErrors`, and
`Sent` drops what does not fit.

`Parser` interleaves the lexer with `next` and `nextStatement` as the code does: the lexer
only runs (`LexStep`) while `next` has asked for a token (`Asking`) and the channel is
empty, and `inPattern` is what the parser has set by then. `FirstToken`, `PlusToken` and
`SecondToken` are the places of `next` where a token is received, with `held` for what it
has in hand; `tokens` is the stack of what was pushed back. The recursion of
`nextStatement` is the sequence `open`; `want` says which token it waits for. An error is
written as `complained`, or counted in `errcnt` by the lexer. `lexed` and `read` are
histories: all that the lexer has sent, and all that `next` has returned.

`Dequoted`, `Concatenated`, `WellFormed` and `Headings` define what the text means, without
the state of the lexer and the parser, from the text and from the tokens.

### Statements, Builder

`Statements` is what `initTypes` reads off the structs of `yang.go`: for every keyword the
fields that take one statement and those that take many, and the tags `required`. `module`
and `submodule` share a struct, so that `RequiredOf` says what each must have.

A behaviour of `Builder` is a sequence of calls of `Parse`, one for each statement at the
top. The calls of `build` in progress are `stack`; `Field` calls it for a substatement, `Complete`
returns a node and files its typedefs in `dict`, `Refuse` and `Missing` return an error
through all calls. `MetaField` and `NoParent` are what happens when a keyword is
"Name", "Statement" or "Parent": the setters of these fields are found like any other, so
that `Statement s;` is taken, and `Parent p;` in a statement at the top panics, as an
unknown keyword there does. `names` holds the field `Name` of the nodes that were built: the argument, or, when
that is empty, what a substatement `Name` has set (`ast.go:382-391`). The dictionary goes by it (`types.go:97`), so that two
typedefs without arguments may both be in it. Of typedefs of one name in one node the last stays, and a file that
is refused leaves the typedefs of the nodes that were complete. The other modules start from documents without
such substatements, in which a statement's name is its argument.

### EnumType, Types

`EnumType` has `Set` and `SetNext` as functions from an enumeration to an enumeration.
`Types` is the loop over the typedefs of the dictionary and then, if no error was
found, over the types of leaves (`ToEntry` comes to them). `stack` holds the calls of
`Typedef.resolve` and `Type.resolve`; `EnterTypedef` and `EnterType` call the other,
`EnterBuiltin` and `TypeFound` copy the YangType found and apply the restrictions of the
statement (`Derive`), `Member` and `MemberReturns` are the loop over the members of a union, and
`AlreadyResolved` is the cache that makes an error known once only. `UnknownType` panics
in a submodule, where `types.go:201` asks for a prefix that a submodule does not have.
`Ignored` is the option to ignore missing modules.

A pointer to a YangType is the name of the typedef or type it was made for. A list of
patterns is a Go slice, an array of `heap` and a length: `append` writes into the array when there
is room and otherwise copies it into one of twice the size. A range is the set it allows,
since what `parseChildRanges` computes is in `Ranges`; `digits`, `base`, `enum`, `bit` and
`default` are as in the code. Left out: units, paths and other values that are only
copied; the second kind of patterns, which is treated like the first; the lookup of a module by
its prefix. Unions inside members of unions are compared by their pointers only, where `Equal` goes on into
them; no instance has two such members to compare.

### Conversion, Deviations

`Conversion` is operators only. A document is a sequence of statements that name the one they
are below. `FindGrouping` walks upwards, and from a module on through imports and includes
with the set of those seen, which is passed on between siblings as the map is in the code. `ToEntry`
takes the substatements in the order of the fields of the Go types (`FieldOrder`) and
folds over them: `Add` for data nodes, `Merge` for uses and include, only the
errors for groupings, and for the input and output of an operation a pointer. An entry is known by its
key, the module or grouping whose conversion made it and the names from there. What `dup` copies as a pointer
remains a pointer: `input` and `output` are keys and `attr` is the statement whose
list attributes are shared by all uses of a grouping. `default` is a Go slice: the statement that made its array, and a length.
The array of a leaf-list has the room that appending one default at a time leaves (`entry.go:621-625`), and all uses
share it (`entry.go:1439`), so that a `deviate add` writes into it if it has room (`DefaultWritten`).

`Deviations` converts everything in its first step, stops if there are errors
(`Reported`: those found through `Dir`), and then takes one deviate in each step:
`NextModule` (names that were heard already are passed over), `NextDeviation` (`Find`),
`NextKind` (the map of deviates by keyword), `AddOrReplace`, `Delete`, `NotSupported`.
`detached` is the target after a `not-supported`: the other deviates still change it, and nobody
sees it. What the code does in odd cases is kept: `Find` inside an operation takes any step that is
neither input nor output as nothing; a `not-supported` of an input or output is ignored,
as its error goes to an entry whose errors are not read any more; a refused
value in a deviate is dropped without an error. Left out: circular includes and
groupings that use themselves (`ToEntry` does not return), more than one default in a
deviate, conditions, descriptions, extensions, and augments, which come between the two.

### Indent

`Levels` writers stand on each other and on an `io.Writer` that takes all of a buffer, or some of it with
an error (`TakeSome`). `calls` are the calls of `Write` in progress, each with the lines it joins;
`Return` computes the count that the caller gets. Callers ignore errors and go on, so writes
are possible after a failure.

## 3. What TLC checks

| Run | Instance | Shows |
|---|---|---|
| `store` | 5 names, 8 texts, 7 files, 2 revisions, 4 calls | names, links and the walk stay right and every call returns |
| `store_submodules` | 3 calls | finding: a submodule alone is not walked |
| `merge` | 432 include graphs on a module and 3 submodules, 2 calls of `Process` | merging is right |
| `augment` | 8 augments, every placement in 3 modules, 3 map orders | the passes are right |
| `ranges` | words of 2 bits, 7 numbers, 3 parts, 2 restrictions | ranges denote what is written |
| `identities` | 4 modules, two of them revisions of one, 6 identities, 2 calls of `Process` | values are the derived identities |
| `parse` | 24 042 texts of up to 7 pieces, 2 errors, tabs of 3 columns | tokens, strings and statements are those of the text |
| `build` | modules, submodules and other statements with 3 to 11 statements below, 2 files | exactly what is legal is built |
| `types` | chains of 2 typedefs and 2 leaves, unions, enumerations, 3 modules, 2 calls of `Process` | a type is what is written, and what is wrong is reported |
| `types_patterns` | the same | finding: a pattern overwritten by that of another type |
| `deviations` | 2 modules and a submodule, a grouping used twice, up to three deviates; 3 modules and 4 submodules that include each other | groupings are found, conversion and deviates do what is written |
| `indent` | 2 writers, buffers of up to 3 bytes, 5 bytes in all | lines are prefixed, counts are not too large |

**`store`.** `BareNameIsLatest` relates the two kinds of key after any
interleaving of calls and on-demand reads. `ClosureResolved`: when a call ends without an error,
every collected module was visited and every statement of a visited module is linked
to a visited module of its kind and name. `StackIsPath`: the recursion is a simple path
of statements, hence bounded. `CallReturns` is liveness.

The repository of files was chosen so that the interesting cases occur: two revisions
imported by each other in a circle and by revision or bare name, submodules that
include each other, a file whose second statement is refused (so that `FindModule`
goes on with a half-added file), and a missing module. Four calls are enough for a
Read of an old revision, a Process that reads a newer one, a second Process and a
lookup between them.

**`merge`.** `ModuleComplete`: a module's entry without errors holds the nodes of all
submodules it reaches. `NoDuplicate`: none is merged twice. `CircularSound`: a reported cycle is
a real one. `ProcessEnds`. Three submodules give the longest cycle the comment at
`entry.go:751-759` discusses, and diamonds of any entry order; two calls of
`Process` show that the marks are reset.

**`augment`.** `InOrder` is the refinement of `AugmentOrder`. `Confluent`: without
clashes the tree is the one the statements determine, whatever the order. `ChoicesFixed`: after `FixChoice` every
choice without errors holds cases only and the data tree is the same.
`UnappliedReported`: no augment is lost silently. `ProcessEnds`. The augments form a chain
of three, a pair that clashes, one with an error inside, two that only match after
`FixChoice`, and one that never matches; a module is visited twice, once for each of its keys.

**`ranges`.** `Denotes`: an accepted restriction allows what its parts allow and nothing
that the base does not. `RejectedRightly`: no restriction is refused
without a reason. Two bits give words with a largest number, an inner one and both
zeros; three parts are enough for one that is contained, one that overlaps and one
that is apart, and the second restriction meets a base of two ranges. Numbers that a
type's base range excludes (negative ones for unsigned types) are written too.

**`identities`.** `Complete` and `Sound`: after each call `Values` hold what is derived from the
identity and nothing else. `MissingReported`: each call reports the bases that are missing, and no base
that is only read or filed later. `ValuesOnlyGrow`: the sweep loses
nothing. The identities form a diamond, one of them has a namesake in
another module, one has a base that does not exist, and each of the modules may be read
before the first call, between the two, or not at all. `addChildren` has no guard against circles of
bases, on which it does not return; the instance has none. `Complete` and `Sound` are proved for
circles too, since they speak of calls that return.

**`parse`.** `Accepts`: a text without lexical errors is accepted exactly if what `next` returned
is a sequence of statements. `InOrder`: what it returned is what the lexer sent, with strings
concatenated, by `Concatenated`, which goes through the tokens one by one. `TreeIsText`: an accepted forest has the statements of the text with
their arguments and nesting. `StringText`: a string in double quotes has the text the comment above
`lexQString` describes. `PatternMode`: undefined escapes are errors in every argument but that of
`pattern`, concatenated or not. `ParseEnds`, also when the input is cleared after too many errors. The
texts are all short sequences of pieces, of six kinds: braces and
statements in any order; a keyword followed by strings, plus signs and semicolons; arguments with
escapes after `pattern` and another keyword; strings with blanks, tabs, line breaks
and escapes after a quote in three columns; comments and quotes that are not closed; and more errors
than are reported. Five pieces are two more than `next` looks ahead. Nothing in the code
depends on how many errors or columns the bounds stand for: a string of three bad escapes already fills a
channel of two, and a tab of three columns can end before, at and after the quote.

Three things the run showed are left as they are, and are described here because the
properties have to leave them out or to follow the code. After a comment or a string in single quotes
the column of a quote on the same line is too small, so that less indentation is removed
(`Counted`); the comment above `updateCursor` (`lex.go:282-285`) takes tabs to be harmless
because `skipTo` never skips to a quote, but the quote may come later on the line. `/*/` is a closed
comment, since `skipTo` starts at the star. A tab written `\t` before a line break is trimmed like one
that was typed (`Trailing`).

**`build`.** `Accepts` compares what `build` did step by step with `Legal`, which looks at a whole
statement at once: only fields of its type, single ones at most once, required ones
present, and what belongs to `module` or `submodule` alone only there. `BuiltIsLegal` says
the same of every node on the way, also in files that are refused. `TypedefsOfNodes`: the dictionary has the
typedefs of exactly the nodes that were complete, under their names (`NameOf`, from the text). The documents are any three statements of
twelve keywords in a module or submodule, typedefs in ten kinds of node that may or may not have them with
something illegal before or after, two typedefs with and without arguments and with substatements that may be
their `Name`, and statements at the top that are no modules. `Statements` has all keywords, the documents about
twenty of them; the theorems are about all.

**`types`.** `FaultsReported`: the first `Process` fails exactly if something is wrong with a typedef, or
with the type of a leaf. This is what the cache puts at risk: a type with an error is taken for resolved
when it is met again. (A second `Process` does not report it.) `TypesAsWritten`: without errors, a type has the kind, range, digits, base and
default that its chain of typedefs gives, found by `Meant` from the text, and its patterns unless they are in a
shared array (see the finding). Of several bases in a chain it has one. `RootIsSame`: `Root` leads to an equal type that is its own root,
also after errors and in later calls of `Process`. A type at whose extension `resolve` returned before it compared the two
(`types.go:395`) is left out of "equal", and no document of `MCTypes` has a circle (see section 4 for both).
`EnumsAsWritten`: names and values lead to each other, automatic values are larger than all before, and what was
refused was refused for a reason; types of kind `decimal64` are left out, since `resolve` returns at once when
digits are given to one for a second time, and comes to no statement after them. Each family of documents in `MCTypes` varies one thing: patterns (a list of three has room for a
fourth in its array), ranges with defaults, digits, bases, enumerations and bits of two or three names
with values at both ends, unions, unions in unions in unions, typedefs of one name in four places with references from three, and a
module that is missing. Two typedefs give a chain with a middle, and two leaves a
type that another one can disturb. Bounds of enumerations are -1, 2 and 3 for -2^31, 2^31 - 1 and 2^32 - 1: that
automatic positions of bits stop at the maximum of *enumerations* (`types_builtin.go:633`) is part of the model, and
`EnumsAsWritten` counts it as a reason; `MCTypesNextPossible.cfg` shows that the comment above `SetNext` does not.

**`deviations`.** `TreeAsWritten`: a conversion without errors gives exactly the entries that walks through the
statements spell, each made from the statement that is written there. `GroupingsFound`: `FindGrouping`, which goes through
imports and includes with one set of what it has seen, finds a grouping whenever one is visible (`Visible`, from
prefixes and the least set that is closed under includes), and the innermost. When none is, it may
still find one: in an included submodule it follows that submodule's own imports, although the comment above it
wants the prefix "of its import statement in the context node's module". `FaultsReported`: whatever is wrong outside of operations, or
with the keyword of a deviate, stops `Process`, and nothing else does but something wrong in an operation; whether the latter must is
left open here (see `ErrorsFound` below). `AsDeviated`: whatever the order of the maps, what
only one deviate is about is what that asks for, and what none is about is as it was; a deviate of the
bounds of a list is about all copies of the list. Exempt are the defaults of a leaf-list whose array
another deviate may have written to (`Overwritten`; see `DefaultsApart` below). `FailuresReported`: if modules have different names and no two deviates meet, an error is reported
exactly if one of them has no target or asks for what cannot be done. Groupings are looked up in four places under
three prefixes, and through three submodules that include each other in chains and diamonds; one further statement
of every kind is added everywhere; deviates of every kind have targets that are
plain, copied, shared, in operations, the module itself, missing, or removed by the other one. Two deviates suffice
for each pair of kinds to meet in both orders; with three, a leaf-list of none to four defaults gets
one more twice, or once in each copy, with and without room.

**`indent`.** `LinesIndented`: without a failure the bytes below are the text with every line prefixed at every level,
wherever it was cut into buffers, and `String` agrees. `NeverOvercounted`: the count returned is at most what got
through. It may be smaller: when the line was begun by an earlier call, `actualWrittenSize` (`indent.go:99-121`)
takes off a prefix that was not written. Five bytes in buffers of three are two
calls with a line cut by both.

**Fairness.** `WF` of a step of the call in progress. A call runs in the caller's
goroutine and waits for nothing, so that it is justified; nothing forces the caller
to make another call. `Deviations`, `Builder` and `Indent` state none: their loops are over finite
data, and nothing about their end could go wrong. Nor do `Identities` and `Types`: their recursions end if and only if
no identity is derived from itself and no typedef based on itself, which the code does not check.

**Deadlock** is not checked in runs that stop when their bound on calls is reached, or
`Process` or `Parse` has returned or panicked, or `MaxText` bytes are written.

### Findings

1. `process` does not walk submodules that were read without their module
   (`modules.go:274`); `ToEntry` then follows a nil link.
2. Two types based on one typedef that each add a pattern append to the same array
   (`types.go:390`): the pattern of one is overwritten by that of the other. A typedef with three patterns
   that are appended one by one has room for a fourth.

Each contradicts the doc comment quoted in `PROJECT.json`.

### Further configurations

These state what the code does not do either. TLC finds each violated; they are not among the
runs, to keep those to distinct questions.

| Configuration | Module | Property violated | Because |
|---|---|---|---|
| `MCModuleStoreMissingReported.cfg` | `MCModuleStore` | `MissingReported` | `includes` is never reset (`modules.go:411`): a missing file is reported by the first `Process` only |
| `MCSubmoduleMergeRevisions.cfg` | `MCSubmoduleMerge` | `ModuleComplete` | `mergedSubmodule` has no revisions in its keys (`entry.go:763`): of two revisions of a module only one gets the submodule's nodes |
| `MCAugmentationMergeErrorsReported.cfg` | `MCAugmentation` | `MergeErrorsReported` | errors of merged augments are not collected (`modules.go:383-386`) |
| `MCAugmentationCasesInserted.cfg` | `MCAugmentation` | `CasesInserted` | the last round of `Augment` follows `FixChoice` (`modules.go:384`) |
| `MCRangesNormalized.cfg` | `MCRanges` | `Normalized` | `addQuantum` wraps around at the largest number (`types_builtin.go:527`): parts that follow are appended and not coalesced, and `Validate` compares with the first range only |
| `MCTypesNextPossible.cfg` | `MCTypes` | `NextPossible` | `SetNext` compares with the maximum of an enumeration also for bits (`types_builtin.go:633`): after position 2147483647 a bit without a position is refused, although there are greater ones |
| `MCDeviationsDefaultsApart.cfg` | `MCDeviations` | `DefaultsApart` | copies of a grouping share the array of a leaf-list's defaults (`entry.go:1439`), and `deviate add` appends to it (`entry.go:1130`) |
| `MCDeviationsErrorsFound.cfg` | `MCDeviations` | `ErrorsFound` | errors are collected through `Dir` (`entry.go:352`), which leads neither to the input and output of operations nor to deviates |

`NextPossible` is the comment above `SetNext` (`types_builtin.go:630`): "using the next possible value that is greater than
all previous values". `DefaultsApart` is what `entry.go:637` says the copy of a grouping is for, "We need to return a
duplicate so we resolve properly when the group is used in multiple locations", and `entry.go:1429` of `dup`, "a deep duplicate of
e". What TLC finds: a grouping has a leaf-list with three defaults, which were appended one by one and
are in an array of four. Containers a and b use the grouping, and each copy has a slice of length three of that array. A deviation
adds the default x to the leaf-list in a: there is room, so that x is written to the fourth place, and the
slice in a has length four. Another adds z to that in b: its slice still has length three, so that z is written
to the same place. Now the leaf-list in a has the default z, and nobody asked for that.

## 4. What is proved

The proofs assume what the modules assume of their constants (that revisions are
numbers with `NoRev` below them, that a text's fields have their types, that files
are sequences of texts, that every augment statement is written in one place, that entries
are in trees (the path above that of an entry is that of another, or it is a module), that
every module is visited, that a word has at least one bit, and that the bases of an
identity and the identities of a module are sequences of such; that a range that restrictions start from has its
parts in order and apart, since the code's start from the one range of a built-in type; that texts are sequences of
characters and the channel has room for a token; that statements are trees, numbered in the
order they are written, each below at most one other; that typedefs, types and built-in types are distinct,
typedefs and types finitely many, and the typedefs of a node told apart by their names (the dictionary is a map by the
names that nodes have; a second one of a name takes the place of the first in `Builder`), that
the statements of a type, its members, its patterns and the places it is in are sequences of such, that `decimal64` and
`identityref` are built-in types, and that what stands for a nil pointer is no YangType, typedef or identity; that zero is a value of an
enumeration and the maximum of bits is not
below that of enumerations), and, where said below, that names are as YANG demands or typedefs have no circles, and nothing else: in
particular no bound on the number of modules, statements, augments, calls or parts of
a range, identities or circles among them.

Several proofs compare a loop with a definition over data of any size. The theorems of the
library about induction take an operator as a parameter, so that they cannot be used; instead a set of
counterexamples is a set of numbers, and `LeastNatural` takes its least element (from the least-element theorem
about well-founded relations), or "everything below" is the intersection of the sets that are closed.

**`ModuleStoreProofs`.** The invariant is `TypeInv /\ BareNameIsLatest /\ WalkInv`.
`BareNameIsLatest` is inductive with the types. `ClosureResolved` is not: in the middle of a walk
visited modules have unlinked statements. `WalkInv` says which: the stack is a
path (`StackIsPath`), the statements before the index of each frame are linked
(`FrameInv`), every visited module is on the stack or completely linked unless an error was
met (`VisitedInv`), and what each value of `pc` means for stack and file
(`ControlInv`). `RevisionsOnlyGrow` follows step by step.
`RevisionsOnlyGrow` (a bare name never goes back to an older revision) and `LinkedOnce` (a
statement is linked at most once) say what no step may do.
`LinkedOnce` needs one more invariant: the statements of a frame from its index on are not linked yet.

| Theorem | Says |
|---|---|
| `TypeCorrect` | `Spec => []TypeOK` |
| `BareNameCorrect` | `Spec => []BareNameIsLatest` |
| `ClosureCorrect` | `Spec => []ClosureResolved` |
| `StackCorrect` | `Spec => []StackIsPath` |
| `RevisionsOnlyGrowCorrect` | `Spec => RevisionsOnlyGrow` |
| `LinkedOnceCorrect` | `Spec => LinkedOnce` |

**`AugmentationProofs`.** That `Stop` of `AugmentOrder` is enabled when a pass
ends without progress needs to know that *every* module with augments left was tried in
this pass, although `mods` is reordered while it is walked. The invariant says: an
augment is waiting in one place only (`OnceInv`); a module with augments left is in
`mods` (`LeftInv`); and when nothing was applied in this pass, what is left in the
modules before `i`, and what the current call has skipped, has no target
(`TriedInv`). `ReportInv` says the same of the errors of the last round.
For confluence `ConfluenceInv` says that until something fails the tree has the entries of what has been
applied, and that what has been applied is in every set that holds each statement whose target is in the base or
is added by a member: the least such set is what can be reached. When a pass ends without progress, `TriedInv` makes what was applied such a set itself.

`ChoicesFixed` holds because entries stay apart when they are moved: that no two come to one path, and none
to that of an implied case (`NoneMeet`). `Fixed` joins, for each name of a path, one or two names, so that where an entry
comes to is where the one above it comes to and one or two more (`FixedStep`). If two paths met, two paths above them
would (`MeetAbove`), and the empty path meets none; the least sum of lengths of two that meet is the contradiction.
So `WithCases` takes each entry to its own place (`CasesAre`). By the least counterexample again an entry has
the names of the data tree it had before (`SameNames`). This is for trees of any shape, and `TreeInv` says
that what `merge` makes of a tree is one.

| Theorem | Says |
|---|---|
| `InOrderCorrect` | `Spec => InOrder`, the refinement |
| `UnappliedReportedCorrect` | `Spec => []UnappliedReported` |
| `ConfluentCorrect` | `Spec => []Confluent` |
| `ChoicesFixedCorrect` | `Spec => ChoicesFixed` |

**`SubmoduleMergeProofs`.** Whether a submodule is merged again is decided by keys of names, in a recursion that
can meet a submodule in progress, so the invariants relate the keys to the calls. `BaseInv` has the types and the
order of `Process` (`WalkInv`). `DisjointInv` says that while modules are being converted every submodule
that is in an entry in progress was marked when it was merged (`FrameInv`), and one that is not marked has no
cached entry (`UnmarkedInv`), so that the entries in progress are disjoint (`FramesInv`) and a merge finds no duplicate; this needs
nothing of the names. `KeysInv` says what a key stands for. `CompleteInv`
says that during the conversion of a module everything marked for it is held by a call in progress
(`HeldInv`), that the includes a call has come past, and those of whatever has returned, are held (`PastInv`,
`VisitedInv`), and that nothing is marked for modules that are still to come (`NotYetInv`). When the
module returns, what it holds is closed under includes, hence what it reaches; skipped includes, circular ones and
owned ones are held already (`LeftOutIsHeld`).
The last two theorems assume what YANG demands and the code does not check: `DistinctNames` (no two modules
and submodules share a name) and, for the second, `IncludesOwn` (submodules are included only by
their module and its submodules). Two revisions of a module break the first, and then `ModuleComplete` fails:
`MCSubmoduleMergeRevisions.cfg`.

| Theorem | Says |
|---|---|
| `NoDuplicateCorrect` | `Spec => []NoDuplicate` |
| `CircularSoundCorrect` | `Spec => []CircularSound`, if names are distinct |
| `ModuleCompleteCorrect` | `Spec => []ModuleComplete`, if names are distinct and submodules included where they belong; also with circular errors |

**`RangesProofs`.** The invariant `Inv` adds to the types what the loops have done so far: during
`coalesce`, the ranges in `cr` cover what the first `j - 1` parts cover, and the last
of them does not start after part `j - 1` (`CoalesceInv`, the comment at
`types_builtin.go:521`); during `Contains`, the ranges passed are within `base`
(`ContainsInv`). A step extends the last range only if the part starts at most a quantum
after its end; when the addition wraps around, the quantum is smaller than that,
which is why `Denotes` holds where `Normalized` does not. `SortingsCover` shows that
sorting changes nothing. `GapsInv` is `GapsBelowTop` at every moment.
For `RejectedRightly` the reason has to be found at the moment of the refusal. `RightInv` says that `base` and
`cr` are in order and apart (`Separate`), that the bounds in `cr` are bounds of parts (`BoundsInv`), and that
the ranges of `base` that `Contains` has left behind end before what it still looks at (`PassedInv`). When it
returns false, one end of the range it is at, or the number after the end of a range of `base`,
is allowed by the statement and not by `base` (`ContainsRejects`). That `Separate(base)` stays true needs that an accepted
`cr`, which is the base of the next restriction, is apart again.

| Theorem | Says |
|---|---|
| `TypeCorrect` | `Spec => []TypeOK` |
| `DenotesCorrect` | `Spec => []Denotes` |
| `GapsBelowTopCorrect` | `Spec => []GapsBelowTop` |
| `RejectedRightlyCorrect` | `Spec => []RejectedRightly` |

**`IdentitiesProofs`.** `Complete` holds between calls only. `CompleteInv` says what is true
during one: in the loop that links, identities already walked over are in the
values of their bases (`LinkInv`); during the sweep this is so for all, and
the values of an identity already swept are closed (`SweepInv`); and while `addChildren` runs, every
value of `cur`, and every value of what was added, was added itself or is in `work`
(`AddInv`). When `work` is empty, what was added is closed, and holds the old values, which
is `ValuesOnlyGrow`. The proof does not depend on the order of the sweep, although an
identity may be swept before or after those derived from it. `SoundInv` bounds
`values`, `new` and `work` by any set that is closed under derivation. `MissingInv` says that the errors are
those of the identities the second loop has walked over, which needs that the dictionary
does not change from the first step of that loop to the end of the call.

| Theorem | Says |
|---|---|
| `TypeCorrect` | `Spec => []TypeOK` |
| `CompleteCorrect` | `Spec => []Complete` |
| `SoundCorrect` | `Spec => []Sound` |
| `ValuesOnlyGrowCorrect` | `Spec => ValuesOnlyGrow` |
| `MissingReportedCorrect` | `Spec => []MissingReported` |

**`ParserProofs`.** `Accepts` speaks of the end of `Parse`. `GrammarInv` says what is true before:
as long as the parser has not complained, every token it has examined fits the grammar, and the number of
braces open after them is `Len(open)` and `statementDepth` (`GoodInv`); once it has, there is a
token that does not fit or a brace too many among those examined, or the text ended inside a statement, or with
braces open (`BadInv`). A token that `next` has returned counts as examined when it is taken
(`PendingInv`). Since the grammar looks at a token and the two before it, what was said of a token stays true
(`Stable`). The lexer and the pushed-back tokens matter only in that they deliver tokens of known kinds
(`TypeInv`, `NextSteps`): the theorem holds whatever the texts and the capacity of the channel, and does not
depend on the order in which `next` returns tokens.

That is `InOrder`, with an invariant of its own. `Owed` is what `next` has read and not returned, what it has pushed
back among it, in the order it will return them; `SpeltInv` says that what was returned followed by what is owed
has the words of the tokens that the lexer has sent, apart from the one in the channel. It is not so when two strings
follow each other without a plus: `next` does not look ahead of a string it had pushed back, so that it misses a concatenation that
follows. But then the words of the lexer's tokens have two strings in a row too (`Adjacent`), which
never goes away, and a text with those is not accepted (`NotWellFormed`). `LookInv` says what `next`
may hold or have pushed back, `ChannelInv` that the channel holds one token at most, unless there was an error in the text: the
lexer sends one at a time and the parser waits for it.

| Theorem | Says |
|---|---|
| `AcceptsCorrect` | `Spec => []Accepts` |
| `DepthsCorrect` | until the parser complains, `depth`, `Len(open)` and the nesting of what was read agree |
| `InOrderCorrect` | `Spec => []InOrder` |

**`TypesProofs`.** `WellFormed` says that names and values lead to each other, and that none is above `last`.
`Set` keeps it, since it refuses names that are taken and, in an enumeration, values; so does a statement, whether it gives
its value or not. That no value is above `last` is what makes the next one free.
`Made` says what is known after the first i statements: in addition, that `last` is -1 or a value that is taken, and
that the names are those of the statements not refused. From it follows for statements of any number that the type is as written
(`AfterAsWritten`). For the resolution, `StateInv` says of every type that has been made (`TypesInv`), and of every one that a call in
progress has made and not returned (`FrameInv`), that it holds the enumeration and bits of its own statement
(`Written`): a later step that changes a type, such as the one that adds a member of a union, or one that is based on it
with a copy, leaves these fields alone. It assumes nothing of what the documents refer to, typedefs based on themselves among them.

`RootIsSame` relates two YangTypes that are made at different times, and the root is shared by many. The invariant is
`RootInv`. `TypedefRoots` says that a typedef's is its own root or the same as a root (`Same`: no field that `Equal`
compares differs, so that they stay equal when the arrays of patterns are written to). `TypeRoots` says it of types
that have been left; as long as a call is in progress a type only has more than its root (`Extends`), because lists become longer
and never shorter (`Grows`, `Lies`), and `Equal` then decides which of them is the root
(`EqualIsSame`). What remains is that a root, once others lead to it, is not made again (`IsRoot`): `resolve`
does not look at the cache again after its inner call returns. `OrderInv` says that the calls that have not yet made
their YangType are for statements of ever lower rank, all without one. The ranks are `NoCircles`: a number for every
typedef and type, greater than those of what it is resolved through. Without them the theorem is false, as TLC shows: a typedef that is
a member of the union it is based on is resolved twice, the inner call first, and what the outer
one stores takes the place of a root.

`FaultsReported` compares what `Process` returns with a definition that looks at the text alone. `TypedInv` says that
a YangType, once made, has values of the right types, and `PathInv` that the calls in progress are a path:
each waits for the next one, and the innermost for what is called or has returned, so that an error that is on its way
arrives. `FaultInv` says that while something has gone wrong (`Erred`), something *is* wrong, and that until
then everything is right (`Good`): every type that was made fits its chain (`RightInv`), every member of such a union
was made or its call is still to come (`MembersInv`), and so is everything that the loops have passed (`ComeInv`). At the end all
types that count have been made, and a type that was made without an error is not faulty (`EndResolved`). The theorem
needs nothing about circles: a `Process` that meets one does not return, or it leaves types that fit.

`TypesAsWritten` needs more where lists of patterns share an array, since a step for one type may write behind the
lists of others. `AddsTo` says which types append to a list with room, without a copy; two of them that append to the same list
(`Beside`) write over each other. `ListsInv` says that the list of a type holds the patterns of its chain, each once, unless
one of the chain is beside another type (`Shared`), and it says *why* two lists are in the same array: they are the same, one of the
chain of the one has appended to the other (`Under`), or members of their chains are beside each other (`Related`). So when a
step writes into an array, every list that it changes (`Overwritten`) belongs to a type that is `Shared` after it,
and all others are as they were (`OldLists`). A list that is appended to goes on in its array or moves to a new one,
that no list is in (`AppendWrites`). The typedefs must be without circles, as for the root: what is resolved twice gets a second list, and
lists made from the first one are no longer explained. `RootInv` gives that nothing is made twice.

Both need that a chain, defined by a walk of bounded length, is everything that can be reached (`ChainIsLeast`): a walk
that adds nothing in a step adds nothing in any later one, and it cannot go on adding for more steps than there
are typedefs and types.

| Theorem | Says |
|---|---|
| `StatementKeepsWellFormed` | what a statement makes of an `EnumType` is well formed again |
| `NextIsGreater` | an automatic value is greater than all values given before |
| `AfterAsWritten` | what any sequence of statements makes of an empty type is as written |
| `EnumsCorrect` | `Spec => []EnumsAsWritten` |
| `RootIsSameCorrect` | `Spec => [](NoCircles => RootIsSame)` |
| `FaultsReportedCorrect` | `Spec => []FaultsReported` |
| `TypesAsWrittenCorrect` | `Spec => [](NoCircles => TypesAsWritten)` |

**`BuilderProofs`.** `BuiltIsLegal` is about complete nodes; the invariant says of those in progress that all
substatements before the next one were acceptable. A substatement is then acceptable when it is taken (`TakenIsAcceptable`):
for single fields because the setter saw no earlier one, and for "Name" because the field is empty only as long as
all earlier ones were. That statements are numbered in the order they are written makes "earlier" a comparison.

`Accepts` compares with `Valid`, which is about all nodes below a statement. `CallsInv` says that each call is for the
substatement that the call around it has taken last, and that the nodes before it were valid all the way down (`ValidBefore`);
a node is valid if it is legal and the nodes among its substatements are (`ValidIs`). When a call fails, its own
node is not legal, so neither is the statement at the top, below which it is. `OutcomeInv` keeps that for
the statements that are done. `NameInv` says that "Name" is set when a call says so, which is the only way that a
second one is refused.

`TypedefsOfNodes` says of every node, at any depth, whether its typedefs are in the dictionary, also when build
failed somewhere else in the file. `TypedefInv` adds to the invariant which nodes are complete (`CompleteInv`): of the
statement in progress those that its calls have passed (`Done`), of statements to come none, and of finished
ones those that can be built and are reached (`IsBuilt`). The dictionary has the typedefs of what is complete
(`DictInv`), under names that are those of the text (`NamesInv`): when a node is complete, its call has taken
all substatements, and a `Name` among them was taken only while the field was empty, so that there is one that counts
at most. `PathInv` relates calls and trees: the calls in progress are the path from the top to the innermost
node, and everything under the top is behind a call, on the path, or ahead of it. This needs that nodes are trees:
that what is under one node and what is under another are apart unless one is below the other (`UnderRooted`,
`Apart`, `TopsApart`), which follows from the numbering. When a call fails, what has been passed is exactly what
is valid and reached (`PathFails`): the node that fails is illegal and so are all around it, and nothing
behind the failure is reached.

| Theorem | Says |
|---|---|
| `BuiltIsLegalAlways` | `Spec => []BuiltIsLegal` |
| `AcceptsCorrect` | `Spec => []Accepts` |
| `TypedefsCorrect` | `Spec => []TypedefsOfNodes` |

**Only model-checked.** Liveness (`CallReturns`, `ProcessEnds`, `ParseEnds`), which the prover does not
reach; `StringText`, `PatternMode` and `TreeIsText` of `Lexer` and `Parser`, which compare loops over characters with
definitions by folds; `Indent`; and
`Conversion` with `Deviations`: `ToEntry` is a recursive operator, which the prover does not accept.

## 5. The plan

In this order; all of the first seven are done.

1. `ModuleStore`, `SubmoduleMerge`, `Augmentation` with its abstract specification, `Ranges`, `Identities`,
   `Lexer` and `Parser`, with proofs about all of them but `Lexer`.
2. `EnumType` and `Types`; proofs about `EnumType`.
3. `Conversion` and `Deviations`.
4. `Statements` and `Builder` with a proof, and `Indent`.
5. Proofs about `SubmoduleMerge`.
6. Proofs that the properties of `Identities`, `Ranges`, `Augmentation`, `Builder` and `Parser` hold, and
   what a resolved enumeration of `Types` is and where its `Root` leads.
7. Proofs of `FaultsReported` and `TypesAsWritten` of `Types`.
8. Namespaces and prefixes in `Augmentation`, and `FindNode`.

## 6. Not modelled

`CamelCase` converts a string, and the command and its output formats, among them the generator of custom
resources, print a finished tree: they keep no state that steps could get wrong. `pkg/yangentry` makes calls that
`ModuleStore` covers. `FindNode`, `ChildNode`, `NodePath` and the `Print` methods read a finished tree. Generated
files, templates and test data are data.
