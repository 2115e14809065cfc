---------------------------- MODULE ModuleStore ----------------------------
(***************************************************************************)
(* The module store of goyang: type Modules of pkg/yang/modules.go.        *)
(*                                                                         *)
(* Callers Read files, Process what was read, and look modules up by name  *)
(* or by namespace.  Processing resolves every include and import by a     *)
(* depth-first walk (Modules.include), which reads further files on        *)
(* demand.  The walk's recursion is an explicit stack of frames, and a     *)
(* file is added to the store one statement at a time, because each of     *)
(* these steps can fail and leave the earlier ones done.                   *)
(*                                                                         *)
(* A parsed *Module is identified with the text it was parsed from: a text *)
(* stays in the store under its full name once added, so that a second     *)
(* object made from it is always refused as a duplicate.  The store is not *)
(* safe for concurrent use, so the API calls do not overlap.               *)
(***************************************************************************)
EXTENDS Integers, Sequences, FiniteSets

CONSTANTS
    Name,       \* names of modules and submodules
    Rev,        \* revision dates, in order of date
    NoRev,      \* stands for "no revision"; below every member of Rev
    Namespace,  \* namespace URIs
    Text,       \* the statements found in files
    Disk,       \* the files: from <<name, revision>> to a sequence of texts
    None,       \* Go's nil
    MaxCalls    \* bound on the number of API calls

Revision == Rev \cup {NoRev}

\* The key of a store: "name" is <<name, NoRev>>, "name@rev" is <<name, rev>>.
Key == Name \X Revision

\* Modules come from "module" and "submodule" statements; any other text is a
\* statement that the AST builder or add refuses.
Kinds == {"module", "submodule"}

\* An include or an import statement.
Ref == [kind : Kinds, name : Name, rev : Revision]

ASSUME RevisionAssumption == Rev \subseteq Nat /\ NoRev \in Nat /\ \A r \in Rev : NoRev < r

ASSUME TextAssumption ==
    \A t \in Text : /\ t.kind \in Kinds \cup {"other"}
                    /\ t.name \in Name
                    /\ t.rev \in Revision
                    /\ t.ns \in Namespace
                    /\ t.refs \in Seq(Ref)

ASSUME DiskAssumption == \A f \in DOMAIN Disk : f \in Key /\ Disk[f] \in Seq(Text)

ASSUME NoneAssumption == None \notin Text /\ None \notin Key

\* The include and import statements of all texts; t.refs lists the includes
\* of t before its imports, in the order Modules.include walks them.
Slot == UNION {{t} \X (1 .. Len(t.refs)) : t \in Text}

VARIABLES
    store,      \* ms.Modules and ms.SubModules, by kind
    included,   \* ms.includes: the modules whose include has been entered
    link,       \* i.Module of each include and import statement
    byNS,       \* ms.byNS: answers of FindModuleByNamespace
    pc,         \* what the current call does next
    reader,     \* for whom a file is being read
    unread,     \* the statements of that file not added yet
    stack,      \* active calls of Modules.include, innermost last
    mods,       \* the modules process collected when it started
    todo,       \* those of mods it has not come to yet
    errs,       \* the errors of the current or latest Process
    failed,     \* whether some Process has met an error
    ignoring,   \* ParseOptions.IgnoreModuleResolveErrors, set before the first call
    want,       \* the key a GetModule in progress asks for, or None
    calls       \* API calls made so far

storeVars == <<store, byNS>>
walkVars == <<included, link, stack>>
processVars == <<mods, todo, errs, failed>>
vars == <<store, included, link, byNS, pc, reader, unread, stack, mods, todo,
          errs, failed, ignoring, want, calls>>

-----------------------------------------------------------------------------
(* Finding and adding modules *)

\* findInDir: f is the file a Read of name n at revision r opens, an exact match
\* or, for a bare name, the file of the latest revision.
Opens(n, r, f) ==
    /\ f \in DOMAIN Disk
    /\ f[1] = n
    /\ \/ f[2] = r
       \/ /\ r = NoRev
          /\ <<n, NoRev>> \notin DOMAIN Disk
          /\ \A g \in DOMAIN Disk : g[1] = n => g[2] <= f[2]

Readable(n, r) == \E f \in DOMAIN Disk : Opens(n, r, f)

\* add refuses t when it is no module or its full name is taken.
Refused(t) == t.kind \in Kinds => store[t.kind][<<t.name, t.rev>>] # None

\* add lets t take over the bare name unless a later revision holds it.
\* Mutant: the name goes to the first revision read.
FirstTakesBareName(t) == store[t.kind][<<t.name, NoRev>>] = None

TakesBareName(t) ==
    LET bare == store[t.kind][<<t.name, NoRev>>]
    IN  bare # None => bare.rev < t.rev

\* The store for t's kind after add.
Added(t) ==
    [k \in Key |-> IF \/ k = <<t.name, t.rev>>
                      \/ k = <<t.name, NoRev>> /\ TakesBareName(t)
                   THEN t
                   ELSE store[t.kind][k]]

\* The two lookups of FindModule that precede and follow its reads.
Lookup(ref) ==
    LET m == store[ref.kind]
        full == <<ref.name, ref.rev>>
    IN  IF m[full] # None THEN m[full] ELSE m[<<ref.name, NoRev>>]

-----------------------------------------------------------------------------
Init ==
    /\ store = [kind \in Kinds |-> [k \in Key |-> None]]
    /\ included = {}
    /\ link = [s \in Slot |-> None]
    /\ byNS = [ns \in Namespace |-> None]
    /\ pc = "idle"
    /\ reader = "caller"
    /\ unread = <<>>
    /\ stack = <<>>
    /\ mods = {}
    /\ todo = {}
    /\ errs = {}
    /\ failed = FALSE
    /\ ignoring \in BOOLEAN
    /\ want = None
    /\ calls = 0

\* Read(name) starts: the file's statements are to be added on behalf of who.
StartRead(f, who) ==
    /\ pc' = "read"
    /\ reader' = who
    /\ unread' = Disk[f]

\* The caller Reads a file by name.  A Read that finds no file changes nothing.
Read(n, r) ==
    /\ pc = "idle" /\ calls < MaxCalls
    /\ \E f \in DOMAIN Disk : Opens(n, r, f) /\ StartRead(f, "caller")
    /\ calls' = calls + 1
    /\ UNCHANGED <<storeVars, walkVars, processVars, want>>

\* The modules known now.
KnownModules == {store["module"][k] : k \in Key} \ {None}

\* process collects the modules known now, in no particular order.
StartProcess ==
    /\ mods' = KnownModules
    /\ todo' = mods'
    /\ errs' = {}
    /\ pc' = "process"
    /\ UNCHANGED failed

Process ==
    /\ pc = "idle" /\ calls < MaxCalls
    /\ StartProcess
    /\ calls' = calls + 1
    /\ UNCHANGED <<storeVars, walkVars, reader, unread, want>>

\* GetModule reads the module if the store lacks it, then processes.
GetModule(k) ==
    /\ pc = "idle" /\ calls < MaxCalls
    /\ calls' = calls + 1
    /\ want' = k
    /\ \/ /\ store["module"][k] = None
          /\ \E f \in DOMAIN Disk : Opens(k[1], k[2], f) /\ StartRead(f, "getmodule")
          /\ UNCHANGED processVars
       \/ /\ store["module"][k] # None
          /\ StartProcess
          /\ UNCHANGED <<reader, unread>>
    /\ UNCHANGED <<storeVars, walkVars>>

InNamespace(k, ns) == store["module"][k] # None /\ store["module"][k].ns = ns

\* FindModuleByNamespace on a cache miss with exactly one matching module; every
\* other case of it answers without changing the store.
FindModuleByNamespace(ns) ==
    /\ pc = "idle" /\ calls < MaxCalls
    /\ byNS[ns] = None
    /\ \E k \in Key :
          /\ InNamespace(k, ns)
          /\ \A j \in Key : InNamespace(j, ns) => store["module"][j] = store["module"][k]
          /\ byNS' = [byNS EXCEPT ![ns] = store["module"][k]]
    /\ calls' = calls + 1
    /\ UNCHANGED <<store, walkVars, processVars, pc, reader, unread, want>>

-----------------------------------------------------------------------------
(* Modules.Parse, one statement at a time *)

AddStatement ==
    /\ pc = "read" /\ unread # <<>>
    /\ ~ Refused(Head(unread))
    /\ store' = [store EXCEPT ![Head(unread).kind] = Added(Head(unread))]
    /\ unread' = Tail(unread)
    /\ UNCHANGED <<byNS, walkVars, processVars, pc, reader, want, calls>>

Idle == pc' = "idle" /\ want' = None

\* The innermost include, its current statement and the module that holds it.
Frame == stack[Len(stack)]
Statement == <<Frame.mod, Frame.pos>>
Current == Frame.mod.refs[Frame.pos]

Advanced(stk) == [stk EXCEPT ![Len(stk)].pos = @ + 1]

\* The last statement was added: Read returns no error to whoever asked for it.
FinishRead ==
    /\ pc = "read" /\ unread = <<>>
    /\ \/ /\ reader = "caller"
          /\ Idle
          /\ UNCHANGED processVars
       \/ /\ reader = "getmodule" /\ store["module"][want] = None
          /\ Idle
          /\ UNCHANGED processVars
       \/ /\ reader = "getmodule" /\ store["module"][want] # None
          /\ StartProcess
          /\ UNCHANGED want
       \/ /\ reader \in {"revision", "name"}
          /\ pc' = "lookup"
          /\ UNCHANGED <<processVars, want>>
    /\ UNCHANGED <<storeVars, walkVars, reader, unread, calls>>

\* Mutant: a statement that cannot be resolved is always skipped.
NotFoundSkipped ==
    /\ stack' = Advanced(stack)
    /\ pc' = "include"
    /\ UNCHANGED <<errs, failed>>

\* FindModule answered nil: the statement is skipped, or the error unwinds every
\* include in progress and process goes on with the next module.
NotFound ==
    IF ignoring
    THEN /\ stack' = Advanced(stack)
         /\ pc' = "include"
         /\ UNCHANGED <<errs, failed>>
    ELSE /\ stack' = <<>>
         /\ pc' = "process"
         /\ errs' = errs \cup {Current}
         /\ failed' = TRUE

\* FindModule's second attempt, by bare name, or its failure.
ReadBareName ==
    \/ /\ \E f \in DOMAIN Disk : Opens(Current.name, NoRev, f) /\ StartRead(f, "name")
       /\ UNCHANGED <<stack, errs, failed>>
    \/ /\ ~ Readable(Current.name, NoRev)
       /\ NotFound
       /\ unread' = <<>>
       /\ UNCHANGED reader

\* A statement of the file is refused: what was added before it stays.
FailRead ==
    /\ pc = "read" /\ unread # <<>>
    /\ Refused(Head(unread))
    /\ \/ /\ reader \in {"caller", "getmodule"}
          /\ Idle
          /\ unread' = <<>>
          /\ UNCHANGED <<reader, stack, errs, failed>>
       \/ /\ reader = "revision"
          /\ ReadBareName
          /\ UNCHANGED want
       \/ /\ reader = "name"
          /\ NotFound
          /\ unread' = <<>>
          /\ UNCHANGED <<reader, want>>
    /\ UNCHANGED <<storeVars, included, link, mods, todo, calls>>

-----------------------------------------------------------------------------
(* Modules.include *)

\* include's test of ms.includes.  Mutant: the test is missing.
NeverVisited(m) == FALSE

Visited(m) == m \in included

\* include is entered for m, which it marks before it looks at any statement.
Push(m) ==
    /\ included' = included \cup {m}
    /\ stack' = Append(stack, [mod |-> m, pos |-> 1])
    /\ pc' = "include"

\* process's loop over mods.  Mutant: the loop does not advance.
NotAdvanced(m) == todo
TodoAfter(m) == todo \ {m}

\* process takes up another of its modules.
NextModule ==
    /\ pc = "process"
    /\ \E m \in todo :
          /\ todo' = TodoAfter(m)
          /\ IF Visited(m) THEN UNCHANGED <<pc, included, stack>> ELSE Push(m)
    /\ UNCHANGED <<storeVars, link, reader, unread, mods, errs, failed, want, calls>>

FinishProcess ==
    /\ pc = "process" /\ todo = {}
    /\ Idle
    /\ UNCHANGED <<storeVars, walkVars, processVars, reader, unread, calls>>

\* FindModule answered im: the statement is linked to it once im is included.
Enter(im) ==
    \/ /\ Visited(im)
       /\ link' = [link EXCEPT ![Statement] = im]
       /\ stack' = Advanced(stack)
       /\ pc' = "include"
       /\ UNCHANGED included
    \/ /\ ~ Visited(im)
       /\ Push(im)
       /\ UNCHANGED link

MoreStatements == stack # <<>> /\ Frame.pos <= Len(Frame.mod.refs)

\* FindModule finds the module in the store.
Hit ==
    /\ pc = "include" /\ MoreStatements
    /\ Lookup(Current) # None
    /\ Enter(Lookup(Current))
    /\ UNCHANGED <<storeVars, processVars, reader, unread, want, calls>>

\* FindModule goes to disk, first for the revision.
Miss ==
    /\ pc = "include" /\ MoreStatements
    /\ Lookup(Current) = None
    /\ \/ /\ \E f \in DOMAIN Disk :
                Opens(Current.name, Current.rev, f) /\ StartRead(f, "revision")
          /\ UNCHANGED <<stack, errs, failed>>
       \/ /\ ~ Readable(Current.name, Current.rev)
          /\ ReadBareName
    /\ UNCHANGED <<storeVars, included, link, mods, todo, want, calls>>

\* FindModule looks again after a successful read.
Reread ==
    /\ pc = "lookup"
    /\ \/ /\ Lookup(Current) # None
          /\ Enter(Lookup(Current))
          /\ UNCHANGED processVars
       \/ /\ Lookup(Current) = None
          /\ NotFound
          /\ UNCHANGED <<included, link, mods, todo>>
    /\ UNCHANGED <<storeVars, reader, unread, want, calls>>

\* include returns: its caller links the statement that led here and goes on.
Callers == SubSeq(stack, 1, Len(stack) - 1)
Caller == Callers[Len(Callers)]

Return ==
    /\ pc = "include" /\ ~ MoreStatements
    /\ \/ /\ Callers = <<>>
          /\ stack' = <<>>
          /\ pc' = "process"
          /\ UNCHANGED link
       \/ /\ Callers # <<>>
          /\ stack' = Advanced(Callers)
          /\ link' = [link EXCEPT ![<<Caller.mod, Caller.pos>>] = Frame.mod]
          /\ UNCHANGED pc
    /\ UNCHANGED <<storeVars, included, processVars, reader, unread, want, calls>>

-----------------------------------------------------------------------------
Call ==
    \/ \E n \in Name, r \in Revision : Read(n, r)
    \/ Process
    \/ \E k \in Key : GetModule(k)
    \/ \E ns \in Namespace : FindModuleByNamespace(ns)

Step ==
    \/ AddStatement \/ FinishRead \/ FailRead
    \/ NextModule \/ FinishProcess \/ Hit \/ Miss \/ Reread \/ Return

Next == (Call \/ Step) /\ UNCHANGED ignoring

Spec == Init /\ [][Next]_vars

\* A call, once made, is executed to its end by the calling goroutine.
FairSpec == Spec /\ WF_vars(Step /\ UNCHANGED ignoring)

-----------------------------------------------------------------------------
(* Properties *)

Frames == [mod : Text, pos : Nat \ {0}]

\* Every variable holds values of its type.
TypeOK ==
    /\ store \in [Kinds -> [Key -> Text \cup {None}]]
    /\ included \subseteq Text
    /\ link \in [Slot -> Text \cup {None}]
    /\ byNS \in [Namespace -> Text \cup {None}]
    /\ pc \in {"idle", "read", "process", "lookup", "include"}
    /\ reader \in {"caller", "getmodule", "revision", "name"}
    /\ unread \in Seq(Text)
    /\ stack \in Seq(Frames)
    /\ mods \subseteq Text /\ todo \subseteq mods
    /\ errs \subseteq Ref
    /\ failed \in BOOLEAN /\ ignoring \in BOOLEAN
    /\ want \in Key \cup {None}
    /\ calls \in Nat

\* add keeps the two kinds of key consistent: a module stands under its own name
\* and revision, and whenever some revision of a name is known the bare name
\* leads to the latest one, itself known under its full name.
BareNameIsLatest ==
    \A kind \in Kinds, n \in Name, r \in Revision :
        LET m == store[kind]
            latest == m[<<n, NoRev>>]
        IN  m[<<n, r>>] # None =>
                /\ m[<<n, r>>].kind = kind /\ m[<<n, r>>].name = n
                /\ r # NoRev => m[<<n, r>>].rev = r
                /\ latest # None
                /\ r <= latest.rev
                /\ m[<<n, latest.rev>>] = latest

Resolved(t) == \A k \in 1 .. Len(t.refs) : link[<<t, k>>] # None

\* Between calls, unless an error was met or errors are ignored, the walk of
\* include was complete: every module process collected was visited, and the
\* include and import statements of every visited module are linked to visited
\* modules of the right kind and name, cycles of imports included.
ClosureResolved ==
    (pc = "idle" /\ ~ failed /\ ~ ignoring) =>
        /\ mods \subseteq included
        /\ \A t \in included : \A k \in 1 .. Len(t.refs) :
              /\ link[<<t, k>>] \in included
              /\ link[<<t, k>>].kind = t.refs[k].kind
              /\ link[<<t, k>>].name = t.refs[k].name

\* An include in progress is never entered again and lies below the statement
\* that led to it, so that the depth of the recursion is bounded by the number
\* of modules even when imports are circular.
StackIsPath ==
    /\ \A i, j \in 1 .. Len(stack) : stack[i].mod = stack[j].mod => i = j
    /\ \A i \in 1 .. Len(stack) : stack[i].mod \in included
    /\ \A i \in 1 .. Len(stack) - 1 :
          /\ stack[i].pos \in 1 .. Len(stack[i].mod.refs)
          /\ stack[i].mod.refs[stack[i].pos].kind = stack[i + 1].mod.kind
          /\ stack[i].mod.refs[stack[i].pos].name = stack[i + 1].mod.name

\* No call ever takes a revision away, nor makes a bare name lead to an older one.
RevisionsOnlyGrow ==
    [][\A kind \in Kinds, n \in Name, r \in Revision :
          store[kind][<<n, r>>] # None =>
              /\ r # NoRev => store'[kind][<<n, r>>] = store[kind][<<n, r>>]
              /\ store'[kind][<<n, r>>] # None
              /\ store[kind][<<n, r>>].rev <= store'[kind][<<n, r>>].rev]_vars

\* A statement is linked once: Modules that other code already follows through
\* i.Module are not exchanged for other revisions by later reads and calls.
LinkedOnce ==
    [][\A s \in Slot : link[s] # None => link'[s] = link[s]]_vars

\* Every call returns: neither circular includes and imports nor files that fail
\* to load keep Process walking.
CallReturns == pc # "idle" ~> pc = "idle"

\* Process's doc: "If a file cannot be found then an error is returned."  When
\* the latest Process met no error, the statements of its modules are linked.
MissingReported ==
    (pc = "idle" /\ errs = {} /\ ~ ignoring) => \A t \in mods : Resolved(t)

\* Process's doc: "Process processes all the modules and submodules that have been
\* read".  After a first Process without errors a submodule read earlier, whose
\* includes ToEntry is about to follow, has them linked.
SubmodulesResolved ==
    (pc = "process" /\ todo = {} /\ ~ failed /\ ~ ignoring) =>
        \A k \in Key : store["submodule"][k] # None => Resolved(store["submodule"][k])

=============================================================================
