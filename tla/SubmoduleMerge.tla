--------------------------- MODULE SubmoduleMerge ---------------------------
(***************************************************************************)
(* Merging submodules into modules: the "include" case of ToEntry          *)
(* (pkg/yang/entry.go) and the loop of Modules.Process that converts every *)
(* known module and submodule (pkg/yang/modules.go).                       *)
(*                                                                         *)
(* Converting a (sub)module follows its includes depth first and merges    *)
(* the entry of each included submodule into its own.  Circular and        *)
(* repeated includes are told apart only by ms.mergedSubmodule, a set of   *)
(* pairs of names.  ms.entryCache holds finished entries, so a conversion  *)
(* in progress can be entered again.  Every include is linked already:     *)
(* that is what module ModuleStore is about.                               *)
(***************************************************************************)
EXTENDS Integers, Sequences, FiniteSets

CONSTANTS
    Module,     \* the modules of ms.Modules
    Submodule,  \* the submodules of ms.SubModules
    NameOf,     \* the name of each of them, without its revision
    OwnerOf,    \* the name of the module a submodule belongs to
    Graphs,     \* the include statements to consider: functions to Seq(Submodule)
    None,       \* no entry
    MaxRuns     \* bound on the number of calls of Process

Mod == Module \cup Submodule

ASSUME ModAssumption ==
    /\ IsFiniteSet(Mod) /\ Module \cap Submodule = {}
    /\ \A s \in Submodule : s \in DOMAIN OwnerOf
    /\ \A m \in Mod : m \in DOMAIN NameOf

ASSUME GraphAssumption == Graphs \subseteq [Mod -> Seq(Submodule)]

VARIABLES
    include,    \* the linked include statements of each (sub)module, in order
    ignoring,   \* ParseOptions.IgnoreSubmoduleCircularDependencies
    merged,     \* ms.mergedSubmodule: <<a, b>> stands for the key "a:b"
    cache,      \* ms.entryCache
    stack,      \* the ToEntry calls in progress, innermost last
    todo,       \* what Process has not converted yet
    errs,       \* the errors Process has collected
    phase,      \* "idle", "convert" while Process converts, "done"
    runs        \* calls of Process so far

vars == <<include, ignoring, merged, cache, stack, todo, errs, phase, runs>>

\* Data nodes are identified with the (sub)module that defines them; an entry is
\* the nodes it holds and the errors found while it was built, "circular" or
\* "duplicate".
Top == stack[Len(stack)]
Included == include[Top.mod][Top.pos]
AtInclude == stack # <<>> /\ Top.pos <= Len(include[Top.mod])

\* merge: a node both entries hold is a duplicate.  oe's errors are imported.
Merge(m, e, oe) ==
    [nodes |-> e.nodes \cup oe.nodes,
     errors |-> e.errors \cup oe.errors
                  \cup {[kind |-> "duplicate", in |-> m, of |-> d] : d \in e.nodes \cap oe.nodes}]

-----------------------------------------------------------------------------
Init ==
    /\ include \in Graphs
    /\ ignoring \in BOOLEAN
    /\ merged = {}
    /\ cache = [m \in Mod |-> None]
    /\ stack = <<>>
    /\ todo = {}
    /\ errs = {}
    /\ phase = "idle"
    /\ runs = 0

\* Process forgets what an earlier call merged and converted.  Mutant: it keeps
\* the merged pairs.
MergedKept == merged
MergedAtStart == {}

Process ==
    /\ phase # "convert" /\ runs < MaxRuns
    /\ merged' = MergedAtStart
    /\ cache' = [m \in Mod |-> None]
    /\ todo' = Mod
    /\ errs' = {}
    /\ phase' = "convert"
    /\ runs' = runs + 1
    /\ UNCHANGED <<include, ignoring, stack>>

\* A ToEntry call for m starts, with m's own nodes.
Push(m) ==
    stack' = Append(stack, [mod |-> m, pos |-> 1, entry |-> [nodes |-> {m}, errors |-> {}]])

\* Process converts the modules before the submodules, each in no particular order.
IsNext(m) == m \in Submodule => todo \cap Module = {}

Convert ==
    /\ phase = "convert" /\ stack = <<>>
    /\ \E m \in todo :
          /\ IsNext(m)
          /\ todo' = todo \ {m}
          /\ \/ /\ cache[m] # None
                /\ errs' = errs \cup cache[m].errors
                /\ UNCHANGED stack
             \/ /\ cache[m] = None
                /\ Push(m)
                /\ UNCHANGED errs
    /\ UNCHANGED <<include, ignoring, merged, cache, phase, runs>>

\* The innermost ToEntry goes on after its current include with entry e.  Mutant: it
\* stays at that include.
After(f, e) == [mod |-> f.mod, pos |-> f.pos + 1, entry |-> e]
ResumeSame(e) == stack' = [stack EXCEPT ![Len(stack)].entry = e]
Resume(e) == stack' = [stack EXCEPT ![Len(stack)] = After(Top, e)]

\* The keys srcToIncluded, includedToSrc and includedToParent.
SrcToIncluded == <<NameOf[Included], NameOf[Top.mod]>>
IncludedToSrc == <<NameOf[Top.mod], NameOf[Included]>>
IncludedToParent == <<NameOf[Included], OwnerOf[Included]>>

\* The include was merged before into a (sub)module of this name.
Repeated == SrcToIncluded \in merged

\* The included submodule has included this one before, or is this one.  Mutant:
\* a submodule that is in the module already counts as circular.
OwnedIsCircular ==
    ~ Repeated /\ (IncludedToParent \in merged \/ NameOf[Included] = NameOf[Top.mod])
Circular == ~ Repeated /\ (IncludedToSrc \in merged \/ NameOf[Included] = NameOf[Top.mod])

\* The included submodule's nodes are in its module already.
Owned == IncludedToParent \in merged

SkipInclude ==
    /\ AtInclude
    /\ Repeated \/ (Circular /\ ignoring) \/ (~ Repeated /\ ~ Circular /\ Owned)
    /\ Resume(Top.entry)
    /\ UNCHANGED <<include, ignoring, merged, cache, todo, errs, phase, runs>>

CircularInclude ==
    /\ AtInclude
    /\ Circular /\ ~ ignoring
    /\ Resume([Top.entry EXCEPT !.errors =
                  @ \cup {[kind |-> "circular", in |-> Top.mod, of |-> Included]}])
    /\ UNCHANGED <<include, ignoring, merged, cache, todo, errs, phase, runs>>

\* What is recorded before the submodule is converted.  Mutant: the includer only.
IncluderMark == {SrcToIncluded}
Marks == {SrcToIncluded, IncludedToParent}

\* The submodule is converted unless it has an entry, and merged.
MergeInclude ==
    /\ AtInclude
    /\ ~ Repeated /\ ~ Circular /\ ~ Owned
    /\ merged' = merged \cup Marks
    /\ \/ cache[Included] # None /\ Resume(Merge(Top.mod, Top.entry, cache[Included]))
       \/ cache[Included] = None /\ Push(Included)
    /\ UNCHANGED <<include, ignoring, cache, todo, errs, phase, runs>>

\* ToEntry returns: its entry is cached, and merged by the ToEntry that called it
\* or its errors collected by Process.
Return ==
    /\ stack # <<>> /\ ~ AtInclude
    /\ cache' = [cache EXCEPT ![Top.mod] = Top.entry]
    /\ \/ /\ Len(stack) = 1
          /\ stack' = <<>>
          /\ errs' = errs \cup Top.entry.errors
       \/ /\ Len(stack) > 1
          /\ LET n == Len(stack) - 1
                 caller == stack[n]
             IN  stack' = [SubSeq(stack, 1, n) EXCEPT
                             ![n] = After(caller, Merge(caller.mod, caller.entry, Top.entry))]
          /\ UNCHANGED errs
    /\ UNCHANGED <<include, ignoring, merged, todo, phase, runs>>

Finish ==
    /\ phase = "convert" /\ todo = {} /\ stack = <<>>
    /\ phase' = "done"
    /\ UNCHANGED <<include, ignoring, merged, cache, stack, todo, errs, runs>>

Step == Convert \/ SkipInclude \/ CircularInclude \/ MergeInclude \/ Return \/ Finish

Next == Process \/ Step

Spec == Init /\ [][Next]_vars

\* Process runs to its end once called.
FairSpec == Spec /\ WF_vars(Step)

-----------------------------------------------------------------------------
(* Properties *)

Children(m) == {include[m][i] : i \in 1 .. Len(include[m])}

\* What m includes, directly or through submodules, and m.
Reach(m) ==
    {x \in Mod : \A S \in SUBSET Mod :
        (m \in S /\ \A y \in S : Children(y) \subseteq S) => x \in S}

\* After Process the entry of a module without errors holds the nodes of every
\* submodule it includes, directly or through others, whatever was converted first
\* and however often Process was called.
ModuleComplete ==
    phase = "done" =>
        \A m \in Module : cache[m].errors = {} => cache[m].nodes = Reach(m)

\* No submodule is merged twice into a module, on however many paths and through
\* whatever cycles the module includes it.
NoDuplicate ==
    \A m \in Module : cache[m] # None => \A e \in cache[m].errors : e.kind # "duplicate"

\* A circular dependency is reported only of submodules that include each other, and
\* never of one that is merely included on several paths.
CircularSound ==
    \A e \in errs : e.kind = "circular" => e.in \in Children(e.of) /\ e.of \in Children(e.in)

\* Process ends, circular includes or not.
ProcessEnds == phase = "convert" ~> phase = "done"

=============================================================================
