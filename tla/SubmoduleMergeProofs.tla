------------------------- MODULE SubmoduleMergeProofs -------------------------
(***************************************************************************)
(* Proofs about SubmoduleMerge, for any number of modules and submodules   *)
(* and all include graphs, cycles among them: no submodule is merged twice *)
(* into a module; and if names are as YANG wants them to be, the entries   *)
(* of modules are complete and circular dependencies are real.             *)
(***************************************************************************)
EXTENDS SubmoduleMerge, TLAPS

Errors == [kind : {"circular", "duplicate"}, in : Mod, of : Mod]
Entries == [nodes : SUBSET Mod, errors : SUBSET Errors]
Frames == [mod : Mod, pos : Nat \ {0}, entry : Entries]

TypeInv ==
    /\ include \in [Mod -> Seq(Submodule)]
    /\ cache \in [Mod -> Entries \cup {None}]
    /\ stack \in Seq(Frames)
    /\ todo \subseteq Mod

-----------------------------------------------------------------------------
(* What the steps do to the stack *)

LEMMA TopFrame ==
    ASSUME TypeInv, stack # <<>>
    PROVE  /\ Len(stack) \in Nat \ {0} /\ Top = stack[Len(stack)]
           /\ \A i \in 1 .. Len(stack) : stack[i] \in Frames
           /\ Top \in Frames
BY DEF TypeInv, Top

LEMMA IncludedSubmodule ==
    ASSUME TypeInv, AtInclude
    PROVE  /\ Included \in Submodule /\ Included \in Mod
           /\ Top.pos \in 1 .. Len(include[Top.mod])
           /\ Included \in Children(Top.mod)
<1>1. Top \in Frames
  BY TopFrame DEF AtInclude
<1>2. include[Top.mod] \in Seq(Submodule) /\ Top.pos \in Nat \ {0}
  BY <1>1 DEF TypeInv, Frames
<1>3. Top.pos \in 1 .. Len(include[Top.mod])
  BY <1>2 DEF AtInclude
<1> QED
  BY <1>2, <1>3 DEF Included, Children, Mod

\* Resume changes the innermost call only.
LEMMA ResumeFrames ==
    ASSUME TypeInv, stack # <<>>, NEW e \in Entries, Resume(e)
    PROVE  /\ stack' \in Seq(Frames)
           /\ Len(stack') = Len(stack)
           /\ \A i \in 1 .. Len(stack) :
                 /\ stack'[i].mod = stack[i].mod
                 /\ i # Len(stack) => stack'[i] = stack[i]
                 /\ i = Len(stack) => stack'[i].pos = stack[i].pos + 1 /\ stack'[i].entry = e
<1> DEFINE n == Len(stack)
           f == After(Top, e)
<1>1. n \in Nat \ {0} /\ Top = stack[n] /\ Top \in Frames
  BY TopFrame
<1>2. /\ f \in Frames
      /\ f.mod = Top.mod /\ f.pos = Top.pos + 1 /\ f.entry = e
  BY <1>1 DEF Frames, After
<1>3. stack' = [stack EXCEPT ![n] = f]
  BY <1>1 DEF Resume
<1> HIDE DEF f
<1> QED
  BY <1>1, <1>2, <1>3 DEF TypeInv

\* Push adds a call.
LEMMA PushFrames ==
    ASSUME TypeInv, NEW m \in Mod, Push(m)
    PROVE  /\ stack' \in Seq(Frames)
           /\ Len(stack') = Len(stack) + 1 /\ Len(stack) \in Nat
           /\ \A i \in 1 .. Len(stack) : stack'[i] = stack[i]
           /\ stack'[Len(stack) + 1].mod = m
           /\ stack'[Len(stack) + 1].pos = 1
           /\ stack'[Len(stack) + 1].entry.nodes = {m}
           /\ stack'[Len(stack) + 1].entry.errors = {}
<1> DEFINE f == [mod |-> m, pos |-> 1, entry |-> [nodes |-> {m}, errors |-> {}]]
<1>1. /\ f \in Frames
      /\ f.mod = m /\ f.pos = 1 /\ f.entry.nodes = {m} /\ f.entry.errors = {}
  BY DEF Frames, Entries
<1>2. stack' = Append(stack, f)
  BY DEF Push
<1> HIDE DEF f
<1> QED
  BY <1>1, <1>2 DEF TypeInv

\* What merge makes of two entries.
LEMMA MergeEntry ==
    ASSUME NEW m \in Mod, NEW e \in Entries, NEW oe \in Entries
    PROVE  /\ Merge(m, e, oe) \in Entries
           /\ Merge(m, e, oe).nodes = e.nodes \cup oe.nodes
           /\ \A x \in Merge(m, e, oe).errors :
                 x.kind = "circular" => x \in e.errors \cup oe.errors
           /\ e.nodes \cap oe.nodes = {} => Merge(m, e, oe).errors = e.errors \cup oe.errors
<1> DEFINE dup == {[kind |-> "duplicate", in |-> m, of |-> d] : d \in e.nodes \cap oe.nodes}
<1>1. /\ dup \subseteq Errors
      /\ \A x \in dup : x.kind = "duplicate"
      /\ e.nodes \cap oe.nodes = {} => dup = {}
  BY DEF Errors, Entries
<1>2. Merge(m, e, oe) = [nodes |-> e.nodes \cup oe.nodes, errors |-> e.errors \cup oe.errors \cup dup]
  BY DEF Merge
<1> HIDE DEF dup
<1> QED
  BY <1>1, <1>2 DEF Entries

\* The innermost call returns to the one that called it, which goes on.
Pops ==
    /\ Len(stack) > 1
    /\ LET caller == stack[Len(stack) - 1] IN
       stack' = [SubSeq(stack, 1, Len(stack) - 1) EXCEPT
                    ![Len(stack) - 1] =
                        After(caller, Merge(caller.mod, caller.entry, Top.entry))]

LEMMA PopFrames ==
    ASSUME TypeInv, Pops
    PROVE  LET n == Len(stack) - 1 IN
           /\ stack' \in Seq(Frames)
           /\ n \in Nat \ {0} /\ Len(stack') = n
           /\ \A i \in 1 .. n :
                 /\ stack'[i].mod = stack[i].mod
                 /\ i # n => stack'[i] = stack[i]
           /\ stack'[n].pos = stack[n].pos + 1
           /\ stack'[n].entry = Merge(stack[n].mod, stack[n].entry, Top.entry)
<1> DEFINE n == Len(stack) - 1
           e == Merge(stack[n].mod, stack[n].entry, Top.entry)
           f == After(stack[n], e)
           s == SubSeq(stack, 1, n)
<1>1. /\ n \in Nat \ {0} /\ stack[n] \in Frames /\ Top \in Frames
      /\ stack # <<>> /\ Len(stack) \in Nat
  BY TopFrame DEF Pops, TypeInv
<1>2. e \in Entries
  BY <1>1, MergeEntry DEF Frames
<1>3. stack' = [s EXCEPT ![n] = f]
  BY <1>1 DEF Pops
<1> HIDE DEF e, f
<1>4. /\ s \in Seq(Frames) /\ Len(s) = n
      /\ \A i \in 1 .. n : s[i] = stack[i]
  <2> HIDE DEF n
  <2>1. stack \in Seq(Frames) /\ n \in Nat /\ n + 1 = Len(stack)
    BY <1>1 DEF TypeInv, n
  <2> QED
    BY <2>1
<1>5. /\ f \in Frames
      /\ f.mod = stack[n].mod /\ f.pos = stack[n].pos + 1 /\ f.entry = e
  BY <1>1, <1>2 DEF Frames, After, f
<1> HIDE DEF s, n
<1>6. /\ stack' \in Seq(Frames) /\ Len(stack') = n
      /\ \A i \in 1 .. n : i # n => stack'[i] = stack[i]
      /\ stack'[n] = f
  BY <1>1, <1>3, <1>4, <1>5
<1>7. \A i \in 1 .. n : stack'[i].mod = stack[i].mod
  BY <1>5, <1>6
<1> QED
  BY <1>1, <1>5, <1>6, <1>7 DEF e, n

\* Return either pops the innermost call or ends the outermost.
LEMMA Returned ==
    ASSUME TypeInv, Return
    PROVE  /\ stack # <<>> /\ ~ AtInclude
           /\ cache' = [cache EXCEPT ![Top.mod] = Top.entry]
           /\ \/ Len(stack) = 1 /\ stack' = <<>> /\ errs' = errs \cup Top.entry.errors
              \/ Pops /\ UNCHANGED errs
BY TopFrame DEF Return, Pops

-----------------------------------------------------------------------------
(* Types, and what is on the stack when *)

\* Only modules, before all submodules, and what they include are being converted.
AmongModules ==
    /\ phase = "convert"
    /\ todo \cap Module # {} \/ (stack # <<>> /\ stack[1].mod \in Module)

WalkInv ==
    /\ stack # <<>> => phase = "convert" /\ stack[1].mod \notin todo
    /\ stack # <<>> /\ stack[1].mod \in Submodule => todo \cap Module = {}
    /\ \A i \in 2 .. Len(stack) : stack[i].mod \in Submodule
    /\ phase = "done" => todo = {}
    /\ phase = "idle" => \A m \in Mod : cache[m] = None

BaseInv == TypeInv /\ WalkInv

THEOREM BaseInit == Init => BaseInv
BY GraphAssumption DEF Init, BaseInv, TypeInv, WalkInv

\* A circular include adds an error.
LEMMA CircularEntry ==
    ASSUME TypeInv, AtInclude, NEW e,
           e = [Top.entry EXCEPT !.errors =
                   @ \cup {[kind |-> "circular", in |-> Top.mod, of |-> Included]}]
    PROVE  /\ e \in Entries /\ e.nodes = Top.entry.nodes
           /\ e.errors = Top.entry.errors
                  \cup {[kind |-> "circular", in |-> Top.mod, of |-> Included]}
<1>1. Top.entry \in Entries /\ Top.mod \in Mod
  BY TopFrame DEF AtInclude, Frames
<1> DEFINE c == [kind |-> "circular", in |-> Top.mod, of |-> Included]
<1>2. c \in Errors
  BY <1>1, IncludedSubmodule DEF Errors
<1>3. e = [Top.entry EXCEPT !.errors = @ \cup {c}]
  OBVIOUS
<1> HIDE DEF c
<1>4. e = [nodes |-> Top.entry.nodes, errors |-> Top.entry.errors \cup {c}]
  BY <1>1, <1>3 DEF Entries
<1>5. e.nodes = Top.entry.nodes /\ e.errors = Top.entry.errors \cup {c}
  BY <1>4
<1>6. e \in Entries
  BY <1>1, <1>2, <1>4 DEF Entries
<1> QED
  BY <1>5, <1>6 DEF c

LEMMA ResumeKeeps ==
    ASSUME BaseInv, stack # <<>>, NEW e \in Entries, Resume(e),
           UNCHANGED <<include, cache, todo, phase>>
    PROVE  BaseInv'
<1>1. /\ stack' \in Seq(Frames) /\ Len(stack') = Len(stack) /\ Len(stack) \in Nat \ {0}
      /\ \A i \in 1 .. Len(stack) : stack'[i].mod = stack[i].mod
  BY ResumeFrames, TopFrame DEF BaseInv
<1>2. /\ stack' # <<>> /\ stack'[1].mod = stack[1].mod
      /\ \A i \in 2 .. Len(stack') : stack'[i].mod \in Submodule
  BY <1>1 DEF BaseInv, WalkInv
<1>3. TypeInv'
  BY <1>1 DEF BaseInv, TypeInv
<1>4. WalkInv'
  BY <1>2 DEF BaseInv, WalkInv
<1> QED
  BY <1>3, <1>4 DEF BaseInv

\* Every step keeps the types and the order of modules and submodules.
THEOREM BaseNext == BaseInv /\ [Next]_vars => BaseInv'
<1> SUFFICES ASSUME BaseInv, [Next]_vars PROVE BaseInv'
  OBVIOUS
<1> USE DEF BaseInv
<1>1. CASE Process
  BY <1>1 DEF Process, TypeInv, WalkInv, Mod
<1>2. CASE Convert
  <2> PICK m \in todo :
          /\ IsNext(m) /\ todo' = todo \ {m}
          /\ \/ UNCHANGED stack
             \/ Push(m)
    BY <1>2 DEF Convert
  <2>1. stack = <<>> /\ phase = "convert" /\ UNCHANGED <<include, cache, phase>>
    BY <1>2 DEF Convert
  <2>2. CASE UNCHANGED stack
    BY <2>1, <2>2 DEF TypeInv, WalkInv
  <2>3. CASE Push(m)
    <3>1. m \in Mod
      BY DEF TypeInv
    <3>2. stack' \in Seq(Frames) /\ Len(stack') = 1 /\ stack'[1].mod = m
      BY <2>1, <2>3, <3>1, PushFrames
    <3> QED
      BY <2>1, <3>1, <3>2 DEF TypeInv, WalkInv, IsNext
  <2> QED
    BY <2>2, <2>3
<1>3. CASE SkipInclude
  <2>1. Top.entry \in Entries
    BY <1>3, TopFrame DEF SkipInclude, AtInclude, Frames
  <2> QED
    BY <1>3, <2>1, ResumeKeeps DEF SkipInclude, AtInclude
<1>4. CASE CircularInclude
  BY <1>4, CircularEntry, ResumeKeeps DEF CircularInclude, AtInclude
<1>5. CASE MergeInclude
  <2>1. AtInclude /\ stack # <<>> /\ UNCHANGED <<include, cache, todo, phase>>
    BY <1>5 DEF MergeInclude, AtInclude
  <2>2. Included \in Submodule /\ Included \in Mod
    BY <2>1, IncludedSubmodule
  <2>3. CASE cache[Included] # None /\ Resume(Merge(Top.mod, Top.entry, cache[Included]))
    <3>1. /\ cache[Included] \in Entries
          /\ Top.entry \in Entries /\ Top.mod \in Mod
      BY <2>1, <2>2, <2>3, TopFrame DEF TypeInv, Frames
    <3>2. Merge(Top.mod, Top.entry, cache[Included]) \in Entries
      BY <3>1, MergeEntry
    <3> QED
      BY <2>1, <2>3, <3>2, ResumeKeeps
  <2>4. CASE Push(Included)
    <3>1. /\ stack' \in Seq(Frames)
          /\ Len(stack') = Len(stack) + 1 /\ Len(stack) \in Nat \ {0}
          /\ \A i \in 1 .. Len(stack) : stack'[i] = stack[i]
          /\ stack'[Len(stack) + 1].mod = Included
      BY <2>1, <2>2, <2>4, PushFrames, TopFrame
    <3>2. /\ stack'[1] = stack[1] /\ stack' # <<>>
          /\ \A i \in 2 .. Len(stack') : stack'[i].mod \in Submodule
      BY <2>2, <3>1 DEF WalkInv
    <3> QED
      BY <2>1, <3>1, <3>2 DEF TypeInv, WalkInv
  <2> QED
    BY <1>5, <2>3, <2>4 DEF MergeInclude
<1>6. CASE Return
  <2>1. /\ stack # <<>> /\ cache' = [cache EXCEPT ![Top.mod] = Top.entry]
        /\ UNCHANGED <<include, todo, phase>>
    BY <1>6, Returned DEF Return
  <2>2. cache' \in [Mod -> Entries \cup {None}]
    BY <2>1, TopFrame DEF TypeInv, Frames
  <2>3. CASE stack' = <<>>
    BY <2>1, <2>2, <2>3 DEF TypeInv, WalkInv
  <2>4. CASE Pops
    <3>1. /\ stack' \in Seq(Frames) /\ Len(stack') = Len(stack) - 1
          /\ Len(stack) - 1 \in Nat \ {0}
          /\ \A i \in 1 .. Len(stack) - 1 : stack'[i].mod = stack[i].mod
      BY <2>4, PopFrames
    <3>2. /\ stack'[1].mod = stack[1].mod
          /\ \A i \in 2 .. Len(stack') : stack'[i].mod \in Submodule
      BY <3>1 DEF WalkInv
    <3>3. TypeInv'
      BY <2>1, <2>2, <3>1 DEF TypeInv
    <3>4. WalkInv'
      BY <2>1, <3>2 DEF WalkInv
    <3> QED
      BY <3>3, <3>4
  <2> QED
    BY <1>6, <2>3, <2>4, Returned
<1>7. CASE Finish
  BY <1>7 DEF Finish, TypeInv, WalkInv
<1>8. CASE UNCHANGED vars
  BY <1>8 DEF vars, TypeInv, WalkInv
<1> QED
  BY <1>1, <1>2, <1>3, <1>4, <1>5, <1>6, <1>7, <1>8 DEF Next, Step

-----------------------------------------------------------------------------
(* No submodule is merged twice *)

\* x has been merged into a (sub)module: the key includedToParent.
Marked(x) == <<NameOf[x], OwnerOf[x]>> \in merged

NoDup(errors) == \A e \in errors : e.kind # "duplicate"
Nodes(i) == stack[i].entry.nodes

\* As long as modules are converted, what an entry in progress holds has been marked,
\* so that no two of them hold the same.
FrameInv(i) ==
    /\ NoDup(stack[i].entry.errors)
    /\ \A x \in Nodes(i) : x = stack[1].mod \/ (x \in Submodule /\ Marked(x))
    /\ i > 1 => Marked(stack[i].mod)
FramesInv ==
    /\ \A i \in 1 .. Len(stack) : FrameInv(i)
    /\ \A i, j \in 1 .. Len(stack) : i # j => Nodes(i) \cap Nodes(j) = {}
UnmarkedInv == \A x \in Submodule : Marked(x) \/ cache[x] = None

DisjointInv ==
    /\ NoDuplicate
    /\ AmongModules => UnmarkedInv /\ FramesInv

THEOREM DisjointInit == Init => DisjointInv
BY DEF Init, DisjointInv, NoDuplicate, AmongModules, Mod

\* While modules are converted the outermost call is of a module.
LEMMA OutermostModule ==
    ASSUME BaseInv, AmongModules, stack # <<>>
    PROVE  /\ stack[1].mod \in Module /\ stack[1].mod \notin Submodule
           /\ Len(stack) \in Nat \ {0}
           /\ stack[1].mod \in Mod
BY TopFrame, ModAssumption DEF BaseInv, TypeInv, WalkInv, AmongModules, Frames, Mod

LEMMA SameMarks ==
    ASSUME UNCHANGED merged
    PROVE  \A x : Marked(x)' <=> Marked(x)
BY DEF Marked

LEMMA ResumeDisjoint ==
    ASSUME BaseInv, DisjointInv, stack # <<>>,
           NEW e \in Entries, Resume(e), e.nodes = Top.entry.nodes,
           NoDup(Top.entry.errors) => NoDup(e.errors),
           UNCHANGED <<merged, cache, todo, phase>>
    PROVE  DisjointInv'
<1>1. /\ Len(stack') = Len(stack) /\ Len(stack) \in Nat \ {0} /\ stack' # <<>>
      /\ \A i \in 1 .. Len(stack) :
            /\ stack'[i].mod = stack[i].mod
            /\ i # Len(stack) => stack'[i] = stack[i]
            /\ i = Len(stack) => stack'[i].entry = e
      /\ Top = stack[Len(stack)]
  BY ResumeFrames, TopFrame DEF BaseInv, TypeInv
<1>2. NoDuplicate'
  BY DEF DisjointInv, NoDuplicate
<1>3. ASSUME AmongModules' PROVE UnmarkedInv' /\ FramesInv'
  <2>1. AmongModules
    BY <1>1, <1>3 DEF AmongModules
  <2>2. UnmarkedInv /\ FramesInv
    BY <2>1 DEF DisjointInv
  <2>3. \A i \in 1 .. Len(stack) :
            /\ Nodes(i)' = Nodes(i)
            /\ NoDup(stack[i].entry.errors) => NoDup(stack'[i].entry.errors)
    BY <1>1 DEF Nodes
  <2>4. \A i \in 1 .. Len(stack) : FrameInv(i)'
    BY <1>1, <2>2, <2>3, SameMarks DEF FramesInv, FrameInv
  <2> QED
    BY <1>1, <2>2, <2>3, <2>4, SameMarks DEF FramesInv, UnmarkedInv
<1> QED
  BY <1>2, <1>3 DEF DisjointInv

LEMMA ProcessDisjoint == BaseInv /\ DisjointInv /\ Process => DisjointInv'
<1> SUFFICES ASSUME BaseInv, Process PROVE DisjointInv'
  OBVIOUS
<1>1. stack' = <<>> /\ Len(stack') = 0 /\ \A m \in Mod : cache'[m] = None
  BY DEF Process, BaseInv, WalkInv
<1> QED
  BY <1>1 DEF DisjointInv, NoDuplicate, UnmarkedInv, FramesInv, Mod

\* Process begins with a module, or goes on with what has an entry.
LEMMA ConvertDisjoint == BaseInv /\ DisjointInv /\ Convert => DisjointInv'
<1> SUFFICES ASSUME BaseInv, DisjointInv, Convert PROVE DisjointInv'
  OBVIOUS
<1>1. stack = <<>> /\ phase = "convert" /\ UNCHANGED <<merged, cache, phase>>
  BY DEF Convert
<1> PICK m \in todo :
          /\ IsNext(m) /\ todo' = todo \ {m}
          /\ \/ UNCHANGED stack
             \/ Push(m)
  BY DEF Convert
<1>2. NoDuplicate'
  BY <1>1 DEF DisjointInv, NoDuplicate
<1>3. m \in Mod
  BY DEF BaseInv, TypeInv
<1>4. ASSUME AmongModules' PROVE UnmarkedInv' /\ FramesInv'
  <2>1. CASE UNCHANGED stack
    <3>1. AmongModules
      BY <1>1, <1>4, <2>1 DEF AmongModules
    <3> QED
      BY <1>1, <2>1, <3>1, SameMarks DEF DisjointInv, UnmarkedInv, FramesInv
  <2>2. CASE Push(m)
    <3>1. /\ Len(stack') = 1 /\ stack' # <<>> /\ stack'[1].mod = m
          /\ stack'[1].entry.nodes = {m} /\ stack'[1].entry.errors = {}
      BY <1>1, <1>3, <2>2, PushFrames DEF BaseInv
    <3>2. m \in Module
      BY <1>3, <1>4, <3>1 DEF AmongModules, IsNext, Mod
    <3>3. AmongModules
      BY <1>1, <3>2 DEF AmongModules
    <3>4. FramesInv'
      BY <3>1 DEF FramesInv, FrameInv, Nodes, NoDup
    <3> QED
      BY <1>1, <3>3, <3>4, SameMarks DEF DisjointInv, UnmarkedInv
  <2> QED
    BY <2>1, <2>2
<1> QED
  BY <1>2, <1>4 DEF DisjointInv

\* An include that is merged has not been marked before, so that it is in no entry;
\* it has none itself while modules are converted.
LEMMA MergeIncludeDisjoint == BaseInv /\ DisjointInv /\ MergeInclude => DisjointInv'
<1> SUFFICES ASSUME BaseInv, DisjointInv, MergeInclude PROVE DisjointInv'
  OBVIOUS
<1>1. /\ AtInclude /\ stack # <<>> /\ UNCHANGED <<cache, todo, phase>>
      /\ merged' = merged \cup Marks
      /\ ~ Marked(Included)
  BY DEF MergeInclude, AtInclude, Owned, IncludedToParent, Marked
<1>2. Included \in Submodule /\ Included \in Mod
  BY <1>1, IncludedSubmodule DEF BaseInv
<1> PICK c : c = Included
  OBVIOUS
<1>3. Marked(c)' /\ \A x : Marked(x) => Marked(x)'
  BY <1>1 DEF Marked, Marks, IncludedToParent
<1>4. NoDuplicate'
  BY <1>1 DEF DisjointInv, NoDuplicate
<1>5. ASSUME AmongModules' PROVE UnmarkedInv' /\ FramesInv'
  <2>1. Len(stack) \in Nat \ {0}
    BY <1>1, TopFrame DEF BaseInv
  <2>2. CASE ~ AmongModules
    <3>1. todo \cap Module = {} /\ stack[1].mod \notin Module
      BY <1>1, <2>2, <1>5 DEF AmongModules
    <3>2. \/ cache[Included] # None /\ Resume(Merge(Top.mod, Top.entry, cache[Included]))
          \/ Push(Included)
      BY DEF MergeInclude
    <3>3. stack'[1].mod = stack[1].mod
      <4>1. CASE Push(Included)
        BY <1>2, <2>1, <4>1, PushFrames DEF BaseInv
      <4>2. CASE cache[Included] # None /\ Resume(Merge(Top.mod, Top.entry, cache[Included]))
        <5>1. /\ cache[Included] \in Entries
              /\ Top.entry \in Entries /\ Top.mod \in Mod
          BY <1>1, <1>2, <4>2, TopFrame DEF BaseInv, TypeInv, Frames
        <5> QED
          BY <1>1, <2>1, <4>2, <5>1, MergeEntry, ResumeFrames DEF BaseInv
      <4> QED
        BY <3>2, <4>1, <4>2
    <3> QED
      BY <1>1, <1>5, <3>1, <3>3 DEF AmongModules
  <2>3. CASE AmongModules
    <3>1. UnmarkedInv /\ FramesInv
      BY <2>3 DEF DisjointInv
    <3>2. cache[Included] = None /\ Push(Included)
      BY <1>1, <1>2, <3>1 DEF UnmarkedInv, MergeInclude
    <3> PICK n : n = Len(stack)
      OBVIOUS
    <3>3. /\ Len(stack') = n + 1
          /\ \A i \in 1 .. n : stack'[i] = stack[i]
          /\ stack'[n + 1].mod = c
          /\ stack'[n + 1].entry.nodes = {c} /\ stack'[n + 1].entry.errors = {}
      BY <1>2, <3>2, PushFrames DEF BaseInv
    <3>4. stack'[1] = stack[1] /\ stack[1].mod # c
      BY <1>1, <1>2, <2>1, <2>3, <3>3, OutermostModule
    <3>5. \A i \in 1 .. n : Nodes(i)' = Nodes(i) /\ c \notin Nodes(i)
      BY <1>1, <3>1, <3>3, <3>4 DEF FramesInv, FrameInv, Nodes
    <3>6. \A i \in 1 .. n : FrameInv(i)'
      BY <1>3, <3>1, <3>3, <3>4, <3>5 DEF FramesInv, FrameInv
    <3>7. FrameInv(n + 1)' /\ Nodes(n + 1)' = {c}
      BY <1>2, <1>3, <2>1, <3>3 DEF FrameInv, Nodes, NoDup
    <3>8. FramesInv'
      <4>1. \A i, j \in 1 .. n : i # j => Nodes(i)' \cap Nodes(j)' = {}
        BY <3>1, <3>5 DEF FramesInv
      <4>2. \A i \in 1 .. n : Nodes(i)' \cap Nodes(n + 1)' = {}
        BY <3>5, <3>7
      <4>3. \A i \in 1 .. n + 1 : i \in 1 .. n \/ i = n + 1
        BY <2>1
      <4> QED
        BY <3>3, <3>6, <3>7, <4>1, <4>2, <4>3 DEF FramesInv
    <3> QED
      BY <1>1, <1>3, <3>1, <3>8 DEF UnmarkedInv
  <2> QED
    BY <2>2, <2>3
<1> QED
  BY <1>4, <1>5 DEF DisjointInv

\* What returns to a call is disjoint from it.
LEMMA ReturnDisjoint == BaseInv /\ DisjointInv /\ Return => DisjointInv'
<1> SUFFICES ASSUME BaseInv, DisjointInv, Return PROVE DisjointInv'
  OBVIOUS
<1>1. /\ stack # <<>> /\ cache' = [cache EXCEPT ![Top.mod] = Top.entry]
      /\ UNCHANGED <<merged, todo, phase>>
      /\ \/ Len(stack) = 1 /\ stack' = <<>>
         \/ Pops
  BY Returned DEF Return, BaseInv
<1>2. /\ Len(stack) \in Nat \ {0} /\ Top = stack[Len(stack)]
      /\ \A i \in 1 .. Len(stack) : stack[i] \in Frames
      /\ Top.mod \in Mod
  BY <1>1, TopFrame DEF BaseInv, Frames
<1>3. Top.mod \in Module => Len(stack) = 1 /\ AmongModules
  <2>0. Module \cap Submodule = {}
    BY ModAssumption
  <2>1. Len(stack) > 1 => Top.mod \in Submodule
    BY <1>2 DEF BaseInv, WalkInv
  <2>2. phase = "convert" /\ stack # <<>>
    BY <1>1 DEF BaseInv, WalkInv
  <2>3. Top.mod \in Module => Len(stack) = 1
    <3>1. Top.mod \in Module => ~ Len(stack) > 1
      BY <2>0, <2>1
    <3> PICK n \in Nat \ {0} : n = Len(stack)
      BY <1>2
    <3>2. n = 1 \/ n > 1
      OBVIOUS
    <3> QED
      BY <3>1, <3>2
  <2>4. Len(stack) = 1 => Top.mod = stack[1].mod
    BY <1>2
  <2> QED
    BY <2>2, <2>3, <2>4 DEF AmongModules
<1>4. Top.mod \in Module => NoDup(Top.entry.errors)
  BY <1>2, <1>3 DEF DisjointInv, FramesInv, FrameInv
<1>5. NoDuplicate'
  BY <1>1, <1>2, <1>4 DEF DisjointInv, NoDuplicate, NoDup, BaseInv, TypeInv, Mod
<1>6. ASSUME AmongModules' PROVE UnmarkedInv' /\ FramesInv'
  <2>1. CASE Len(stack) = 1 /\ stack' = <<>>
    <3>1. AmongModules
      BY <1>1, <1>6, <2>1 DEF AmongModules
    <3>2. stack[1].mod \notin Submodule
      BY <1>1, <3>1, OutermostModule
    <3>3. UnmarkedInv'
      BY <1>1, <1>2, <2>1, <3>1, <3>2, SameMarks DEF DisjointInv, UnmarkedInv, BaseInv, TypeInv, Mod
    <3> QED
      BY <2>1, <3>3 DEF FramesInv
  <2>2. CASE Pops
    <3> PICK n : n = Len(stack) - 1
      OBVIOUS
    <3>1. /\ n \in Nat \ {0} /\ Len(stack') = n /\ stack' # <<>>
          /\ \A i \in 1 .. n :
                /\ stack'[i].mod = stack[i].mod
                /\ i # n => stack'[i] = stack[i]
          /\ stack'[n].entry = Merge(stack[n].mod, stack[n].entry, Top.entry)
      BY <2>2, PopFrames DEF BaseInv
    <3>2. AmongModules
      BY <1>1, <1>6, <3>1 DEF AmongModules
    <3>3. UnmarkedInv /\ FramesInv
      BY <3>2 DEF DisjointInv
    <3>4. /\ n \in 1 .. Len(stack) /\ Len(stack) \in 1 .. Len(stack) /\ n # Len(stack)
          /\ \A i \in 1 .. n : i \in 1 .. Len(stack) /\ i # Len(stack)
          /\ Len(stack) > 1
      BY <1>2, <3>1
    <3>5. stack[n].entry \in Entries /\ stack[n].mod \in Mod /\ Top.entry \in Entries
      BY <1>2, <3>4 DEF Frames
    <3>6. stack[n].entry.nodes \cap Top.entry.nodes = {}
      BY <1>2, <3>3, <3>4 DEF FramesInv, Nodes
    <3>7. /\ stack'[n].entry.nodes = stack[n].entry.nodes \cup Top.entry.nodes
          /\ stack'[n].entry.errors = stack[n].entry.errors \cup Top.entry.errors
      BY <3>1, <3>5, <3>6, MergeEntry
    <3>8. /\ Nodes(n)' = Nodes(n) \cup Nodes(Len(stack))
          /\ \A i \in 1 .. n : i # n => Nodes(i)' = Nodes(i)
      BY <1>2, <3>1, <3>7 DEF Nodes
    <3>9. FramesInv'
      <4>0. /\ stack'[1].mod = stack[1].mod
            /\ \A x : Marked(x)' <=> Marked(x)
            /\ FrameInv(n) /\ FrameInv(Len(stack))
            /\ \A i \in 1 .. n : FrameInv(i)
        <5>1. 1 \in 1 .. n
          BY <3>1
        <5>2. stack'[1].mod = stack[1].mod
          BY <3>1, <5>1
        <5>3. \A x : Marked(x)' <=> Marked(x)
          BY <1>1, SameMarks
        <5>4. \A i \in 1 .. Len(stack) : FrameInv(i)
          BY <3>3 DEF FramesInv
        <5> QED
          BY <3>4, <5>2, <5>3, <5>4
      <4>1. \A i \in 1 .. n : i # n => FrameInv(i)'
        BY <3>1, <3>8, <4>0 DEF FrameInv
      <4>2. FrameInv(n)'
        <5>1. NoDup(stack'[n].entry.errors)
          BY <1>2, <3>7, <4>0 DEF FrameInv, NoDup
        <5> QED
          BY <3>1, <3>8, <4>0, <5>1 DEF FrameInv
      <4>3. \A i, j \in 1 .. n : i # j => Nodes(i)' \cap Nodes(j)' = {}
        <5>1. \A i, j \in 1 .. Len(stack) : i # j => Nodes(i) \cap Nodes(j) = {}
          BY <3>3 DEF FramesInv
        <5> QED
          BY <3>4, <3>8, <5>1
      <4> QED
        BY <3>1, <4>1, <4>2, <4>3 DEF FramesInv
    <3>10. Top.mod \in Submodule => Marked(Top.mod)
      BY <1>2, <3>3, <3>4 DEF FramesInv, FrameInv
    <3>11. UnmarkedInv'
      BY <1>1, <1>2, <3>3, <3>10, SameMarks DEF UnmarkedInv, BaseInv, TypeInv, Mod
    <3> QED
      BY <3>9, <3>11
  <2> QED
    BY <1>1, <2>1, <2>2
<1> QED
  BY <1>5, <1>6 DEF DisjointInv

THEOREM DisjointNext == BaseInv /\ DisjointInv /\ [Next]_vars => DisjointInv'
<1> SUFFICES ASSUME BaseInv, DisjointInv, [Next]_vars PROVE DisjointInv'
  OBVIOUS
<1>1. CASE SkipInclude
  <2>1. stack # <<>> /\ Top.entry \in Entries
    BY <1>1, TopFrame DEF SkipInclude, AtInclude, Frames, BaseInv
  <2> QED
    BY <1>1, <2>1, ResumeDisjoint DEF SkipInclude
<1>2. CASE CircularInclude
  <2> DEFINE e == [Top.entry EXCEPT !.errors =
                      @ \cup {[kind |-> "circular", in |-> Top.mod, of |-> Included]}]
  <2>1. /\ e \in Entries /\ e.nodes = Top.entry.nodes
        /\ e.errors = Top.entry.errors
               \cup {[kind |-> "circular", in |-> Top.mod, of |-> Included]}
    BY <1>2, CircularEntry DEF CircularInclude, BaseInv
  <2>2. Resume(e) /\ stack # <<>> /\ UNCHANGED <<merged, cache, todo, phase>>
    BY <1>2 DEF CircularInclude, AtInclude
  <2> HIDE DEF e
  <2>3. NoDup(Top.entry.errors) => NoDup(e.errors)
    BY <2>1 DEF NoDup
  <2> QED
    BY <2>1, <2>2, <2>3, ResumeDisjoint
<1>3. CASE Finish
  BY <1>3 DEF Finish, DisjointInv, NoDuplicate, AmongModules
<1>4. CASE UNCHANGED vars
  BY <1>4, SameMarks
     DEF vars, DisjointInv, NoDuplicate, AmongModules, UnmarkedInv, FramesInv, FrameInv, Nodes
<1> QED
  BY <1>1, <1>2, <1>3, <1>4, ProcessDisjoint, ConvertDisjoint, MergeIncludeDisjoint,
     ReturnDisjoint DEF Next, Step

\* In no run of Process, for any include graph, is a submodule merged twice into a
\* module.
THEOREM NoDuplicateCorrect == Spec => []NoDuplicate
<1>1. BaseInv /\ DisjointInv => NoDuplicate
  BY DEF DisjointInv
<1> QED
  BY <1>1, BaseInit, BaseNext, DisjointInit, DisjointNext, PTL DEF Spec

-----------------------------------------------------------------------------
(* Circular dependencies *)

\* Modules and submodules have names of their own, as YANG demands, so that the keys
\* of mergedSubmodule tell them apart.
DistinctNames ==
    /\ \A x, y \in Mod : NameOf[x] = NameOf[y] => x = y
    /\ \A x, y \in Submodule : OwnerOf[x] # NameOf[y]

Mutual(e) == e.kind = "circular" => e.in \in Children(e.of) /\ e.of \in Children(e.in)
AllMutual(errors) == \A e \in errors : Mutual(e)

\* A key is of a submodule, and of the module it belongs to or what includes it.
KeysInv ==
    \A k \in merged : \E x \in Submodule :
        \/ k = <<NameOf[x], OwnerOf[x]>>
        \/ \E y \in Mod : x \in Children(y) /\ k = <<NameOf[x], NameOf[y]>>

SoundInv ==
    /\ KeysInv
    /\ AllMutual(errs)
    /\ \A i \in 1 .. Len(stack) : AllMutual(stack[i].entry.errors)
    /\ \A m \in Mod : cache[m] = None \/ AllMutual(cache[m].errors)

THEOREM SoundInit == Init => SoundInv
BY DEF Init, SoundInv, KeysInv, AllMutual

LEMMA SameChildren ==
    ASSUME UNCHANGED include
    PROVE  /\ \A m : Children(m)' = Children(m)
           /\ \A E : AllMutual(E)' <=> AllMutual(E)
           /\ UNCHANGED merged => (KeysInv' <=> KeysInv)
<1>1. \A m : Children(m)' = Children(m)
  BY DEF Children
<1>2. \A e : Mutual(e)' <=> Mutual(e)
  BY <1>1 DEF Mutual
<1> QED
  BY <1>1, <1>2 DEF AllMutual, KeysInv

\* A submodule that is reported as circular is the includer, or has included it.
LEMMA CircularIsMutual ==
    ASSUME DistinctNames, TypeInv, KeysInv, AtInclude, Circular
    PROVE  Included \in Children(Top.mod) /\ Top.mod \in Children(Included)
<1>1. Included \in Submodule /\ Included \in Mod /\ Included \in Children(Top.mod)
  BY IncludedSubmodule
<1>2. Top.mod \in Mod
  BY TopFrame DEF AtInclude, Frames
<1>3. CASE NameOf[Included] = NameOf[Top.mod]
  BY <1>1, <1>2, <1>3 DEF DistinctNames
<1>4. CASE IncludedToSrc \in merged
  <2>1. PICK x \in Submodule :
            \/ IncludedToSrc = <<NameOf[x], OwnerOf[x]>>
            \/ \E y \in Mod : x \in Children(y) /\ IncludedToSrc = <<NameOf[x], NameOf[y]>>
    BY <1>4 DEF KeysInv
  <2>2. IncludedToSrc # <<NameOf[x], OwnerOf[x]>>
    BY <1>1 DEF IncludedToSrc, DistinctNames
  <2>3. PICK y \in Mod : x \in Children(y) /\ IncludedToSrc = <<NameOf[x], NameOf[y]>>
    BY <2>1, <2>2
  <2>4. x = Top.mod /\ y = Included
    BY <1>1, <1>2, <2>3 DEF IncludedToSrc, DistinctNames, Mod
  <2> QED
    BY <1>1, <2>3, <2>4
<1> QED
  BY <1>3, <1>4 DEF Circular

LEMMA ResumeSound ==
    ASSUME BaseInv, SoundInv, stack # <<>>, NEW e \in Entries, Resume(e),
           AllMutual(e.errors), UNCHANGED <<include, cache, errs>>, KeysInv'
    PROVE  SoundInv'
<1>1. /\ Len(stack') = Len(stack)
      /\ \A i \in 1 .. Len(stack) :
            /\ i # Len(stack) => stack'[i] = stack[i]
            /\ i = Len(stack) => stack'[i].entry = e
  BY ResumeFrames DEF BaseInv
<1>2. \A i \in 1 .. Len(stack) : AllMutual(stack'[i].entry.errors)
  BY <1>1 DEF SoundInv
<1> QED
  BY <1>1, <1>2, SameChildren DEF SoundInv

LEMMA PushSound ==
    ASSUME BaseInv, SoundInv, NEW m \in Mod, Push(m),
           UNCHANGED <<include, cache, errs>>, KeysInv'
    PROVE  SoundInv'
<1> PICK n : n = Len(stack)
  OBVIOUS
<1>1. /\ n \in Nat /\ Len(stack') = n + 1
      /\ \A i \in 1 .. n : stack'[i] = stack[i]
      /\ stack'[n + 1].entry.errors = {}
  BY PushFrames DEF BaseInv
<1>2. \A i \in 1 .. n + 1 : i \in 1 .. n \/ i = n + 1
  BY <1>1
<1>3. \A i \in 1 .. n + 1 : AllMutual(stack'[i].entry.errors)
  BY <1>1, <1>2 DEF SoundInv, AllMutual
<1> QED
  BY <1>1, <1>3, SameChildren DEF SoundInv

\* merge adds duplicates only.
LEMMA MergeMutual ==
    ASSUME NEW m \in Mod, NEW e \in Entries, NEW oe \in Entries,
           AllMutual(e.errors), AllMutual(oe.errors)
    PROVE  AllMutual(Merge(m, e, oe).errors)
BY MergeEntry DEF AllMutual, Mutual

LEMMA MergeIncludeSound == BaseInv /\ SoundInv /\ MergeInclude => SoundInv'
<1> SUFFICES ASSUME BaseInv, SoundInv, MergeInclude PROVE SoundInv'
  OBVIOUS
<1>1. /\ AtInclude /\ stack # <<>> /\ UNCHANGED <<include, cache, errs>>
      /\ merged' = merged \cup Marks
  BY DEF MergeInclude, AtInclude
<1>2. Included \in Submodule /\ Included \in Mod /\ Included \in Children(Top.mod)
  BY <1>1, IncludedSubmodule DEF BaseInv
<1>3. Top.mod \in Mod /\ Top.entry \in Entries
  BY <1>1, TopFrame DEF BaseInv, Frames
<1>4. KeysInv'
  <2> PICK x, y : x = Included /\ y = Top.mod
    OBVIOUS
  <2>1. merged' = merged \cup {<<NameOf[x], NameOf[y]>>, <<NameOf[x], OwnerOf[x]>>}
    BY <1>1 DEF Marks, SrcToIncluded, IncludedToParent
  <2>2. x \in Submodule /\ y \in Mod /\ x \in Children(y) /\ \A m : Children(m)' = Children(m)
    BY <1>1, <1>2, <1>3, SameChildren
  <2> QED
    BY <2>1, <2>2 DEF SoundInv, KeysInv
<1>5. CASE cache[Included] # None /\ Resume(Merge(Top.mod, Top.entry, cache[Included]))
  <2>1. /\ cache[Included] \in Entries /\ AllMutual(cache[Included].errors)
        /\ AllMutual(Top.entry.errors)
    BY <1>1, <1>2, <1>5, TopFrame DEF BaseInv, TypeInv, SoundInv
  <2>2. /\ Merge(Top.mod, Top.entry, cache[Included]) \in Entries
        /\ AllMutual(Merge(Top.mod, Top.entry, cache[Included]).errors)
    BY <1>3, <2>1, MergeEntry, MergeMutual
  <2> QED
    BY <1>1, <1>4, <1>5, <2>2, ResumeSound
<1>6. CASE Push(Included)
  BY <1>1, <1>2, <1>4, <1>6, PushSound
<1> QED
  BY <1>5, <1>6 DEF MergeInclude

LEMMA ReturnSound == BaseInv /\ SoundInv /\ Return => SoundInv'
<1> SUFFICES ASSUME BaseInv, SoundInv, Return PROVE SoundInv'
  OBVIOUS
<1>1. /\ stack # <<>> /\ cache' = [cache EXCEPT ![Top.mod] = Top.entry]
      /\ UNCHANGED <<include, merged>>
      /\ \/ stack' = <<>> /\ errs' = errs \cup Top.entry.errors
         \/ Pops /\ UNCHANGED errs
  BY Returned DEF Return, BaseInv
<1>2. /\ Top = stack[Len(stack)] /\ Len(stack) \in 1 .. Len(stack)
      /\ Top.mod \in Mod /\ Top.entry \in Entries
      /\ \A i \in 1 .. Len(stack) : stack[i] \in Frames
  BY <1>1, TopFrame DEF BaseInv, TypeInv, Frames
<1>3. AllMutual(Top.entry.errors)
  BY <1>2 DEF SoundInv
<1>4. \A m \in Mod : cache'[m] = None \/ AllMutual(cache'[m].errors)
  BY <1>1, <1>2, <1>3 DEF SoundInv, BaseInv, TypeInv
<1>5. CASE stack' = <<>> /\ errs' = errs \cup Top.entry.errors
  <2>1. AllMutual(errs')
    BY <1>3, <1>5 DEF SoundInv, AllMutual
  <2> QED
    BY <1>1, <1>4, <1>5, <2>1, SameChildren DEF SoundInv
<1>6. CASE Pops /\ UNCHANGED errs
  <2> PICK n : n = Len(stack) - 1
    OBVIOUS
  <2>1. /\ n \in Nat \ {0} /\ Len(stack') = n
        /\ \A i \in 1 .. n : i # n => stack'[i] = stack[i]
        /\ stack'[n].entry = Merge(stack[n].mod, stack[n].entry, Top.entry)
    BY <1>6, PopFrames DEF BaseInv
  <2>2. \A i \in 1 .. n : i \in 1 .. Len(stack)
    BY <1>2, <2>1
  <2>3. AllMutual(stack'[n].entry.errors)
    <3>1. n \in 1 .. Len(stack)
      BY <2>1, <2>2
    <3>2. /\ stack[n].mod \in Mod /\ stack[n].entry \in Entries
          /\ AllMutual(stack[n].entry.errors)
      BY <1>2, <3>1 DEF SoundInv, Frames
    <3> QED
      BY <1>2, <1>3, <2>1, <3>2, MergeMutual
  <2>4. \A i \in 1 .. n : AllMutual(stack'[i].entry.errors)
    BY <2>1, <2>2, <2>3 DEF SoundInv
  <2> QED
    BY <1>1, <1>4, <1>6, <2>1, <2>4, SameChildren DEF SoundInv
<1> QED
  BY <1>1, <1>5, <1>6

THEOREM SoundNext ==
    ASSUME DistinctNames, BaseInv, SoundInv, [Next]_vars
    PROVE  SoundInv'
<1>1. CASE Process
  <2>1. stack' = <<>> /\ merged' = {} /\ errs' = {} /\ \A m \in Mod : cache'[m] = None
    BY <1>1 DEF Process, MergedAtStart, BaseInv, WalkInv
  <2> QED
    BY <2>1 DEF SoundInv, KeysInv, AllMutual
<1>2. CASE Convert
  <2>1. UNCHANGED <<include, merged, cache>> /\ stack = <<>>
    BY <1>2 DEF Convert
  <2>2. KeysInv'
    BY <2>1, SameChildren DEF SoundInv
  <2> PICK m \in todo :
          \/ cache[m] # None /\ errs' = errs \cup cache[m].errors /\ UNCHANGED stack
          \/ Push(m) /\ UNCHANGED errs
    BY <1>2 DEF Convert
  <2>3. m \in Mod
    BY DEF BaseInv, TypeInv
  <2>4. CASE cache[m] # None /\ errs' = errs \cup cache[m].errors /\ UNCHANGED stack
    <3>1. AllMutual(errs')
      BY <2>3, <2>4 DEF SoundInv, AllMutual
    <3> QED
      BY <2>1, <2>2, <2>4, <3>1, SameChildren DEF SoundInv
  <2>5. CASE Push(m) /\ UNCHANGED errs
    BY <2>1, <2>2, <2>3, <2>5, PushSound
  <2> QED
    BY <2>4, <2>5
<1>3. CASE SkipInclude
  <2>0. stack # <<>> /\ AllMutual(Top.entry.errors)
    BY <1>3, TopFrame DEF SkipInclude, AtInclude, BaseInv, TypeInv, SoundInv
  <2>1. Top.entry \in Entries
    BY <2>0, TopFrame DEF Frames, BaseInv
  <2>2. UNCHANGED <<include, merged, cache, errs>> /\ Resume(Top.entry)
    BY <1>3 DEF SkipInclude
  <2>3. KeysInv'
    BY <2>2, SameChildren DEF SoundInv
  <2> QED
    BY <2>0, <2>1, <2>2, <2>3, ResumeSound
<1>4. CASE CircularInclude
  <2> DEFINE c == [kind |-> "circular", in |-> Top.mod, of |-> Included]
             e == [Top.entry EXCEPT !.errors = @ \cup {c}]
  <2>1. e \in Entries /\ e.errors = Top.entry.errors \cup {c}
    BY <1>4, CircularEntry DEF CircularInclude, BaseInv
  <2>2. /\ Resume(e) /\ stack # <<>> /\ UNCHANGED <<include, merged, cache, errs>>
        /\ AtInclude /\ Circular
    BY <1>4 DEF CircularInclude, AtInclude
  <2>3. KeysInv'
    BY <2>2, SameChildren DEF SoundInv
  <2>4. Mutual(c)
    BY <2>2, CircularIsMutual DEF Mutual, BaseInv, SoundInv
  <2>5. AllMutual(Top.entry.errors)
    BY <2>2, TopFrame DEF BaseInv, TypeInv, SoundInv
  <2> HIDE DEF e, c
  <2>6. AllMutual(e.errors)
    BY <2>1, <2>4, <2>5 DEF AllMutual
  <2> QED
    BY <2>1, <2>2, <2>3, <2>6, ResumeSound
<1>5. CASE Finish
  BY <1>5, SameChildren DEF Finish, SoundInv
<1>6. CASE UNCHANGED vars
  BY <1>6, SameChildren DEF vars, SoundInv
<1> QED
  BY <1>1, <1>2, <1>3, <1>4, <1>5, <1>6, MergeIncludeSound, ReturnSound DEF Next, Step

\* If names are distinct, a circular dependency is reported only of submodules that
\* include each other, whatever was merged before.
THEOREM CircularSoundCorrect ==
    ASSUME DistinctNames
    PROVE  Spec => []CircularSound
<1>1. BaseInv /\ SoundInv => CircularSound
  BY DEF SoundInv, AllMutual, Mutual, CircularSound
<1>2. BaseInv /\ SoundInv /\ [Next]_vars => SoundInv'
  BY SoundNext
<1> QED
  BY <1>1, <1>2, BaseInit, BaseNext, SoundInit, PTL DEF Spec

-----------------------------------------------------------------------------
(* The entries of modules are complete *)

\* The name of the module x is, or belongs to.
Home(x) == IF x \in Module THEN NameOf[x] ELSE OwnerOf[x]

\* Only submodules of the same module are included.
IncludesOwn ==
    \A g \in Graphs : \A x \in Mod : \A i \in 1 .. Len(g[x]) : OwnerOf[g[x][i]] = Home(x)

OwnersInv == \A x \in Mod : \A y \in Children(x) : OwnerOf[y] = Home(x)

\* x is in an entry in progress.
Held(x) == \E i \in 1 .. Len(stack) : x \in Nodes(i)

\* What module m includes is not marked before m is converted.
NotYetInv ==
    \A m \in Module \cap todo :
        /\ cache[m] = None
        /\ \A x \in Submodule : OwnerOf[x] = NameOf[m] => ~ Marked(x)

KeyNamesMarked ==
    \A x \in Submodule : \A q :
        <<NameOf[x], q>> \in merged \/ <<q, NameOf[x]>> \in merged => Marked(x)

\* A call is of the outermost module or of a submodule it reaches, which the caller is
\* just at.
WithinInv ==
    \A i \in 1 .. Len(stack) :
        /\ Home(stack[i].mod) = NameOf[stack[1].mod]
        /\ stack[i].mod \in Nodes(i)
        /\ Nodes(i) \subseteq Reach(stack[1].mod)
        /\ i < Len(stack) => include[stack[i].mod][stack[i].pos] = stack[i + 1].mod

\* The submodules of the module that are marked are held.
HeldInv == \A x \in Submodule : Marked(x) /\ OwnerOf[x] = NameOf[stack[1].mod] => Held(x)

\* The include statements a call has come past, and all those of what has returned,
\* are of what is held.
PastInv ==
    \A i \in 1 .. Len(stack) : \A k \in 1 .. Len(include[stack[i].mod]) :
        k < stack[i].pos => Held(include[stack[i].mod][k])
VisitedInv ==
    \A x \in Mod : Held(x) =>
        \/ \E i \in 1 .. Len(stack) : x = stack[i].mod
        \/ \A y \in Children(x) : Held(y)

DoneInv ==
    phase # "idle" =>
        \A m \in Module \ todo :
            (stack # <<>> /\ stack[1].mod = m) \/ cache[m].nodes = Reach(m)

CompleteInv ==
    /\ OwnersInv
    /\ DoneInv
    /\ AmongModules =>
          /\ NotYetInv
          /\ KeyNamesMarked
          /\ stack # <<>> => WithinInv /\ HeldInv /\ PastInv /\ VisitedInv

Inv == BaseInv /\ DisjointInv /\ CompleteInv

THEOREM CompleteInit == IncludesOwn /\ Init => CompleteInv
<1> SUFFICES ASSUME IncludesOwn, Init PROVE CompleteInv
  OBVIOUS
<1>1. OwnersInv
  BY DEF Init, IncludesOwn, OwnersInv, Children
<1> QED
  BY <1>1 DEF Init, CompleteInv, DoneInv, AmongModules

\* Reach is the least set with m that is closed under Children.
LEMMA ReachFacts ==
    ASSUME NEW m \in Mod
    PROVE  /\ m \in Reach(m) /\ Reach(m) \subseteq Mod
           /\ \A x \in Reach(m) : \A y \in Children(x) \cap Mod : y \in Reach(m)
           /\ \A S \in SUBSET Mod :
                 m \in S /\ (\A y \in S : Children(y) \subseteq S) => Reach(m) \subseteq S
BY DEF Reach

LEMMA SameGraph ==
    ASSUME UNCHANGED include
    PROVE  /\ \A m : Children(m)' = Children(m) /\ Reach(m)' = Reach(m)
           /\ OwnersInv' <=> OwnersInv
<1>1. \A m : Children(m)' = Children(m)
  BY DEF Children
<1> QED
  BY <1>1 DEF Reach, OwnersInv

\* An include statement that is left out is of a submodule that is held.
LEMMA LeftOutIsHeld ==
    ASSUME DistinctNames, Inv, AmongModules, AtInclude, Repeated \/ Circular \/ Owned
    PROVE  Held(Included)
<1>1. stack # <<>>
  BY DEF AtInclude
<1>2. /\ Included \in Submodule /\ Included \in Mod /\ Included \in Children(Top.mod)
      /\ Top = stack[Len(stack)] /\ Len(stack) \in 1 .. Len(stack)
      /\ Top.mod \in Mod
  BY <1>1, IncludedSubmodule, TopFrame DEF Inv, BaseInv, TypeInv, Frames
<1>3. WithinInv /\ HeldInv /\ KeyNamesMarked /\ OwnersInv
  BY <1>1 DEF Inv, CompleteInv
<1>4. OwnerOf[Included] = NameOf[stack[1].mod]
  BY <1>2, <1>3 DEF OwnersInv, WithinInv
<1>5. Marked(Included) => Held(Included)
  BY <1>2, <1>3, <1>4 DEF HeldInv
<1>6. CASE Repeated
  BY <1>2, <1>3, <1>5, <1>6 DEF Repeated, SrcToIncluded, KeyNamesMarked
<1>7. CASE Owned
  BY <1>5, <1>7 DEF Owned, IncludedToParent, Marked
<1>8. CASE IncludedToSrc \in merged
  BY <1>2, <1>3, <1>5, <1>8 DEF IncludedToSrc, KeyNamesMarked
<1>9. CASE NameOf[Included] = NameOf[Top.mod]
  <2>1. Included = Top.mod
    BY <1>2, <1>9 DEF DistinctNames
  <2> QED
    BY <1>2, <1>3, <2>1 DEF WithinInv, Held
<1> QED
  BY <1>6, <1>7, <1>8, <1>9 DEF Circular

\* A call goes on after an include statement of what is held.
LEMMA ResumeComplete ==
    ASSUME Inv, AtInclude, NEW e \in Entries, Resume(e),
           UNCHANGED <<include, merged, cache, todo, phase>>,
           AmongModules => e.nodes = Top.entry.nodes /\ Held(Included)
    PROVE  CompleteInv'
<1> PICK n : n = Len(stack)
  OBVIOUS
<1>1. /\ stack # <<>> /\ stack' # <<>> /\ n \in Nat \ {0} /\ Len(stack') = n
      /\ n \in 1 .. n /\ 1 \in 1 .. n
      /\ \A i \in 1 .. n :
            /\ stack'[i].mod = stack[i].mod
            /\ i # n => stack'[i] = stack[i]
      /\ stack'[n].pos = stack[n].pos + 1 /\ stack'[n].entry = e
      /\ Top = stack[n]
  BY ResumeFrames, TopFrame DEF AtInclude, Inv, BaseInv, TypeInv
<1>2. OwnersInv' /\ DoneInv'
  BY <1>1, SameGraph DEF Inv, CompleteInv, DoneInv
<1>3. AmongModules' => AmongModules
  BY <1>1 DEF AmongModules
<1>4. ASSUME AmongModules'
      PROVE  NotYetInv' /\ KeyNamesMarked' /\ WithinInv' /\ HeldInv' /\ PastInv' /\ VisitedInv'
  <2>1. /\ NotYetInv /\ KeyNamesMarked /\ WithinInv /\ HeldInv /\ PastInv /\ VisitedInv
        /\ e.nodes = Top.entry.nodes /\ Held(Included)
    BY <1>1, <1>3, <1>4 DEF Inv, CompleteInv
  <2>2. NotYetInv' /\ KeyNamesMarked'
    BY <2>1, SameMarks DEF NotYetInv, KeyNamesMarked
  <2>3. \A i \in 1 .. n : Nodes(i)' = Nodes(i)
    BY <1>1, <2>1 DEF Nodes
  <2>4. \A x : Held(x)' <=> Held(x)
    BY <1>1, <2>3 DEF Held
  <2>5. WithinInv'
    <3>1. \A i \in 1 .. n : i < n => stack'[i].pos = stack[i].pos /\ stack'[i + 1].mod = stack[i + 1].mod
      BY <1>1
    <3> QED
      BY <1>1, <2>1, <2>3, <3>1, SameGraph DEF WithinInv, Home
  <2>6. HeldInv'
    BY <1>1, <2>1, <2>4, SameMarks DEF HeldInv
  <2>7. PastInv'
    <3>1. ASSUME NEW i \in 1 .. n, NEW k \in 1 .. Len(include[stack[i].mod]), k < stack'[i].pos
          PROVE  Held(include[stack[i].mod][k])
      <4>1. CASE k < stack[i].pos
        BY <2>1, <4>1 DEF PastInv
      <4>2. CASE i = n /\ k = stack[n].pos
        BY <1>1, <2>1, <4>2 DEF Included
      <4>3. stack[n].pos \in Nat /\ include[stack[i].mod] \in Seq(Submodule)
        BY <1>1, TopFrame DEF Inv, BaseInv, TypeInv, Frames
      <4> QED
        BY <1>1, <3>1, <4>1, <4>2, <4>3
    <3> QED
      BY <1>1, <2>4, <3>1 DEF PastInv
  <2>8. VisitedInv'
    BY <1>1, <2>1, <2>4, SameGraph DEF VisitedInv
  <2> QED
    BY <2>1, <2>2, <2>5, <2>6, <2>7, <2>8
<1> QED
  BY <1>2, <1>4 DEF CompleteInv

LEMMA ProcessComplete == BaseInv /\ CompleteInv /\ Process => CompleteInv'
<1> SUFFICES ASSUME BaseInv, CompleteInv, Process PROVE CompleteInv'
  OBVIOUS
<1>1. /\ stack' = <<>> /\ merged' = {} /\ todo' = Mod /\ UNCHANGED include
      /\ \A m \in Mod : cache'[m] = None
  BY DEF Process, MergedAtStart, BaseInv, WalkInv
<1>2. OwnersInv' /\ DoneInv'
  BY <1>1, SameGraph DEF CompleteInv, DoneInv, Mod
<1>3. NotYetInv' /\ KeyNamesMarked'
  BY <1>1 DEF NotYetInv, KeyNamesMarked, Marked, Mod
<1> QED
  BY <1>1, <1>2, <1>3 DEF CompleteInv

\* A module that Process begins with holds itself.
LEMMA ConvertComplete == BaseInv /\ CompleteInv /\ Convert => CompleteInv'
<1> SUFFICES ASSUME BaseInv, CompleteInv, Convert PROVE CompleteInv'
  OBVIOUS
<1>1. stack = <<>> /\ phase = "convert" /\ UNCHANGED <<include, merged, cache, phase>>
  BY DEF Convert
<1> PICK m \in todo :
          /\ IsNext(m) /\ todo' = todo \ {m}
          /\ \/ cache[m] # None /\ UNCHANGED stack
             \/ Push(m)
  BY DEF Convert
<1>2. m \in Mod
  BY DEF BaseInv, TypeInv
<1>3. OwnersInv' /\ \A x \in Module \ todo : cache[x].nodes = Reach(x) /\ Reach(x)' = Reach(x)
  BY <1>1, SameGraph DEF CompleteInv, DoneInv
<1>4. AmongModules => NotYetInv' /\ KeyNamesMarked'
  BY <1>1, SameMarks DEF CompleteInv, NotYetInv, KeyNamesMarked
<1>5. todo \cap Module # {} => AmongModules
  BY <1>1 DEF AmongModules
<1>6. CASE cache[m] # None /\ UNCHANGED stack
  <2>1. m \notin Module
    BY <1>5, <1>6 DEF CompleteInv, NotYetInv
  <2>2. AmongModules' => AmongModules
    BY <1>1, <1>6, <2>1 DEF AmongModules
  <2>3. DoneInv'
    BY <1>1, <1>3, <2>1 DEF DoneInv
  <2> QED
    BY <1>1, <1>3, <1>4, <1>6, <2>2, <2>3 DEF CompleteInv
<1>7. CASE Push(m)
  <2>1. /\ Len(stack') = 1 /\ stack' # <<>>
        /\ stack'[1].mod = m /\ stack'[1].pos = 1 /\ stack'[1].entry.nodes = {m}
    BY <1>1, <1>2, <1>7, PushFrames DEF BaseInv
  <2>2. DoneInv'
    BY <1>1, <1>3, <2>1 DEF DoneInv
  <2>3. ASSUME m \in Module
        PROVE  NotYetInv' /\ KeyNamesMarked' /\ WithinInv' /\ HeldInv' /\ PastInv' /\ VisitedInv'
    <3>1. AmongModules /\ NotYetInv
      BY <1>5, <2>3 DEF CompleteInv
    <3>2. Nodes(1)' = {m} /\ \A x : Held(x)' <=> x = m
      BY <2>1 DEF Nodes, Held
    <3>3. Home(m) = NameOf[m] /\ m \in Reach(m) /\ Reach(m)' = Reach(m)
      BY <1>1, <1>2, <2>3, ReachFacts, SameGraph DEF Home
    <3>4. WithinInv'
      BY <2>1, <3>2, <3>3 DEF WithinInv, Home
    <3>5. HeldInv'
      BY <1>1, <2>1, <2>3, <3>1, SameMarks DEF HeldInv, NotYetInv
    <3>6. PastInv'
      BY <2>1 DEF PastInv
    <3>7. VisitedInv'
      BY <2>1, <3>2 DEF VisitedInv
    <3> QED
      BY <1>4, <3>1, <3>4, <3>5, <3>6, <3>7
  <2>4. AmongModules' => m \in Module
    BY <1>2, <2>1 DEF AmongModules, IsNext, Mod
  <2> QED
    BY <1>3, <2>2, <2>3, <2>4 DEF CompleteInv
<1> QED
  BY <1>6, <1>7

LEMMA SkipIncludeComplete == DistinctNames /\ Inv /\ SkipInclude => CompleteInv'
<1> SUFFICES ASSUME DistinctNames, Inv, SkipInclude PROVE CompleteInv'
  OBVIOUS
<1>1. /\ AtInclude /\ stack # <<>> /\ Resume(Top.entry)
      /\ Repeated \/ Circular \/ Owned
      /\ UNCHANGED <<include, merged, cache, todo, phase>>
  BY DEF SkipInclude, AtInclude
<1>2. Top.entry \in Entries
  BY <1>1, TopFrame DEF Frames, Inv, BaseInv
<1>3. AmongModules => Held(Included)
  BY <1>1, LeftOutIsHeld
<1> QED
  BY <1>1, <1>2, <1>3, ResumeComplete

LEMMA CircularIncludeComplete == DistinctNames /\ Inv /\ CircularInclude => CompleteInv'
<1> SUFFICES ASSUME DistinctNames, Inv, CircularInclude PROVE CompleteInv'
  OBVIOUS
<1> DEFINE e == [Top.entry EXCEPT !.errors =
                    @ \cup {[kind |-> "circular", in |-> Top.mod, of |-> Included]}]
<1>1. /\ AtInclude /\ Resume(e) /\ Circular
      /\ UNCHANGED <<include, merged, cache, todo, phase>>
  BY DEF CircularInclude
<1>2. e \in Entries /\ e.nodes = Top.entry.nodes
  BY <1>1, CircularEntry DEF Inv, BaseInv
<1>3. AmongModules => Held(Included)
  BY <1>1, LeftOutIsHeld
<1> HIDE DEF e
<1> QED
  BY <1>1, <1>2, <1>3, ResumeComplete

\* What is merged while modules are converted has no entry yet: it is held by the call
\* that starts, and marked, as nothing else is that was not.
LEMMA MergeIncludeComplete == DistinctNames /\ Inv /\ MergeInclude => CompleteInv'
<1> SUFFICES ASSUME DistinctNames, Inv, MergeInclude PROVE CompleteInv'
  OBVIOUS
<1> PICK n, c, t : n = Len(stack) /\ c = Included /\ t = Top.mod
  OBVIOUS
<1>1. /\ AtInclude /\ stack # <<>> /\ UNCHANGED <<include, cache, todo, phase>>
      /\ merged' = merged \cup {<<NameOf[c], NameOf[t]>>, <<NameOf[c], OwnerOf[c]>>}
      /\ ~ Marked(c)
      /\ \/ cache[c] # None /\ Resume(Merge(Top.mod, Top.entry, cache[c]))
         \/ cache[c] = None /\ Push(c)
  BY DEF MergeInclude, AtInclude, Owned, IncludedToParent, SrcToIncluded, Marks, Marked
<1>2. /\ c \in Submodule /\ c \in Mod /\ c \in Children(t)
      /\ n \in Nat \ {0} /\ n \in 1 .. n /\ 1 \in 1 .. n /\ t = stack[n].mod /\ t \in Mod
      /\ Top.entry \in Entries
      /\ c = include[t][stack[n].pos]
      /\ stack[1].mod \in Mod
  <2>1. TypeInv
    BY DEF Inv, BaseInv
  <2>2. c \in Submodule /\ c \in Mod /\ c \in Children(t)
    BY <1>1, <2>1, IncludedSubmodule
  <2>3. /\ n \in Nat \ {0} /\ Top = stack[n] /\ Top \in Frames
        /\ \A i \in 1 .. n : stack[i] \in Frames
    BY <1>1, <2>1, TopFrame
  <2>4. n \in 1 .. n /\ 1 \in 1 .. n
    BY <2>3
  <2>5. c = include[t][stack[n].pos] /\ t = stack[n].mod
    BY <2>3 DEF Included
  <2> QED
    BY <2>2, <2>3, <2>4, <2>5 DEF Frames
<1>3. CASE cache[c] # None /\ Resume(Merge(Top.mod, Top.entry, cache[c]))
  <2>1. cache[c] \in Entries
    BY <1>2, <1>3 DEF Inv, BaseInv, TypeInv
  <2>2. Merge(Top.mod, Top.entry, cache[c]) \in Entries
    BY <1>2, <2>1, MergeEntry
  <2>3. ~ AmongModules
    BY <1>1, <1>2, <1>3 DEF Inv, DisjointInv, UnmarkedInv
  <2>4. stack' # <<>> /\ stack'[1].mod = stack[1].mod
    <3>1. Len(stack') = n /\ \A i \in 1 .. n : stack'[i].mod = stack[i].mod
      BY <1>1, <1>3, <2>2, ResumeFrames DEF Inv, BaseInv
    <3> QED
      BY <1>2, <3>1
  <2>5. ~ AmongModules'
    BY <1>1, <2>3, <2>4 DEF AmongModules
  <2>6. OwnersInv' /\ DoneInv'
    BY <1>1, <2>4, SameGraph DEF Inv, CompleteInv, DoneInv
  <2> QED
    BY <2>5, <2>6 DEF CompleteInv
<1>4. CASE cache[c] = None /\ Push(c)
  <2>1. /\ Len(stack') = n + 1 /\ stack' # <<>>
        /\ \A i \in 1 .. n : stack'[i] = stack[i]
        /\ stack'[n + 1].mod = c /\ stack'[n + 1].pos = 1
        /\ stack'[n + 1].entry.nodes = {c}
    <3>1. TypeInv /\ c \in Mod /\ Push(c)
      BY <1>2, <1>4 DEF Inv, BaseInv
    <3>2. /\ Len(stack') = n + 1 /\ \A i \in 1 .. n : stack'[i] = stack[i]
          /\ stack'[n + 1].mod = c /\ stack'[n + 1].pos = 1
          /\ stack'[n + 1].entry.nodes = {c}
      BY <3>1, PushFrames
    <3>3. stack' # <<>>
      BY <1>4 DEF Push
    <3> QED
      BY <3>2, <3>3
  <2>2. stack'[1] = stack[1]
    BY <1>2, <2>1
  <2>3. OwnersInv' /\ DoneInv'
    BY <1>1, <2>1, <2>2, SameGraph DEF Inv, CompleteInv, DoneInv
  <2>4. AmongModules' => AmongModules
    BY <1>1, <2>2 DEF AmongModules
  <2>5. ASSUME AmongModules
        PROVE  NotYetInv' /\ KeyNamesMarked' /\ WithinInv' /\ HeldInv' /\ PastInv' /\ VisitedInv'
    <3>1. /\ OwnersInv /\ NotYetInv /\ KeyNamesMarked /\ WithinInv /\ HeldInv /\ PastInv
          /\ VisitedInv /\ FramesInv
      BY <1>1, <2>5 DEF Inv, CompleteInv, DisjointInv
    <3> PICK o : o = stack[1].mod
      OBVIOUS
    <3>2. o \in Module /\ o \in Mod /\ o \notin Submodule /\ o \notin todo
      BY <1>1, <2>5, OutermostModule DEF Inv, BaseInv, WalkInv
    <3>3. OwnerOf[c] = NameOf[o] /\ Home(t) = NameOf[o] /\ Home(c) = NameOf[o]
      <4>1. Home(t) = NameOf[o]
        BY <1>2, <3>1 DEF WithinInv
      <4>2. OwnerOf[c] = Home(t)
        BY <1>2, <3>1 DEF OwnersInv
      <4>3. Home(c) = OwnerOf[c]
        BY <1>2, ModAssumption DEF Home
      <4> QED
        BY <4>1, <4>2, <4>3
    <3>4. \A x \in Submodule : Marked(x)' <=> Marked(x) \/ x = c
      BY <1>1, <1>2 DEF Marked, DistinctNames, Mod
    <3>5. NotYetInv'
      <4>1. \A m \in Module \cap todo : NameOf[m] # NameOf[o]
        BY <3>2 DEF DistinctNames, Mod
      <4> QED
        BY <1>1, <3>1, <3>3, <3>4, <4>1 DEF NotYetInv
    <3>6. KeyNamesMarked'
      <4>1. t \in Submodule => Marked(t)
        BY <1>2, <3>1, <3>2 DEF FramesInv, FrameInv
      <4>2. ASSUME NEW x \in Submodule, NEW q,
                   <<NameOf[x], q>> \in merged' \/ <<q, NameOf[x]>> \in merged'
            PROVE  Marked(x)'
        <5>1. CASE <<NameOf[x], q>> \in merged \/ <<q, NameOf[x]>> \in merged
          BY <3>1, <3>4, <5>1 DEF KeyNamesMarked
        <5>2. NameOf[x] = NameOf[c] => x = c
          BY <1>2 DEF DistinctNames, Mod
        <5>3. NameOf[x] = NameOf[t] => x = t
          BY <1>2 DEF DistinctNames, Mod
        <5>4. NameOf[x] # OwnerOf[c]
          BY <3>2, <3>3 DEF DistinctNames, Mod
        <5> QED
          BY <1>1, <3>4, <4>1, <4>2, <5>1, <5>2, <5>3, <5>4
      <4> QED
        BY <4>2 DEF KeyNamesMarked
    <3>7. /\ \A i \in 1 .. n : Nodes(i)' = Nodes(i)
          /\ Nodes(n + 1)' = {c}
          /\ \A i \in 1 .. n + 1 : i \in 1 .. n \/ i = n + 1
      BY <1>2, <2>1 DEF Nodes
    <3>8. \A x : Held(x)' <=> Held(x) \/ x = c
      <4>1. n + 1 \in 1 .. n + 1 /\ \A i \in 1 .. n : i \in 1 .. n + 1
        BY <1>2
      <4> QED
        BY <2>1, <3>7, <4>1 DEF Held
    <3>9. WithinInv'
      <4>1. c \in Reach(o)
        <5>1. t \in Reach(o)
          BY <1>2, <3>1 DEF WithinInv
        <5> QED
          BY <1>2, <3>2, <5>1, ReachFacts
      <4>2. Reach(o)' = Reach(o) /\ stack'[1].mod = o
        BY <1>1, <2>2, SameGraph
      <4>3. \A i \in 1 .. n :
                /\ Home(stack'[i].mod) = NameOf[o]
                /\ stack'[i].mod \in Nodes(i)'
                /\ Nodes(i)' \subseteq Reach(o)
        BY <2>1, <3>1, <3>7 DEF WithinInv
      <4>4. \A i \in 1 .. n : include[stack'[i].mod][stack'[i].pos] = stack'[i + 1].mod
        <5>1. \A i \in 1 .. n : i # n => i < n /\ i + 1 \in 1 .. n
          BY <1>2
        <5>2. \A i \in 1 .. n : i < n => include[stack[i].mod][stack[i].pos] = stack[i + 1].mod
          BY <3>1 DEF WithinInv
        <5> QED
          BY <1>2, <2>1, <5>1, <5>2
      <4>5. \A i \in 1 .. n + 1 : i < n + 1 => i \in 1 .. n
        BY <1>2
      <4> QED
        BY <1>1, <2>1, <3>3, <3>7, <4>1, <4>2, <4>3, <4>4, <4>5 DEF WithinInv, Home
    <3>10. HeldInv'
      BY <2>2, <3>1, <3>4, <3>8 DEF HeldInv
    <3>11. PastInv'
      <4>1. \A i \in 1 .. n : \A k \in 1 .. Len(include[stack'[i].mod]) :
                k < stack'[i].pos => Held(include[stack'[i].mod][k])
        BY <2>1, <3>1 DEF PastInv
      <4> QED
        BY <1>1, <2>1, <3>7, <3>8, <4>1 DEF PastInv
    <3>12. VisitedInv'
      <4>1. \E i \in 1 .. n + 1 : c = stack'[i].mod
        <5>1. n + 1 \in 1 .. n + 1
          BY <1>2
        <5> QED
          BY <2>1, <5>1
      <4>2. \A i \in 1 .. n : i \in 1 .. n + 1 /\ stack'[i].mod = stack[i].mod
        <5>1. \A i \in 1 .. n : i \in 1 .. n + 1
          BY <1>2
        <5> QED
          BY <2>1, <5>1
      <4> QED
        BY <1>1, <1>2, <2>1, <3>1, <3>8, <4>1, <4>2, SameGraph DEF VisitedInv
    <3> QED
      BY <3>5, <3>6, <3>9, <3>10, <3>11, <3>12
  <2> QED
    BY <2>3, <2>4, <2>5 DEF CompleteInv
<1> QED
  BY <1>1, <1>3, <1>4

\* A call that returns has come past all its include statements.
LEMMA ReturnedIsPast ==
    ASSUME Inv, AmongModules, stack # <<>>, ~ AtInclude
    PROVE  \A y \in Children(Top.mod) : Held(y)
<1> PICK n, t, p : n = Len(stack) /\ t = Top.mod /\ p = Top.pos
  OBVIOUS
<1>1. /\ n \in 1 .. n /\ t = stack[n].mod /\ p = stack[n].pos /\ p \in Nat /\ t \in Mod
      /\ include[t] \in Seq(Submodule) /\ ~ p <= Len(include[t])
  BY TopFrame DEF Inv, BaseInv, TypeInv, Frames, AtInclude
<1>2. \A k \in 1 .. Len(include[t]) : k < p
  BY <1>1
<1>3. PastInv
  BY DEF Inv, CompleteInv
<1>4. \A k \in 1 .. Len(include[t]) : Held(include[t][k])
  BY <1>1, <1>2, <1>3 DEF PastInv
<1> QED
  BY <1>4 DEF Children

\* When a module is converted, its entry is closed under includes.
LEMMA ModuleReached ==
    ASSUME Inv, AmongModules, stack # <<>>, Len(stack) = 1, ~ AtInclude
    PROVE  Top.entry.nodes = Reach(Top.mod)
<1> DEFINE m == stack[1].mod
           S == Nodes(1)
<1>1. /\ Top = stack[1] /\ 1 \in 1 .. Len(stack) /\ m \in Mod /\ S \subseteq Mod
      /\ S = Top.entry.nodes
  BY TopFrame DEF Inv, BaseInv, Frames, Entries, Nodes
<1>2. /\ m \in S /\ S \subseteq Reach(m) /\ VisitedInv
  BY <1>1 DEF Inv, CompleteInv, WithinInv
<1>3. \A x : Held(x) <=> x \in S
  BY DEF Held
<1>4. \A y \in Children(m) : y \in S
  BY <1>1, <1>3, ReturnedIsPast
<1>5. \A x \in S : Children(x) \subseteq S
  BY <1>1, <1>2, <1>3, <1>4 DEF VisitedInv
<1> HIDE DEF S, m
<1>6. Reach(m) \subseteq S
  BY <1>1, <1>2, <1>5, ReachFacts
<1> QED
  BY <1>1, <1>2, <1>6 DEF m

LEMMA ReturnComplete == Inv /\ Return => CompleteInv'
<1> SUFFICES ASSUME Inv, Return PROVE CompleteInv'
  OBVIOUS
<1> PICK t : t = Top.mod
  OBVIOUS
<1>1. /\ stack # <<>> /\ ~ AtInclude /\ cache' = [cache EXCEPT ![t] = Top.entry]
      /\ UNCHANGED <<include, merged, todo, phase>>
      /\ \/ Len(stack) = 1 /\ stack' = <<>>
         \/ Pops
  BY Returned DEF Return, Inv, BaseInv
<1>2. /\ Len(stack) \in Nat \ {0} /\ Top = stack[Len(stack)] /\ t = stack[Len(stack)].mod
      /\ phase = "convert" /\ stack[1].mod \notin todo
      /\ cache \in [Mod -> Entries \cup {None}]
      /\ \A i \in 1 .. Len(stack) : stack[i] \in Frames
  BY <1>1, TopFrame DEF Inv, BaseInv, TypeInv, WalkInv
<1>3. OwnersInv' /\ DoneInv /\ \A m : Reach(m)' = Reach(m)
  BY <1>1, SameGraph DEF Inv, CompleteInv
<1>4. \A m \in Module : m # t => cache'[m] = cache[m]
  BY <1>1, <1>2 DEF Mod
<1>5. ASSUME AmongModules, t \notin Module \cap todo
      PROVE  NotYetInv' /\ KeyNamesMarked'
  BY <1>1, <1>4, <1>5, SameMarks DEF Inv, CompleteInv, NotYetInv, KeyNamesMarked
<1>6. CASE Len(stack) = 1 /\ stack' = <<>>
  <2>1. t = stack[1].mod /\ t \notin todo /\ t \in Mod
    BY <1>2, <1>6 DEF Frames
  <2>2. CASE t \in Module
    <3>1. AmongModules
      BY <1>1, <1>2, <2>1, <2>2 DEF AmongModules
    <3>2. cache'[t].nodes = Reach(t)
      BY <1>1, <1>2, <1>6, <2>1, <3>1, ModuleReached
    <3>3. DoneInv'
      BY <1>1, <1>2, <1>3, <1>4, <2>1, <3>2 DEF DoneInv
    <3> QED
      BY <1>3, <1>5, <1>6, <2>1, <3>1, <3>3 DEF CompleteInv
  <2>3. CASE t \in Submodule
    <3>1. t \notin Module /\ todo \cap Module = {}
      BY <1>1, <2>1, <2>3, ModAssumption DEF Inv, BaseInv, WalkInv
    <3>2. DoneInv'
      BY <1>1, <1>2, <1>3, <1>4, <2>1, <3>1 DEF DoneInv
    <3>3. ~ AmongModules'
      BY <1>1, <1>6, <3>1 DEF AmongModules
    <3> QED
      BY <1>3, <3>2, <3>3 DEF CompleteInv
  <2> QED
    BY <2>1, <2>2, <2>3 DEF Mod
<1>7. CASE Pops
  <2> PICK n : n = Len(stack) - 1
    OBVIOUS
  <2>1. /\ n \in Nat \ {0} /\ Len(stack') = n /\ stack' # <<>>
        /\ \A i \in 1 .. n :
              /\ stack'[i].mod = stack[i].mod
              /\ i # n => stack'[i] = stack[i]
        /\ stack'[n].pos = stack[n].pos + 1
        /\ stack'[n].entry = Merge(stack[n].mod, stack[n].entry, Top.entry)
    BY <1>7, PopFrames DEF Inv, BaseInv
  <2>2. Len(stack) = n + 1
    BY <1>2
  <2>3. /\ n \in 1 .. n /\ 1 \in 1 .. n /\ n + 1 \in 2 .. n + 1 /\ n + 1 \in 1 .. n + 1
        /\ \A i \in 1 .. n : i \in 1 .. n + 1
        /\ \A i \in 1 .. n + 1 : i \in 1 .. n \/ i = n + 1
    BY <2>1
  <2>4. t \in Submodule /\ t \notin Module
    BY <1>2, <2>2, <2>3, ModAssumption DEF Inv, BaseInv, WalkInv
  <2>5. stack'[1].mod = stack[1].mod
    BY <2>1, <2>3
  <2>6. DoneInv'
    BY <1>1, <1>3, <1>4, <2>1, <2>4, <2>5 DEF DoneInv
  <2>7. AmongModules' => AmongModules
    BY <1>1, <2>5 DEF AmongModules
  <2>8. ASSUME AmongModules
        PROVE  WithinInv' /\ HeldInv' /\ PastInv' /\ VisitedInv'
    <3>1. WithinInv /\ HeldInv /\ PastInv /\ VisitedInv
      BY <1>1, <2>8 DEF Inv, CompleteInv
    <3>2. stack'[n].entry.nodes = stack[n].entry.nodes \cup Top.entry.nodes
      <4>1. stack[n] \in Frames /\ Top \in Frames
        BY <1>2, <2>2, <2>3
      <4> QED
        BY <2>1, <4>1, MergeEntry DEF Frames
    <3>3. /\ Nodes(n)' = Nodes(n) \cup Nodes(n + 1)
          /\ \A i \in 1 .. n : i # n => Nodes(i)' = Nodes(i)
      BY <1>2, <2>1, <2>2, <3>2 DEF Nodes
    <3>4. \A x : Held(x)' <=> Held(x)
      <4> SUFFICES ASSUME NEW x PROVE Held(x)' <=> Held(x)
        OBVIOUS
      <4>1. Held(x)' <=> \E i \in 1 .. n : x \in Nodes(i)'
        BY <2>1 DEF Held
      <4>2. Held(x) <=> \E i \in 1 .. n + 1 : x \in Nodes(i)
        BY <2>2 DEF Held
      <4>3. CASE x \in Nodes(n) \cup Nodes(n + 1)
        BY <2>3, <3>3, <4>1, <4>2, <4>3
      <4>4. CASE x \notin Nodes(n) \cup Nodes(n + 1)
        BY <2>3, <3>3, <4>1, <4>2, <4>4
      <4> QED
        BY <4>3, <4>4
    <3>5. include[stack[n].mod][stack[n].pos] = t /\ Held(t)
      <4>1. n < n + 1 /\ t = stack[n + 1].mod /\ t \in Nodes(n + 1)
        BY <1>2, <2>1, <2>2, <2>3, <3>1 DEF WithinInv
      <4> QED
        BY <2>2, <2>3, <3>1, <4>1 DEF WithinInv, Held
    <3>6. WithinInv'
      <4>1. \A i \in 1 .. n :
                /\ Home(stack[i].mod) = NameOf[stack[1].mod]
                /\ stack[i].mod \in Nodes(i)'
                /\ Nodes(i)' \subseteq Reach(stack[1].mod)
        <5>1. \A i \in 1 .. n + 1 :
                  /\ Home(stack[i].mod) = NameOf[stack[1].mod]
                  /\ stack[i].mod \in Nodes(i)
                  /\ Nodes(i) \subseteq Reach(stack[1].mod)
          BY <2>2, <3>1 DEF WithinInv
        <5> QED
          BY <2>3, <3>3, <5>1
      <4>2. \A i \in 1 .. n : i < n =>
                include[stack'[i].mod][stack'[i].pos] = stack'[i + 1].mod
        <5>1. \A i \in 1 .. n : i < n => i # n /\ i + 1 \in 1 .. n /\ i < n + 1
          BY <2>1
        <5> QED
          BY <2>1, <2>2, <2>3, <3>1, <5>1 DEF WithinInv
      <4> QED
        BY <1>1, <1>3, <2>1, <2>5, <4>1, <4>2 DEF WithinInv, Home
    <3>7. HeldInv'
      BY <1>1, <2>5, <3>1, <3>4, SameMarks DEF HeldInv
    <3>8. PastInv'
      <4>1. ASSUME NEW i \in 1 .. n, NEW k \in 1 .. Len(include[stack[i].mod]), k < stack'[i].pos
            PROVE  Held(include[stack[i].mod][k])
        <5>1. CASE k < stack[i].pos
          BY <2>2, <2>3, <3>1, <5>1 DEF PastInv
        <5>2. CASE i = n /\ k = stack[n].pos
          BY <3>5, <5>2
        <5>3. stack[n].pos \in Nat /\ k \in Nat
          <6>1. stack[i] \in Frames /\ stack[n] \in Frames
            BY <1>2, <2>2, <2>3
          <6> QED
            BY <6>1 DEF Inv, BaseInv, TypeInv, Frames
        <5> QED
          BY <2>1, <4>1, <5>1, <5>2, <5>3
      <4> QED
        BY <1>1, <2>1, <3>4, <4>1 DEF PastInv
    <3>9. VisitedInv'
      <4>1. \A y \in Children(t) : Held(y)
        BY <1>1, <2>8, ReturnedIsPast
      <4>2. \A x \in Mod : Held(x) =>
                \/ \E i \in 1 .. n : x = stack[i].mod
                \/ \A y \in Children(x) : Held(y)
        BY <1>2, <2>2, <2>3, <3>1, <4>1 DEF VisitedInv
      <4> QED
        BY <1>1, <2>1, <3>4, <4>2, SameGraph DEF VisitedInv
    <3> QED
      BY <3>6, <3>7, <3>8, <3>9
  <2> QED
    BY <1>3, <1>5, <2>4, <2>6, <2>7, <2>8 DEF CompleteInv
<1> QED
  BY <1>1, <1>6, <1>7

THEOREM CompleteNext == DistinctNames /\ Inv /\ [Next]_vars => CompleteInv'
<1> SUFFICES ASSUME DistinctNames, Inv, [Next]_vars PROVE CompleteInv'
  OBVIOUS
<1>1. CASE Finish
  <2>1. OwnersInv' /\ DoneInv'
    BY <1>1, SameGraph DEF Finish, Inv, CompleteInv, DoneInv
  <2> QED
    BY <1>1, <2>1 DEF Finish, CompleteInv, AmongModules
<1>2. CASE UNCHANGED vars
  <2>1. /\ OwnersInv' /\ DoneInv' /\ (AmongModules' <=> AmongModules)
        /\ \A x : (Held(x)' <=> Held(x)) /\ (Marked(x)' <=> Marked(x))
        /\ \A x : Children(x)' = Children(x) /\ Reach(x)' = Reach(x)
        /\ \A i : Nodes(i)' = Nodes(i)
    BY <1>2, SameGraph, SameMarks
       DEF vars, Inv, CompleteInv, DoneInv, AmongModules, Held, Nodes
  <2>2. NotYetInv' <=> NotYetInv
    BY <1>2, <2>1 DEF vars, NotYetInv
  <2>3. KeyNamesMarked' <=> KeyNamesMarked
    BY <1>2, <2>1 DEF vars, KeyNamesMarked
  <2>4. WithinInv' <=> WithinInv
    BY <1>2, <2>1 DEF vars, WithinInv, Home
  <2>5. (HeldInv' <=> HeldInv) /\ (VisitedInv' <=> VisitedInv)
    BY <1>2, <2>1 DEF vars, HeldInv, VisitedInv
  <2>6. PastInv' <=> PastInv
    BY <1>2, <2>1 DEF vars, PastInv
  <2> QED
    BY <1>2, <2>1, <2>2, <2>3, <2>4, <2>5, <2>6 DEF vars, Inv, CompleteInv
<1> QED
  BY <1>1, <1>2, ProcessComplete, ConvertComplete, SkipIncludeComplete,
     CircularIncludeComplete, MergeIncludeComplete, ReturnComplete DEF Next, Step, Inv

\* If names are distinct and submodules are included only where they belong, the entry
\* of every module holds what it reaches when Process is done, and nothing else.
THEOREM ModuleCompleteCorrect ==
    ASSUME DistinctNames, IncludesOwn
    PROVE  Spec => []ModuleComplete
<1>1. Inv => ModuleComplete
  <2> SUFFICES ASSUME Inv, phase = "done" PROVE \A m \in Module : cache[m].nodes = Reach(m)
    BY DEF ModuleComplete
  <2>1. todo = {} /\ stack = <<>>
    BY DEF Inv, BaseInv, WalkInv
  <2> QED
    BY <2>1 DEF Inv, CompleteInv, DoneInv
<1>2. Init => Inv
  BY BaseInit, DisjointInit, CompleteInit DEF Inv
<1>3. Inv /\ [Next]_vars => Inv'
  BY BaseNext, DisjointNext, CompleteNext DEF Inv
<1> QED
  BY <1>1, <1>2, <1>3, PTL DEF Spec
=============================================================================
