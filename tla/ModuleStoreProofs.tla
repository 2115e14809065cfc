------------------------- MODULE ModuleStoreProofs -------------------------
(***************************************************************************)
(* Proofs about ModuleStore, for every set of files: its types, the        *)
(* consistency of the two kinds of key, and that a walk of the includes    *)
(* and imports which met no error was complete.                            *)
(***************************************************************************)
EXTENDS ModuleStore, SequenceTheorems, TLAPS

\* An unlinked statement may be due to these.
Excused == failed \/ ignoring

Linked(t, k) ==
    /\ link[<<t, k>>] \in included
    /\ link[<<t, k>>].kind = t.refs[k].kind
    /\ link[<<t, k>>].name = t.refs[k].name

OnStack(t) == \E i \in 1 .. Len(stack) : stack[i].mod = t

\* While a file is read for FindModule, and while FindModule's answer is awaited,
\* the innermost frame is at a statement.
AtStatement == pc = "lookup" \/ (pc = "read" /\ reader \in {"revision", "name"})
Walking == pc = "include" \/ AtStatement

\* The control state: include is active exactly while frames are on the stack,
\* and process has modules left only while it runs.
ControlInv ==
    /\ Walking <=> stack # <<>>
    /\ AtStatement => Frame.pos <= Len(Frame.mod.refs)
    /\ (pc = "idle" \/ (pc = "read" /\ ~ AtStatement)) => todo = {}

\* Each frame's statements before its position are linked; the one at its
\* position is the one that led to the next frame.
FrameInv ==
    \A i \in 1 .. Len(stack) :
        ~ Excused => \A k \in 1 .. Len(stack[i].mod.refs) :
                         k < stack[i].pos => Linked(stack[i].mod, k)

\* What is linked for good: visited modules that are not being visited any more.
VisitedInv ==
    ~ Excused =>
        /\ mods \ todo \subseteq included
        /\ \A t \in included :
              ~ OnStack(t) => \A k \in 1 .. Len(t.refs) : Linked(t, k)

WalkInv == StackIsPath /\ FrameInv /\ VisitedInv

-----------------------------------------------------------------------------
(* The stack of frames *)

\* Advancing the innermost frame changes nothing but its position.
LEMMA AdvancedFrame ==
    ASSUME NEW stk \in Seq(Frames), stk # <<>>
    PROVE  /\ Advanced(stk) \in Seq(Frames)
           /\ Len(Advanced(stk)) = Len(stk)
           /\ Advanced(stk) # <<>>
           /\ \A i \in 1 .. Len(stk) :
                 /\ Advanced(stk)[i].mod = stk[i].mod
                 /\ i # Len(stk) => Advanced(stk)[i] = stk[i]
           /\ Advanced(stk)[Len(stk)].pos = stk[Len(stk)].pos + 1
  <1>1. Len(stk) \in Nat \ {0} /\ stk \in [1 .. Len(stk) -> Frames]
    OBVIOUS
  <1>2. Advanced(stk) \in [1 .. Len(stk) -> Frames]
    BY <1>1 DEF Advanced, Frames
  <1>3. Advanced(stk) \in Seq(Frames) /\ Len(Advanced(stk)) = Len(stk)
    BY <1>1, <1>2
  <1>4. /\ \A i \in 1 .. Len(stk) :
              /\ Advanced(stk)[i].mod = stk[i].mod
              /\ i # Len(stk) => Advanced(stk)[i] = stk[i]
        /\ Advanced(stk)[Len(stk)].pos = stk[Len(stk)].pos + 1
    BY <1>1 DEF Advanced, Frames
  <1> QED BY <1>1, <1>3, <1>4

\* Entering an include adds a frame above the others.
LEMMA PushedFrame ==
    ASSUME NEW stk \in Seq(Frames), NEW m \in Text,
           NEW new, new = Append(stk, [mod |-> m, pos |-> 1])
    PROVE  /\ new \in Seq(Frames)
           /\ Len(new) = Len(stk) + 1
           /\ new # <<>>
           /\ \A i \in 1 .. Len(stk) : new[i] = stk[i]
           /\ new[Len(stk) + 1] = [mod |-> m, pos |-> 1]
  <1>1. [mod |-> m, pos |-> 1] \in Frames
    BY DEF Frames
  <1> QED BY <1>1

\* Returning from an include leaves the frames of its callers as they were.
LEMMA PoppedFrame ==
    ASSUME NEW stk \in Seq(Frames), stk # <<>>
    PROVE  LET new == SubSeq(stk, 1, Len(stk) - 1)
           IN  /\ new \in Seq(Frames)
               /\ Len(new) = Len(stk) - 1
               /\ \A i \in 1 .. Len(stk) - 1 : new[i] = stk[i]
  <1> DEFINE n == Len(stk) - 1
             new == SubSeq(stk, 1, n)
  <1>1. n \in Nat /\ \A i \in 1 .. n : stk[i] \in Frames
    OBVIOUS
  <1>2. /\ new \in Seq(Frames)
        /\ Len(new) = IF 1 <= n THEN n - 1 + 1 ELSE 0
        /\ \A i \in 1 .. n - 1 + 1 : new[i] = stk[1 + i - 1]
    <2> HIDE DEF n
    <2>1. 1 \in Int /\ n \in Int
      BY <1>1
    <2> QED BY <1>1, <2>1, SubSeqProperties DEF new
  <1> HIDE DEF new, n
  <1>3. Len(new) = n
    BY <1>1, <1>2
  <1>4. ASSUME NEW i \in 1 .. n
        PROVE  new[i] = stk[i]
    <2>1. i \in 1 .. n - 1 + 1 /\ 1 + i - 1 = i
      BY <1>1
    <2> QED BY <1>2, <2>1
  <1> QED BY <1>2, <1>3, <1>4 DEF new, n

-----------------------------------------------------------------------------
(* Types and control *)

TypeInv == TypeOK /\ ControlInv

\* A file holds texts.
LEMMA FileTexts ==
    ASSUME NEW f \in DOMAIN Disk
    PROVE  Disk[f] \in Seq(Text)
  BY DiskAssumption

\* What the store answers for a statement is a module.
LEMMA LookupText ==
    ASSUME TypeOK, NEW ref \in Ref
    PROVE  Lookup(ref) \in Text \cup {None}
  <1>1. store[ref.kind] \in [Key -> Text \cup {None}]
    BY DEF TypeOK, Ref
  <1>2. <<ref.name, ref.rev>> \in Key /\ <<ref.name, NoRev>> \in Key
    BY DEF Ref, Key, Revision
  <1> QED BY <1>1, <1>2 DEF Lookup

\* The innermost frame stands at a statement of a module.
LEMMA CurrentStatement ==
    ASSUME TypeOK, stack # <<>>, Frame.pos <= Len(Frame.mod.refs)
    PROVE  /\ Frame \in Frames /\ Frame.mod \in Text
           /\ Frame.pos \in 1 .. Len(Frame.mod.refs)
           /\ Current \in Ref
           /\ Statement \in Slot
  <1>1. Frame \in Frames
    BY DEF TypeOK, Frame
  <1>2. Frame.mod \in Text /\ Frame.pos \in Nat \ {0}
    BY <1>1 DEF Frames
  <1>3. Frame.mod.refs \in Seq(Ref)
    BY <1>2, TextAssumption
  <1>4. Frame.pos \in 1 .. Len(Frame.mod.refs)
    BY <1>2, <1>3
  <1>5. Current \in Ref
    BY <1>3, <1>4 DEF Current
  <1>6. Statement \in Slot
    BY <1>2, <1>4 DEF Statement, Slot
  <1> QED BY <1>1, <1>2, <1>4, <1>5, <1>6

\* FindModule's failure leaves include at the next statement or unwinds it.
LEMMA NotFoundType ==
    ASSUME TypeInv, AtStatement \/ (pc = "include" /\ MoreStatements), NotFound
    PROVE  /\ stack' \in Seq(Frames)
           /\ \/ pc' = "include" /\ stack' # <<>>
              \/ pc' = "process" /\ stack' = <<>>
           /\ errs' \subseteq Ref
           /\ failed' \in BOOLEAN
  <1>1. stack # <<>> /\ Frame.pos <= Len(Frame.mod.refs) /\ stack \in Seq(Frames)
    BY DEF TypeInv, TypeOK, ControlInv, MoreStatements, Walking
  <1>2. Current \in Ref
    BY <1>1, CurrentStatement DEF TypeInv
  <1>3. Advanced(stack) \in Seq(Frames) /\ Advanced(stack) # <<>>
    BY <1>1, AdvancedFrame
  <1>4. CASE ignoring
    BY <1>3, <1>4 DEF NotFound, TypeInv, TypeOK
  <1>5. CASE ~ ignoring
    BY <1>2, <1>5 DEF NotFound, TypeInv, TypeOK
  <1> QED BY <1>4, <1>5

\* Entering the module that was found keeps the types and stays in include.
LEMMA EnterType ==
    ASSUME TypeInv, AtStatement \/ (pc = "include" /\ MoreStatements),
           NEW im \in Text, Enter(im)
    PROVE  /\ stack' \in Seq(Frames) /\ stack' # <<>>
           /\ pc' = "include"
           /\ included' \subseteq Text
           /\ link' \in [Slot -> Text \cup {None}]
  <1>1. stack # <<>> /\ Frame.pos <= Len(Frame.mod.refs) /\ stack \in Seq(Frames)
    BY DEF TypeInv, TypeOK, ControlInv, MoreStatements, Walking
  <1>2. CASE Visited(im) /\ link' = [link EXCEPT ![Statement] = im]
             /\ stack' = Advanced(stack) /\ pc' = "include" /\ UNCHANGED included
    <2>1. Advanced(stack) \in Seq(Frames) /\ Advanced(stack) # <<>>
      BY <1>1, AdvancedFrame
    <2> QED BY <1>2, <2>1 DEF TypeInv, TypeOK
  <1>3. CASE Push(im) /\ UNCHANGED link
    <2>1. stack' \in Seq(Frames) /\ stack' # <<>>
      BY <1>1, <1>3, PushedFrame DEF Push
    <2> QED BY <1>3, <2>1 DEF Push, TypeInv, TypeOK
  <1> QED BY <1>2, <1>3 DEF Enter

\* Every step keeps the types and the control state.
LEMMA TypeInvStep ==
    ASSUME TypeInv, [Next]_vars
    PROVE  TypeInv'
  <1> USE DEF TypeInv
  <1>0. /\ unread # <<>> /\ unread \in Seq(Text) => Head(unread) \in Text /\ Tail(unread) \in Seq(Text)
        /\ <<>> \in Seq(Text) /\ <<>> \in Seq(Frames)
    OBVIOUS
  <1>1. ASSUME NEW n \in Name, NEW r \in Revision, Read(n, r), UNCHANGED ignoring
        PROVE  TypeInv'
    BY <1>1, FileTexts DEF Read, StartRead, TypeOK, ControlInv, Walking, AtStatement,
       storeVars, walkVars, processVars
  <1>2. KnownModules \subseteq Text
    BY DEF KnownModules, TypeOK, Kinds
  <1>3. CASE Process /\ UNCHANGED ignoring
    BY <1>2, <1>3 DEF Process, StartProcess, TypeOK, ControlInv, Walking, AtStatement,
       storeVars, walkVars
  <1>4. ASSUME NEW k \in Key, GetModule(k), UNCHANGED ignoring
        PROVE  TypeInv'
    BY <1>2, <1>4, FileTexts DEF GetModule, StartProcess, StartRead, TypeOK, ControlInv,
       Walking, AtStatement, storeVars, walkVars, processVars
  <1>5. ASSUME NEW ns \in Namespace, FindModuleByNamespace(ns), UNCHANGED ignoring
        PROVE  TypeInv'
    <2>1. byNS' \in [Namespace -> Text \cup {None}]
      BY <1>5 DEF FindModuleByNamespace, InNamespace, TypeOK, Kinds
    <2> QED BY <1>5, <2>1 DEF FindModuleByNamespace, TypeOK, ControlInv, Walking, AtStatement,
            Frame, walkVars, processVars
  <1>6. CASE AddStatement /\ UNCHANGED ignoring
    <2>1. Head(unread) \in Text /\ Tail(unread) \in Seq(Text)
      BY <1>0, <1>6 DEF AddStatement, TypeOK
    <2>2. Added(Head(unread)) \in [Key -> Text \cup {None}] \/ Head(unread).kind \notin Kinds
      BY <2>1 DEF Added, TypeOK
    <2>3. store' \in [Kinds -> [Key -> Text \cup {None}]]
      BY <1>6, <2>2 DEF AddStatement, TypeOK
    <2> QED BY <1>6, <2>1, <2>3 DEF AddStatement, TypeOK, ControlInv, Walking, AtStatement,
            Frame, walkVars, processVars
  <1>7. CASE FinishRead /\ UNCHANGED ignoring
    BY <1>2, <1>7 DEF FinishRead, Idle, StartProcess, TypeOK, ControlInv, Walking, AtStatement,
       Frame, storeVars, walkVars, processVars
  <1>8. CASE FailRead /\ UNCHANGED ignoring
    <2>1. CASE reader \in {"caller", "getmodule"}
      BY <1>0, <1>8, <2>1 DEF FailRead, Idle, TypeOK, ControlInv, Walking, AtStatement,
         storeVars
    <2>2. CASE reader = "revision" /\ \E f \in DOMAIN Disk : StartRead(f, "name")
               /\ UNCHANGED <<stack, errs, failed>>
      BY <1>8, <2>2, FileTexts DEF FailRead, StartRead, TypeOK, ControlInv, Walking,
         AtStatement, Frame, storeVars
    <2>3. CASE reader \in {"revision", "name"} /\ NotFound /\ unread' = <<>>
               /\ UNCHANGED reader
      BY <1>0, <1>8, <2>3, NotFoundType DEF FailRead, TypeOK, ControlInv, Walking,
         AtStatement, storeVars
    <2> QED BY <1>8, <2>1, <2>2, <2>3 DEF FailRead, ReadBareName, TypeOK
  <1>9. CASE NextModule /\ UNCHANGED ignoring
    <2>1. PICK m \in todo : /\ todo' = TodoAfter(m)
                            /\ IF Visited(m) THEN UNCHANGED <<pc, included, stack>> ELSE Push(m)
      BY <1>9 DEF NextModule
    <2>2. m \in Text /\ todo' \subseteq mods
      BY <2>1 DEF TypeOK, TodoAfter
    <2>3. CASE UNCHANGED <<pc, included, stack>>
      BY <1>9, <2>2, <2>3 DEF NextModule, TypeOK, ControlInv, Walking, AtStatement, storeVars
    <2>4. CASE Push(m)
      <3>1. stack' \in Seq(Frames) /\ stack' # <<>>
        BY <2>2, <2>4, PushedFrame DEF Push, TypeOK
      <3> QED BY <1>9, <2>2, <2>4, <3>1 DEF NextModule, Push, TypeOK, ControlInv, Walking,
              AtStatement, storeVars
    <2> QED BY <2>1, <2>3, <2>4
  <1>10. CASE FinishProcess /\ UNCHANGED ignoring
    BY <1>10 DEF FinishProcess, Idle, TypeOK, ControlInv, Walking, AtStatement, storeVars,
       walkVars, processVars
  <1>11. CASE Hit /\ UNCHANGED ignoring
    <2>1. Lookup(Current) \in Text
      BY <1>11, CurrentStatement, LookupText DEF Hit, MoreStatements
    <2> QED BY <1>11, <2>1, EnterType DEF Hit, TypeOK, ControlInv, Walking, AtStatement,
            storeVars, processVars
  <1>12. CASE Miss /\ UNCHANGED ignoring
    <2>1. CASE \E f \in DOMAIN Disk, who \in {"revision", "name"} :
                  StartRead(f, who) /\ UNCHANGED <<stack, errs, failed>>
      BY <1>12, <2>1, FileTexts DEF Miss, MoreStatements, StartRead, TypeOK, ControlInv,
         Walking, AtStatement, Frame, storeVars
    <2>2. CASE NotFound /\ unread' = <<>> /\ UNCHANGED reader
      BY <1>0, <1>12, <2>2, NotFoundType DEF Miss, TypeOK, ControlInv, Walking, AtStatement,
         storeVars
    <2> QED BY <1>12, <2>1, <2>2 DEF Miss, ReadBareName
  <1>13. CASE Reread /\ UNCHANGED ignoring
    <2>1. CASE Enter(Lookup(Current)) /\ UNCHANGED processVars /\ Lookup(Current) # None
      <3>1. Lookup(Current) \in Text
        BY <1>13, <2>1, CurrentStatement, LookupText
           DEF Reread, ControlInv, Walking, AtStatement
      <3> QED BY <1>13, <2>1, <3>1, EnterType DEF Reread, TypeOK, ControlInv, Walking,
              AtStatement, storeVars, processVars
    <2>2. CASE NotFound /\ UNCHANGED <<included, link, mods, todo>>
      BY <1>13, <2>2, NotFoundType DEF Reread, TypeOK, ControlInv, Walking, AtStatement,
         storeVars
    <2> QED BY <1>13, <2>1, <2>2 DEF Reread
  <1>14. CASE Return /\ UNCHANGED ignoring
    <2>1. stack \in Seq(Frames) /\ stack # <<>> /\ Callers \in Seq(Frames)
      BY <1>14, PoppedFrame DEF Return, Callers, TypeOK, ControlInv, Walking
    <2>2. CASE Callers = <<>> /\ stack' = <<>> /\ pc' = "process" /\ UNCHANGED link
      BY <1>0, <1>14, <2>2 DEF Return, TypeOK, ControlInv, Walking, AtStatement, storeVars,
         processVars
    <2>3. CASE /\ Callers # <<>> /\ stack' = Advanced(Callers) /\ UNCHANGED pc
               /\ link' = [link EXCEPT ![<<Caller.mod, Caller.pos>>] = Frame.mod]
      <3>1. stack' \in Seq(Frames) /\ stack' # <<>>
        BY <2>1, <2>3, AdvancedFrame
      <3>2. Frame.mod \in Text
        <4>1. Frame \in Frames
          BY <2>1 DEF Frame
        <4> QED BY <4>1 DEF Frames
      <3>3. link' \in [Slot -> Text \cup {None}]
        BY <2>3, <3>2 DEF TypeOK
      <3> QED BY <1>14, <3>1, <3>3 DEF Return, TypeOK, ControlInv, Walking, AtStatement,
              storeVars, processVars
    <2> QED BY <1>14, <2>2, <2>3 DEF Return
  <1>15. CASE UNCHANGED vars
    BY <1>15 DEF vars, TypeOK, ControlInv, Walking, AtStatement, Frame
  <1> QED BY <1>1, <1>3, <1>4, <1>5, <1>6, <1>7, <1>8, <1>9, <1>10, <1>11, <1>12, <1>13,
          <1>14, <1>15 DEF Next, Call, Step

\* The types hold at the start.
LEMMA InitTypeInv == Init => TypeInv
  <1>1. <<>> \in Seq(Text) /\ <<>> \in Seq(Frames)
    OBVIOUS
  <1>2. Init => ControlInv
    BY DEF Init, ControlInv, Walking, AtStatement
  <1>3. ASSUME Init
        PROVE  TypeOK
    <2>1. /\ store \in [Kinds -> [Key -> Text \cup {None}]]
          /\ link \in [Slot -> Text \cup {None}]
          /\ byNS \in [Namespace -> Text \cup {None}]
      BY <1>3 DEF Init
    <2>2. /\ unread \in Seq(Text) /\ stack \in Seq(Frames)
          /\ included \subseteq Text /\ mods \subseteq Text /\ todo \subseteq mods
          /\ errs \subseteq Ref
          /\ want \in Key \cup {None} /\ failed \in BOOLEAN /\ ignoring \in BOOLEAN
      BY <1>1, <1>3 DEF Init
    <2> QED BY <1>3, <2>1, <2>2 DEF Init, TypeOK
  <1> QED BY <1>2, <1>3 DEF TypeInv

\* Every variable keeps its type, and include, FindModule and process never run
\* outside the call that started them.
THEOREM TypeCorrect == Spec => []TypeOK
  <1>1. TypeInv => TypeOK
    BY DEF TypeInv
  <1> QED BY <1>1, InitTypeInv, TypeInvStep, PTL DEF Spec

-----------------------------------------------------------------------------
(* The keys of the store *)

\* Only add changes the store.
LEMMA StoreStep ==
    ASSUME [Next]_vars
    PROVE  UNCHANGED store \/ AddStatement
  BY DEF Next, Call, Step, Read, Process, GetModule, FindModuleByNamespace, FinishRead,
     FailRead, NextModule, FinishProcess, Hit, Miss, Reread, Return, storeVars, vars

\* What add makes of a store that is consistent.
LEMMA AddedModule ==
    ASSUME TypeOK, BareNameIsLatest, AddStatement
    PROVE  \E t \in Text :
              /\ t.kind \in Kinds /\ t.name \in Name /\ t.rev \in Revision
              /\ store[t.kind][<<t.name, t.rev>>] = None
              /\ \A kind \in Kinds, n \in Name, r \in Revision :
                    store'[kind][<<n, r>>] =
                        IF /\ kind = t.kind /\ n = t.name
                           /\ r = t.rev \/ (r = NoRev /\ TakesBareName(t))
                        THEN t ELSE store[kind][<<n, r>>]
  <1> DEFINE t == Head(unread)
  <1>1. t \in Text
    BY DEF AddStatement, TypeOK
  <1>2. t.name \in Name /\ t.rev \in Revision /\ t.kind \in Kinds \cup {"other"}
    BY <1>1, TextAssumption
  <1>3. t.kind \in Kinds /\ store[t.kind][<<t.name, t.rev>>] = None
    BY DEF AddStatement, Refused
  <1>4. store' = [store EXCEPT ![t.kind] = Added(t)]
    BY DEF AddStatement
  <1> HIDE DEF t
  <1>5. ASSUME NEW kind \in Kinds, NEW n \in Name, NEW r \in Revision
        PROVE  store'[kind][<<n, r>>] =
                   IF /\ kind = t.kind /\ n = t.name
                      /\ r = t.rev \/ (r = NoRev /\ TakesBareName(t))
                   THEN t ELSE store[kind][<<n, r>>]
    <2>1. <<n, r>> \in Key
      BY DEF Key
    <2>2. CASE kind # t.kind
      BY <1>4, <2>2 DEF TypeOK
    <2>3. CASE kind = t.kind
      <3>1. store'[kind] = Added(t)
        BY <1>3, <1>4, <2>3 DEF TypeOK
      <3> QED BY <2>1, <2>3, <3>1 DEF Added
    <2> QED BY <2>2, <2>3
  <1> QED BY <1>1, <1>2, <1>3, <1>5

\* Revisions are numbers, and no revision is the least.
LEMMA RevisionNumbers == \A r \in Revision : r \in Nat /\ NoRev <= r
  BY RevisionAssumption DEF Revision

\* add keeps the bare names on the latest revisions.
LEMMA BareNameStep ==
    ASSUME TypeOK, BareNameIsLatest, [Next]_vars
    PROVE  BareNameIsLatest'
  <1>1. CASE UNCHANGED store
    BY <1>1 DEF BareNameIsLatest
  <1>2. CASE AddStatement
    <2>1. PICK t \in Text :
              /\ t.kind \in Kinds /\ t.name \in Name /\ t.rev \in Revision
              /\ store[t.kind][<<t.name, t.rev>>] = None
              /\ \A kind \in Kinds, n \in Name, r \in Revision :
                    store'[kind][<<n, r>>] =
                        IF /\ kind = t.kind /\ n = t.name
                           /\ r = t.rev \/ (r = NoRev /\ TakesBareName(t))
                        THEN t ELSE store[kind][<<n, r>>]
      BY <1>2, AddedModule
    <2>2. NoRev \in Revision
      BY DEF Revision
    <2>3. ASSUME NEW kind \in Kinds, NEW n \in Name, NEW r \in Revision,
                 store'[kind][<<n, r>>] # None
          PROVE  /\ store'[kind][<<n, r>>].kind = kind /\ store'[kind][<<n, r>>].name = n
                 /\ r # NoRev => store'[kind][<<n, r>>].rev = r
                 /\ store'[kind][<<n, NoRev>>] # None
                 /\ r <= store'[kind][<<n, NoRev>>].rev
                 /\ store'[kind][<<n, store'[kind][<<n, NoRev>>].rev>>] = store'[kind][<<n, NoRev>>]
      <3> DEFINE old(q) == store[kind][<<n, q>>]
                 new(q) == store'[kind][<<n, q>>]
      <3>1. /\ old(r) # None => /\ old(r).kind = kind /\ old(r).name = n
                                /\ r # NoRev => old(r).rev = r
                                /\ old(NoRev) # None
                                /\ r <= old(NoRev).rev
                                /\ old(old(NoRev).rev) = old(NoRev)
        BY DEF BareNameIsLatest
      <3>2. old(NoRev) # None => old(NoRev) \in Text /\ old(NoRev).rev \in Revision
        <4>1. <<n, NoRev>> \in Key
          BY <2>2 DEF Key
        <4>2. old(NoRev) \in Text \cup {None}
          BY <4>1 DEF TypeOK
        <4> QED BY <4>2, TextAssumption
      <3>3. t # None
        BY NoneAssumption
      <3> HIDE DEF old, new
      <3>4. CASE kind # t.kind \/ n # t.name
        <4>1. \A q \in Revision : new(q) = old(q)
          BY <2>1, <3>4 DEF old, new
        <4> QED BY <2>2, <2>3, <3>1, <3>2, <4>1 DEF new
      <3>5. CASE kind = t.kind /\ n = t.name
        <4>1. old(t.rev) = None
          BY <2>1, <3>5 DEF old
        <4>2. \A q \in Revision :
                  new(q) = IF q = t.rev \/ (q = NoRev /\ TakesBareName(t)) THEN t ELSE old(q)
          BY <2>1, <3>5 DEF old, new
        <4>3. TakesBareName(t) <=> (old(NoRev) # None => old(NoRev).rev < t.rev)
          BY <3>5 DEF TakesBareName, old
        <4>4. t.kind = kind /\ t.name = n /\ t.rev \in Revision
          BY <2>1, <3>5
        <4>5. CASE TakesBareName(t) \/ t.rev = NoRev
          <5>1. new(NoRev) = t /\ new(t.rev) = t
            BY <2>2, <4>2, <4>4, <4>5
          <5>2. r <= t.rev
            <6>1. CASE r = t.rev \/ r = NoRev
              BY <4>4, <6>1, RevisionNumbers
            <6>2. CASE r # t.rev /\ r # NoRev
              <7>1. new(r) = old(r) /\ old(r) # None
                BY <2>3, <4>2, <6>2 DEF new
              <7>2. r <= old(NoRev).rev /\ old(NoRev) # None
                BY <3>1, <7>1
              <7>3. old(NoRev).rev < t.rev
                BY <4>1, <4>3, <4>5, <7>2
              <7> QED BY <3>2, <4>4, <7>2, <7>3, RevisionNumbers
            <6> QED BY <6>1, <6>2
          <5>3. /\ new(r).kind = kind /\ new(r).name = n
                /\ r # NoRev => new(r).rev = r
            BY <2>3, <3>1, <4>2, <4>4 DEF new
          <5> QED BY <3>3, <5>1, <5>2, <5>3 DEF new
        <4>6. CASE ~ TakesBareName(t) /\ t.rev # NoRev
          <5>1. new(NoRev) = old(NoRev) /\ old(NoRev) # None /\ t.rev <= old(NoRev).rev
            BY <2>2, <3>2, <4>2, <4>3, <4>4, <4>6, RevisionNumbers
          <5>2. old(old(NoRev).rev) = old(NoRev)
            BY <2>2, <5>1 DEF BareNameIsLatest, old
          <5>3. new(old(NoRev).rev) = old(NoRev)
            BY <3>2, <4>1, <4>2, <4>6, <5>1, <5>2
          <5>4. r <= old(NoRev).rev
            BY <2>3, <3>1, <4>2, <4>6, <5>1 DEF new
          <5>5. /\ new(r).kind = kind /\ new(r).name = n
                /\ r # NoRev => new(r).rev = r
            BY <2>3, <3>1, <4>2, <4>4 DEF new
          <5> QED BY <5>1, <5>3, <5>4, <5>5 DEF new
        <4> QED BY <4>5, <4>6
      <3> QED BY <3>4, <3>5
    <2> QED BY <2>3 DEF BareNameIsLatest
  <1> QED BY <1>1, <1>2, StoreStep

\* An empty store is consistent.
LEMMA InitBareName == Init => BareNameIsLatest
  BY DEF Init, BareNameIsLatest, Key, Revision

\* A bare name leads to the latest revision known of it, whatever the order in
\* which the files of its revisions are read.
THEOREM BareNameCorrect == Spec => []BareNameIsLatest
  <1>1. TypeInv /\ BareNameIsLatest /\ [Next]_vars => BareNameIsLatest'
    BY BareNameStep DEF TypeInv
  <1>2. Spec => []TypeInv
    BY InitTypeInv, TypeInvStep, PTL DEF Spec
  <1> QED BY <1>1, <1>2, InitBareName, PTL DEF Spec

-----------------------------------------------------------------------------
(* The walk *)

\* A step that neither walks nor links keeps what is known of the walk.
LEMMA WalkStutter ==
    ASSUME WalkInv, UNCHANGED <<included, link, stack, failed, ignoring>>,
           mods' \ todo' \subseteq mods \ todo
    PROVE  WalkInv'
  <1>1. StackIsPath'
    BY DEF WalkInv, StackIsPath
  <1>2. FrameInv'
    BY DEF WalkInv, FrameInv, Excused, Linked
  <1>3. VisitedInv'
    BY DEF WalkInv, VisitedInv, Excused, Linked, OnStack
  <1> QED BY <1>1, <1>2, <1>3 DEF WalkInv

\* FindModule answers with a module of the kind and name the statement asks for.
LEMMA LookupMatches ==
    ASSUME TypeOK, BareNameIsLatest, NEW ref \in Ref, Lookup(ref) # None
    PROVE  Lookup(ref).kind = ref.kind /\ Lookup(ref).name = ref.name
  <1>1. ref.kind \in Kinds /\ ref.name \in Name /\ ref.rev \in Revision /\ NoRev \in Revision
    BY DEF Ref, Revision
  <1> DEFINE m == store[ref.kind]
  <1>2. \A r \in Revision : m[<<ref.name, r>>] # None =>
            m[<<ref.name, r>>].kind = ref.kind /\ m[<<ref.name, r>>].name = ref.name
    <2>1. ASSUME NEW kind \in Kinds, NEW n \in Name, NEW r \in Revision,
                 store[kind][<<n, r>>] # None
          PROVE  store[kind][<<n, r>>].kind = kind /\ store[kind][<<n, r>>].name = n
      <3>1. LET s == store[kind]
                latest == s[<<n, NoRev>>]
            IN  s[<<n, r>>] # None =>
                    /\ s[<<n, r>>].kind = kind /\ s[<<n, r>>].name = n
                    /\ r # NoRev => s[<<n, r>>].rev = r
                    /\ latest # None
                    /\ r <= latest.rev
                    /\ s[<<n, latest.rev>>] = latest
        BY DEF BareNameIsLatest
      <3> QED BY <2>1, <3>1
    <2> QED BY <1>1, <2>1
  <1>3. Lookup(ref) = m[<<ref.name, ref.rev>>] \/ Lookup(ref) = m[<<ref.name, NoRev>>]
    BY DEF Lookup
  <1> HIDE DEF m
  <1> QED BY <1>1, <1>2, <1>3

\* Advancing past a statement that is linked now.
LEMMA WalkAdvance ==
    ASSUME TypeOK, WalkInv, NEW stk \in Seq(Frames), stk # <<>>,
           \A i \in 1 .. Len(stk) : i \in 1 .. Len(stack) /\ stk[i] = stack[i],
           stack' = Advanced(stk),
           included' = included, UNCHANGED <<mods, todo, failed, ignoring>>,
           ~ Excused => /\ \A t \in Text : \A k \in 1 .. Len(t.refs) :
                              Linked(t, k) => Linked(t, k)'
                        /\ LET top == stk[Len(stk)]
                           IN  top.pos <= Len(top.mod.refs) => Linked(top.mod, top.pos)'
                        /\ \A t \in Text : OnStack(t) /\ ~ OnStack(t)' =>
                              \A k \in 1 .. Len(t.refs) : Linked(t, k)
    PROVE  WalkInv'
  <1> DEFINE n == Len(stk)
  <1>1. /\ stack' \in Seq(Frames) /\ Len(stack') = n /\ n \in Nat \ {0}
        /\ \A i \in 1 .. n : stack'[i].mod = stack[i].mod /\ (i # n => stack'[i] = stack[i])
        /\ stack'[n].pos = stack[n].pos + 1
        /\ \A i \in 1 .. n : stack[i].mod \in Text /\ stack[i].pos \in Nat \ {0}
    <2>1. /\ Advanced(stk) \in Seq(Frames) /\ Len(Advanced(stk)) = n
          /\ \A i \in 1 .. n : Advanced(stk)[i].mod = stk[i].mod
                               /\ (i # n => Advanced(stk)[i] = stk[i])
          /\ Advanced(stk)[n].pos = stk[n].pos + 1
      BY AdvancedFrame
    <2>2. n \in Nat \ {0} /\ \A i \in 1 .. n : stk[i] \in Frames
      OBVIOUS
    <2> QED BY <2>1, <2>2 DEF Frames
  <1> HIDE DEF n
  <1>2. \A i \in 1 .. n : i \in 1 .. Len(stack)
    BY DEF n
  <1>3. StackIsPath'
    <2>1. ASSUME NEW i \in 1 .. n, NEW j \in 1 .. n, stack'[i].mod = stack'[j].mod
          PROVE  i = j
      <3>1. stack[i].mod = stack[j].mod
        BY <1>1, <2>1
      <3>2. i \in 1 .. Len(stack) /\ j \in 1 .. Len(stack)
        BY <1>2
      <3> QED BY <3>1, <3>2 DEF WalkInv, StackIsPath
    <2>2. ASSUME NEW i \in 1 .. n
          PROVE  stack'[i].mod \in included'
      <3>1. stack'[i].mod = stack[i].mod /\ i \in 1 .. Len(stack)
        BY <1>1, <1>2
      <3> QED BY <3>1 DEF WalkInv, StackIsPath
    <2>3. ASSUME NEW i \in 1 .. n - 1
          PROVE  /\ stack'[i].pos \in 1 .. Len(stack'[i].mod.refs)
                 /\ stack'[i].mod.refs[stack'[i].pos].kind = stack'[i + 1].mod.kind
                 /\ stack'[i].mod.refs[stack'[i].pos].name = stack'[i + 1].mod.name
      <3>1. i \in 1 .. n /\ i # n /\ i + 1 \in 1 .. n
        BY <1>1
      <3>2. i \in 1 .. Len(stack) - 1
        BY <1>1, <1>2, <3>1 DEF TypeOK
      <3>3. stack'[i] = stack[i] /\ stack'[i + 1].mod = stack[i + 1].mod
        BY <1>1, <3>1
      <3> QED BY <3>2, <3>3 DEF WalkInv, StackIsPath
    <2> QED BY <1>1, <2>1, <2>2, <2>3 DEF StackIsPath
  <1>4. ASSUME ~ Excused', NEW i \in 1 .. Len(stack'),
               NEW k \in 1 .. Len(stack'[i].mod.refs), k < stack'[i].pos
        PROVE  Linked(stack[i].mod, k)'
    <2>1. ~ Excused
      BY <1>4 DEF Excused
    <2>2. i \in 1 .. n /\ stack[i].mod \in Text /\ k \in 1 .. Len(stack[i].mod.refs)
          /\ stack'[i].mod = stack[i].mod
      BY <1>1
    <2>3. stack[i].mod.refs \in Seq(Ref)
      BY <2>2, TextAssumption
    <2>4. CASE k < stack[i].pos
      <3>1. Linked(stack[i].mod, k)
        BY <1>2, <2>1, <2>2, <2>4 DEF WalkInv, FrameInv
      <3> QED BY <2>1, <2>2, <3>1
    <2>5. CASE i = n /\ k = stack[n].pos
      <3>1. stk[n] = stack[n] /\ stack[n].pos <= Len(stack[n].mod.refs)
        BY <1>1, <2>2, <2>3, <2>5 DEF n
      <3> QED BY <2>1, <2>2, <2>5, <3>1 DEF n
    <2>6. k < stack[i].pos \/ (i = n /\ k = stack[n].pos)
      BY <1>1, <1>4, <2>2, <2>3
    <2> QED BY <2>4, <2>5, <2>6
  <1>5. FrameInv'
    BY <1>4 DEF FrameInv
  <1>6. VisitedInv'
    <2>1. ASSUME ~ Excused', NEW t \in included', ~ OnStack(t)', NEW k \in 1 .. Len(t.refs)
          PROVE  Linked(t, k)'
      <3>1. ~ Excused /\ t \in included /\ t \in Text
        BY <2>1 DEF Excused, TypeOK
      <3>2. Linked(t, k)
        BY <2>1, <3>1 DEF WalkInv, VisitedInv
      <3> QED BY <3>1, <3>2
    <2>2. ~ Excused' => mods' \ todo' \subseteq included'
      BY DEF WalkInv, VisitedInv, Excused
    <2> QED BY <2>1, <2>2 DEF VisitedInv
  <1> QED BY <1>3, <1>5, <1>6 DEF WalkInv

\* Entering a module not visited before.
LEMMA WalkPush ==
    ASSUME TypeOK, WalkInv, NEW m \in Text, m \notin included, Push(m),
           UNCHANGED <<link, mods, failed, ignoring>>,
           todo' = todo \/ (todo' = todo \ {m}),
           stack # <<>> => /\ Frame.pos \in 1 .. Len(Frame.mod.refs)
                           /\ Current.kind = m.kind /\ Current.name = m.name
    PROVE  WalkInv'
  <1> DEFINE n == Len(stack)
  <1>1. /\ stack' \in Seq(Frames) /\ Len(stack') = n + 1 /\ n \in Nat
        /\ \A i \in 1 .. n : stack'[i] = stack[i]
        /\ stack'[n + 1] = [mod |-> m, pos |-> 1]
    BY PushedFrame DEF Push, TypeOK
  <1>2. included' = included \cup {m}
    BY DEF Push
  <1>3. StackIsPath'
    <2>1. \A i, j \in 1 .. n + 1 : stack'[i].mod = stack'[j].mod => i = j
      BY <1>1 DEF WalkInv, StackIsPath
    <2>2. \A i \in 1 .. n + 1 : stack'[i].mod \in included'
      BY <1>1, <1>2 DEF WalkInv, StackIsPath
    <2>3. ASSUME NEW i \in 1 .. n
          PROVE  /\ stack[i].pos \in 1 .. Len(stack[i].mod.refs)
                 /\ stack[i].mod.refs[stack[i].pos].kind = stack'[i + 1].mod.kind
                 /\ stack[i].mod.refs[stack[i].pos].name = stack'[i + 1].mod.name
      <3>1. CASE i = n
        BY <1>1, <3>1 DEF Frame, Current
      <3>2. CASE i # n
        <4>1. i \in 1 .. n - 1 /\ i + 1 \in 1 .. n
          BY <1>1, <3>2
        <4> QED BY <1>1, <4>1 DEF WalkInv, StackIsPath
      <3> QED BY <3>1, <3>2
    <2> HIDE DEF n
    <2>4. 1 .. Len(stack') - 1 = 1 .. n
      BY <1>1
    <2>5. \A i \in 1 .. n : stack'[i] = stack[i]
      BY <1>1
    <2>6. Len(stack') = n + 1
      BY <1>1 DEF n
    <2>7. \A i \in 1 .. Len(stack') - 1 :
            /\ stack'[i].pos \in 1 .. Len(stack'[i].mod.refs)
            /\ stack'[i].mod.refs[stack'[i].pos].kind = stack'[i + 1].mod.kind
            /\ stack'[i].mod.refs[stack'[i].pos].name = stack'[i + 1].mod.name
      BY <2>3, <2>4, <2>5
    <2> QED BY <2>1, <2>2, <2>6, <2>7 DEF StackIsPath
  <1>4. \A t, k : Linked(t, k) => Linked(t, k)'
    BY <1>2 DEF Linked
  <1>5. FrameInv'
    <2>1. ASSUME ~ Excused', NEW i \in 1 .. n + 1,
                 NEW k \in 1 .. Len(stack'[i].mod.refs), k < stack'[i].pos
          PROVE  Linked(stack[i].mod, k)'
      <3>1. i # n + 1
        BY <1>1, <2>1
      <3>2. i \in 1 .. n /\ stack'[i] = stack[i]
        BY <1>1, <3>1
      <3>3. Linked(stack[i].mod, k)
        BY <2>1, <3>2 DEF WalkInv, FrameInv, Excused
      <3> QED BY <1>4, <3>2, <3>3
    <2> HIDE DEF n
    <2> QED BY <1>1, <2>1 DEF FrameInv
  <1>6. VisitedInv'
    <2>1. OnStack(m)'
      BY <1>1 DEF OnStack
    <2>2. \A t : OnStack(t) => OnStack(t)'
      BY <1>1 DEF OnStack
    <2> QED BY <1>2, <1>4, <2>1, <2>2 DEF WalkInv, VisitedInv, Excused
  <1> QED BY <1>3, <1>5, <1>6 DEF WalkInv

\* FindModule's failure: the statement stays unlinked, which is excused.
LEMMA WalkNotFound ==
    ASSUME TypeInv, WalkInv, AtStatement \/ (pc = "include" /\ MoreStatements), NotFound,
           UNCHANGED <<included, link, mods, todo, ignoring>>
    PROVE  WalkInv'
  <1>1. CASE ignoring
    <2>1. stack # <<>> /\ stack \in Seq(Frames) /\ stack' = Advanced(stack)
          /\ UNCHANGED failed
      BY <1>1 DEF TypeInv, TypeOK, ControlInv, Walking, MoreStatements, NotFound
    <2> QED BY <1>1, <2>1, WalkAdvance DEF TypeInv, Excused
  <1>2. CASE ~ ignoring
    <2>1. stack' = <<>> /\ failed'
      BY <1>2 DEF NotFound
    <2> QED BY <2>1 DEF WalkInv, StackIsPath, FrameInv, VisitedInv, Excused
  <1> QED BY <1>1, <1>2

\* FindModule's answer is linked at once, or entered first.
LEMMA WalkEnter ==
    ASSUME TypeInv, BareNameIsLatest, WalkInv, AtStatement \/ (pc = "include" /\ MoreStatements),
           Lookup(Current) # None, Enter(Lookup(Current)),
           UNCHANGED <<mods, todo, failed, ignoring>>
    PROVE  WalkInv'
  <1> DEFINE im == Lookup(Current)
  <1>1. stack # <<>> /\ Frame.pos <= Len(Frame.mod.refs) /\ stack \in Seq(Frames) /\ TypeOK
    BY DEF TypeInv, TypeOK, ControlInv, MoreStatements, Walking
  <1>2. /\ Frame.mod \in Text /\ Frame.pos \in 1 .. Len(Frame.mod.refs)
        /\ Current \in Ref /\ Statement \in Slot
    BY <1>1, CurrentStatement
  <1>3. im \in Text /\ im.kind = Current.kind /\ im.name = Current.name
    BY <1>1, <1>2, LookupText, LookupMatches
  <1> HIDE DEF im
  <1>4. CASE Visited(im) /\ link' = [link EXCEPT ![Statement] = im]
             /\ stack' = Advanced(stack) /\ UNCHANGED included
    <2>1. \A s \in Slot : link'[s] = IF s = Statement THEN im ELSE link[s]
      BY <1>1, <1>4 DEF TypeOK
    <2>3. ASSUME NEW t \in Text, NEW k \in 1 .. Len(t.refs), Linked(t, k)
          PROVE  Linked(t, k)'
      <3>1. <<t, k>> \in Slot
        BY DEF Slot
      <3>2. CASE <<t, k>> = Statement
        <4>1. t = Frame.mod /\ k = Frame.pos
          BY <3>2 DEF Statement
        <4>2. link'[<<t, k>>] = im
          BY <2>1, <3>1, <3>2
        <4> QED BY <1>3, <1>4, <4>1, <4>2 DEF Linked, Current, Visited
      <3>3. CASE <<t, k>> # Statement
        BY <1>4, <2>1, <2>3, <3>1, <3>3 DEF Linked
      <3> QED BY <3>2, <3>3
    <2>4. \A t \in Text : OnStack(t) => OnStack(t)'
      <3>1. Len(stack') = Len(stack) /\ \A i \in 1 .. Len(stack) : stack'[i].mod = stack[i].mod
        BY <1>1, <1>4, AdvancedFrame
      <3> QED BY <3>1 DEF OnStack
    <2>6. \A x, y : x = Frame.mod /\ y = Frame.pos => Linked(x, y)'
      <3> SUFFICES ASSUME NEW x, NEW y, x = Frame.mod, y = Frame.pos
                   PROVE  Linked(x, y)'
        OBVIOUS
      <3>1. <<x, y>> = Statement /\ x.refs[y] = Current
        BY DEF Statement, Current
      <3>2. link'[<<x, y>>] = im
        BY <1>2, <2>1, <3>1
      <3> QED BY <1>3, <1>4, <3>1, <3>2 DEF Linked, Visited
    <2> QED BY <1>1, <1>4, <2>3, <2>4, <2>6, WalkAdvance DEF Frame
  <1>5. CASE ~ Visited(im) /\ Push(im) /\ UNCHANGED link
    BY <1>1, <1>2, <1>3, <1>5, WalkPush DEF Visited
  <1> QED BY <1>4, <1>5 DEF Enter, im

\* The module whose include returns is linked from the statement that led to it.
LEMMA WalkReturn ==
    ASSUME TypeInv, WalkInv, Return, UNCHANGED ignoring
    PROVE  WalkInv'
  <1> DEFINE n == Len(stack)
  <1>1. /\ stack \in Seq(Frames) /\ n \in Nat \ {0} /\ TypeOK
        /\ UNCHANGED <<included, mods, todo, failed>>
    BY DEF Return, TypeInv, TypeOK, ControlInv, Walking, processVars
  <1>2. /\ Callers \in Seq(Frames) /\ Len(Callers) = n - 1
        /\ \A i \in 1 .. n - 1 : Callers[i] = stack[i]
    BY <1>1, PoppedFrame DEF Callers
  <1>3. Frame = stack[n] /\ Frame \in Frames
    BY <1>1 DEF Frame
  <1>4. Frame.mod \in Text /\ Frame.mod.refs \in Seq(Ref) /\ Frame.pos > Len(Frame.mod.refs)
        /\ Frame.pos \in Nat
    BY <1>1, <1>3, TextAssumption DEF Frames, Return, MoreStatements
  <1>5. ~ Excused => \A k \in 1 .. Len(Frame.mod.refs) : Linked(Frame.mod, k)
    <2>1. n \in 1 .. Len(stack)
      BY <1>1
    <2>2. \A k \in 1 .. Len(Frame.mod.refs) : k < Frame.pos
      BY <1>4
    <2> QED BY <1>3, <2>1, <2>2 DEF WalkInv, FrameInv
  <1>6. Frame.mod \in included
    BY <1>1, <1>3 DEF WalkInv, StackIsPath
  <1> HIDE DEF n
  <1>7. CASE Callers = <<>> /\ stack' = <<>> /\ UNCHANGED link
    <2>1. n = 1
      BY <1>1, <1>2, <1>7
    <2>2. \A t : OnStack(t) => t = Frame.mod
      BY <1>3, <2>1 DEF OnStack, n
    <2>3. \A t, k : Linked(t, k) => Linked(t, k)'
      BY <1>1, <1>7 DEF Linked
    <2>4. VisitedInv'
      BY <1>1, <1>5, <2>2, <2>3 DEF WalkInv, VisitedInv, Excused
    <2>5. StackIsPath' /\ FrameInv'
      BY <1>7 DEF StackIsPath, FrameInv
    <2> QED BY <2>4, <2>5 DEF WalkInv
  <1>8. CASE /\ Callers # <<>> /\ stack' = Advanced(Callers)
             /\ link' = [link EXCEPT ![<<Caller.mod, Caller.pos>>] = Frame.mod]
    <2>1. n - 1 \in 1 .. Len(stack) - 1 /\ n - 1 \in Nat \ {0} /\ Caller = stack[n - 1]
      BY <1>1, <1>2, <1>8 DEF Caller, n
    <2>2. /\ Caller.pos \in 1 .. Len(Caller.mod.refs)
          /\ Caller.mod.refs[Caller.pos].kind = Frame.mod.kind
          /\ Caller.mod.refs[Caller.pos].name = Frame.mod.name
      <3>1. (n - 1) + 1 = n
        BY <1>1
      <3> QED BY <1>3, <2>1, <3>1 DEF WalkInv, StackIsPath
    <2>3. Caller.mod \in Text
      <3>1. Caller \in Frames
        BY <1>1, <2>1
      <3> QED BY <3>1 DEF Frames
    <2>4. <<Caller.mod, Caller.pos>> \in Slot
      BY <2>2, <2>3 DEF Slot
    <2>5. \A s \in Slot :
              link'[s] = IF s = <<Caller.mod, Caller.pos>> THEN Frame.mod ELSE link[s]
      BY <1>1, <1>8 DEF TypeOK
    <2>6. ASSUME NEW t \in Text, NEW k \in 1 .. Len(t.refs),
                 Linked(t, k) \/ <<t, k>> = <<Caller.mod, Caller.pos>>
          PROVE  Linked(t, k)'
      <3>1. <<t, k>> \in Slot
        BY DEF Slot
      <3>2. CASE <<t, k>> = <<Caller.mod, Caller.pos>>
        BY <1>1, <1>6, <2>2, <2>5, <3>1, <3>2 DEF Linked
      <3>3. CASE <<t, k>> # <<Caller.mod, Caller.pos>>
        BY <1>1, <2>5, <2>6, <3>1, <3>3 DEF Linked
      <3> QED BY <3>2, <3>3
    <2>7. ASSUME ~ Excused, NEW t \in Text, OnStack(t), ~ OnStack(t)',
                 NEW k \in 1 .. Len(t.refs)
          PROVE  Linked(t, k)
      <3>1. Len(stack') = n - 1 /\ \A i \in 1 .. n - 1 : stack'[i].mod = stack[i].mod
        BY <1>2, <1>8, AdvancedFrame
      <3>2. PICK i \in 1 .. Len(stack) : stack[i].mod = t
        BY <2>7 DEF OnStack
      <3>3. i = n
        <4>1. i \notin 1 .. n - 1
          BY <2>7, <3>1, <3>2 DEF OnStack
        <4> QED BY <1>1, <4>1 DEF n
      <3> QED BY <1>3, <1>5, <2>7, <3>2, <3>3
    <2>8. \A i \in 1 .. Len(Callers) : i \in 1 .. Len(stack) /\ Callers[i] = stack[i]
      BY <1>1, <1>2 DEF n
    <2>9. ASSUME NEW x, NEW y, x = Caller.mod, y = Caller.pos
          PROVE  Linked(x, y)'
      BY <2>2, <2>3, <2>6, <2>9
    <2> QED BY <1>1, <1>2, <1>8, <2>6, <2>7, <2>8, <2>9, WalkAdvance DEF Caller
  <1> QED BY <1>7, <1>8 DEF Return

Inv == TypeInv /\ BareNameIsLatest /\ WalkInv

\* The walk's invariant is kept by every step.
LEMMA WalkStep ==
    ASSUME Inv, [Next]_vars
    PROVE  WalkInv'
  <1> USE DEF Inv
  <1>1. ASSUME \/ \E n \in Name, r \in Revision : Read(n, r)
               \/ \E ns \in Namespace : FindModuleByNamespace(ns)
               \/ AddStatement \/ FinishProcess,
               UNCHANGED ignoring
        PROVE  WalkInv'
    <2>1. UNCHANGED <<included, link, stack, failed, mods, todo>>
      BY <1>1 DEF Read, FindModuleByNamespace, AddStatement, FinishProcess, walkVars,
         processVars
    <2> QED BY <1>1, <2>1, WalkStutter
  <1>2. ASSUME UNCHANGED <<included, link, stack, failed, ignoring>>, StartProcess
        PROVE  WalkInv'
    BY <1>2, WalkStutter DEF StartProcess
  <1>3. CASE Process /\ UNCHANGED ignoring
    BY <1>2, <1>3 DEF Process, StartProcess, walkVars
  <1>4. ASSUME NEW k \in Key, GetModule(k), UNCHANGED ignoring
        PROVE  WalkInv'
    BY <1>2, <1>4, WalkStutter DEF GetModule, StartProcess, walkVars, processVars
  <1>5. CASE FinishRead /\ UNCHANGED ignoring
    BY <1>2, <1>5, WalkStutter DEF FinishRead, StartProcess, walkVars, processVars
  <1>6. CASE FailRead /\ UNCHANGED ignoring
    <2>1. CASE NotFound /\ reader \in {"revision", "name"}
      BY <1>6, <2>1, WalkNotFound DEF FailRead, AtStatement
    <2>2. CASE UNCHANGED <<stack, errs, failed>>
      BY <1>6, <2>2, WalkStutter DEF FailRead
    <2> QED BY <1>6, <2>1, <2>2 DEF FailRead, ReadBareName
  <1>7. CASE NextModule /\ UNCHANGED ignoring
    <2>1. PICK m \in todo : /\ todo' = todo \ {m}
                            /\ IF Visited(m) THEN UNCHANGED <<pc, included, stack>> ELSE Push(m)
      BY <1>7 DEF NextModule, TodoAfter
    <2>2. m \in Text
      BY <2>1 DEF TypeInv, TypeOK
    <2>3. CASE Visited(m) /\ UNCHANGED <<included, stack>>
      <3>1. UNCHANGED <<link, mods, failed, ignoring>>
        BY <1>7 DEF NextModule
      <3>2. StackIsPath'
        BY <2>3, <3>1 DEF WalkInv, StackIsPath
      <3>3. FrameInv'
        BY <2>3, <3>1 DEF WalkInv, FrameInv, Excused, Linked
      <3>4. VisitedInv'
        BY <2>1, <2>3, <3>1 DEF WalkInv, VisitedInv, Excused, Linked, OnStack, Visited
      <3> QED BY <3>2, <3>3, <3>4 DEF WalkInv
    <2>4. CASE m \notin included /\ Push(m)
      <3>1. stack = <<>>
        BY <1>7 DEF NextModule, TypeInv, ControlInv, Walking, AtStatement
      <3> QED BY <1>7, <2>1, <2>2, <2>4, <3>1, WalkPush DEF NextModule, TypeInv
    <2> QED BY <2>1, <2>3, <2>4 DEF Visited
  <1>8. CASE Hit /\ UNCHANGED ignoring
    BY <1>8, WalkEnter DEF Hit, processVars
  <1>9. CASE Miss /\ UNCHANGED ignoring
    <2>1. CASE NotFound
      BY <1>9, <2>1, WalkNotFound DEF Miss
    <2>2. CASE UNCHANGED <<stack, errs, failed>>
      BY <1>9, <2>2, WalkStutter DEF Miss
    <2> QED BY <1>9, <2>1, <2>2 DEF Miss, ReadBareName
  <1>10. CASE Reread /\ UNCHANGED ignoring
    <2>1. AtStatement
      BY <1>10 DEF Reread, AtStatement
    <2>2. CASE Lookup(Current) # None /\ Enter(Lookup(Current)) /\ UNCHANGED processVars
      BY <1>10, <2>1, <2>2, WalkEnter DEF processVars
    <2>3. CASE NotFound /\ UNCHANGED <<included, link, mods, todo>>
      BY <1>10, <2>1, <2>3, WalkNotFound
    <2> QED BY <1>10, <2>2, <2>3 DEF Reread
  <1>11. CASE Return /\ UNCHANGED ignoring
    BY <1>11, WalkReturn
  <1>12. CASE UNCHANGED vars
    BY <1>12, WalkStutter DEF vars
  <1> QED BY <1>1, <1>3, <1>4, <1>5, <1>6, <1>7, <1>8, <1>9, <1>10, <1>11, <1>12
          DEF Next, Call, Step

\* The three invariants hold together throughout.
LEMMA InvCorrect == Spec => []Inv
  <1>1. Init => Inv
    <2>1. Init => WalkInv
      BY DEF Init, WalkInv, StackIsPath, FrameInv, VisitedInv
    <2> QED BY <2>1, InitTypeInv, InitBareName DEF Inv
  <1>2. Inv /\ [Next]_vars => Inv'
    BY TypeInvStep, BareNameStep, WalkStep DEF Inv, TypeInv
  <1> QED BY <1>1, <1>2, PTL DEF Spec

\* A walk that met no error was complete: what process collected was visited, and
\* every visited module's statements are linked to visited modules.
THEOREM ClosureCorrect == Spec => []ClosureResolved
  <1>1. Inv => ClosureResolved
    <2> SUFFICES ASSUME Inv, pc = "idle", ~ failed, ~ ignoring
                 PROVE  /\ mods \subseteq included
                        /\ \A t \in included : \A k \in 1 .. Len(t.refs) : Linked(t, k)
      BY DEF ClosureResolved, Linked
    <2>1. stack = <<>> /\ todo = {}
      BY DEF Inv, TypeInv, ControlInv, Walking, AtStatement
    <2>2. \A t : ~ OnStack(t)
      BY <2>1 DEF OnStack
    <2> QED BY <2>1, <2>2 DEF Inv, WalkInv, VisitedInv, Excused
  <1> QED BY <1>1, InvCorrect, PTL

\* Circular includes and imports cannot make the recursion enter a module again.
THEOREM StackCorrect == Spec => []StackIsPath
  <1>1. Inv => StackIsPath
    BY DEF Inv, WalkInv
  <1> QED BY <1>1, InvCorrect, PTL

\* No call takes a revision away or makes a bare name lead to an older one.
THEOREM RevisionsOnlyGrowCorrect == Spec => RevisionsOnlyGrow
  <1> DEFINE Grows(kind, n, r) ==
                 store[kind][<<n, r>>] # None =>
                     /\ r # NoRev => store'[kind][<<n, r>>] = store[kind][<<n, r>>]
                     /\ store'[kind][<<n, r>>] # None
                     /\ store[kind][<<n, r>>].rev <= store'[kind][<<n, r>>].rev
  <1>1. ASSUME Inv, [Next]_vars
        PROVE  \A kind \in Kinds, n \in Name, r \in Revision : Grows(kind, n, r)
    <2> SUFFICES ASSUME NEW kind \in Kinds, NEW n \in Name, NEW r \in Revision,
                        store[kind][<<n, r>>] # None
                 PROVE  /\ r # NoRev => store'[kind][<<n, r>>] = store[kind][<<n, r>>]
                        /\ store'[kind][<<n, r>>] # None
                        /\ store[kind][<<n, r>>].rev <= store'[kind][<<n, r>>].rev
      OBVIOUS
    <2>1. store[kind][<<n, r>>] \in Text /\ store[kind][<<n, r>>].rev \in Nat
      <3>1. <<n, r>> \in Key
        BY DEF Key
      <3>2. store[kind][<<n, r>>] \in Text \cup {None}
        BY <1>1, <3>1 DEF Inv, TypeInv, TypeOK
      <3> QED BY <3>2, TextAssumption, RevisionNumbers
    <2>2. CASE UNCHANGED store
      BY <2>1, <2>2
    <2>3. CASE AddStatement
      <3>1. PICK t \in Text :
                /\ t.kind \in Kinds /\ t.name \in Name /\ t.rev \in Revision
                /\ store[t.kind][<<t.name, t.rev>>] = None
                /\ \A kind_1 \in Kinds, n_1 \in Name, r_1 \in Revision :
                      store'[kind_1][<<n_1, r_1>>] =
                          IF /\ kind_1 = t.kind /\ n_1 = t.name
                             /\ r_1 = t.rev \/ (r_1 = NoRev /\ TakesBareName(t))
                          THEN t ELSE store[kind_1][<<n_1, r_1>>]
        BY <1>1, <2>3, AddedModule DEF Inv, TypeInv
      <3>2. t # None /\ t.rev \in Nat
        BY <3>1, NoneAssumption, RevisionNumbers
      <3>3. CASE store'[kind][<<n, r>>] = store[kind][<<n, r>>]
        BY <2>1, <3>3
      <3>4. CASE kind = t.kind /\ n = t.name /\ r = NoRev /\ TakesBareName(t)
                 /\ store'[kind][<<n, r>>] = t
        <4>1. store[kind][<<n, r>>].rev < t.rev
          BY <3>4 DEF TakesBareName
        <4> QED BY <2>1, <3>2, <3>4, <4>1
      <3> QED BY <3>1, <3>3, <3>4
    <2> QED BY <1>1, <2>2, <2>3, StoreStep
  <1>2. ASSUME Inv, [Next]_vars
        PROVE  [\A kind \in Kinds, n \in Name, r \in Revision : Grows(kind, n, r)]_vars
    BY <1>1, <1>2
  <1> QED BY <1>2, InvCorrect, PTL DEF Spec, RevisionsOnlyGrow

-----------------------------------------------------------------------------
(* Statements are linked once *)

\* What has not been walked is not linked: the statements of modules not visited,
\* and of those being visited from their position on.
UnlinkedInv ==
    /\ \A t \in Text \ included : \A k \in 1 .. Len(t.refs) : link[<<t, k>>] = None
    /\ \A i \in 1 .. Len(stack) : \A k \in 1 .. Len(stack[i].mod.refs) :
          stack[i].pos <= k => link[<<stack[i].mod, k>>] = None

\* Only the statement that is passed is linked, and it is passed in an innermost frame.
Passing(stk) ==
    /\ stk # <<>> /\ Len(stk) <= Len(stack)
    /\ \A i \in 1 .. Len(stk) : stk[i] = stack[i]
    /\ stack' = Advanced(stk) /\ UNCHANGED included
    /\ stk[Len(stk)].pos \in 1 .. Len(stk[Len(stk)].mod.refs)
    /\ \A s \in Slot : link'[s] # link[s] => s = <<stk[Len(stk)].mod, stk[Len(stk)].pos>>

\* The ways in which a step can walk.
LEMMA WalkShapes ==
    ASSUME Inv, [Next]_vars
    PROVE  \/ UNCHANGED <<included, link>> /\ stack' \in {stack, <<>>}
           \/ UNCHANGED link /\ \E m \in Text : m \notin included /\ Push(m)
           \/ \E stk \in Seq(Frames) : Passing(stk)
  <1> USE DEF Inv
  <1>1. ASSUME AtStatement \/ (pc = "include" /\ MoreStatements)
        PROVE  /\ stack # <<>> /\ stack \in Seq(Frames) /\ TypeOK
               /\ Frame.mod \in Text /\ Frame.pos \in 1 .. Len(Frame.mod.refs)
               /\ Current \in Ref /\ Statement \in Slot
    <2>1. stack # <<>> /\ Frame.pos <= Len(Frame.mod.refs) /\ stack \in Seq(Frames) /\ TypeOK
      BY <1>1 DEF TypeInv, TypeOK, ControlInv, MoreStatements, Walking
    <2> QED BY <2>1, CurrentStatement
  <1>2. ASSUME AtStatement \/ (pc = "include" /\ MoreStatements), NEW im,
               \/ UNCHANGED link
               \/ link' = [link EXCEPT ![Statement] = im],
               stack' = Advanced(stack), UNCHANGED included
        PROVE  Passing(stack)
    <2>1. \A s \in Slot : link'[s] # link[s] => s = Statement
      BY <1>1, <1>2 DEF TypeOK
    <2> QED BY <1>1, <1>2, <2>1 DEF Passing, Statement, Frame
  <1>3. ASSUME AtStatement \/ (pc = "include" /\ MoreStatements), NotFound,
               UNCHANGED <<included, link>>
        PROVE  stack' = <<>> \/ Passing(stack)
    BY <1>2, <1>3 DEF NotFound
  <1>4. ASSUME AtStatement \/ (pc = "include" /\ MoreStatements),
               Lookup(Current) # None, Enter(Lookup(Current))
        PROVE  \/ UNCHANGED link /\ \E m \in Text : m \notin included /\ Push(m)
               \/ Passing(stack)
    <2>1. Lookup(Current) \in Text
      BY <1>1, <1>4, LookupText
    <2> QED BY <1>2, <1>4, <2>1 DEF Enter, Visited
  <1>5. CASE \/ \E n \in Name, r \in Revision : Read(n, r)
             \/ Process
             \/ \E k \in Key : GetModule(k)
             \/ \E ns \in Namespace : FindModuleByNamespace(ns)
             \/ AddStatement \/ FinishRead \/ FinishProcess \/ UNCHANGED vars
    BY <1>5 DEF Read, Process, GetModule, FindModuleByNamespace, AddStatement, FinishRead,
       FinishProcess, walkVars, vars
  <1>6. CASE FailRead
    <2>1. CASE NotFound /\ reader \in {"revision", "name"}
      BY <1>1, <1>3, <1>6, <2>1 DEF FailRead, AtStatement
    <2>2. CASE UNCHANGED stack
      BY <1>6, <2>2 DEF FailRead
    <2> QED BY <1>6, <2>1, <2>2 DEF FailRead, ReadBareName
  <1>7. CASE NextModule
    <2>1. PICK m \in todo : IF Visited(m) THEN UNCHANGED <<pc, included, stack>> ELSE Push(m)
      BY <1>7 DEF NextModule
    <2>2. m \in Text /\ UNCHANGED link
      BY <1>7, <2>1 DEF NextModule, TypeInv, TypeOK
    <2> QED BY <2>1, <2>2 DEF Visited
  <1>8. CASE Hit
    BY <1>1, <1>4, <1>8 DEF Hit
  <1>9. CASE Miss
    <2>1. CASE NotFound
      BY <1>1, <1>3, <1>9, <2>1 DEF Miss
    <2>2. CASE UNCHANGED stack
      BY <1>9, <2>2 DEF Miss
    <2> QED BY <1>9, <2>1, <2>2 DEF Miss, ReadBareName
  <1>10. CASE Reread
    <2>1. AtStatement
      BY <1>10 DEF Reread, AtStatement
    <2>2. CASE Lookup(Current) # None /\ Enter(Lookup(Current))
      BY <1>1, <1>4, <2>1, <2>2
    <2>3. CASE NotFound /\ UNCHANGED <<included, link>>
      BY <1>1, <1>3, <2>1, <2>3
    <2> QED BY <1>10, <2>2, <2>3 DEF Reread
  <1>11. CASE Return
    <2>1. UNCHANGED included /\ stack # <<>> /\ stack \in Seq(Frames) /\ TypeOK
      BY <1>11 DEF Return, TypeInv, TypeOK, ControlInv, Walking
    <2>2. CASE stack' = <<>> /\ UNCHANGED link
      BY <2>1, <2>2
    <2>3. CASE /\ Callers # <<>> /\ stack' = Advanced(Callers)
               /\ link' = [link EXCEPT ![<<Caller.mod, Caller.pos>>] = Frame.mod]
      <3>1. /\ Callers \in Seq(Frames) /\ Len(Callers) = Len(stack) - 1
            /\ \A i \in 1 .. Len(stack) - 1 : Callers[i] = stack[i]
        BY <2>1, PoppedFrame DEF Callers
      <3>2. Len(Callers) \in 1 .. Len(stack) - 1 /\ Caller = stack[Len(Callers)]
        BY <2>3, <3>1 DEF Caller
      <3>3. Caller.pos \in 1 .. Len(Caller.mod.refs)
        BY <3>2 DEF WalkInv, StackIsPath
      <3>4. \A s \in Slot : link'[s] # link[s] => s = <<Caller.mod, Caller.pos>>
        BY <2>1, <2>3 DEF TypeOK
      <3>5. Passing(Callers)
        BY <2>1, <2>3, <3>1, <3>3, <3>4 DEF Passing, Caller
      <3> QED BY <3>1, <3>5
    <2> QED BY <1>11, <2>2, <2>3 DEF Return
  <1> QED BY <1>5, <1>6, <1>7, <1>8, <1>9, <1>10, <1>11 DEF Next, Call, Step

\* No step links a statement twice, nor one that is still to be walked.
LEMMA UnlinkedStep ==
    ASSUME Inv, UnlinkedInv, [Next]_vars
    PROVE  /\ UnlinkedInv'
           /\ \A s \in Slot : link[s] # None => link'[s] = link[s]
  <1>1. CASE UNCHANGED <<included, link>> /\ stack' \in {stack, <<>>}
    BY <1>1 DEF UnlinkedInv
  <1>2. CASE UNCHANGED link /\ \E m \in Text : m \notin included /\ Push(m)
    <2>1. PICK m \in Text : m \notin included /\ Push(m)
      BY <1>2
    <2>2. /\ Len(stack') = Len(stack) + 1 /\ included' = included \cup {m}
          /\ \A i \in 1 .. Len(stack) : stack'[i] = stack[i]
          /\ stack'[Len(stack) + 1] = [mod |-> m, pos |-> 1]
      BY <2>1, PushedFrame DEF Push, Inv, TypeInv, TypeOK
    <2>3. \A i \in 1 .. Len(stack') : i \in 1 .. Len(stack) \/ i = Len(stack) + 1
      BY <2>2 DEF Inv, TypeInv, TypeOK
    <2>4. ASSUME NEW i \in 1 .. Len(stack'), NEW k \in 1 .. Len(stack'[i].mod.refs),
                 stack'[i].pos <= k
          PROVE  link[<<stack'[i].mod, k>>] = None
      <3>1. CASE i \in 1 .. Len(stack)
        BY <2>2, <2>4, <3>1 DEF UnlinkedInv
      <3>2. CASE i = Len(stack) + 1
        BY <2>1, <2>2, <2>4, <3>2 DEF UnlinkedInv
      <3> QED BY <2>3, <3>1, <3>2
    <2> QED BY <1>2, <2>2, <2>4 DEF UnlinkedInv
  <1>3. ASSUME NEW stk \in Seq(Frames), Passing(stk)
        PROVE  /\ UnlinkedInv'
               /\ \A s \in Slot : link[s] # None => link'[s] = link[s]
    <2> DEFINE n == Len(stk)
               top == stk[n]
    <2>1. /\ stack' = Advanced(stk) /\ Len(stack') = n /\ n \in Nat \ {0}
          /\ \A i \in 1 .. n : stack'[i].mod = stk[i].mod /\ (i # n => stack'[i] = stk[i])
          /\ stack'[n].pos = top.pos + 1
      BY <1>3, AdvancedFrame DEF Passing
    <2>2. /\ \A i \in 1 .. n : i \in 1 .. Len(stack) /\ stk[i] = stack[i]
          /\ top = stack[n] /\ top \in Frames /\ n \in 1 .. Len(stack)
          /\ top.pos \in 1 .. Len(top.mod.refs)
          /\ UNCHANGED included
          /\ \A s \in Slot : link'[s] # link[s] => s = <<top.mod, top.pos>>
      BY <1>3, <2>1 DEF Passing, Inv, TypeInv, TypeOK
    <2>3. \A i \in 1 .. n : i # n => stk[i].mod # top.mod
      BY <2>2 DEF Inv, WalkInv, StackIsPath
    <2>4. top.mod \in Text /\ top.pos \in Nat /\ top.mod \in included
      BY <2>2 DEF Frames, Inv, WalkInv, StackIsPath
    <2>5. ASSUME NEW i \in 1 .. n
          PROVE  stk[i].mod \in Text
      <3>1. stk[i] \in Frames
        OBVIOUS
      <3> QED BY <3>1 DEF Frames
    <2> HIDE DEF top, n
    <2>6. link[<<top.mod, top.pos>>] = None
      <3>1. top.pos <= top.pos
        BY <2>4
      <3> QED BY <2>2, <3>1 DEF UnlinkedInv
    <2>7. \A s \in Slot : link[s] # None => link'[s] = link[s]
      BY <2>2, <2>6
    <2>8. ASSUME NEW t \in Text \ included, NEW k \in 1 .. Len(t.refs)
          PROVE  link'[<<t, k>>] = None
      <3>1. <<t, k>> \in Slot /\ <<t, k>> # <<top.mod, top.pos>>
        BY <2>4 DEF Slot
      <3> QED BY <2>2, <3>1 DEF UnlinkedInv
    <2>9. ASSUME NEW i \in 1 .. n, NEW k \in 1 .. Len(stk[i].mod.refs), stack'[i].pos <= k
          PROVE  link'[<<stk[i].mod, k>>] = None
      <3>1. <<stk[i].mod, k>> \in Slot
        BY <2>5 DEF Slot
      <3>2. CASE i = n
        <4>1. top.pos <= k /\ k # top.pos
          BY <2>1, <2>4, <2>9, <3>2
        <4>2. link[<<top.mod, k>>] = None
          BY <2>2, <2>9, <3>2, <4>1 DEF UnlinkedInv, top
        <4> QED BY <2>2, <3>1, <3>2, <4>1, <4>2 DEF top
      <3>3. CASE i # n
        <4>1. link[<<stk[i].mod, k>>] = None
          <5>1. stack'[i] = stack[i] /\ stk[i] = stack[i] /\ i \in 1 .. Len(stack)
            BY <2>1, <2>2, <3>3
          <5>2. stack[i].pos <= k /\ k \in 1 .. Len(stack[i].mod.refs)
            BY <2>9, <5>1
          <5> QED BY <5>1, <5>2 DEF UnlinkedInv
        <4> QED BY <2>2, <2>3, <3>1, <3>3, <4>1
      <3> QED BY <3>2, <3>3
    <2>10. UnlinkedInv'
      BY <2>1, <2>2, <2>8, <2>9 DEF UnlinkedInv
    <2> QED BY <2>7, <2>10
  <1> QED BY <1>1, <1>2, <1>3, WalkShapes

\* A statement that was linked is never linked to another module.
THEOREM LinkedOnceCorrect == Spec => LinkedOnce
  <1>1. Init => UnlinkedInv
    <2>1. \A t \in Text : \A k \in 1 .. Len(t.refs) : <<t, k>> \in Slot
      BY DEF Slot
    <2> QED BY <2>1 DEF Init, UnlinkedInv
  <1>2. Inv /\ UnlinkedInv /\ [Next]_vars => UnlinkedInv'
    BY UnlinkedStep
  <1>3. ASSUME Inv, UnlinkedInv, [Next]_vars
        PROVE  [\A s \in Slot : link[s] # None => link'[s] = link[s]]_vars
    BY <1>3, UnlinkedStep
  <1> QED BY <1>1, <1>2, <1>3, InvCorrect, PTL DEF Spec, LinkedOnce
=============================================================================
