---------------------------- MODULE BuilderProofs ----------------------------
(***************************************************************************)
(* Proofs about Builder.  A node that has been built is legal: the         *)
(* invariant says of each call of build in progress that the substatements *)
(* before its next one are acceptable, and when its Name is set.  What is  *)
(* accepted is valid all the way down, and the other way round: the        *)
(* invariant says that the nodes among those substatements are valid too,  *)
(* and that each call is for a node of the call around it.  The dictionary *)
(* has the typedefs of exactly the nodes that can be built and are         *)
(* reached: the calls in progress are the path from the top of a tree to   *)
(* the node being built, and what they have passed on it is what is        *)
(* complete.                                                               *)
(***************************************************************************)
EXTENDS Builder, TLAPS, WellFoundedInduction

\* What a call of build knows of the substatements it has seen.
FrameInv(f) ==
    /\ f.node \in Stmts
    /\ f.next \in Nat \ {0}
    /\ \A j \in DOMAIN Sub(f.node) : j < f.next => Acceptable(f.node, Sub(f.node)[j])
    /\ f.name = "" =>
          /\ Arg(f.node) = ""
          /\ \A j \in DOMAIN Sub(f.node) :
                j < f.next /\ Kw(Sub(f.node)[j]) = "Name" => Arg(Sub(f.node)[j]) = ""

Frames == [node : Stmts, next : Nat \ {0}, name : STRING]

\* Of the calls only the outermost is of a statement at the top.
StackInv(calls) ==
    /\ calls \in Seq(Frames)
    /\ \A i \in DOMAIN calls : FrameInv(calls[i])
    /\ \A i \in DOMAIN calls : i > 1 => calls[i].node \notin Top

IInv ==
    /\ doc \in Documents
    /\ files \in Seq(Stmts)
    /\ ToSet(files) \subseteq Top
    /\ StackInv(stack)
    /\ BuiltIsLegal

\* The statements of a document are numbered.
LEMMA Numbered ==
    ASSUME doc \in Documents
    PROVE  /\ Len(doc.stmt) \in Nat /\ Stmts = 1 .. Len(doc.stmt)
           /\ \A n \in Stmts : Arg(n) \in STRING
<1> DEFINE R == [kw : STRING, arg : STRING, sub : Seq(Nat)]
<1>1. doc.stmt \in Seq(R)
  BY DocumentsAssumption
<1>2. \A x \in R : x.arg \in STRING
  OBVIOUS
<1> HIDE DEF R
<1>3. Len(doc.stmt) \in Nat /\ Stmts = 1 .. Len(doc.stmt)
  BY <1>1 DEF Stmts
<1>4. \A n \in Stmts : doc.stmt[n] \in R
  BY <1>1, <1>3
<1> QED
  BY <1>2, <1>3, <1>4 DEF Arg

\* Substatements ascend and are none of the top.
LEMMA SubOfStmt ==
    ASSUME doc \in Documents, NEW n \in Stmts
    PROVE  /\ Sub(n) \in Seq(Stmts)
           /\ Stmts \subseteq Nat
           /\ \A i, j \in DOMAIN Sub(n) : i < j => Sub(n)[i] < Sub(n)[j]
           /\ \A i \in DOMAIN Sub(n) : Sub(n)[i] \in Stmts /\ Sub(n)[i] \notin Top
           /\ DOMAIN Sub(n) = 1 .. Len(Sub(n)) /\ Len(Sub(n)) \in Nat
<1>1. /\ Sub(n) \in Seq(Stmts) /\ Stmts \subseteq Nat
      /\ \A i, j \in DOMAIN Sub(n) : i < j => Sub(n)[i] < Sub(n)[j]
      /\ ToSet(Sub(n)) \cap Top = {}
  <2>1. Stmts \subseteq Nat
    BY Numbered
  <2> QED
    BY <2>1, DocumentsAssumption DEF Sub, Stmts, Top
<1>2. DOMAIN Sub(n) = 1 .. Len(Sub(n)) /\ Len(Sub(n)) \in Nat
  BY <1>1
<1>3. \A i \in DOMAIN Sub(n) : Sub(n)[i] \in Stmts /\ Sub(n)[i] \in ToSet(Sub(n))
  BY <1>1, <1>2 DEF ToSet
<1> QED
  BY <1>1, <1>2, <1>3

\* What is said of a document's statements stays as long as the document does.
LEMMA SameDocument ==
    ASSUME doc' = doc
    PROVE  /\ Stmts' = Stmts /\ Top' = Top
           /\ \A n : Sub(n)' = Sub(n) /\ Kw(n)' = Kw(n) /\ Arg(n)' = Arg(n)
           /\ \A n, c : Acceptable(n, c)' <=> Acceptable(n, c)
           /\ \A n : Legal(n)' <=> Legal(n)
           /\ Frames' = Frames
           /\ \A f : FrameInv(f)' <=> FrameInv(f)
<1>1. /\ Stmts' = Stmts /\ Top' = Top
      /\ \A n : Sub(n)' = Sub(n) /\ Kw(n)' = Kw(n) /\ Arg(n)' = Arg(n)
  BY DEF Stmts, Top, Sub, Kw, Arg
<1>2. ASSUME NEW n, NEW c PROVE Acceptable(n, c)' <=> Acceptable(n, c)
  <2>1. Earlier(n, c)' = Earlier(n, c)
    BY <1>1 DEF Earlier
  <2> QED
    BY <1>1, <2>1 DEF Acceptable
<1>3. \A n : Legal(n)' <=> Legal(n)
  BY <1>1, <1>2 DEF Legal, Has, Lacks, Seen
<1>4. Frames' = Frames /\ \A f : FrameInv(f)' <=> FrameInv(f)
  BY <1>1, <1>2 DEF Frames, FrameInv
<1> QED
  BY <1>1, <1>2, <1>3, <1>4

\* An earlier statement of the same keyword has an earlier place.
LEMMA EarlierPlace ==
    ASSUME doc \in Documents, NEW n \in Stmts, NEW k \in DOMAIN Sub(n),
           NEW x \in Earlier(n, Sub(n)[k])
    PROVE  \E j \in DOMAIN Sub(n) : j < k /\ Sub(n)[j] = x
<1>1. PICK j \in DOMAIN Sub(n) : Sub(n)[j] = x
  BY DEF Earlier, ToSet
<1>2. x < Sub(n)[k] /\ Sub(n)[k] \in Nat /\ x \in Nat
  BY <1>1, SubOfStmt DEF Earlier
<1>3. j \in Int /\ k \in Int
  BY SubOfStmt
<1>4. CASE k < j
  BY <1>1, <1>2, <1>4, SubOfStmt
<1>5. CASE k = j
  BY <1>1, <1>2, <1>5
<1> QED
  BY <1>1, <1>3, <1>4, <1>5

\* A substatement that does not stop build is one the node takes.
LEMMA TakenIsAcceptable ==
    ASSUME doc \in Documents, NEW f \in Frames, FrameInv(f), f.next \in DOMAIN Sub(f.node),
           \/ Taking(f.node, Sub(f.node)[f.next])
           \/ Kw(Sub(f.node)[f.next]) \in Prefixed \cup {"Statement"}
           \/ Kw(Sub(f.node)[f.next]) = "Parent" /\ f.node \notin Top
           \/ Kw(Sub(f.node)[f.next]) = "Name" /\ f.name = ""
    PROVE  Acceptable(f.node, Sub(f.node)[f.next])
<1> DEFINE n == f.node
           c == Sub(n)[f.next]
<1>1. n \in Stmts
  BY DEF FrameInv
<1>2. CASE Taking(n, c)
  BY <1>2 DEF Taking, Unset, Acceptable, Earlier
<1>3. CASE Kw(c) \in Prefixed \cup {"Statement"} \/ (Kw(c) = "Parent" /\ n \notin Top)
  BY <1>3 DEF Acceptable
<1>4. CASE Kw(c) = "Name" /\ f.name = ""
  <2>1. \A x \in Earlier(n, c) : Arg(x) = ""
    <3> SUFFICES ASSUME NEW x \in Earlier(n, c) PROVE Arg(x) = ""
      OBVIOUS
    <3>1. PICK j \in DOMAIN Sub(n) : j < f.next /\ Sub(n)[j] = x
      BY <1>1, EarlierPlace
    <3>2. Kw(x) = "Name"
      BY <1>4 DEF Earlier
    <3> QED
      BY <1>4, <3>1, <3>2 DEF FrameInv
  <2>2. Arg(n) = ""
    BY <1>4 DEF FrameInv
  <2> QED
    BY <1>4, <2>1, <2>2 DEF Acceptable
<1> QED
  BY <1>2, <1>3, <1>4

\* A place before the place after k is before k or is k.
LEMMA PlacesBefore ==
    ASSUME doc \in Documents, NEW n \in Stmts, NEW k \in Nat
    PROVE  \A j \in DOMAIN Sub(n) : j < k + 1 => j < k \/ j = k
<1>1. \A j \in DOMAIN Sub(n) : j \in Nat
  BY SubOfStmt
<1> QED
  BY <1>1

\* One more substatement has been seen.
LEMMA NextFrame ==
    ASSUME doc \in Documents, NEW f \in Frames, FrameInv(f), f.next \in DOMAIN Sub(f.node),
           Acceptable(f.node, Sub(f.node)[f.next]), NEW g \in Frames,
           g.node = f.node, g.next = f.next + 1,
           g.name = "" =>
              /\ f.name = ""
              /\ Kw(Sub(f.node)[f.next]) = "Name" => Arg(Sub(f.node)[f.next]) = ""
    PROVE  FrameInv(g)
<1> DEFINE n == f.node
<1>2. n \in Stmts /\ f.next \in Nat \ {0}
  BY DEF Frames
<1>4. \A j \in DOMAIN Sub(n) : j < g.next => j < f.next \/ j = f.next
  BY <1>2, PlacesBefore
<1>5. \A j \in DOMAIN Sub(n) : j < g.next => Acceptable(n, Sub(n)[j])
  BY <1>4 DEF FrameInv
<1>6. g.name = "" =>
         /\ Arg(n) = ""
         /\ \A j \in DOMAIN Sub(n) :
               j < g.next /\ Kw(Sub(n)[j]) = "Name" => Arg(Sub(n)[j]) = ""
  BY <1>4 DEF FrameInv
<1> QED
  BY <1>2, <1>5, <1>6 DEF FrameInv, Frames

\* A call of build that begins has seen nothing.
LEMMA FirstFrame ==
    ASSUME doc \in Documents, NEW n \in Stmts
    PROVE  Frame(n) \in Frames /\ FrameInv(Frame(n)) /\ Frame(n).node = n
<1>3. Arg(n) \in STRING
  BY Numbered
<1>1. /\ Frame(n) \in Frames /\ Frame(n).node = n /\ Frame(n).next = 1
      /\ Frame(n).name = Arg(n)
  BY <1>3 DEF Frame, Frames
<1>2. \A j \in DOMAIN Sub(n) : ~ (j < 1)
  BY SubOfStmt
<1>4. Frame(n).name = "" => Arg(n) = ""
  BY <1>1
<1>6. 1 \in Nat \ {0}
  OBVIOUS
<1>5. FrameInv(Frame(n))
  BY <1>1, <1>2, <1>4, <1>6, Zenon DEF FrameInv
<1> QED
  BY <1>1, <1>5

\* A node whose substatements are all acceptable and that has those it needs.
LEMMA CompleteIsLegal ==
    ASSUME doc \in Documents, NEW f \in Frames, FrameInv(f),
           ~ (f.next <= Len(Sub(f.node))), HasRequired(f.node)
    PROVE  Legal(f.node)
<1> DEFINE n == f.node
<1>1. n \in Stmts /\ f.next \in Nat
  BY DEF Frames
<1>7. \A j \in DOMAIN Sub(n) : j < f.next
  BY <1>1, SubOfStmt
<1>2. \A c \in ToSet(Sub(n)) : Acceptable(n, c)
  BY <1>7 DEF FrameInv, ToSet
<1>3. DOMAIN RequiredOf = {"module", "submodule"}
  BY DEF RequiredOf
<1>4. RequiredOf["module"] = {"namespace", "prefix"} /\ RequiredOf["submodule"] = {"belongs-to"}
  BY DEF RequiredOf
<1>5. Kw(n) = "module" => Has(n, {"namespace", "prefix"}) /\ Lacks(n, {"belongs-to"})
  BY <1>3, <1>4 DEF HasRequired, Has, Lacks, Alias
<1>6. Kw(n) = "submodule" => Has(n, {"belongs-to"}) /\ Lacks(n, {"namespace", "prefix"})
  BY <1>3, <1>4 DEF HasRequired, Has, Lacks, Alias
<1> QED
  BY <1>2, <1>5, <1>6 DEF Legal, HasRequired, Has

-----------------------------------------------------------------------------
\* The innermost call of build.
LEMMA InnerFrame ==
    ASSUME IInv, InBuild
    PROVE  /\ Len(stack) \in DOMAIN stack /\ Inner \in Frames /\ FrameInv(Inner)
           /\ Build \in Stmts
           /\ Len(stack) > 1 => Build \notin Top
<1>1. stack \in Seq(Frames) /\ stack # <<>>
  BY DEF IInv, StackInv, InBuild
<1>2. Len(stack) \in DOMAIN stack
  BY <1>1
<1>3. Inner \in Frames
  BY <1>1, <1>2 DEF Inner
<1>4. Build \in Stmts
  BY <1>3 DEF Build, Frames
<1>5. FrameInv(Inner) /\ (Len(stack) > 1 => Build \notin Top)
  BY <1>2 DEF IInv, StackInv, Inner, Build
<1> QED
  BY <1>2, <1>3, <1>4, <1>5

\* The substatement that is next.
LEMMA FollowingStmt ==
    ASSUME IInv, Reading
    PROVE  /\ Inner.next \in DOMAIN Sub(Build)
           /\ Following \in Stmts /\ Following \notin Top
           /\ Following = Sub(Inner.node)[Inner.next]
<1>1. Build \in Stmts /\ Inner.next \in Nat \ {0} /\ Inner.next <= Len(Sub(Build))
  BY InnerFrame DEF Reading, Frames
<1>2. doc \in Documents
  BY DEF IInv
<1>3. Inner.next \in DOMAIN Sub(Build)
  BY <1>1, <1>2, SubOfStmt
<1> QED
  BY <1>1, <1>2, <1>3, SubOfStmt DEF Following, Build

\* The innermost call has gone on.
LEMMA InnerReplaced ==
    ASSUME IInv, InBuild, NEW g \in Frames, FrameInv(g), g.node = Build
    PROVE  LET s == [stack EXCEPT ![Len(stack)] = g]
           IN  StackInv(s) /\ Len(s) = Len(stack) /\ Len(s) \in Nat \ {0}
<1> DEFINE s == [stack EXCEPT ![Len(stack)] = g]
<1>1. stack \in Seq(Frames) /\ Len(stack) \in DOMAIN stack
  BY InnerFrame DEF IInv, StackInv
<1>2. s \in Seq(Frames) /\ DOMAIN s = DOMAIN stack /\ Len(s) = Len(stack)
  BY <1>1
<1>3. \A i \in DOMAIN s : s[i] = IF i = Len(stack) THEN g ELSE stack[i]
  BY <1>1
<1>4. \A i \in DOMAIN s : FrameInv(s[i])
  BY <1>2, <1>3 DEF IInv, StackInv
<1>5. \A i \in DOMAIN s : i > 1 => s[i].node \notin Top
  BY <1>2, <1>3, InnerFrame DEF IInv, StackInv, Build
<1> QED
  BY <1>1, <1>2, <1>4, <1>5 DEF StackInv

\* The invariant after a step: the document is the same.
LEMMA InvariantAfter ==
    ASSUME IInv, doc' = doc, StackInv(stack'), \A n \in complete' : Legal(n),
           files' = files \/ (files # <<>> /\ files' = Tail(files))
    PROVE  IInv'
<1>1. StackInv(stack)'
  BY SameDocument DEF StackInv
<1>2. BuiltIsLegal'
  BY SameDocument DEF BuiltIsLegal
<1>3. files' \in Seq(Stmts) /\ ToSet(files') \subseteq Top
  BY DEF IInv, ToSet
<1> QED
  BY <1>1, <1>2, <1>3, SameDocument DEF IInv

\* Without calls in progress there is nothing to say of them.
LEMMA NoCalls == StackInv(<<>>)
  BY DEF StackInv

-----------------------------------------------------------------------------
\* Nothing has been built before the first file.
THEOREM InvariantInit == Init => IInv
<1> SUFFICES ASSUME Init PROVE IInv
  OBVIOUS
<1>1. doc \in Documents /\ files \in Seq(Stmts) /\ ToSet(files) \subseteq Top
  BY DocumentsAssumption DEF Init, Stmts, Top
<1> QED
  BY <1>1, NoCalls DEF Init, IInv, BuiltIsLegal

\* A step that ends all calls and completes nothing.
LEMMA EndKeeps ==
    ASSUME IInv, UNCHANGED <<doc, files, complete>>, stack' = <<>>
    PROVE  IInv'
  BY NoCalls, InvariantAfter DEF IInv, BuiltIsLegal

\* Modules.Parse calls build for a statement at the top, or panics.
THEOREM ParseKeeps == IInv /\ Parse => IInv'
<1> SUFFICES ASSUME IInv, Parse PROVE IInv'
  OBVIOUS
<1>1. doc \in Documents /\ Head(files) \in Stmts
  BY DEF IInv, Parse
<1>2. StackInv(<<Frame(Head(files))>>)
  BY <1>1, FirstFrame DEF StackInv
<1> QED
  BY <1>2, NoCalls, InvariantAfter DEF IInv, Parse, BuiltIsLegal

\* One substatement further, with a new call of build for it or without.
LEMMA TakenKeeps ==
    ASSUME IInv, Reading, Acceptable(Build, Following), Kw(Following) # "Name"
    PROVE  StackInv(Taken) /\ Len(Taken) \in Nat \ {0}
<1> DEFINE g == [Inner EXCEPT !.next = @ + 1]
<1>1. InBuild /\ doc \in Documents
  BY DEF Reading, IInv
<1>2. Inner \in Frames /\ FrameInv(Inner) /\ Inner.node = Build
  BY <1>1, InnerFrame DEF Build
<1>3. g \in Frames /\ g.node = Build /\ g.next = Inner.next + 1 /\ g.name = Inner.name
  BY <1>2 DEF Frames
<1>4. /\ Inner.next \in DOMAIN Sub(Inner.node)
      /\ Acceptable(Inner.node, Sub(Inner.node)[Inner.next])
      /\ Kw(Sub(Inner.node)[Inner.next]) # "Name"
  BY FollowingStmt DEF Build
<1>5. FrameInv(g)
  BY <1>1, <1>2, <1>3, <1>4, NextFrame
<1>6. Taken = [stack EXCEPT ![Len(stack)] = g]
  BY DEF Taken, Inner
<1> QED
  BY <1>1, <1>3, <1>5, <1>6, InnerReplaced

\* The fields of a call that has gone on and has a Name.
LEMMA FrameFields ==
    ASSUME NEW f \in Frames, NEW given \in STRING
    PROVE  LET g == [f EXCEPT !.next = @ + 1, !.name = given]
           IN  g \in Frames /\ g.node = f.node /\ g.next = f.next + 1 /\ g.name = given
<1> DEFINE h == [f EXCEPT !.next = @ + 1]
           g == [h EXCEPT !.name = given]
<1>1. h \in Frames /\ h.node = f.node /\ h.next = f.next + 1
  BY DEF Frames
<1> HIDE DEF h
<1>2. g \in Frames /\ g.node = h.node /\ g.next = h.next /\ g.name = given
  BY <1>1 DEF Frames
<1>3. g = [f EXCEPT !.next = @ + 1, !.name = given]
  BY DEF h
<1> QED
  BY <1>1, <1>2, <1>3

\* Taken with another Name in the innermost call.
LEMMA RenamedKeeps ==
    ASSUME IInv, Reading, Acceptable(Build, Following), NEW given \in STRING,
           given = "" =>
              /\ Inner.name = ""
              /\ Kw(Following) = "Name" => Arg(Following) = ""
    PROVE  StackInv([Taken EXCEPT ![Len(stack)].name = given])
<1> DEFINE g == [Inner EXCEPT !.next = @ + 1, !.name = given]
<1>1. InBuild /\ doc \in Documents
  BY DEF Reading, IInv
<1>2. Inner \in Frames /\ FrameInv(Inner) /\ Inner.node = Build
  BY <1>1, InnerFrame DEF Build
<1>3. g \in Frames /\ g.node = Build /\ g.next = Inner.next + 1 /\ g.name = given
  BY <1>2, FrameFields
<1>4. /\ Inner.next \in DOMAIN Sub(Inner.node)
      /\ Acceptable(Inner.node, Sub(Inner.node)[Inner.next])
      /\ Following = Sub(Inner.node)[Inner.next]
  BY FollowingStmt DEF Build
<1>5. FrameInv(g)
  BY <1>1, <1>2, <1>3, <1>4, NextFrame
<1>6. [Taken EXCEPT ![Len(stack)].name = given] = [stack EXCEPT ![Len(stack)] = g]
  <2>1. stack \in Seq(Frames) /\ Len(stack) \in DOMAIN stack
    BY <1>1, InnerFrame DEF IInv, StackInv
  <2> QED
    BY <2>1 DEF Taken, Inner
<1> QED
  BY <1>1, <1>3, <1>5, <1>6, InnerReplaced

\* A field is set by a call of build for the substatement, which it takes.
THEOREM FieldKeeps == IInv /\ Field => IInv'
<1> SUFFICES ASSUME IInv, Field PROVE IInv'
  OBVIOUS
<1>1. doc \in Documents /\ Reading /\ Taking(Build, Following) /\ Kw(Following) # "Name"
  BY DEF IInv, Field, Meta
<1>2. Build \in Stmts /\ Inner \in Frames /\ FrameInv(Inner) /\ Inner.node = Build
  BY <1>1, InnerFrame DEF Reading, Build
<1>3. Acceptable(Build, Following)
  BY <1>1, <1>2, FollowingStmt, TakenIsAcceptable
<1>4. StackInv(Taken) /\ Len(Taken) \in Nat \ {0}
  BY <1>1, <1>3, TakenKeeps
<1>5. /\ Frame(Following) \in Frames /\ FrameInv(Frame(Following))
      /\ Frame(Following).node \notin Top
  BY <1>1, FollowingStmt, FirstFrame
<1>6. StackInv(Append(Taken, Frame(Following)))
  BY <1>4, <1>5 DEF StackInv
<1> QED
  BY <1>6, InvariantAfter DEF Field, IInv, BuiltIsLegal

\* A substatement that is called like a special field is one that may be there.
THEOREM MetaFieldKeeps == IInv /\ MetaField => IInv'
<1> SUFFICES ASSUME IInv, MetaField PROVE IInv'
  OBVIOUS
<1> DEFINE given == IF Kw(Following) = "Name" THEN Arg(Following) ELSE Inner.name
<1>1. doc \in Documents /\ Reading
  BY DEF IInv, MetaField
<1>2. Build \in Stmts /\ Inner \in Frames /\ FrameInv(Inner) /\ Inner.node = Build
  BY <1>1, InnerFrame DEF Reading, Build
<1>3. Acceptable(Build, Following)
  BY <1>1, <1>2, FollowingStmt, InnerFrame, TakenIsAcceptable DEF MetaField, Reading
<1>4. Arg(Following) \in STRING /\ Inner.name \in STRING
  BY <1>1, <1>2, FollowingStmt, Numbered DEF Frames
<1>5. stack' = [Taken EXCEPT ![Len(stack)].name = given]
  <2>1. stack \in Seq(Frames) /\ Len(stack) \in DOMAIN stack
    BY <1>1, InnerFrame DEF IInv, StackInv, Reading
  <2>2. Taken[Len(stack)] = [Inner EXCEPT !.next = @ + 1]
    BY <2>1 DEF Taken, Inner
  <2>3. Taken[Len(stack)].name = Inner.name
    BY <1>2, <2>2 DEF Frames
  <2> QED
    BY <2>3 DEF MetaField
<1>6. given = "" => Inner.name = "" /\ (Kw(Following) = "Name" => Arg(Following) = "")
  BY DEF MetaField
<1>7. StackInv(stack')
  BY <1>1, <1>3, <1>4, <1>5, <1>6, RenamedKeeps
<1> QED
  BY <1>7, InvariantAfter DEF MetaField, IInv, BuiltIsLegal

\* A keyword with a prefix is always taken.
THEOREM KeepExtensionKeeps == IInv /\ KeepExtension => IInv'
<1> SUFFICES ASSUME IInv, KeepExtension PROVE IInv'
  OBVIOUS
<1>1. Reading /\ Acceptable(Build, Following) /\ Kw(Following) # "Name"
  BY PrefixedAssumption DEF KeepExtension, Acceptable, Meta
<1>2. StackInv(stack')
  BY <1>1, TakenKeeps DEF KeepExtension
<1> QED
  BY <1>2, InvariantAfter DEF KeepExtension, IInv, BuiltIsLegal

\* What build returns has substatements it takes and all that it requires: the only
\* step that adds a node.
THEOREM CompleteKeeps == IInv /\ Complete => IInv'
<1> SUFFICES ASSUME IInv, Complete PROVE IInv'
  OBVIOUS
<1>1. InBuild /\ ~ (Inner.next <= Len(Sub(Build))) /\ HasRequired(Build) /\ doc \in Documents
  BY DEF Complete, Reading, IInv
<1>2. Inner \in Frames /\ FrameInv(Inner) /\ Inner.node = Build
  BY <1>1, InnerFrame DEF Build
<1>3. Legal(Build)
  BY <1>1, <1>2, CompleteIsLegal
<1>4. \A n \in complete' : Legal(n)
  BY <1>3 DEF Complete, IInv, BuiltIsLegal
<1>5. Len(stack) # 1 => StackInv(Front(stack))
  BY <1>1, InnerFrame DEF IInv, StackInv, Front
<1>6. StackInv(stack')
  BY <1>5, NoCalls DEF Complete, Ends
<1> QED
  BY <1>4, <1>6, InvariantAfter DEF Complete

\* Every step of build keeps the invariant.
THEOREM InvariantNext == IInv /\ [Next]_vars => IInv'
<1> SUFFICES ASSUME IInv, [Next]_vars PROVE IInv'
  OBVIOUS
<1>1. CASE NoParent \/ Refuse \/ Missing
  BY <1>1, EndKeeps DEF NoParent, Refuse, Missing, Ends
<1>2. CASE UNCHANGED vars
  BY <1>2, InvariantAfter DEF vars, IInv, BuiltIsLegal
<1> QED
  BY <1>1, <1>2, ParseKeeps, FieldKeeps, MetaFieldKeeps, KeepExtensionKeeps, CompleteKeeps
     DEF Next

\* Every node that has been built, of whatever document and also when its file is
\* refused, has only substatements its type takes, single ones once, and all that
\* it must have.
THEOREM BuiltIsLegalAlways == Spec => []BuiltIsLegal
<1>1. IInv => BuiltIsLegal
  BY DEF IInv
<1> QED
  BY <1>1, InvariantInit, InvariantNext, PTL DEF Spec
-----------------------------------------------------------------------------
(* What is under a node *)

\* A set of statements that holds the nodes in its members.
Holds(S) == \A x \in S : NodesIn(x) \subseteq S

\* The least one that x is in.
Least(x) == {y \in Stmts : \A S \in SUBSET Stmts : x \in S /\ Holds(S) => y \in S}

LEMMA NodesInStmts ==
    ASSUME doc \in Documents, NEW n \in Stmts
    PROVE  NodesIn(n) \subseteq Stmts
BY SubOfStmt DEF NodesIn, ToSet

\* It is x and what is in the least sets of its nodes.
LEMMA LeastIs ==
    ASSUME doc \in Documents, NEW x \in Stmts
    PROVE  Least(x) = {x} \cup UNION {Least(c) : c \in NodesIn(x)}
<1> DEFINE T == {x} \cup UNION {Least(c) : c \in NodesIn(x)}
<1>1. NodesIn(x) \subseteq Stmts
  BY NodesInStmts
<1>2. \A y : Least(y) \subseteq Stmts
  BY DEF Least
<1>3. ASSUME NEW y, NEW a \in Least(y)
      PROVE  NodesIn(a) \subseteq Least(y)
  <2>1. NodesIn(a) \subseteq Stmts
    BY <1>2, NodesInStmts
  <2> QED
    BY <2>1 DEF Least, Holds
<1>4. \A c \in NodesIn(x) : c \in Least(c)
  BY <1>1 DEF Least
<1>5. T \subseteq Least(x)
  <2>1. x \in Least(x)
    BY DEF Least
  <2>2. ASSUME NEW c \in NodesIn(x), NEW y \in Least(c)
        PROVE  y \in Least(x)
    <3>1. ASSUME NEW S \in SUBSET Stmts, x \in S, Holds(S)
          PROVE  y \in S
      <4>1. c \in S
        BY <3>1 DEF Holds
      <4> QED
        BY <3>1, <4>1 DEF Least
    <3> QED
      BY <1>2, <3>1 DEF Least
  <2> QED
    BY <2>1, <2>2
<1>6. T \in SUBSET Stmts /\ x \in T
  BY <1>2
<1>7. Holds(T)
  <2> SUFFICES ASSUME NEW a \in T PROVE NodesIn(a) \subseteq T
    BY DEF Holds
  <2>1. CASE a = x
    BY <1>4, <2>1
  <2>2. ASSUME NEW c \in NodesIn(x), a \in Least(c)
        PROVE  NodesIn(a) \subseteq T
    BY <1>3, <2>2
  <2> QED
    BY <2>1, <2>2
<1> HIDE DEF T
<1>8. Least(x) \subseteq T
  BY <1>6, <1>7 DEF Least
<1> QED
  BY <1>5, <1>8 DEF T

\* The recursion of Under has a solution, so that Under satisfies it.
LEMMA UnderIs ==
    ASSUME doc \in Documents, NEW n \in Stmts
    PROVE  Under(n) = {n} \cup UNION {Under(c) : c \in NodesIn(n)}
<1> DEFINE Solves(u) == u = [x \in Stmts |-> {x} \cup UNION {u[c] : c \in NodesIn(x)}]
           U == CHOOSE u : Solves(u)
<1>1. Solves([x \in Stmts |-> Least(x)])
  <2> DEFINE W == [x \in Stmts |-> Least(x)]
  <2>1. ASSUME NEW x \in Stmts
        PROVE  W[x] = {x} \cup UNION {W[c] : c \in NodesIn(x)}
    <3>1. \A c \in NodesIn(x) : W[c] = Least(c)
      BY NodesInStmts
    <3>2. {W[c] : c \in NodesIn(x)} = {Least(c) : c \in NodesIn(x)}
      BY <3>1
    <3> QED
      BY <3>2, LeastIs
  <2> QED
    BY <2>1
<1>2. Solves(U)
  BY <1>1
<1>3. \A x : Under(x) = U[x]
  BY DEF Under
<1> HIDE DEF U
<1>4. U[n] = {n} \cup UNION {U[c] : c \in NodesIn(n)}
  BY <1>2
<1>5. {Under(c) : c \in NodesIn(n)} = {U[c] : c \in NodesIn(n)}
  BY <1>3
<1> QED
  BY <1>3, <1>4, <1>5

LEMMA ValidIs ==
    ASSUME doc \in Documents, NEW n \in Stmts
    PROVE  /\ Valid(n) <=> Legal(n) /\ \A c \in NodesIn(n) : Valid(c)
           /\ n \in Under(n)
           /\ \A c \in NodesIn(n) : Under(c) \subseteq Under(n)
<1>1. Under(n) = {n} \cup UNION {Under(c) : c \in NodesIn(n)}
  BY UnderIs
<1> QED
  BY <1>1 DEF Valid

-----------------------------------------------------------------------------
(* What the types have *)

Kinds ==
    {Module, Import, Include, Revision, BelongsTo, Typedef, TypeStatement, Container,
     Must, Leaf, LeafList, List, Choice, Case, AnyXML, AnyData, Grouping, Uses, Refine,
     RPC, Input, Output, Notification, Augment, Identity, Extension, Argument, Feature,
     Deviation, Deviate, Enum, Bit, RangeStatement, Length, Pattern, Action}

LEMMA NodeTypes == \A k \in DOMAIN NodeType : NodeType[k] \in Kinds
<1>1. \A k \in DOMAIN Unhyphenated : Unhyphenated[k] \in Kinds
  BY DEF Unhyphenated, Kinds
<1>2. LeafList \in Kinds /\ BelongsTo \in Kinds
  BY DEF Kinds
<1> QED
  BY <1>1, <1>2 DEF NodeType

\* No type has a field of its own that is called like a special one.
LEMMA NoMetaFields ==
    ASSUME NEW k
    PROVE  (FieldsOf(k).one \cup FieldsOf(k).many) \cap Meta = {}
<1>1. \A t \in Kinds \cup {Value} : t.one \cap Meta = {} /\ t.many \cap Meta = {}
  BY DEF Module, Import, Include, Revision, BelongsTo, Typedef, TypeStatement, Container,
         Must, Leaf, LeafList, List, Choice, Case, AnyXML, AnyData, Grouping, Uses, Refine,
         RPC, Input, Output, Notification, Augment, Identity, Extension, Argument, Feature,
         Deviation, Deviate, Enum, Bit, RangeStatement, Length, Pattern, Action, Value,
         Fields, DataNodes, Documented, Explained, Meta, Kinds
<1> QED
  BY <1>1, NodeTypes DEF FieldsOf

\* A field has no prefix.
LEMMA NoPrefixedFields ==
    ASSUME NEW k
    PROVE  (FieldsOf(k).one \cup FieldsOf(k).many) \cap Prefixed = {}
<1>1. \A l \in DOMAIN NodeType : NodeType[l].one \cup NodeType[l].many \subseteq Keywords
  BY DEF Keywords, Named
<1>2. Value.one \cup Value.many \subseteq Keywords
  <2>1. "module" \in DOMAIN NodeType /\ NodeType["module"] = Module
    BY DEF NodeType, Unhyphenated
  <2>2. "description" \in Module.one
    BY DEF Module, Fields
  <2>3. "description" \in Keywords
    BY <1>1, <2>1, <2>2
  <2> QED
    BY <2>3 DEF Value, Fields
<1> QED
  BY <1>1, <1>2, PrefixedAssumption DEF FieldsOf

-----------------------------------------------------------------------------
(* What is built and what is refused *)

\* The nodes among the substatements before place k are valid.
ValidBefore(f, k) ==
    \A j \in DOMAIN Sub(f.node) :
        j < k /\ Sub(f.node)[j] \in NodesIn(f.node) => Valid(Sub(f.node)[j])

\* A call of build has seen the Name that it has.
NameInv(f) ==
    f.name # "" =>
        \/ Arg(f.node) = f.name
        \/ \E j \in DOMAIN Sub(f.node) :
              /\ j < f.next
              /\ Kw(Sub(f.node)[j]) = "Name" /\ Arg(Sub(f.node)[j]) = f.name

\* Each call is for the substatement that the call around it has taken last; the
\* nodes taken before are valid.
CallsInv(calls) ==
    /\ calls # <<>> => calls[1].node \in Top /\ Alias(Kw(calls[1].node)) \in Keywords
    /\ \A i \in DOMAIN calls :
          /\ NameInv(calls[i])
          /\ Under(calls[i].node) \subseteq Under(calls[1].node)
          /\ ValidBefore(calls[i], IF i = Len(calls) THEN calls[i].next ELSE calls[i].next - 1)
          /\ i < Len(calls) =>
                /\ calls[i].next - 1 \in DOMAIN Sub(calls[i].node)
                /\ calls[i + 1].node = Sub(calls[i].node)[calls[i].next - 1]

\* What the outcomes say of the statements at the top.
Buildable(n) == Alias(Kw(n)) \in Keywords /\ Valid(n)
OutcomeInv(result) ==
    /\ result \in [Top -> {"none", "built", "error", "panic"}]
    /\ \A n \in Top :
          /\ result[n] = "built" => Buildable(n)
          /\ result[n] \in {"error", "panic"} => ~ Buildable(n)
          /\ result[n] = "panic" => Alias(Kw(n)) \notin Keywords \/ "Parent" \in Seen(n)

AcceptsInv == IInv /\ CallsInv(stack) /\ OutcomeInv(outcome)

LEMMA SameBuilt ==
    ASSUME doc' = doc
    PROVE  /\ \A n : NodesIn(n)' = NodesIn(n) /\ Under(n)' = Under(n)
           /\ \A n : Valid(n)' <=> Valid(n)
           /\ \A n : Buildable(n)' <=> Buildable(n)
           /\ \A f : NameInv(f)' <=> NameInv(f)
           /\ \A f, k : ValidBefore(f, k)' <=> ValidBefore(f, k)
<1>1. /\ Stmts' = Stmts /\ Top' = Top
      /\ \A n : Sub(n)' = Sub(n) /\ Kw(n)' = Kw(n) /\ Arg(n)' = Arg(n)
      /\ \A n : Legal(n)' <=> Legal(n)
  BY SameDocument
<1>2. \A n : NodesIn(n)' = NodesIn(n)
  BY <1>1 DEF NodesIn
<1>3. \A n : Under(n)' = Under(n)
  BY <1>1, <1>2 DEF Under
<1>4. \A n : Valid(n)' <=> Valid(n)
  BY <1>1, <1>3 DEF Valid
<1>5. \A n : Buildable(n)' <=> Buildable(n)
  BY <1>1, <1>4 DEF Buildable
<1>6. \A f : NameInv(f)' <=> NameInv(f)
  BY <1>1 DEF NameInv
<1>7. \A f, k : ValidBefore(f, k)' <=> ValidBefore(f, k)
  BY <1>1, <1>2, <1>4 DEF ValidBefore
<1> QED
  BY <1>2, <1>3, <1>4, <1>5, <1>6, <1>7

\* The invariant after a step: the document is the same.
LEMMA AcceptsAfter ==
    ASSUME IInv', doc' = doc, CallsInv(stack'), OutcomeInv(outcome')
    PROVE  AcceptsInv'
<1>1. CallsInv(stack)'
  BY SameDocument, SameBuilt DEF CallsInv
<1>2. OutcomeInv(outcome)'
  BY SameDocument, SameBuilt DEF OutcomeInv, Seen
<1> QED
  BY <1>1, <1>2 DEF AcceptsInv

LEMMA NoCallsEither == CallsInv(<<>>)
  BY DEF CallsInv

\* A field that the node does not take is not acceptable.
LEMMA RefusedIsNotAcceptable ==
    ASSUME doc \in Documents, NEW f \in Frames, NameInv(f), f.next \in DOMAIN Sub(f.node),
           ~ Taking(f.node, Sub(f.node)[f.next]),
           Kw(Sub(f.node)[f.next]) \notin Prefixed \cup {"Statement", "Parent"},
           Kw(Sub(f.node)[f.next]) = "Name" => f.name # ""
    PROVE  ~ Acceptable(f.node, Sub(f.node)[f.next])
<1> DEFINE n == f.node
           c == Sub(n)[f.next]
<1>1. n \in Stmts /\ f.next \in Nat \ {0}
  BY DEF Frames
<1>2. /\ Kw(c) \notin FieldsOf(Kw(n)).many
      /\ ~ (Kw(c) \in FieldsOf(Kw(n)).one /\ Earlier(n, c) = {})
  BY DEF Taking, Unset, Earlier
<1>3. ASSUME Kw(c) = "Name"
      PROVE  Arg(n) # "" \/ \E x \in Earlier(n, c) : Arg(x) # ""
  <2> SUFFICES ASSUME Arg(n) = "" PROVE \E x \in Earlier(n, c) : Arg(x) # ""
    OBVIOUS
  <2>1. PICK j \in DOMAIN Sub(n) :
            j < f.next /\ Kw(Sub(n)[j]) = "Name" /\ Arg(Sub(n)[j]) # ""
    BY <1>3 DEF NameInv
  <2>2. Sub(n)[j] < c /\ Sub(n)[j] \in ToSet(Sub(n))
    BY <1>1, <2>1, SubOfStmt DEF ToSet
  <2> QED
    BY <1>3, <2>1, <2>2 DEF Earlier
<1> QED
  BY <1>2, <1>3 DEF Acceptable

\* Nor is a statement that is called like the field Parent at the top.
LEMMA NoParentAtTop ==
    ASSUME NEW n \in Top, NEW c, Kw(c) = "Parent"
    PROVE  ~ Acceptable(n, c)
<1>1. "Parent" \notin FieldsOf(Kw(n)).one \cup FieldsOf(Kw(n)).many
  BY NoMetaFields DEF Meta
<1>2. "Parent" \notin Prefixed
  BY PrefixedAssumption DEF Meta
<1> QED
  BY <1>1, <1>2 DEF Acceptable

\* A node that lacks what it must have is not legal.
LEMMA IncompleteIsNotLegal ==
    ASSUME NEW n, ~ HasRequired(n)
    PROVE  ~ Legal(n)
<1>1. DOMAIN RequiredOf = {"module", "submodule"}
  BY DEF RequiredOf
<1>2. RequiredOf["module"] = {"namespace", "prefix"} /\ RequiredOf["submodule"] = {"belongs-to"}
  BY DEF RequiredOf
<1>3. ASSUME Legal(n) PROVE HasRequired(n)
  <2>1. CASE Kw(n) = "module"
    BY <1>1, <1>2, <1>3, <2>1 DEF Legal, Has, Lacks, HasRequired, Alias
  <2>2. CASE Kw(n) = "submodule"
    BY <1>1, <1>2, <1>3, <2>2 DEF Legal, Has, Lacks, HasRequired, Alias
  <2>3. CASE Kw(n) \notin {"module", "submodule"}
    BY <1>1, <1>3, <2>3 DEF Legal, Has, HasRequired, Alias
  <2> QED
    BY <2>1, <2>2, <2>3
<1> QED
  BY <1>3

\* When the innermost call fails, the statement at the top is not one to be built.
LEMMA FailedIsNotBuildable ==
    ASSUME AcceptsInv, InBuild, ~ Legal(Build)
    PROVE  stack[1].node \in Top /\ ~ Buildable(stack[1].node)
<1>1. /\ IInv /\ CallsInv(stack) /\ doc \in Documents
      /\ stack \in Seq(Frames) /\ stack # <<>>
  BY DEF AcceptsInv, IInv, StackInv, InBuild
<1>2. Len(stack) \in DOMAIN stack /\ Build \in Stmts
  BY <1>1, InnerFrame DEF AcceptsInv
<1>3. Under(Build) \subseteq Under(stack[1].node)
  BY <1>1, <1>2 DEF CallsInv, Build, Inner
<1>4. Build \in Under(Build)
  BY <1>1, <1>2, ValidIs
<1> QED
  BY <1>1, <1>3, <1>4 DEF CallsInv, Buildable, Valid

\* The name of a call that has seen one more substatement.
LEMMA NextName ==
    ASSUME doc \in Documents, NEW f \in Frames, NameInv(f), f.next \in DOMAIN Sub(f.node),
           NEW g \in Frames, g.node = f.node, g.next = f.next + 1,
           \/ g.name = f.name
           \/ /\ Kw(Sub(f.node)[f.next]) = "Name"
              /\ g.name = Arg(Sub(f.node)[f.next])
    PROVE  NameInv(g)
<1> DEFINE n == f.node
<1>1. n \in Stmts /\ f.next \in Nat \ {0}
  BY DEF Frames
<1>2. \A j \in DOMAIN Sub(n) : j < f.next => j < f.next + 1
  BY <1>1, SubOfStmt
<1>3. f.next < f.next + 1
  BY <1>1
<1> QED
  BY <1>2, <1>3 DEF NameInv

\* One substatement further: one that is no node, or one that has been built.
LEMMA NextValid ==
    ASSUME doc \in Documents, NEW f \in Frames, f.next \in DOMAIN Sub(f.node),
           ValidBefore(f, f.next), NEW g, g.node = f.node, g.next = f.next + 1,
           Sub(f.node)[f.next] \in NodesIn(f.node) => Valid(Sub(f.node)[f.next])
    PROVE  ValidBefore(g, g.next)
<1>1. f.node \in Stmts /\ f.next \in Nat
  BY DEF Frames
<1>2. \A j \in DOMAIN Sub(f.node) : j < f.next + 1 => j < f.next \/ j = f.next
  BY <1>1, PlacesBefore
<1> QED
  BY <1>2 DEF ValidBefore

-----------------------------------------------------------------------------
(* The steps *)

\* A call of build that begins.
LEMMA FirstCall ==
    ASSUME doc \in Documents, NEW n \in Stmts
    PROVE  /\ NameInv(Frame(n)) /\ Frame(n).node = n /\ Frame(n).next = 1
           /\ ValidBefore(Frame(n), 1)
<1>1. Frame(n).node = n /\ Frame(n).next = 1 /\ Frame(n).name = Arg(n)
  BY DEF Frame
<1>2. \A j \in DOMAIN Sub(n) : ~ (j < 1)
  BY SubOfStmt
<1> QED
  BY <1>1, <1>2 DEF NameInv, ValidBefore

\* The innermost call, one substatement further.
LEMMA TakenFrame ==
    ASSUME IInv, Reading
    PROVE  /\ \E g \in Frames :
                 /\ Taken = [stack EXCEPT ![Len(stack)] = g]
                 /\ g.node = Build /\ g.next = Inner.next + 1 /\ g.name = Inner.name
           /\ \A given \in STRING : \E g \in Frames :
                 /\ [Taken EXCEPT ![Len(stack)].name = given] = [stack EXCEPT ![Len(stack)] = g]
                 /\ g.node = Build /\ g.next = Inner.next + 1 /\ g.name = given
<1>1. Inner \in Frames /\ Inner.node = Build
  BY InnerFrame DEF Reading, Build
<1>2. stack \in Seq(Frames) /\ Len(stack) \in DOMAIN stack
  BY InnerFrame DEF IInv, StackInv, Reading
<1>3. \E g \in Frames :
         /\ Taken = [stack EXCEPT ![Len(stack)] = g]
         /\ g.node = Build /\ g.next = Inner.next + 1 /\ g.name = Inner.name
  <2> DEFINE g == [Inner EXCEPT !.next = @ + 1]
  <2>1. g \in Frames /\ g.node = Build /\ g.next = Inner.next + 1 /\ g.name = Inner.name
    BY <1>1 DEF Frames
  <2>2. Taken = [stack EXCEPT ![Len(stack)] = g]
    BY DEF Taken, Inner
  <2> QED
    BY <2>1, <2>2
<1>4. ASSUME NEW given \in STRING
      PROVE  \E g \in Frames :
                /\ [Taken EXCEPT ![Len(stack)].name = given] = [stack EXCEPT ![Len(stack)] = g]
                /\ g.node = Build /\ g.next = Inner.next + 1 /\ g.name = given
  <2> DEFINE g == [Inner EXCEPT !.next = @ + 1, !.name = given]
  <2>1. g \in Frames /\ g.node = Build /\ g.next = Inner.next + 1 /\ g.name = given
    BY <1>1, FrameFields
  <2>2. [Taken EXCEPT ![Len(stack)].name = given] = [stack EXCEPT ![Len(stack)] = g]
    BY <1>2 DEF Taken, Inner
  <2> QED
    BY <2>1, <2>2
<1> QED
  BY <1>3, <1>4

\* What is known of the innermost call and of those around it.
LEMMA CallsGoOn ==
    ASSUME AcceptsInv, Reading, NEW g \in Frames, g.node = Build, g.next = Inner.next + 1,
           NameInv(g)
    PROVE  LET s == [stack EXCEPT ![Len(stack)] = g]
           IN  /\ Following \notin NodesIn(Build) => CallsInv(s)
               /\ Following \in NodesIn(Build) => CallsInv(Append(s, Frame(Following)))
<1> DEFINE s == [stack EXCEPT ![Len(stack)] = g]
<1>1. PICK n \in Nat \ {0} : n = Len(stack) /\ DOMAIN stack = 1 .. n
  BY InnerFrame DEF AcceptsInv, IInv, StackInv, Reading
<1>2. /\ IInv /\ doc \in Documents /\ stack \in Seq(Frames) /\ InBuild
      /\ Inner = stack[n] /\ Inner \in Frames /\ Build = stack[n].node /\ Build \in Stmts
  BY <1>1, InnerFrame DEF AcceptsInv, IInv, StackInv, Reading, Inner, Build
<1>3. /\ Following = Sub(Build)[Inner.next] /\ Inner.next \in DOMAIN Sub(Build)
      /\ Following \in Stmts
  BY <1>2, FollowingStmt DEF Build
<1>4. s \in Seq(Frames) /\ Len(s) = n /\ DOMAIN s = 1 .. n
  BY <1>1, <1>2
<1>5. \A i \in 1 .. n : s[i] = IF i = n THEN g ELSE stack[i]
  BY <1>1, <1>2
<1>6. \A i \in 1 .. n : s[i].node = stack[i].node
  BY <1>2, <1>5
<1>7. /\ s[1].node \in Top /\ Alias(Kw(s[1].node)) \in Keywords
      /\ \A i \in 1 .. n : Under(s[i].node) \subseteq Under(s[1].node)
      /\ \A i \in 1 .. n : NameInv(s[i])
  <2>1. /\ stack[1].node \in Top /\ Alias(Kw(stack[1].node)) \in Keywords
        /\ \A i \in 1 .. n :
              NameInv(stack[i]) /\ Under(stack[i].node) \subseteq Under(stack[1].node)
    BY <1>1, <1>2 DEF AcceptsInv, CallsInv, InBuild
  <2>2. 1 \in 1 .. n
    OBVIOUS
  <2> QED
    BY <1>5, <1>6, <2>1, <2>2
<1>8. \A i \in 1 .. n : i < n =>
          /\ s[i].next - 1 \in DOMAIN Sub(s[i].node)
          /\ s[i + 1].node = Sub(s[i].node)[s[i].next - 1]
          /\ ValidBefore(s[i], s[i].next - 1)
  <2> SUFFICES ASSUME NEW i \in 1 .. n, i < n
               PROVE  /\ s[i].next - 1 \in DOMAIN Sub(s[i].node)
                      /\ s[i + 1].node = Sub(s[i].node)[s[i].next - 1]
                      /\ ValidBefore(s[i], s[i].next - 1)
    OBVIOUS
  <2>1. i + 1 \in 1 .. n /\ i # n /\ s[i] = stack[i]
    BY <1>5
  <2>2. /\ stack[i].next - 1 \in DOMAIN Sub(stack[i].node)
        /\ stack[i + 1].node = Sub(stack[i].node)[stack[i].next - 1]
        /\ ValidBefore(stack[i], stack[i].next - 1)
    BY <1>1, <2>1 DEF AcceptsInv, CallsInv
  <2> QED
    BY <1>6, <2>1, <2>2
<1>9. s[n] = g /\ ValidBefore(Inner, Inner.next)
  BY <1>1, <1>2, <1>5 DEF AcceptsInv, CallsInv
<1>10. g.next - 1 = Inner.next /\ g.next - 1 \in DOMAIN Sub(g.node)
       /\ Sub(g.node)[g.next - 1] = Following
  <2>1. Inner.next \in Nat
    BY <1>2 DEF Frames
  <2>2. g.next - 1 = Inner.next
    BY <2>1
  <2> QED
    BY <1>3, <2>2
<1> HIDE DEF s
<1>11. ASSUME Following \notin NodesIn(Build)
       PROVE  CallsInv(s)
  <2>1. ValidBefore(g, g.next)
    BY <1>2, <1>3, <1>9, <1>11, NextValid
  <2>2. \A i \in 1 .. n : ValidBefore(s[i], IF i = Len(s) THEN s[i].next ELSE s[i].next - 1)
    BY <1>4, <1>8, <1>9, <2>1
  <2> QED
    BY <1>4, <1>7, <1>8, <2>2 DEF CallsInv
<1>12. ASSUME Following \in NodesIn(Build)
       PROVE  CallsInv(Append(s, Frame(Following)))
  <2> DEFINE r == Append(s, Frame(Following))
  <2>1. /\ Frame(Following) \in Frames /\ Frame(Following).node = Following
        /\ NameInv(Frame(Following)) /\ Frame(Following).next = 1
        /\ ValidBefore(Frame(Following), 1)
    BY <1>2, <1>3, FirstFrame, FirstCall
  <2>2. Len(r) = n + 1 /\ DOMAIN r = 1 .. (n + 1) /\ r[n + 1] = Frame(Following)
    BY <1>4, <2>1
  <2>3. \A i \in 1 .. n : r[i] = s[i]
    BY <1>4, <2>1
  <2>4. Under(Following) \subseteq Under(s[1].node)
    BY <1>2, <1>6, <1>7, <1>12, ValidIs
  <2>5. ValidBefore(g, g.next - 1)
    BY <1>2, <1>9, <1>10 DEF ValidBefore
  <2> HIDE DEF r
  <2>6. \A i \in 1 .. (n + 1) : i \in 1 .. n \/ i = n + 1
    OBVIOUS
  <2>7. 1 \in 1 .. n /\ n \in 1 .. n /\ n + 1 \notin 1 .. n
    OBVIOUS
  <2>8. \A i \in 1 .. (n + 1) : i < n + 1 =>
            /\ r[i].next - 1 \in DOMAIN Sub(r[i].node)
            /\ r[i + 1].node = Sub(r[i].node)[r[i].next - 1]
            /\ ValidBefore(r[i], r[i].next - 1)
    <3> SUFFICES ASSUME NEW i \in 1 .. n
                 PROVE  /\ r[i].next - 1 \in DOMAIN Sub(r[i].node)
                        /\ r[i + 1].node = Sub(r[i].node)[r[i].next - 1]
                        /\ ValidBefore(r[i], r[i].next - 1)
      BY <2>6
    <3>1. CASE i = n
      BY <1>9, <1>10, <2>1, <2>2, <2>3, <2>5, <3>1
    <3>2. CASE i < n
      <4>1. i + 1 \in 1 .. n
        BY <3>2
      <4> QED
        BY <1>8, <2>3, <3>2, <4>1
    <3> QED
      BY <3>1, <3>2
  <2>9. \A i \in 1 .. (n + 1) :
            /\ NameInv(r[i])
            /\ Under(r[i].node) \subseteq Under(r[1].node)
            /\ ValidBefore(r[i], IF i = Len(r) THEN r[i].next ELSE r[i].next - 1)
    <3>1. ASSUME NEW i \in 1 .. n
          PROVE  /\ NameInv(r[i])
                 /\ Under(r[i].node) \subseteq Under(r[1].node)
                 /\ ValidBefore(r[i], IF i = Len(r) THEN r[i].next ELSE r[i].next - 1)
      BY <1>7, <2>2, <2>3, <2>7, <2>8
    <3>2. /\ NameInv(r[n + 1])
          /\ Under(r[n + 1].node) \subseteq Under(r[1].node)
          /\ ValidBefore(r[n + 1], r[n + 1].next)
      BY <2>1, <2>2, <2>3, <2>4, <2>7
    <3> QED
      BY <2>2, <2>6, <3>1, <3>2
  <2>10. r[1].node \in Top /\ Alias(Kw(r[1].node)) \in Keywords
    BY <1>7, <2>3, <2>7
  <2>11. CallsInv(r)
    BY <2>2, <2>8, <2>9, <2>10 DEF CallsInv
  <2> QED
    BY <2>11 DEF r
<1>13. /\ Following \notin NodesIn(Build) => CallsInv(s)
       /\ Following \in NodesIn(Build) => CallsInv(Append(s, Frame(Following)))
  BY <1>11, <1>12, Zenon
<1> QED
  BY <1>13, Zenon DEF s

\* The first call is for a statement at the top that has a type; without one Parse
\* panics.
THEOREM ParseAccepts == AcceptsInv /\ Parse => CallsInv(stack') /\ OutcomeInv(outcome')
<1> SUFFICES ASSUME AcceptsInv, Parse PROVE CallsInv(stack') /\ OutcomeInv(outcome')
  OBVIOUS
<1> DEFINE n == Head(files)
<1>1. doc \in Documents /\ n \in Top /\ n \in Stmts
  BY DEF AcceptsInv, IInv, Parse, ToSet
<1>2. CASE Alias(Kw(n)) \in Keywords
  <2>1. stack' = <<Frame(n)>> /\ outcome' = outcome
    BY <1>2 DEF Parse
  <2>2. CallsInv(<<Frame(n)>>)
    BY <1>1, <1>2, FirstCall DEF CallsInv
  <2> QED
    BY <2>1, <2>2 DEF AcceptsInv
<1>3. CASE Alias(Kw(n)) \notin Keywords
  <2>1. stack' = <<>> /\ outcome' = [outcome EXCEPT ![n] = "panic"]
    BY <1>3 DEF Parse
  <2>2. ~ Buildable(n)
    BY <1>3 DEF Buildable
  <2> QED
    BY <1>1, <1>3, <2>1, <2>2, NoCallsEither DEF AcceptsInv, OutcomeInv
<1> QED
  BY <1>2, <1>3

\* The call for a field is for a node of the one in progress.
THEOREM FieldAccepts == AcceptsInv /\ Field => CallsInv(stack') /\ OutcomeInv(outcome')
<1> SUFFICES ASSUME AcceptsInv, Field PROVE CallsInv(stack') /\ OutcomeInv(outcome')
  OBVIOUS
<1>1. IInv /\ doc \in Documents /\ Reading /\ Kw(Following) \notin Meta /\ Taking(Build, Following)
  BY DEF AcceptsInv, IInv, Field
<1>2. PICK g \in Frames :
          /\ Taken = [stack EXCEPT ![Len(stack)] = g]
          /\ g.node = Build /\ g.next = Inner.next + 1 /\ g.name = Inner.name
  BY <1>1, TakenFrame
<1>3. /\ Following = Sub(Inner.node)[Inner.next] /\ Inner.next \in DOMAIN Sub(Inner.node)
      /\ Inner \in Frames /\ Inner.node = Build /\ NameInv(Inner)
      /\ Following \in ToSet(Sub(Build))
  BY <1>1, FollowingStmt, InnerFrame DEF Reading, Build, Inner, AcceptsInv, CallsInv, ToSet
<1>4. NameInv(g)
  BY <1>1, <1>2, <1>3, NextName
<1>5. Kw(Following) \notin Prefixed
  BY <1>1, NoPrefixedFields DEF Taking
<1>6. Following \in NodesIn(Build)
  BY <1>1, <1>3, <1>5 DEF NodesIn
<1> QED
  BY <1>1, <1>2, <1>4, <1>6, CallsGoOn DEF Field, AcceptsInv

\* A call that goes on without another: the substatement is no node.
LEMMA GoesOn ==
    ASSUME AcceptsInv, Reading, Kw(Following) \in Prefixed \cup Meta, NEW g \in Frames,
           g.node = Build, g.next = Inner.next + 1,
           g.name = Inner.name \/ (Kw(Following) = "Name" /\ g.name = Arg(Following)),
           stack' = [stack EXCEPT ![Len(stack)] = g], outcome' = outcome
    PROVE  CallsInv(stack') /\ OutcomeInv(outcome')
<1>1. IInv /\ doc \in Documents
  BY DEF AcceptsInv, IInv
<1>2. /\ Following = Sub(Inner.node)[Inner.next] /\ Inner.next \in DOMAIN Sub(Inner.node)
      /\ Inner \in Frames /\ Inner.node = Build /\ NameInv(Inner)
  BY <1>1, FollowingStmt, InnerFrame DEF Reading, Build, Inner, AcceptsInv, CallsInv
<1>3. NameInv(g)
  BY <1>1, <1>2, NextName
<1>4. Following \notin NodesIn(Build)
  BY DEF NodesIn
<1> QED
  BY <1>3, <1>4, CallsGoOn DEF AcceptsInv

\* The special fields.
THEOREM MetaFieldAccepts == AcceptsInv /\ MetaField => CallsInv(stack') /\ OutcomeInv(outcome')
<1> SUFFICES ASSUME AcceptsInv, MetaField PROVE CallsInv(stack') /\ OutcomeInv(outcome')
  OBVIOUS
<1> DEFINE given == IF Kw(Following) = "Name" THEN Arg(Following) ELSE Inner.name
<1>1. IInv /\ doc \in Documents /\ Reading /\ Kw(Following) \in Meta /\ outcome' = outcome
  BY DEF AcceptsInv, IInv, MetaField, Meta
<1>2. Inner \in Frames /\ Following \in Stmts
  BY <1>1, FollowingStmt, InnerFrame DEF Reading
<1>3. given \in STRING
  BY <1>1, <1>2, Numbered DEF Frames
<1>4. stack' = [Taken EXCEPT ![Len(stack)].name = given]
  <2>1. stack \in Seq(Frames) /\ Len(stack) \in DOMAIN stack
    BY <1>1, InnerFrame DEF IInv, StackInv, Reading
  <2>2. Taken[Len(stack)] = [Inner EXCEPT !.next = @ + 1]
    BY <2>1 DEF Taken, Inner
  <2>3. Taken[Len(stack)].name = Inner.name
    BY <1>2, <2>2 DEF Frames
  <2> QED
    BY <2>3 DEF MetaField
<1> HIDE DEF given
<1>5. PICK g \in Frames :
          /\ [Taken EXCEPT ![Len(stack)].name = given] = [stack EXCEPT ![Len(stack)] = g]
          /\ g.node = Build /\ g.next = Inner.next + 1 /\ g.name = given
  BY <1>1, <1>3, TakenFrame
<1>6. g.name = Inner.name \/ (Kw(Following) = "Name" /\ g.name = Arg(Following))
  BY <1>5 DEF given
<1> QED
  BY <1>1, <1>4, <1>5, <1>6, GoesOn

\* A keyword with a prefix.
THEOREM KeepExtensionAccepts ==
    AcceptsInv /\ KeepExtension => CallsInv(stack') /\ OutcomeInv(outcome')
<1> SUFFICES ASSUME AcceptsInv, KeepExtension PROVE CallsInv(stack') /\ OutcomeInv(outcome')
  OBVIOUS
<1>1. /\ IInv /\ Reading /\ Kw(Following) \in Prefixed
      /\ stack' = Taken /\ outcome' = outcome
  BY DEF AcceptsInv, KeepExtension
<1>2. PICK g \in Frames :
          /\ Taken = [stack EXCEPT ![Len(stack)] = g]
          /\ g.node = Build /\ g.next = Inner.next + 1 /\ g.name = Inner.name
  BY <1>1, TakenFrame
<1> QED
  BY <1>1, <1>2, GoesOn

\* The statement at the top is refused.
LEMMA FailedAccepts ==
    ASSUME AcceptsInv, InBuild, ~ Legal(Build), NEW result \in {"error", "panic"},
           Ends(result), result = "panic" => "Parent" \in Seen(stack[1].node)
    PROVE  CallsInv(stack') /\ OutcomeInv(outcome')
<1> DEFINE n == stack[1].node
<1>1. n \in Top /\ ~ Buildable(n)
  BY FailedIsNotBuildable
<1>2. stack' = <<>> /\ outcome' = [outcome EXCEPT ![n] = result]
  BY DEF Ends
<1>3. OutcomeInv([outcome EXCEPT ![n] = result])
  BY <1>1 DEF AcceptsInv, OutcomeInv
<1> QED
  BY <1>2, <1>3, NoCallsEither

\* Parent in a statement at the top.
THEOREM NoParentAccepts == AcceptsInv /\ NoParent => CallsInv(stack') /\ OutcomeInv(outcome')
<1> SUFFICES ASSUME AcceptsInv, NoParent PROVE CallsInv(stack') /\ OutcomeInv(outcome')
  OBVIOUS
<1>1. /\ IInv /\ doc \in Documents /\ Reading /\ InBuild
      /\ Kw(Following) = "Parent" /\ Ends("panic") /\ Build = stack[1].node
  BY DEF AcceptsInv, IInv, NoParent, Reading, Build, Inner
<1>2. Build \in Top /\ Following \in ToSet(Sub(Build))
  BY <1>1, FollowingStmt DEF AcceptsInv, CallsInv, InBuild, Build, ToSet
<1>3. ~ Legal(Build)
  BY <1>1, <1>2, NoParentAtTop DEF Legal
<1>4. "Parent" \in Seen(Build)
  BY <1>1, <1>2 DEF Seen
<1> QED
  BY <1>1, <1>3, <1>4, FailedAccepts

\* A substatement that the node does not take.
THEOREM RefuseAccepts == AcceptsInv /\ Refuse => CallsInv(stack') /\ OutcomeInv(outcome')
<1> SUFFICES ASSUME AcceptsInv, Refuse PROVE CallsInv(stack') /\ OutcomeInv(outcome')
  OBVIOUS
<1>1. /\ IInv /\ doc \in Documents /\ Reading /\ InBuild /\ Ends("error")
      /\ ~ Taking(Build, Following)
      /\ Kw(Following) \notin Prefixed \cup {"Statement", "Parent"}
      /\ Kw(Following) = "Name" => Inner.name # ""
  BY DEF AcceptsInv, IInv, Refuse, Reading
<1>2. /\ Following = Sub(Inner.node)[Inner.next] /\ Inner.next \in DOMAIN Sub(Inner.node)
      /\ Inner \in Frames /\ Inner.node = Build /\ NameInv(Inner)
      /\ Following \in ToSet(Sub(Build))
  BY <1>1, FollowingStmt, InnerFrame DEF Build, Inner, AcceptsInv, CallsInv, ToSet
<1>3. ~ Acceptable(Build, Following)
  BY <1>1, <1>2, RefusedIsNotAcceptable
<1>4. ~ Legal(Build)
  BY <1>2, <1>3 DEF Legal
<1> QED
  BY <1>1, <1>4, FailedAccepts

\* A node that lacks what it must have.
THEOREM MissingAccepts == AcceptsInv /\ Missing => CallsInv(stack') /\ OutcomeInv(outcome')
<1> SUFFICES ASSUME AcceptsInv, Missing PROVE CallsInv(stack') /\ OutcomeInv(outcome')
  OBVIOUS
<1>1. InBuild /\ Ends("error") /\ ~ Legal(Build)
  BY IncompleteIsNotLegal DEF Missing
<1> QED
  BY <1>1, FailedAccepts

\* A node that is complete is valid, and one more of the call around it.
THEOREM CompleteAccepts == AcceptsInv /\ Complete => CallsInv(stack') /\ OutcomeInv(outcome')
<1> SUFFICES ASSUME AcceptsInv, Complete PROVE CallsInv(stack') /\ OutcomeInv(outcome')
  OBVIOUS
<1>1. PICK n \in Nat \ {0} : n = Len(stack) /\ DOMAIN stack = 1 .. n
  BY InnerFrame DEF AcceptsInv, IInv, StackInv, Complete
<1>2. /\ IInv /\ doc \in Documents /\ stack \in Seq(Frames) /\ InBuild
      /\ Inner = stack[n] /\ Inner \in Frames /\ Build = stack[n].node /\ Build \in Stmts
      /\ Inner.node = Build /\ FrameInv(Inner)
      /\ ~ (Inner.next <= Len(Sub(Build))) /\ HasRequired(Build)
  BY <1>1, InnerFrame DEF AcceptsInv, IInv, StackInv, Complete, Reading, Inner, Build
<1>3. Legal(Build)
  BY <1>2, CompleteIsLegal
<1>4. Valid(Build)
  <2>1. ValidBefore(Inner, Inner.next)
    BY <1>1, <1>2 DEF AcceptsInv, CallsInv
  <2>2. \A j \in DOMAIN Sub(Build) : j < Inner.next
    <3>1. Inner.next \in Nat
      BY <1>2 DEF Frames
    <3> QED
      BY <1>2, <3>1, SubOfStmt
  <2>3. \A c \in NodesIn(Build) : Valid(c)
    BY <1>2, <2>1, <2>2 DEF ValidBefore, NodesIn, ToSet
  <2> QED
    BY <1>2, <1>3, <2>3, ValidIs
<1>5. CASE n = 1
  <2>1. stack' = <<>> /\ outcome' = [outcome EXCEPT ![Build] = "built"]
    BY <1>1, <1>2, <1>5 DEF Complete, Ends
  <2>2. Build \in Top /\ Buildable(Build)
    BY <1>2, <1>4, <1>5 DEF AcceptsInv, CallsInv, InBuild, Buildable
  <2>3. OutcomeInv([outcome EXCEPT ![Build] = "built"])
    BY <2>2 DEF AcceptsInv, OutcomeInv
  <2> QED
    BY <2>1, <2>3, NoCallsEither
<1>6. CASE n # 1
  <2> DEFINE s == Front(stack)
  <2>1. stack' = s /\ outcome' = outcome
    BY <1>1, <1>6 DEF Complete
  <2>2. s \in Seq(Frames) /\ Len(s) = n - 1 /\ DOMAIN s = 1 .. (n - 1)
        /\ \A i \in 1 .. (n - 1) : s[i] = stack[i]
    BY <1>1, <1>2, <1>6 DEF Front
  <2>3. \A i \in 1 .. (n - 1) : i \in 1 .. n /\ i # n /\ i < n
    BY <1>1
  <2>4. \A i \in 1 .. n :
           /\ NameInv(stack[i])
           /\ Under(stack[i].node) \subseteq Under(stack[1].node)
           /\ i # n => ValidBefore(stack[i], stack[i].next - 1)
           /\ i < n =>
                 /\ stack[i].next - 1 \in DOMAIN Sub(stack[i].node)
                 /\ stack[i + 1].node = Sub(stack[i].node)[stack[i].next - 1]
    BY <1>1, <1>2 DEF AcceptsInv, CallsInv
  <2>5. 1 \in 1 .. (n - 1) /\ n - 1 \in 1 .. n /\ n - 1 < n /\ n - 1 + 1 = n /\ n - 1 # n
    BY <1>1, <1>6
  <2>6. PICK m \in Nat : m = n - 1
    BY <2>5
  <2>7. ValidBefore(stack[m], stack[m].next)
    <3> DEFINE f == stack[m]
    <3>1. /\ ValidBefore(f, f.next - 1) /\ f.next - 1 \in DOMAIN Sub(f.node)
          /\ Sub(f.node)[f.next - 1] = Build
      BY <1>2, <2>4, <2>5, <2>6
    <3>2. f \in Frames
      BY <1>1, <1>2, <2>5, <2>6
    <3>3. f.node \in Stmts /\ f.next \in Nat /\ f.next - 1 \in Nat
      <4>1. f.node \in Stmts /\ f.next \in Nat \ {0}
        BY <3>2 DEF Frames
      <4>2. \A k \in Nat \ {0} : k - 1 \in Nat
        OBVIOUS
      <4> HIDE DEF f
      <4> QED
        BY <4>1, <4>2
    <3>4. \A j \in DOMAIN Sub(f.node) : j < f.next => j < f.next - 1 \/ j = f.next - 1
      <4>1. \A j \in DOMAIN Sub(f.node) : j \in Nat
        <5>1. Sub(f.node) \in Seq(Stmts)
          BY <1>2, <3>3, SubOfStmt
        <5>2. \A q \in Seq(Stmts) : \A j \in DOMAIN q : j \in Nat
          OBVIOUS
        <5> QED
          BY <5>1, <5>2
      <4> QED
        BY <3>3, <4>1
    <3> QED
      BY <1>4, <3>1, <3>4 DEF ValidBefore
  <2> HIDE DEF s
  <2>8. \A i \in 1 .. m : ValidBefore(s[i], IF i = Len(s) THEN s[i].next ELSE s[i].next - 1)
    BY <2>2, <2>3, <2>4, <2>6, <2>7
  <2>9. \A i \in 1 .. m : NameInv(s[i]) /\ Under(s[i].node) \subseteq Under(s[1].node)
    BY <2>2, <2>3, <2>4, <2>5, <2>6
  <2>10. \A i \in 1 .. m : i < m => i + 1 \in 1 .. m
    BY <2>6
  <2>11. \A i \in 1 .. m : i < m =>
            /\ s[i].next - 1 \in DOMAIN Sub(s[i].node)
            /\ s[i + 1].node = Sub(s[i].node)[s[i].next - 1]
    BY <2>2, <2>3, <2>4, <2>6, <2>10
  <2>12. s[1].node \in Top /\ Alias(Kw(s[1].node)) \in Keywords
    BY <1>2, <2>2, <2>5 DEF AcceptsInv, CallsInv, InBuild
  <2>13. CallsInv(s)
    BY <2>2, <2>6, <2>8, <2>9, <2>11, <2>12 DEF CallsInv
  <2> QED
    BY <2>1, <2>13 DEF AcceptsInv
<1> QED
  BY <1>5, <1>6

THEOREM AcceptsNext == AcceptsInv /\ [Next]_vars => AcceptsInv'
<1> SUFFICES ASSUME AcceptsInv, [Next]_vars PROVE AcceptsInv'
  OBVIOUS
<1>1. IInv'
  BY InvariantNext DEF AcceptsInv
<1>2. doc' = doc
  BY DEF Next, Parse, Field, MetaField, NoParent, KeepExtension, Refuse, Missing, Complete, vars
<1>3. CallsInv(stack') /\ OutcomeInv(outcome')
  <2>1. CASE UNCHANGED vars
    BY <2>1 DEF AcceptsInv, vars
  <2> QED
    BY <2>1, ParseAccepts, FieldAccepts, MetaFieldAccepts, NoParentAccepts,
       KeepExtensionAccepts, RefuseAccepts, MissingAccepts, CompleteAccepts DEF Next
<1> QED
  BY <1>1, <1>2, <1>3, AcceptsAfter

\* Of whatever documents, build accepts exactly the statements at the top that have a
\* type and are valid all the way down, and panics only for the two causes named.
THEOREM AcceptsCorrect == Spec => []Accepts
<1>1. Init => AcceptsInv
  <2> SUFFICES ASSUME Init PROVE AcceptsInv
    OBVIOUS
  <2>1. CallsInv(stack)
    BY NoCallsEither DEF Init
  <2>2. OutcomeInv(outcome)
    BY DEF Init, OutcomeInv
  <2> QED
    BY <2>1, <2>2, InvariantInit DEF AcceptsInv
<1>2. AcceptsInv => Accepts
  BY DEF AcceptsInv, OutcomeInv, Buildable, Accepts, Finished
<1> QED
  BY <1>1, <1>2, AcceptsNext, PTL DEF Spec

-----------------------------------------------------------------------------
(* Trees *)

\* A set of numbers that is not empty has a least one.
LEMMA LeastNatural ==
    ASSUME NEW T, T \subseteq Nat, T # {}
    PROVE  \E n \in T : \A m \in T : n <= m
<1> DEFINE R == OpToRel(<, Nat)
<1>1. IsWellFoundedOn(R, Nat)
  BY NatLessThanWellFounded
<1>2. \A x, y \in Nat : x < y => <<x, y>> \in R
  BY DEF OpToRel
<1> HIDE DEF R
<1>3. PICK n \in T : \A m \in T : ~ (<<m, n>> \in R)
  BY <1>1, WFMin
<1>4. \A m \in T : ~ (m < n)
  BY <1>2, <1>3
<1> QED
  BY <1>4

\* Among statements there is one that is written last.
LEMMA LatestStmt ==
    ASSUME doc \in Documents, NEW T, T \subseteq Stmts, T # {}
    PROVE  \E x \in T : \A y \in T : y <= x
<1> DEFINE last == Len(doc.stmt)
           L == {last - x : x \in T}
<1>1. last \in Nat /\ \A x \in T : x \in 1 .. last
  BY Numbered
<1>2. L \subseteq Nat /\ L # {}
  BY <1>1
<1>3. PICK k \in L : \A l \in L : k <= l
  BY <1>2, LeastNatural
<1>4. PICK x \in T : k = last - x
  BY <1>3
<1>5. \A y \in T : last - x <= last - y
  BY <1>3, <1>4
<1> HIDE DEF last
<1>6. \A y \in T : y <= x
  BY <1>1, <1>5
<1> QED
  BY <1>6

\* A node is written after the statement it is in, which is one only.
LEMMA NodeFacts ==
    ASSUME doc \in Documents, NEW p \in Stmts, NEW y \in NodesIn(p)
    PROVE  /\ y \in Stmts /\ p < y /\ y \notin Top
           /\ \E j \in DOMAIN Sub(p) : Sub(p)[j] = y
           /\ \A q \in Stmts : y \in NodesIn(q) => q = p
<1>1. PICK j \in DOMAIN Sub(p) : Sub(p)[j] = y
  BY DEF NodesIn, ToSet
<1>2. y \in Stmts /\ y \notin Top
  BY <1>1, SubOfStmt
<1>3. p < y
  BY <1>1, DocumentsAssumption DEF Stmts, Sub
<1>4. ASSUME NEW q \in Stmts, y \in NodesIn(q)
      PROVE  q = p
  <2>1. y \in ToSet(Sub(p)) \cap ToSet(Sub(q))
    BY <1>4 DEF NodesIn
  <2> QED
    BY <2>1, DocumentsAssumption DEF Stmts, Sub
<1> QED
  BY <1>1, <1>2, <1>3, <1>4

\* What is under a node is written after it, has under it what is under the node too,
\* and, but for the node itself, is in something under it.
Rooted(x) ==
    /\ Under(x) \subseteq Stmts
    /\ \A y \in Under(x) :
          /\ x <= y /\ Under(y) \subseteq Under(x)
          /\ y = x \/ \E p \in Under(x) : y \in NodesIn(p)

\* What is under a statement is a tree, with the statement at its root.
LEMMA UnderRooted ==
    ASSUME doc \in Documents, NEW n \in Stmts
    PROVE  Rooted(n) /\ n \in Under(n)
<1> DEFINE T == {x \in Stmts : ~ Rooted(x)}
<1>1. ASSUME NEW x \in T, \A y \in T : y <= x
      PROVE  FALSE
  <2>1. x \in Stmts /\ Stmts \subseteq Nat
    BY SubOfStmt
  <2>2. Under(x) = {x} \cup UNION {Under(c) : c \in NodesIn(x)}
    BY <2>1, UnderIs
  <2>3. \A c \in NodesIn(x) : c \in Stmts /\ x < c /\ Rooted(c)
    <3>1. \A c \in NodesIn(x) : c \in Stmts /\ x < c
      BY <2>1, NodeFacts
    <3>2. \A c \in Stmts : x < c => c \notin T
      BY <1>1, <2>1
    <3> QED
      BY <3>1, <3>2
  <2>4. Under(x) \subseteq Stmts
    BY <2>1, <2>2, <2>3 DEF Rooted
  <2>5. ASSUME NEW y \in Under(x)
        PROVE  /\ x <= y /\ Under(y) \subseteq Under(x)
               /\ y = x \/ \E p \in Under(x) : y \in NodesIn(p)
    <3>1. CASE y = x
      BY <2>1, <3>1
    <3>2. ASSUME NEW c \in NodesIn(x), y \in Under(c)
          PROVE  /\ x <= y /\ Under(y) \subseteq Under(x)
                 /\ \E p \in Under(x) : y \in NodesIn(p)
      <4>1. c <= y /\ Under(y) \subseteq Under(c) /\ y \in Nat /\ c \in Nat
        BY <2>1, <2>3, <2>4, <3>2 DEF Rooted
      <4>2. x <= y
        BY <2>1, <2>3, <4>1
      <4>3. Under(c) \subseteq Under(x)
        BY <2>2
      <4>4. y = c \/ \E p \in Under(c) : y \in NodesIn(p)
        BY <2>3, <3>2 DEF Rooted
      <4>5. x \in Under(x)
        BY <2>2
      <4> QED
        BY <4>1, <4>2, <4>3, <4>4, <4>5
    <3> QED
      BY <2>2, <3>1, <3>2
  <2> QED
    BY <2>4, <2>5 DEF Rooted
<1>2. T \subseteq Stmts
  OBVIOUS
<1> HIDE DEF T
<1>3. T = {}
  BY <1>1, <1>2, LatestStmt
<1> QED
  BY <1>3, ValidIs DEF T

\* Of two nodes that are not under each other nothing is under both.
LEMMA Apart ==
    ASSUME doc \in Documents, NEW a \in Stmts, NEW b \in Stmts,
           a \notin Under(b), b \notin Under(a)
    PROVE  Under(a) \cap Under(b) = {}
<1> SUFFICES ASSUME Under(a) \cap Under(b) # {} PROVE FALSE
  OBVIOUS
<1>1. Rooted(a) /\ Rooted(b) /\ Stmts \subseteq Nat
  BY UnderRooted, SubOfStmt
<1>2. Under(a) \cap Under(b) \subseteq Nat
  BY <1>1 DEF Rooted
<1>3. PICK y \in Under(a) \cap Under(b) : \A x \in Under(a) \cap Under(b) : y <= x
  BY <1>2, LeastNatural
<1>4. PICK p \in Under(a) : y \in NodesIn(p)
  BY <1>1, <1>3 DEF Rooted
<1>5. PICK q \in Under(b) : y \in NodesIn(q)
  BY <1>1, <1>3 DEF Rooted
<1>6. p \in Stmts /\ q \in Stmts
  BY <1>1 DEF Rooted
<1>7. p = q /\ p < y
  BY <1>4, <1>5, <1>6, NodeFacts
<1>8. y <= p /\ y \in Nat /\ p \in Nat
  BY <1>1, <1>2, <1>3, <1>6, <1>7
<1> QED
  BY <1>7, <1>8

\* What a node z of y is under is z itself, or y is under it too.
LEMMA OnTheWay ==
    ASSUME doc \in Documents, NEW y \in Stmts, NEW z \in NodesIn(y), NEW c \in Stmts, z \in Under(c)
    PROVE  z = c \/ y \in Under(c)
<1>1. Rooted(c)
  BY UnderRooted
<1>2. CASE z # c
  <2>1. PICK p \in Under(c) : z \in NodesIn(p)
    BY <1>1, <1>2 DEF Rooted
  <2>2. p \in Stmts
    BY <1>1 DEF Rooted
  <2> QED
    BY <2>1, <2>2, NodeFacts
<1> QED
  BY <1>2

\* Nodes of one node, and statements at the top, are not under each other.
LEMMA SiblingsApart ==
    ASSUME doc \in Documents, NEW p \in Stmts, NEW c \in NodesIn(p), NEW e \in NodesIn(p), c # e
    PROVE  Under(c) \cap Under(e) = {}
<1>1. c \in Stmts /\ e \in Stmts /\ p < c /\ p < e /\ Stmts \subseteq Nat
  BY NodeFacts, SubOfStmt
<1>2. p \notin Under(c) /\ p \notin Under(e)
  <2>1. \A y \in Under(c) : c <= y
    BY <1>1, UnderRooted DEF Rooted
  <2>2. \A y \in Under(e) : e <= y
    BY <1>1, UnderRooted DEF Rooted
  <2> QED
    BY <1>1, <2>1, <2>2
<1>3. c \notin Under(e) /\ e \notin Under(c)
  BY <1>1, <1>2, OnTheWay
<1> QED
  BY <1>1, <1>3, Apart

\* The trees of two statements at the top share nothing.
LEMMA TopsApart ==
    ASSUME doc \in Documents, NEW n \in Top, NEW m \in Top, n # m
    PROVE  Under(n) \cap Under(m) = {}
<1>1. Top \subseteq Stmts
  BY DocumentsAssumption DEF Top, Stmts, ToSet
<1>2. \A a, b \in Top : a # b => a \notin Under(b)
  <2> SUFFICES ASSUME NEW a \in Top, NEW b \in Top, a # b, a \in Under(b) PROVE FALSE
    OBVIOUS
  <2>1. Rooted(b)
    BY <1>1, UnderRooted
  <2>2. PICK p \in Under(b) : a \in NodesIn(p)
    BY <2>1 DEF Rooted
  <2>3. p \in Stmts
    BY <2>1 DEF Rooted
  <2> QED
    BY <2>2, <2>3, NodeFacts
<1> QED
  BY <1>1, <1>2, Apart

-----------------------------------------------------------------------------
(* The calls in progress on the way through a tree *)

\* The place after the last substatement that a call is done with.
Passed(calls, i) == IF i = Len(calls) THEN calls[i].next ELSE calls[i].next - 1

\* x is under a node that the call has passed, or that it has still to come to.
Behind(calls, i, x) ==
    \E j \in DOMAIN Sub(calls[i].node) :
        /\ j < Passed(calls, i)
        /\ Sub(calls[i].node)[j] \in NodesIn(calls[i].node) /\ x \in Under(Sub(calls[i].node)[j])
Ahead(calls, i, x) ==
    \E j \in DOMAIN Sub(calls[i].node) :
        /\ calls[i].next <= j
        /\ Sub(calls[i].node)[j] \in NodesIn(calls[i].node) /\ x \in Under(Sub(calls[i].node)[j])

Done(calls, x) == \E i \in DOMAIN calls : Behind(calls, i, x)

\* What is above call i is the calls around it, and each x is in one of three places.
Above(calls, i) ==
    \A a \in Under(calls[1].node) : \A c \in NodesIn(a) :
        calls[i].node \in Under(c) =>
            \E k \in 1 .. i - 1 : a = calls[k].node /\ c = calls[k + 1].node
Placed(calls, x) ==
    \E i \in DOMAIN calls : Behind(calls, i, x) \/ x = calls[i].node \/ Ahead(calls, i, x)

PathInv(calls) ==
    /\ \A i \in DOMAIN calls :
          /\ i < Len(calls) => calls[i + 1].node \in NodesIn(calls[i].node)
          /\ \A k \in 1 .. i : calls[i].node \in Under(calls[k].node)
          /\ Above(calls, i)
    /\ \A x \in Under(calls[1].node) : Placed(calls, x)

\* Calls whose innermost is at the place next.
IsCalls(calls, n) ==
    /\ n \in Nat \ {0} /\ Len(calls) = n /\ DOMAIN calls = 1 .. n
    /\ \A i \in 1 .. n : calls[i].node \in Stmts /\ calls[i].next \in Nat \ {0}

\* Substatements are in the places 1 to their number, and statements are numbers.
LEMMA Places ==
    ASSUME doc \in Documents
    PROVE  Stmts \subseteq Nat /\ \A p \in Stmts : \A j \in DOMAIN Sub(p) : j \in Nat /\ 1 <= j
<1>1. Stmts \subseteq Nat
  BY Numbered
<1>2. ASSUME NEW p \in Stmts, NEW j \in DOMAIN Sub(p) PROVE j \in Nat /\ 1 <= j
  BY SubOfStmt
<1> QED
  BY <1>1, <1>2

\* The first call is a path of its own, with nothing behind it.
LEMMA PathBegins ==
    ASSUME doc \in Documents, NEW calls, IsCalls(calls, 1), calls[1].next = 1
    PROVE  PathInv(calls) /\ \A x : ~ Done(calls, x)
<1> DEFINE n == calls[1].node
<1>1. n \in Stmts /\ 1 \in DOMAIN calls /\ \A i \in DOMAIN calls : i = 1
  BY DEF IsCalls
<1>2. Rooted(n) /\ n \in Under(n) /\ Stmts \subseteq Nat
  BY <1>1, UnderRooted, Places
<1>3. \A j \in DOMAIN Sub(n) : j \in Nat /\ 1 <= j
  BY <1>1, Places
<1>4. Above(calls, 1)
  <2> SUFFICES ASSUME NEW a \in Under(n), NEW c \in NodesIn(a), n \in Under(c) PROVE FALSE
    BY DEF Above
  <2>1. a \in Stmts /\ n <= a
    BY <1>2 DEF Rooted
  <2>2. c \in Stmts /\ a < c
    BY <2>1, NodeFacts
  <2>3. c <= n
    BY <2>2, UnderRooted DEF Rooted
  <2>4. \A p, q, r \in Nat : p <= q /\ q < r => ~ (r <= p)
    OBVIOUS
  <2>5. n \in Nat /\ a \in Nat /\ c \in Nat
    BY <1>1, <1>2, <2>1, <2>2
  <2> QED
    BY <2>1, <2>2, <2>3, <2>4, <2>5
<1>5. \A x : ~ Behind(calls, 1, x)
  BY <1>3 DEF Behind, Passed, IsCalls
<1>6. ASSUME NEW x \in Under(n) PROVE Placed(calls, x)
  <2>1. Under(n) = {n} \cup UNION {Under(c) : c \in NodesIn(n)}
    BY <1>1, UnderIs
  <2>2. ASSUME NEW c \in NodesIn(n), x \in Under(c)
        PROVE  Ahead(calls, 1, x)
    <3>1. PICK j \in DOMAIN Sub(n) : Sub(n)[j] = c
      BY <1>1, NodeFacts
    <3> QED
      BY <1>3, <2>2, <3>1 DEF Ahead
  <2> QED
    BY <1>1, <2>1, <2>2 DEF Placed
<1>7. \A i \in DOMAIN calls :
         /\ i < Len(calls) => calls[i + 1].node \in NodesIn(calls[i].node)
         /\ \A k \in 1 .. i : calls[i].node \in Under(calls[k].node)
         /\ Above(calls, i)
  BY <1>1, <1>2, <1>4 DEF IsCalls
<1> QED
  BY <1>1, <1>5, <1>6, <1>7 DEF PathInv, Done

\* The innermost call goes on past a substatement that is no node.
LEMMA PathGoesOn ==
    ASSUME doc \in Documents, NEW n, NEW calls, IsCalls(calls, n), PathInv(calls),
           NEW s, IsCalls(s, n),
           \A i \in 1 .. n : s[i].node = calls[i].node,
           \A i \in 1 .. n : i # n => s[i].next = calls[i].next,
           s[n].next = calls[n].next + 1,
           calls[n].next \in DOMAIN Sub(calls[n].node),
           Sub(calls[n].node)[calls[n].next] \notin NodesIn(calls[n].node)
    PROVE  PathInv(s) /\ \A x : Done(s, x) <=> Done(calls, x)
<1>1. /\ n \in Nat \ {0} /\ Len(s) = n /\ Len(calls) = n /\ DOMAIN s = 1 .. n /\ DOMAIN calls = 1 .. n
      /\ 1 \in 1 .. n
  BY DEF IsCalls
<1>2. calls[n].next \in Nat /\ \A j \in DOMAIN Sub(calls[n].node) : j \in Nat
  <2>1. calls[n].next \in Nat \ {0} /\ calls[n].node \in Stmts
    BY DEF IsCalls
  <2> QED
    BY <2>1, Places
<1>3. ASSUME NEW i \in 1 .. n, NEW x
      PROVE  Behind(s, i, x) <=> Behind(calls, i, x)
  <2>1. CASE i # n
    BY <1>1, <2>1 DEF Behind, Passed
  <2>2. CASE i = n
    <3>1. \A j \in DOMAIN Sub(calls[n].node) :
             j < calls[n].next + 1 <=> j < calls[n].next \/ j = calls[n].next
      BY <1>2
    <3>2. Passed(s, n) = calls[n].next + 1 /\ Passed(calls, n) = calls[n].next
      BY <1>1 DEF Passed
    <3> QED
      BY <1>1, <2>2, <3>1, <3>2 DEF Behind
  <2> QED
    BY <2>1, <2>2
<1>4. ASSUME NEW i \in 1 .. n, NEW x
      PROVE  Ahead(s, i, x) <=> Ahead(calls, i, x)
  <2>1. CASE i # n
    BY <1>1, <2>1 DEF Ahead
  <2>2. CASE i = n
    <3>1. \A j \in DOMAIN Sub(calls[n].node) :
             calls[n].next <= j <=> calls[n].next + 1 <= j \/ j = calls[n].next
      BY <1>2
    <3> QED
      BY <1>1, <2>2, <3>1 DEF Ahead
  <2> QED
    BY <2>1, <2>2
<1>5. \A x : Done(s, x) <=> Done(calls, x)
  BY <1>1, <1>3 DEF Done
<1>6. \A x \in Under(s[1].node) : Placed(s, x)
  BY <1>1, <1>3, <1>4 DEF PathInv, Placed
<1>7. ASSUME NEW i \in 1 .. n
      PROVE  /\ i < n => s[i + 1].node \in NodesIn(s[i].node)
             /\ \A k \in 1 .. i : s[i].node \in Under(s[k].node)
             /\ Above(s, i)
  <2>1. \A k \in 1 .. i : k \in 1 .. n
    BY <1>1
  <2>2. /\ i < n => calls[i + 1].node \in NodesIn(calls[i].node)
        /\ \A k \in 1 .. i : calls[i].node \in Under(calls[k].node)
        /\ Above(calls, i)
    BY <1>1 DEF PathInv
  <2>3. \A k \in 1 .. i - 1 : k \in 1 .. n /\ k + 1 \in 1 .. n
    BY <1>1
  <2>4. i < n => i + 1 \in 1 .. n
    BY <1>1
  <2>5. Above(s, i)
    BY <1>1, <2>2, <2>3 DEF Above
  <2> QED
    BY <2>1, <2>2, <2>4, <2>5
<1> QED
  BY <1>1, <1>5, <1>6, <1>7 DEF PathInv

\* The innermost call makes one for its next node.
LEMMA PathDeeper ==
    ASSUME doc \in Documents, NEW n, NEW calls, IsCalls(calls, n), PathInv(calls),
           NEW s, IsCalls(s, n + 1),
           \A i \in 1 .. n : s[i].node = calls[i].node,
           \A i \in 1 .. n : i # n => s[i].next = calls[i].next,
           s[n].next = calls[n].next + 1, s[n + 1].next = 1,
           calls[n].next \in DOMAIN Sub(calls[n].node),
           Sub(calls[n].node)[calls[n].next] = s[n + 1].node,
           s[n + 1].node \in NodesIn(calls[n].node)
    PROVE  PathInv(s) /\ \A x : Done(s, x) <=> Done(calls, x)
<1> DEFINE z == s[n + 1].node
           y == calls[n].node
<1>1. /\ n \in Nat \ {0} /\ Len(s) = n + 1 /\ Len(calls) = n
      /\ DOMAIN s = 1 .. (n + 1) /\ DOMAIN calls = 1 .. n
      /\ 1 \in 1 .. n /\ n \in 1 .. n /\ n + 1 \in 1 .. (n + 1) /\ n + 1 \notin 1 .. n
      /\ \A i \in 1 .. (n + 1) : i \in 1 .. n \/ i = n + 1
      /\ \A i \in 1 .. n : i \in 1 .. (n + 1) /\ i # n + 1
  BY DEF IsCalls
<1>2. calls[n].next \in Nat /\ \A j \in DOMAIN Sub(calls[n].node) : j \in Nat
  <2>1. calls[n].next \in Nat \ {0} /\ calls[n].node \in Stmts
    BY DEF IsCalls
  <2> QED
    BY <2>1, Places
<1>3. /\ y \in Stmts /\ z \in Stmts /\ z \in Under(z)
      /\ \A j \in DOMAIN Sub(z) : j \in Nat /\ 1 <= j
  <2>1. y \in Stmts /\ z \in Stmts
    BY <1>1 DEF IsCalls
  <2> QED
    BY <2>1, UnderRooted, Places
<1>4. ASSUME NEW i \in 1 .. n, NEW x
      PROVE  Behind(s, i, x) <=> Behind(calls, i, x)
  <2>1. CASE i # n
    BY <1>1, <2>1 DEF Behind, Passed
  <2>2. CASE i = n
    <3>1. Passed(s, n) = s[n].next - 1
      <4>1. n # n + 1 /\ Len(s) = n + 1
        BY <1>1
      <4> QED
        BY <4>1 DEF Passed
    <3>3. Passed(calls, n) = calls[n].next
      BY <1>1 DEF Passed
    <3>2. Passed(s, n) = Passed(calls, n)
      BY <1>2, <3>1, <3>3
    <3> QED
      BY <1>1, <2>2, <3>2 DEF Behind
  <2> QED
    BY <2>1, <2>2
<1>5. \A x : ~ Behind(s, n + 1, x)
  BY <1>1, <1>3 DEF Behind, Passed
<1>6. \A x : Done(s, x) <=> Done(calls, x)
  BY <1>1, <1>4, <1>5 DEF Done
<1>7. ASSUME NEW x \in Under(s[1].node) PROVE Placed(s, x)
  <2>1. x \in Under(calls[1].node)
    BY <1>1
  <2>2. PICK i \in 1 .. n :
            Behind(calls, i, x) \/ x = calls[i].node \/ Ahead(calls, i, x)
    BY <1>1, <2>1 DEF PathInv, Placed
  <2>3. CASE Behind(calls, i, x)
    BY <1>1, <1>4, <2>3 DEF Placed
  <2>4. CASE x = calls[i].node
    BY <1>1, <2>4 DEF Placed
  <2>5. CASE Ahead(calls, i, x) /\ i # n
    <3>1. Ahead(s, i, x)
      BY <1>1, <2>5 DEF Ahead
    <3> QED
      BY <1>1, <3>1 DEF Placed
  <2>6. CASE Ahead(calls, n, x)
    <3>1. PICK j \in DOMAIN Sub(y) :
              calls[n].next <= j /\ Sub(y)[j] \in NodesIn(y) /\ x \in Under(Sub(y)[j])
      BY <2>6 DEF Ahead
    <3>2. CASE j # calls[n].next
      <4>1. calls[n].next + 1 <= j
        BY <1>2, <3>1, <3>2
      <4>2. Ahead(s, n, x)
        BY <1>1, <3>1, <4>1 DEF Ahead
      <4> QED
        BY <1>1, <4>2 DEF Placed
    <3>3. CASE j = calls[n].next
      <4>1. x \in Under(z) /\ Under(z) = {z} \cup UNION {Under(c) : c \in NodesIn(z)}
        BY <1>3, <3>1, <3>3, UnderIs
      <4>2. CASE x = z
        BY <1>1, <4>2 DEF Placed
      <4>3. ASSUME NEW c \in NodesIn(z), x \in Under(c)
            PROVE  Placed(s, x)
        <5>1. PICK l \in DOMAIN Sub(z) : Sub(z)[l] = c
          BY <1>3, NodeFacts
        <5>2. Ahead(s, n + 1, x)
          BY <1>3, <4>3, <5>1 DEF Ahead
        <5> QED
          BY <1>1, <5>2 DEF Placed
      <4> QED
        BY <4>1, <4>2, <4>3
    <3> QED
      BY <3>2, <3>3
  <2> QED
    BY <2>2, <2>3, <2>4, <2>5, <2>6
<1>8. ASSUME NEW i \in 1 .. n
      PROVE  /\ i < n + 1 => s[i + 1].node \in NodesIn(s[i].node)
             /\ \A k \in 1 .. i : s[i].node \in Under(s[k].node)
             /\ Above(s, i)
  <2>1. \A k \in 1 .. i : k \in 1 .. n
    BY <1>1
  <2>2. /\ i < n => calls[i + 1].node \in NodesIn(calls[i].node)
        /\ \A k \in 1 .. i : calls[i].node \in Under(calls[k].node)
        /\ Above(calls, i)
    BY <1>1 DEF PathInv
  <2>3. \A k \in 1 .. i - 1 : k \in 1 .. n /\ k + 1 \in 1 .. n
    BY <1>1
  <2>4. i < n => i + 1 \in 1 .. n
    BY <1>1
  <2>5. Above(s, i)
    BY <1>1, <2>2, <2>3 DEF Above
  <2>6. i = n \/ i < n
    BY <1>1
  <2> QED
    BY <1>1, <2>1, <2>2, <2>4, <2>5, <2>6
<1>9. \A k \in 1 .. (n + 1) : z \in Under(s[k].node)
  <2>1. \A k \in 1 .. n : y \in Under(calls[k].node) /\ calls[k].node \in Stmts
    BY <1>1 DEF PathInv, IsCalls
  <2>2. z \in Under(y)
    <3>1. z \in NodesIn(y)
      OBVIOUS
    <3> QED
      BY <1>3, <3>1, ValidIs
  <2>3. \A k \in 1 .. n : z \in Under(calls[k].node)
    BY <2>1, <2>2, UnderRooted DEF Rooted
  <2> QED
    BY <1>1, <1>3, <2>3
<1>10. Above(s, n + 1)
  <2> SUFFICES ASSUME NEW a \in Under(s[1].node), NEW c \in NodesIn(a), z \in Under(c)
               PROVE  \E k \in 1 .. n : a = s[k].node /\ c = s[k + 1].node
    BY <1>1 DEF Above
  <2>1. a \in Stmts
    BY <1>1, UnderRooted DEF Rooted, IsCalls
  <2>2. c \in Stmts /\ \A q \in Stmts : c \in NodesIn(q) => q = a
    BY <2>1, NodeFacts
  <2>3. z \in NodesIn(y)
    OBVIOUS
  <2>4. z = c \/ y \in Under(c)
    BY <1>3, <2>2, <2>3, OnTheWay
  <2>5. CASE z = c
    BY <1>1, <1>3, <2>2, <2>3, <2>5
  <2>6. CASE y \in Under(c)
    <3>1. PICK k \in 1 .. n - 1 : a = calls[k].node /\ c = calls[k + 1].node
      <4>1. Above(calls, n) /\ a \in Under(calls[1].node)
        BY <1>1 DEF PathInv
      <4> QED
        BY <2>6, <4>1 DEF Above
    <3>2. k \in 1 .. n /\ k + 1 \in 1 .. n
      BY <1>1
    <3> QED
      BY <3>1, <3>2
  <2> QED
    BY <2>4, <2>5, <2>6
<1> QED
  BY <1>1, <1>6, <1>7, <1>8, <1>9, <1>10 DEF PathInv

\* The innermost call returns to the one around it, which goes on after the node.
LEMMA PathReturns ==
    ASSUME doc \in Documents, NEW n, NEW calls, IsCalls(calls, n + 1), PathInv(calls),
           NEW s, IsCalls(s, n), \A i \in 1 .. n : s[i] = calls[i],
           \A j \in DOMAIN Sub(calls[n + 1].node) : j < calls[n + 1].next,
           calls[n].next - 1 \in DOMAIN Sub(calls[n].node),
           Sub(calls[n].node)[calls[n].next - 1] = calls[n + 1].node
    PROVE  PathInv(s) /\ \A x : Done(s, x) <=> Done(calls, x) \/ x = calls[n + 1].node
<1> DEFINE z == calls[n + 1].node
           y == calls[n].node
<1>1. /\ n \in Nat \ {0} /\ Len(s) = n /\ Len(calls) = n + 1
      /\ DOMAIN s = 1 .. n /\ DOMAIN calls = 1 .. (n + 1)
      /\ 1 \in 1 .. n /\ n \in 1 .. n /\ n + 1 \in 1 .. (n + 1) /\ n # n + 1
      /\ \A i \in 1 .. (n + 1) : i \in 1 .. n \/ i = n + 1
      /\ \A i \in 1 .. n : i \in 1 .. (n + 1) /\ i # n + 1
  BY DEF IsCalls
<1>2. y \in Stmts /\ z \in Stmts /\ calls[n].next \in Nat /\ \A j \in DOMAIN Sub(y) : j \in Nat
  <2>1. y \in Stmts /\ z \in Stmts /\ calls[n].next \in Nat \ {0}
    BY <1>1 DEF IsCalls
  <2> QED
    BY <2>1, Places
<1>3. z \in NodesIn(y) /\ Under(z) = {z} \cup UNION {Under(c) : c \in NodesIn(z)}
  <2>1. z \in NodesIn(y)
    <3>1. n < n + 1
      BY <1>1
    <3> QED
      BY <1>1, <3>1 DEF PathInv
  <2> QED
    BY <1>2, <2>1, UnderIs
<1>4. /\ \A i \in 1 .. n : \A x : i # n => (Behind(s, i, x) <=> Behind(calls, i, x))
      /\ \A i \in 1 .. n : \A x : Ahead(s, i, x) <=> Ahead(calls, i, x)
  BY <1>1 DEF Behind, Ahead, Passed
<1>5. \A x : x \in Under(z) <=> x = z \/ Behind(calls, n + 1, x)
  <2>1. ASSUME NEW x, NEW c \in NodesIn(z), x \in Under(c)
        PROVE  Behind(calls, n + 1, x)
    <3>1. PICK j \in DOMAIN Sub(z) : Sub(z)[j] = c
      BY <1>2, NodeFacts
    <3>2. Passed(calls, n + 1) = calls[n + 1].next
      BY <1>1 DEF Passed
    <3> QED
      BY <2>1, <3>1, <3>2 DEF Behind
  <2>2. ASSUME NEW x, Behind(calls, n + 1, x)
        PROVE  x \in Under(z)
    BY <1>3, <2>2 DEF Behind
  <2> QED
    BY <1>3, <2>1, <2>2
<1>6. \A x : Behind(s, n, x) <=> Behind(calls, n, x) \/ x \in Under(z)
  <2>1. Passed(s, n) = calls[n].next
    BY <1>1 DEF Passed
  <2>2. Passed(calls, n) = calls[n].next - 1
    BY <1>1 DEF Passed
  <2>3. \A j \in DOMAIN Sub(y) :
           j < calls[n].next <=> j < calls[n].next - 1 \/ j = calls[n].next - 1
    BY <1>2
  <2> QED
    BY <1>1, <1>3, <2>1, <2>2, <2>3 DEF Behind
<1>7. ASSUME NEW x
      PROVE  Done(s, x) <=> Done(calls, x) \/ x = z
  <2>1. ASSUME Done(s, x) PROVE Done(calls, x) \/ x = z
    <3>1. PICK i \in 1 .. n : Behind(s, i, x)
      BY <1>1, <2>1 DEF Done
    <3>2. CASE i # n
      BY <1>1, <1>4, <3>1, <3>2 DEF Done
    <3>3. CASE i = n
      BY <1>1, <1>5, <1>6, <3>1, <3>3 DEF Done
    <3> QED
      BY <3>2, <3>3
  <2>2. ASSUME Done(calls, x) PROVE Done(s, x)
    <3>1. PICK i \in 1 .. (n + 1) : Behind(calls, i, x)
      BY <1>1, <2>2 DEF Done
    <3>2. CASE i \in 1 .. n /\ i # n
      BY <1>1, <1>4, <3>1, <3>2 DEF Done
    <3>3. CASE i = n
      BY <1>1, <1>6, <3>1, <3>3 DEF Done
    <3>4. CASE i = n + 1
      BY <1>1, <1>5, <1>6, <3>1, <3>4 DEF Done
    <3> QED
      BY <1>1, <3>2, <3>3, <3>4
  <2>3. Done(s, z)
    BY <1>1, <1>5, <1>6 DEF Done
  <2> QED
    BY <2>1, <2>2, <2>3
<1>8. ASSUME NEW x \in Under(s[1].node) PROVE Placed(s, x)
  <2>1. PICK i \in 1 .. (n + 1) :
            Behind(calls, i, x) \/ x = calls[i].node \/ Ahead(calls, i, x)
    BY <1>1 DEF PathInv, Placed
  <2>2. Done(s, x) => Placed(s, x)
    BY DEF Done, Placed
  <2>3. CASE Behind(calls, i, x)
    BY <1>1, <1>7, <2>2, <2>3 DEF Done
  <2>4. CASE i \in 1 .. n /\ (x = calls[i].node \/ Ahead(calls, i, x))
    BY <1>1, <1>4, <2>4 DEF Placed
  <2>5. CASE i = n + 1 /\ x = z
    BY <1>7, <2>2, <2>5
  <2>6. ~ Ahead(calls, n + 1, x)
    <3>1. calls[n + 1].next \in Nat /\ \A j \in DOMAIN Sub(z) : j \in Nat
      <4>1. calls[n + 1].next \in Nat \ {0}
        BY <1>1 DEF IsCalls
      <4> QED
        BY <1>2, <4>1, Places
    <3>2. \A j \in DOMAIN Sub(z) : ~ (calls[n + 1].next <= j)
      BY <3>1
    <3> QED
      BY <3>2 DEF Ahead
  <2> QED
    BY <1>1, <2>1, <2>3, <2>4, <2>5, <2>6
<1>9. ASSUME NEW i \in 1 .. n
      PROVE  /\ i < n => s[i + 1].node \in NodesIn(s[i].node)
             /\ \A k \in 1 .. i : s[i].node \in Under(s[k].node)
             /\ Above(s, i)
  <2>1. \A k \in 1 .. i : k \in 1 .. n
    BY <1>1
  <2>2. /\ i < n + 1 => calls[i + 1].node \in NodesIn(calls[i].node)
        /\ \A k \in 1 .. i : calls[i].node \in Under(calls[k].node)
        /\ Above(calls, i)
    BY <1>1 DEF PathInv
  <2>3. \A k \in 1 .. i - 1 : k \in 1 .. n /\ k + 1 \in 1 .. n
    BY <1>1
  <2>4. i < n => i + 1 \in 1 .. n /\ i < n + 1
    BY <1>1
  <2>5. Above(s, i)
    BY <1>1, <2>2, <2>3 DEF Above
  <2> QED
    BY <2>1, <2>2, <2>4, <2>5
<1> QED
  BY <1>1, <1>7, <1>8, <1>9 DEF PathInv

\* The call for a statement at the top is through.
LEMMA PathEnds ==
    ASSUME doc \in Documents, NEW calls, IsCalls(calls, 1), PathInv(calls),
           \A j \in DOMAIN Sub(calls[1].node) : j < calls[1].next
    PROVE  \A x \in Under(calls[1].node) : Done(calls, x) \/ x = calls[1].node
<1>1. calls[1].node \in Stmts /\ calls[1].next \in Nat /\ \A i \in DOMAIN calls : i = 1
  <2>1. 1 \in 1 .. 1 /\ \A i \in 1 .. 1 : i = 1
    OBVIOUS
  <2> QED
    BY <2>1 DEF IsCalls
<1>2. \A j \in DOMAIN Sub(calls[1].node) : ~ (calls[1].next <= j)
  BY <1>1, Places
<1>3. \A x : ~ Ahead(calls, 1, x)
  BY <1>2 DEF Ahead
<1> QED
  BY <1>1, <1>3 DEF PathInv, Placed, Done

\* Among the substatements of one statement those written earlier have earlier places.
LEMMA PlaceOrder ==
    ASSUME doc \in Documents, NEW p \in Stmts, NEW l \in DOMAIN Sub(p), NEW m \in DOMAIN Sub(p)
    PROVE  /\ Sub(p)[l] <= Sub(p)[m] <=> l <= m
           /\ Sub(p)[l] < Sub(p)[m] <=> l < m
<1>1. l \in Nat /\ m \in Nat /\ Sub(p)[l] \in Nat /\ Sub(p)[m] \in Nat
  BY SubOfStmt
<1>2. /\ l < m => Sub(p)[l] < Sub(p)[m]
      /\ m < l => Sub(p)[m] < Sub(p)[l]
      /\ l = m => Sub(p)[l] = Sub(p)[m]
  BY SubOfStmt
<1> QED
  BY <1>1, <1>2

\* What is under a valid node is valid.
LEMMA ValidBelow ==
    ASSUME doc \in Documents, NEW b \in Stmts, Valid(b), NEW a \in Under(b)
    PROVE  /\ a \in Stmts /\ Valid(a)
           /\ \A e \in ToSet(Sub(a)) : Acceptable(a, e)
           /\ \A e \in NodesIn(a) : Valid(e)
<1>1. a \in Stmts /\ Under(a) \subseteq Under(b)
  BY UnderRooted DEF Rooted
<1>2. Valid(a)
  BY <1>1 DEF Valid
<1> QED
  BY <1>1, <1>2, ValidIs DEF Legal

\* In a valid tree everything is reached.
LEMMA PathBuilt ==
    ASSUME doc \in Documents, NEW n \in Stmts, Valid(n), NEW x \in Under(n)
    PROVE  Valid(x) /\ ReachedFrom(n, x)
BY ValidBelow DEF ReachedFrom

\* When the innermost call fails, what has been passed is what is valid and is reached.
LEMMA PathFails ==
    ASSUME doc \in Documents, NEW n, NEW calls, IsCalls(calls, n), PathInv(calls),
           \A i \in 1 .. n :
              /\ \A j \in DOMAIN Sub(calls[i].node) :
                    j < calls[i].next => Acceptable(calls[i].node, Sub(calls[i].node)[j])
              /\ ValidBefore(calls[i], Passed(calls, i))
              /\ i < n =>
                    /\ calls[i].next - 1 \in DOMAIN Sub(calls[i].node)
                    /\ calls[i + 1].node = Sub(calls[i].node)[calls[i].next - 1],
           ~ Legal(calls[n].node),
           calls[n].next \in DOMAIN Sub(calls[n].node) =>
              ~ Acceptable(calls[n].node, Sub(calls[n].node)[calls[n].next]),
           NEW x \in Under(calls[1].node)
    PROVE  Done(calls, x) <=> Valid(x) /\ ReachedFrom(calls[1].node, x)
<1> DEFINE root == calls[1].node
<1>1. /\ n \in Nat \ {0} /\ Len(calls) = n /\ DOMAIN calls = 1 .. n
      /\ 1 \in 1 .. n /\ n \in 1 .. n
  BY DEF IsCalls
<1>2. \A i \in 1 .. n :
         /\ calls[i].node \in Stmts /\ calls[i].next \in Nat
         /\ \A j \in DOMAIN Sub(calls[i].node) : j \in Nat
  BY Places DEF IsCalls
<1>3. \A i \in 1 .. n : i < n => Passed(calls, i) = calls[i].next - 1
  BY <1>1 DEF Passed
<1>4. \A i \in 1 .. n : \A j \in DOMAIN Sub(calls[i].node) :
         j < Passed(calls, i) => j < calls[i].next
  <2> SUFFICES ASSUME NEW i \in 1 .. n, NEW j \in DOMAIN Sub(calls[i].node), j < Passed(calls, i)
               PROVE  j < calls[i].next
    OBVIOUS
  <2>1. j \in Nat /\ calls[i].next \in Nat
    BY <1>2
  <2>2. Passed(calls, i) = calls[i].next \/ Passed(calls, i) = calls[i].next - 1
    BY DEF Passed
  <2> QED
    BY <2>1, <2>2
<1>5. root \in Stmts /\ Under(root) \subseteq Stmts
  BY <1>1, <1>2, UnderRooted DEF Rooted
<1>6. ASSUME NEW i \in 1 .. n, Behind(calls, i, x)
      PROVE  Valid(x) /\ ReachedFrom(root, x)
  <2> DEFINE y == calls[i].node
  <2>1. PICK j \in DOMAIN Sub(y) :
            j < Passed(calls, i) /\ Sub(y)[j] \in NodesIn(y) /\ x \in Under(Sub(y)[j])
    BY <1>6 DEF Behind
  <2> DEFINE b == Sub(y)[j]
  <2>2. y \in Stmts /\ b \in Stmts /\ Valid(b)
    BY <1>2, <2>1, NodeFacts DEF ValidBefore
  <2>3. Valid(x)
    BY <2>1, <2>2, ValidBelow
  <2> SUFFICES ASSUME NEW a \in Under(root), NEW c \in NodesIn(a), x \in Under(c),
                      NEW e \in ToSet(Sub(a))
               PROVE  /\ e <= c => Acceptable(a, e)
                      /\ e < c /\ e \in NodesIn(a) => Valid(e)
    BY <2>3 DEF ReachedFrom
  <2>4. a \in Stmts /\ c \in Stmts
    BY <1>5, NodeFacts
  <2>5. PICK l \in DOMAIN Sub(a) : Sub(a)[l] = e
    BY DEF ToSet
  <2>6. CASE a \in Under(b)
    BY <2>2, <2>6, ValidBelow
  <2>7. CASE a = y /\ c = b
    <3>1. e <= c <=> l <= j
      BY <2>2, <2>5, <2>7, PlaceOrder
    <3>2. e < c <=> l < j
      BY <2>2, <2>5, <2>7, PlaceOrder
    <3>3. j < calls[i].next /\ j \in Nat /\ l \in Nat /\ calls[i].next \in Nat
      BY <1>2, <1>4, <2>1, <2>5, <2>7
    <3>4. l <= j => Acceptable(a, e)
      <4>1. l <= j => l < calls[i].next
        BY <3>3
      <4> QED
        BY <2>5, <2>7, <4>1
    <3>5. l < j /\ e \in NodesIn(a) => Valid(e)
      <4>1. Passed(calls, i) \in Int
        BY <1>1, <1>2 DEF Passed
      <4>2. l < j => l < Passed(calls, i)
        BY <2>1, <3>3, <4>1
      <4> QED
        BY <2>5, <2>7, <4>2 DEF ValidBefore
    <3> QED
      BY <3>1, <3>2, <3>4, <3>5
  <2>8. ASSUME y \in Under(c)
        PROVE  /\ e <= c => Acceptable(a, e)
               /\ e < c /\ e \in NodesIn(a) => Valid(e)
    <3>1. Above(calls, i)
      BY <1>1 DEF PathInv
    <3>2. PICK k \in 1 .. i - 1 : a = calls[k].node /\ c = calls[k + 1].node
      BY <2>8, <3>1 DEF Above
    <3>3. k \in 1 .. n /\ k < n
      BY <1>1
    <3> DEFINE m == calls[k].next - 1
    <3>4. m \in DOMAIN Sub(a) /\ c = Sub(a)[m] /\ Passed(calls, k) = m
      BY <1>3, <3>2, <3>3
    <3>5. e <= c <=> l <= m
      BY <2>4, <2>5, <3>4, PlaceOrder
    <3>6. e < c <=> l < m
      BY <2>4, <2>5, <3>4, PlaceOrder
    <3>7. l <= m => Acceptable(a, e)
      <4>1. l <= m => l < calls[k].next
        BY <1>2, <2>5, <3>2, <3>3
      <4> QED
        BY <2>5, <3>2, <3>3, <4>1
    <3>8. l < m /\ e \in NodesIn(a) => Valid(e)
      <4>1. ValidBefore(calls[k], m)
        BY <3>3, <3>4
      <4> QED
        BY <2>5, <3>2, <4>1 DEF ValidBefore
    <3> QED
      BY <3>5, <3>6, <3>7, <3>8
  <2>9. c \in Under(b) \/ b \in Under(c)
    BY <2>1, <2>2, <2>4, Apart
  <2>10. c \in Under(b) => c = b \/ a \in Under(b)
    BY <2>2, <2>4, OnTheWay
  <2>11. b \in Under(c) => b = c \/ y \in Under(c)
    BY <2>1, <2>2, <2>4, OnTheWay
  <2>12. c = b => a = y
    BY <2>1, <2>2, <2>4, NodeFacts
  <2> QED
    BY <2>6, <2>7, <2>8, <2>9, <2>10, <2>11, <2>12
<1>7. ASSUME Valid(x), ReachedFrom(root, x), ~ Done(calls, x)
      PROVE  FALSE
  <2>1. ASSUME NEW b \in Stmts, Valid(b), calls[n].node \in Under(b) PROVE FALSE
    BY <2>1 DEF Valid
  <2>2. PICK i \in 1 .. n : x = calls[i].node \/ Ahead(calls, i, x)
    BY <1>1, <1>7 DEF PathInv, Placed, Done
  <2>3. x # calls[i].node
    <3>1. calls[n].node \in Under(calls[i].node) /\ calls[i].node \in Stmts
      BY <1>1, <1>2 DEF PathInv
    <3> QED
      BY <1>7, <2>1, <3>1
  <2> DEFINE y == calls[i].node
  <2>4. PICK j \in DOMAIN Sub(y) :
            calls[i].next <= j /\ Sub(y)[j] \in NodesIn(y) /\ x \in Under(Sub(y)[j])
    BY <2>2, <2>3 DEF Ahead
  <2>5. y \in Stmts /\ y \in Under(root) /\ calls[i].next \in Nat \ {0}
    <3>1. 1 \in 1 .. i
      BY <1>1
    <3> QED
      BY <1>1, <3>1 DEF PathInv, IsCalls
  <2>6. CASE i = n
    <3> DEFINE m == calls[i].next
    <3>1. m \in DOMAIN Sub(y)
      <4>1. DOMAIN Sub(y) = 1 .. Len(Sub(y)) /\ Len(Sub(y)) \in Nat
        BY <2>5, SubOfStmt
      <4> QED
        BY <2>4, <2>5, <4>1
    <3>2. Sub(y)[m] <= Sub(y)[j] /\ Sub(y)[m] \in ToSet(Sub(y))
      BY <2>4, <2>5, <3>1, PlaceOrder DEF ToSet
    <3>3. Acceptable(y, Sub(y)[m])
      BY <1>7, <2>4, <2>5, <3>2 DEF ReachedFrom
    <3> QED
      BY <2>6, <3>1, <3>3
  <2>7. CASE i < n
    <3> DEFINE m == calls[i].next - 1
               e == calls[i + 1].node
    <3>1. m \in DOMAIN Sub(y) /\ e = Sub(y)[m] /\ e \in NodesIn(y) /\ i + 1 \in 1 .. n
      <4>1. e \in NodesIn(y)
        BY <1>1, <2>7 DEF PathInv
      <4> QED
        BY <1>1, <2>7, <4>1
    <3>2. m < j
      <4>1. j \in Nat /\ calls[i].next \in Nat /\ calls[i].next <= j
        BY <2>4, <2>5, Places
      <4> HIDE DEF y
      <4> QED
        BY <4>1
    <3>3. Sub(y)[m] < Sub(y)[j] /\ Sub(y)[m] \in ToSet(Sub(y))
      BY <2>4, <2>5, <3>1, <3>2, PlaceOrder DEF ToSet
    <3>4. Valid(e)
      BY <1>7, <2>4, <2>5, <3>1, <3>3 DEF ReachedFrom
    <3>5. calls[n].node \in Under(e) /\ e \in Stmts
      BY <1>1, <1>2, <3>1 DEF PathInv
    <3> QED
      BY <2>1, <3>4, <3>5
  <2> QED
    BY <1>1, <2>6, <2>7
<1> QED
  BY <1>1, <1>6, <1>7 DEF Done

-----------------------------------------------------------------------------
(* Which nodes are complete *)

\* x, a node of the statement n at the top, can be built and is reached.
IsBuilt(n, x) == Alias(Kw(n)) \in Keywords /\ Valid(x) /\ ReachedFrom(n, x)

\* The outermost call is for n.
Current(calls, n) == calls # <<>> /\ calls[1].node = n

\* Of the statement in progress what its calls are done with is complete, of those to
\* come nothing, and of the others what can be built and was reached.
CompleteInv(calls, built, result) ==
    /\ calls # <<>> => PathInv(calls)
    /\ \A n \in Top :
          IF Current(calls, n)
          THEN result[n] = "none" /\ \A x \in Under(n) : x \in built <=> Done(calls, x)
          ELSE \A x \in Under(n) : x \in built <=> result[n] # "none" /\ IsBuilt(n, x)

\* The statements that are left are different, and none has been begun.
FilesInv(left, calls, result) ==
    /\ \A i, j \in DOMAIN left : i < j => left[i] < left[j]
    /\ \A n \in ToSet(left) : result[n] = "none" /\ ~ Current(calls, n)

\* The nodes that are complete have their names, by which their typedefs are known.
NamesInv(built, given) == DOMAIN given = Stmts /\ \A n \in built : given[n] = NameOf[n]

NamedTypedefs(n) == IF Kw(n) \in Typedefers THEN Entries(n, NameOf) ELSE {}
DictInv(built, entries) == entries = UNION {NamedTypedefs(x) : x \in built}

TypedefInv ==
    /\ AcceptsInv
    /\ FilesInv(files, stack, outcome)
    /\ CompleteInv(stack, complete, outcome)
    /\ NamesInv(complete, names)
    /\ DictInv(complete, dict)

\* Which calls are a path depends on the document only.
LEMMA SamePaths ==
    ASSUME doc' = doc
    PROVE  /\ \A c : PathInv(c)' <=> PathInv(c)
           /\ \A c, x : Done(c, x)' <=> Done(c, x)
           /\ \A n, x : IsBuilt(n, x)' <=> IsBuilt(n, x)
           /\ NameOf' = NameOf
           /\ \A n : NamedTypedefs(n)' = NamedTypedefs(n)
<1>1. /\ \A n : Sub(n)' = Sub(n) /\ Kw(n)' = Kw(n) /\ Arg(n)' = Arg(n)
      /\ \A n, c : Acceptable(n, c)' <=> Acceptable(n, c)
      /\ \A n : NodesIn(n)' = NodesIn(n) /\ Under(n)' = Under(n)
      /\ \A n : Valid(n)' <=> Valid(n)
  BY SameDocument, SameBuilt
<1>2. \A c, i, x : Behind(c, i, x)' <=> Behind(c, i, x)
  BY <1>1 DEF Behind, Passed
<1>3. \A c, i, x : Ahead(c, i, x)' <=> Ahead(c, i, x)
  BY <1>1 DEF Ahead
<1>4. \A c, i : Above(c, i)' <=> Above(c, i)
  BY <1>1 DEF Above
<1>5. \A c, x : Placed(c, x)' <=> Placed(c, x)
  BY <1>2, <1>3 DEF Placed
<1>6. \A c : PathInv(c)' <=> PathInv(c)
  BY <1>1, <1>4, <1>5 DEF PathInv
<1>7. \A c, x : Done(c, x)' <=> Done(c, x)
  BY <1>2 DEF Done
<1>8. \A n, x : IsBuilt(n, x)' <=> IsBuilt(n, x)
  BY <1>1 DEF IsBuilt, ReachedFrom
<1>9. NameOf' = NameOf
  <2>1. Stmts' = Stmts /\ \A n : Given(n)' = Given(n)
    BY <1>1, SameDocument DEF Given
  <2> QED
    BY <1>1, <2>1 DEF NameOf
<1>10. \A n : NamedTypedefs(n)' = NamedTypedefs(n)
  BY <1>1, <1>9 DEF NamedTypedefs, Entries, Kept, TypedefsOf
<1> QED
  BY <1>6, <1>7, <1>8, <1>9, <1>10

\* The invariant after a step: the document is the same.
LEMMA TypedefAfter ==
    ASSUME AcceptsInv', doc' = doc,
           FilesInv(files', stack', outcome'), CompleteInv(stack', complete', outcome'),
           NamesInv(complete', names'), DictInv(complete', dict')
    PROVE  TypedefInv'
<1>1. Top' = Top /\ \A n : Kw(n)' = Kw(n) /\ Under(n)' = Under(n)
  BY SameDocument, SameBuilt
<1>2. FilesInv(files, stack, outcome)'
  BY DEF FilesInv, Current
<1>3. CompleteInv(stack, complete, outcome)'
  BY <1>1, SamePaths DEF CompleteInv, Current
<1>4. NamesInv(complete, names)' /\ DictInv(complete, dict)'
  BY SamePaths, SameDocument DEF NamesInv, DictInv
<1> QED
  BY <1>2, <1>3, <1>4 DEF TypedefInv

\* The stack of a step of build is its calls, the outermost for a statement at the top.
LEMMA StackIsCalls ==
    ASSUME AcceptsInv, InBuild
    PROVE  \E n : /\ IsCalls(stack, n) /\ stack \in Seq(Frames)
                  /\ Inner = stack[n] /\ Build = stack[n].node
                  /\ stack[1].node \in Top /\ stack[1].node \in Stmts
                  /\ doc \in Documents
<1>1. PICK n \in Nat \ {0} : n = Len(stack) /\ DOMAIN stack = 1 .. n
  BY InnerFrame DEF AcceptsInv, IInv, StackInv
<1>2. \A i \in 1 .. n : stack[i] \in Frames
  BY <1>1 DEF AcceptsInv, IInv, StackInv
<1>3. \A i \in 1 .. n : stack[i].node \in Stmts /\ stack[i].next \in Nat \ {0}
  BY <1>2 DEF Frames
<1>4. IsCalls(stack, n)
  BY <1>1, <1>3 DEF IsCalls
<1>5. 1 \in 1 .. n
  OBVIOUS
<1> QED
  BY <1>1, <1>3, <1>4, <1>5 DEF AcceptsInv, CallsInv, IInv, StackInv, InBuild, Inner, Build

\* The calls for one statement at the top go on, with what they have completed.
LEMMA CallsKeep ==
    ASSUME TypedefInv, InBuild, NEW s, s # <<>>, s[1].node = stack[1].node, PathInv(s),
           NEW S, complete \subseteq S,
           \A x \in S : x \in complete \/ x \in Under(stack[1].node),
           \A x \in Under(stack[1].node) : x \in S <=> Done(s, x)
    PROVE  CompleteInv(s, S, outcome) /\ FilesInv(files, s, outcome)
<1> DEFINE root == stack[1].node
<1>1. root \in Top /\ doc \in Documents /\ stack # <<>>
  BY StackIsCalls DEF TypedefInv, InBuild
<1>2. \A n : Current(s, n) <=> Current(stack, n)
  BY <1>1 DEF Current
<1>3. ASSUME NEW n \in Top, n # root
      PROVE  \A x \in Under(n) : x \in S <=> x \in complete
  BY <1>1, <1>3, TopsApart
<1>4. FilesInv(files, s, outcome)
  BY <1>2 DEF TypedefInv, FilesInv
<1>5. ASSUME NEW n \in Top
      PROVE  IF Current(s, n)
             THEN outcome[n] = "none" /\ \A x \in Under(n) : x \in S <=> Done(s, x)
             ELSE \A x \in Under(n) : x \in S <=> outcome[n] # "none" /\ IsBuilt(n, x)
  <2>1. CASE n = root
    <3>1. Current(stack, n)
      BY <1>1, <2>1 DEF Current
    <3>2. outcome[n] = "none"
      BY <3>1 DEF TypedefInv, CompleteInv
    <3> QED
      BY <1>2, <2>1, <3>1, <3>2
  <2>2. CASE n # root
    <3>1. ~ Current(stack, n)
      BY <2>2 DEF Current
    <3>2. \A x \in Under(n) : x \in complete <=> outcome[n] # "none" /\ IsBuilt(n, x)
      BY <3>1 DEF TypedefInv, CompleteInv
    <3> QED
      BY <1>2, <1>3, <2>2, <3>1, <3>2
  <2> QED
    BY <2>1, <2>2
<1> QED
  BY <1>4, <1>5 DEF CompleteInv

\* The calls for one statement at the top are over.
LEMMA CallsEnd ==
    ASSUME TypedefInv, InBuild, NEW result, result # "none",
           NEW S, complete \subseteq S,
           \A x \in S : x \in complete \/ x \in Under(stack[1].node),
           \A x \in Under(stack[1].node) : x \in S <=> IsBuilt(stack[1].node, x)
    PROVE  LET o == [outcome EXCEPT ![stack[1].node] = result]
           IN  CompleteInv(<<>>, S, o) /\ FilesInv(files, <<>>, o)
<1> DEFINE root == stack[1].node
           o == [outcome EXCEPT ![root] = result]
<1>1. root \in Top /\ doc \in Documents /\ Current(stack, root)
  BY StackIsCalls DEF TypedefInv, InBuild, Current
<1>2. o[root] = result /\ \A n \in Top : n # root => o[n] = outcome[n]
  BY <1>1 DEF TypedefInv, AcceptsInv, OutcomeInv
<1>3. ASSUME NEW n \in Top, n # root
      PROVE  \A x \in Under(n) : x \in S <=> x \in complete
  BY <1>1, <1>3, TopsApart
<1> HIDE DEF o
<1>4. \A n : ~ Current(<<>>, n)
  BY DEF Current
<1>5. FilesInv(files, <<>>, o)
  <2>1. \A n \in ToSet(files) : n # root /\ n \in Top /\ outcome[n] = "none"
    BY <1>1 DEF TypedefInv, FilesInv, AcceptsInv, IInv
  <2> QED
    BY <1>2, <1>4, <2>1 DEF TypedefInv, FilesInv
<1>6. ASSUME NEW n \in Top
      PROVE  \A x \in Under(n) : x \in S <=> o[n] # "none" /\ IsBuilt(n, x)
  <2>1. CASE n = root
    BY <1>2, <2>1
  <2>2. CASE n # root
    <3>1. ~ Current(stack, n)
      BY <2>2 DEF Current
    <3>2. \A x \in Under(n) : x \in complete <=> outcome[n] # "none" /\ IsBuilt(n, x)
      BY <3>1 DEF TypedefInv, CompleteInv
    <3> QED
      BY <1>2, <1>3, <2>2, <3>2
  <2> QED
    BY <2>1, <2>2
<1>7. CompleteInv(<<>>, S, o)
  BY <1>4, <1>6 DEF CompleteInv
<1> QED
  BY <1>5, <1>7 DEF o

-----------------------------------------------------------------------------
(* The steps *)

\* The innermost call, one substatement further.
LEMMA TakenIsCalls ==
    ASSUME AcceptsInv, Reading, NEW g \in Frames, g.node = Build, g.next = Inner.next + 1
    PROVE  LET s == [stack EXCEPT ![Len(stack)] = g]
           IN  \E n : /\ IsCalls(stack, n) /\ IsCalls(s, n) /\ s \in Seq(Frames)
                      /\ \A i \in 1 .. n : s[i].node = stack[i].node
                      /\ \A i \in 1 .. n : i # n => s[i].next = stack[i].next
                      /\ s[n].next = stack[n].next + 1
                      /\ stack[n].node = Build
                      /\ stack[n].next \in DOMAIN Sub(stack[n].node)
                      /\ Sub(stack[n].node)[stack[n].next] = Following
<1> DEFINE s == [stack EXCEPT ![Len(stack)] = g]
<1>1. PICK n : /\ IsCalls(stack, n) /\ stack \in Seq(Frames)
               /\ Inner = stack[n] /\ Build = stack[n].node
  BY StackIsCalls DEF Reading
<1>2. n \in Nat \ {0} /\ Len(stack) = n /\ DOMAIN stack = 1 .. n /\ n \in 1 .. n
  BY <1>1 DEF IsCalls
<1>3. s \in Seq(Frames) /\ Len(s) = n /\ DOMAIN s = 1 .. n
  BY <1>1, <1>2
<1>4. \A i \in 1 .. n : s[i] = IF i = n THEN g ELSE stack[i]
  BY <1>2
<1> HIDE DEF s
<1>5. \A i \in 1 .. n : s[i].node = stack[i].node
  BY <1>1, <1>4
<1>6. \A i \in 1 .. n : s[i] \in Frames
  BY <1>3
<1>7. \A i \in 1 .. n : s[i].node \in Stmts /\ s[i].next \in Nat \ {0}
  BY <1>6 DEF Frames
<1>8. IsCalls(s, n)
  BY <1>2, <1>3, <1>7 DEF IsCalls
<1>9. /\ stack[n].next \in DOMAIN Sub(stack[n].node)
      /\ Sub(stack[n].node)[stack[n].next] = Following
  BY <1>1, FollowingStmt DEF AcceptsInv, Following, Build
<1>10. s[n].next = stack[n].next + 1 /\ \A i \in 1 .. n : i # n => s[i].next = stack[i].next
  BY <1>1, <1>2, <1>4
<1>11. \E k : /\ IsCalls(stack, k) /\ IsCalls(s, k) /\ s \in Seq(Frames)
              /\ \A i \in 1 .. k : s[i].node = stack[i].node
              /\ \A i \in 1 .. k : i # k => s[i].next = stack[i].next
              /\ s[k].next = stack[k].next + 1
              /\ stack[k].node = Build
              /\ stack[k].next \in DOMAIN Sub(stack[k].node)
              /\ Sub(stack[k].node)[stack[k].next] = Following
  BY <1>1, <1>3, <1>5, <1>8, <1>9, <1>10
<1> QED
  BY <1>11 DEF s

\* What the steps of one call leave is what they began with.
LEMMA CallsUnchanged ==
    ASSUME TypedefInv, InBuild, NEW s, s # <<>>, s[1].node = stack[1].node, PathInv(s),
           \A x : Done(s, x) <=> Done(stack, x)
    PROVE  CompleteInv(s, complete, outcome) /\ FilesInv(files, s, outcome)
<1>1. Current(stack, stack[1].node) /\ stack[1].node \in Top
  BY StackIsCalls DEF TypedefInv, InBuild, Current
<1>2. \A x \in Under(stack[1].node) : x \in complete <=> Done(stack, x)
  BY <1>1 DEF TypedefInv, CompleteInv
<1> QED
  BY <1>2, CallsKeep

\* A step that only passes a substatement which is no node keeps what is complete.
LEMMA TakesOn ==
    ASSUME TypedefInv, Reading, Kw(Following) \in Prefixed \cup Meta, NEW g \in Frames,
           g.node = Build, g.next = Inner.next + 1
    PROVE  LET s == [stack EXCEPT ![Len(stack)] = g]
           IN  CompleteInv(s, complete, outcome) /\ FilesInv(files, s, outcome)
<1> DEFINE s == [stack EXCEPT ![Len(stack)] = g]
<1>1. PICK n : /\ IsCalls(stack, n) /\ IsCalls(s, n) /\ s \in Seq(Frames)
               /\ \A i \in 1 .. n : s[i].node = stack[i].node
               /\ \A i \in 1 .. n : i # n => s[i].next = stack[i].next
               /\ s[n].next = stack[n].next + 1
               /\ stack[n].node = Build
               /\ stack[n].next \in DOMAIN Sub(stack[n].node)
               /\ Sub(stack[n].node)[stack[n].next] = Following
  BY TakenIsCalls DEF TypedefInv
<1>2. PathInv(stack) /\ doc \in Documents /\ InBuild
  BY DEF TypedefInv, CompleteInv, AcceptsInv, IInv, Reading, InBuild
<1>3. Following \notin NodesIn(Build)
  BY DEF NodesIn
<1> HIDE DEF s
<1>4. PathInv(s) /\ \A x : Done(s, x) <=> Done(stack, x)
  BY <1>1, <1>2, <1>3, PathGoesOn
<1>5. s # <<>> /\ s[1].node = stack[1].node
  <2>1. 1 \in 1 .. n /\ Len(s) # 0
    BY <1>1 DEF IsCalls
  <2> QED
    BY <1>1, <2>1
<1>6. CompleteInv(s, complete, outcome) /\ FilesInv(files, s, outcome)
  BY <1>2, <1>4, <1>5, CallsUnchanged
<1> QED
  BY <1>6 DEF s

\* A node taken begins a call one deeper, of whose nodes none is complete yet; a field that
\* is no node is passed over.
THEOREM FieldTypedefs == TypedefInv /\ Field =>
    FilesInv(files, stack', outcome) /\ CompleteInv(stack', complete, outcome)
<1> SUFFICES ASSUME TypedefInv, Field
             PROVE  FilesInv(files, stack', outcome) /\ CompleteInv(stack', complete, outcome)
  OBVIOUS
<1>1. /\ AcceptsInv /\ IInv /\ doc \in Documents /\ Reading /\ InBuild
      /\ Kw(Following) \notin Meta /\ Taking(Build, Following)
  BY DEF TypedefInv, AcceptsInv, IInv, Field, Reading
<1>2. PICK g \in Frames :
          /\ Taken = [stack EXCEPT ![Len(stack)] = g]
          /\ g.node = Build /\ g.next = Inner.next + 1 /\ g.name = Inner.name
  BY <1>1, TakenFrame
<1>3. PICK n : /\ IsCalls(stack, n) /\ IsCalls(Taken, n) /\ Taken \in Seq(Frames)
               /\ \A i \in 1 .. n : Taken[i].node = stack[i].node
               /\ \A i \in 1 .. n : i # n => Taken[i].next = stack[i].next
               /\ Taken[n].next = stack[n].next + 1
               /\ stack[n].node = Build
               /\ stack[n].next \in DOMAIN Sub(stack[n].node)
               /\ Sub(stack[n].node)[stack[n].next] = Following
  BY <1>1, <1>2, TakenIsCalls
<1>4. /\ Frame(Following) \in Frames /\ Frame(Following).node = Following
      /\ Frame(Following).next = 1 /\ Following \in Stmts
  <2>1. Following \in Stmts
    BY <1>1, FollowingStmt
  <2> QED
    BY <1>1, <2>1, FirstFrame, FirstCall
<1> DEFINE s == Append(Taken, Frame(Following))
<1>5. n \in Nat \ {0} /\ Len(Taken) = n /\ DOMAIN Taken = 1 .. n
  BY <1>3 DEF IsCalls
<1>6. /\ Len(s) = n + 1 /\ DOMAIN s = 1 .. (n + 1) /\ s[n + 1] = Frame(Following)
      /\ \A i \in 1 .. n : s[i] = Taken[i]
  BY <1>3, <1>4, <1>5
<1>7. stack' = s
  BY DEF Field
<1> HIDE DEF s
<1>8. /\ 1 \in 1 .. n /\ n \in 1 .. n /\ n + 1 \in Nat \ {0}
      /\ \A i \in 1 .. (n + 1) : i \in 1 .. n \/ i = n + 1
  BY <1>5
<1>9. IsCalls(s, n + 1)
  <2>1. \A i \in 1 .. n : s[i].node \in Stmts /\ s[i].next \in Nat \ {0}
    BY <1>3, <1>6 DEF IsCalls
  <2>2. s[n + 1].node \in Stmts /\ s[n + 1].next \in Nat \ {0}
    BY <1>4, <1>6
  <2> QED
    BY <1>6, <1>8, <2>1, <2>2 DEF IsCalls
<1>10. Following \in NodesIn(Build)
  <2>1. Kw(Following) \notin Prefixed
    BY <1>1, NoPrefixedFields DEF Taking
  <2>2. Following \in ToSet(Sub(Build))
    BY <1>3 DEF ToSet
  <2> QED
    BY <1>1, <2>1, <2>2 DEF NodesIn
<1>11. PathInv(stack)
  BY <1>1 DEF TypedefInv, CompleteInv, InBuild
<1>12. PathInv(s) /\ \A x : Done(s, x) <=> Done(stack, x)
  <2>1. \A i \in 1 .. n : s[i].node = stack[i].node
    BY <1>3, <1>6
  <2>2. \A i \in 1 .. n : i # n => s[i].next = stack[i].next
    BY <1>3, <1>6
  <2>3. s[n].next = stack[n].next + 1 /\ s[n + 1].next = 1 /\ s[n + 1].node = Following
    BY <1>3, <1>4, <1>6, <1>8
  <2> QED
    BY <1>1, <1>3, <1>9, <1>10, <1>11, <2>1, <2>2, <2>3, PathDeeper
<1>13. s # <<>> /\ s[1].node = stack[1].node
  <2>1. Len(s) # 0
    BY <1>5, <1>6
  <2> QED
    BY <1>3, <1>6, <1>8, <2>1
<1> QED
  BY <1>1, <1>7, <1>12, <1>13, CallsUnchanged

\* Taking a name passes over a substatement that is no node: nothing becomes complete.
THEOREM MetaFieldTypedefs == TypedefInv /\ MetaField =>
    FilesInv(files, stack', outcome) /\ CompleteInv(stack', complete, outcome)
<1> SUFFICES ASSUME TypedefInv, MetaField
             PROVE  FilesInv(files, stack', outcome) /\ CompleteInv(stack', complete, outcome)
  OBVIOUS
<1> DEFINE given == IF Kw(Following) = "Name" THEN Arg(Following) ELSE Inner.name
<1>1. IInv /\ doc \in Documents /\ Reading /\ Kw(Following) \in Meta
  BY DEF TypedefInv, AcceptsInv, IInv, MetaField, Meta
<1>2. Inner \in Frames /\ Following \in Stmts
  BY <1>1, FollowingStmt, InnerFrame DEF Reading
<1>3. given \in STRING
  BY <1>1, <1>2, Numbered DEF Frames
<1>4. stack' = [Taken EXCEPT ![Len(stack)].name = given]
  <2>1. stack \in Seq(Frames) /\ Len(stack) \in DOMAIN stack
    BY <1>1, InnerFrame DEF IInv, StackInv, Reading
  <2>2. Taken[Len(stack)] = [Inner EXCEPT !.next = @ + 1]
    BY <2>1 DEF Taken, Inner
  <2>3. Taken[Len(stack)].name = Inner.name
    BY <1>2, <2>2 DEF Frames
  <2> QED
    BY <2>3 DEF MetaField
<1> HIDE DEF given
<1>5. PICK g \in Frames :
          /\ [Taken EXCEPT ![Len(stack)].name = given] = [stack EXCEPT ![Len(stack)] = g]
          /\ g.node = Build /\ g.next = Inner.next + 1 /\ g.name = given
  BY <1>1, <1>3, TakenFrame
<1> QED
  BY <1>1, <1>4, <1>5, TakesOn

\* Keeping an extension passes over a substatement that is no node.
THEOREM KeepExtensionTypedefs == TypedefInv /\ KeepExtension =>
    FilesInv(files, stack', outcome) /\ CompleteInv(stack', complete, outcome)
<1> SUFFICES ASSUME TypedefInv, KeepExtension
             PROVE  FilesInv(files, stack', outcome) /\ CompleteInv(stack', complete, outcome)
  OBVIOUS
<1>1. IInv /\ Reading /\ Kw(Following) \in Prefixed /\ stack' = Taken
  BY DEF TypedefInv, AcceptsInv, KeepExtension
<1>2. PICK g \in Frames :
          /\ Taken = [stack EXCEPT ![Len(stack)] = g]
          /\ g.node = Build /\ g.next = Inner.next + 1 /\ g.name = Inner.name
  BY <1>1, TakenFrame
<1> QED
  BY <1>1, <1>2, TakesOn

\* The innermost call fails.
LEMMA FailedTypedefs ==
    ASSUME TypedefInv, InBuild, ~ Legal(Build), Reading => ~ Acceptable(Build, Following),
           NEW result \in {"error", "panic"}, Ends(result)
    PROVE  FilesInv(files, stack', outcome') /\ CompleteInv(stack', complete, outcome')
<1> DEFINE root == stack[1].node
<1>1. PICK n : /\ IsCalls(stack, n) /\ stack \in Seq(Frames)
               /\ Inner = stack[n] /\ Build = stack[n].node
               /\ root \in Top /\ root \in Stmts /\ doc \in Documents
  BY StackIsCalls DEF TypedefInv
<1>2. n \in Nat \ {0} /\ Len(stack) = n /\ DOMAIN stack = 1 .. n /\ n \in 1 .. n
  BY <1>1 DEF IsCalls
<1>3. PathInv(stack) /\ CallsInv(stack) /\ StackInv(stack)
  BY DEF TypedefInv, AcceptsInv, IInv, CompleteInv, InBuild
<1>4. \A i \in 1 .. n :
         /\ \A j \in DOMAIN Sub(stack[i].node) :
               j < stack[i].next => Acceptable(stack[i].node, Sub(stack[i].node)[j])
         /\ ValidBefore(stack[i], Passed(stack, i))
         /\ i < n =>
               /\ stack[i].next - 1 \in DOMAIN Sub(stack[i].node)
               /\ stack[i + 1].node = Sub(stack[i].node)[stack[i].next - 1]
  BY <1>2, <1>3 DEF StackInv, FrameInv, CallsInv, Passed
<1>5. stack[n].next \in DOMAIN Sub(stack[n].node) =>
         ~ Acceptable(stack[n].node, Sub(stack[n].node)[stack[n].next])
  <2>1. stack[n].node \in Stmts
    BY <1>1, <1>2 DEF IsCalls
  <2>2. stack[n].next \in DOMAIN Sub(stack[n].node) => Reading
    BY <1>1, <2>1, SubOfStmt DEF Reading
  <2> QED
    BY <1>1, <2>2 DEF Following
<1>6. \A x \in Under(root) : x \in complete <=> Done(stack, x)
  BY <1>1 DEF TypedefInv, CompleteInv, Current, InBuild
<1>7. \A x \in Under(root) : Done(stack, x) <=> Valid(x) /\ ReachedFrom(root, x)
  BY <1>1, <1>3, <1>4, <1>5, PathFails
<1>8. Alias(Kw(root)) \in Keywords
  BY <1>3 DEF CallsInv, InBuild
<1>9. \A x \in Under(root) : x \in complete <=> IsBuilt(root, x)
  BY <1>6, <1>7, <1>8 DEF IsBuilt
<1>10. result # "none"
  OBVIOUS
<1> QED
  BY <1>9, <1>10, CallsEnd DEF Ends

\* The panic at a Parent of the statement at the top leaves complete what is valid and was
\* reached before it.
THEOREM NoParentTypedefs == TypedefInv /\ NoParent =>
    FilesInv(files, stack', outcome') /\ CompleteInv(stack', complete, outcome')
<1> SUFFICES ASSUME TypedefInv, NoParent
             PROVE  FilesInv(files, stack', outcome') /\ CompleteInv(stack', complete, outcome')
  OBVIOUS
<1>1. /\ AcceptsInv /\ IInv /\ Reading /\ InBuild
      /\ Kw(Following) = "Parent" /\ Ends("panic") /\ Build = stack[1].node
  BY DEF TypedefInv, AcceptsInv, NoParent, Reading, Build, Inner
<1>2. Build \in Top /\ Following \in ToSet(Sub(Build))
  BY <1>1, FollowingStmt DEF AcceptsInv, CallsInv, InBuild, Build, ToSet
<1>3. ~ Acceptable(Build, Following) /\ ~ Legal(Build)
  BY <1>1, <1>2, NoParentAtTop DEF Legal
<1> QED
  BY <1>1, <1>3, FailedTypedefs

\* So does the failure at a substatement that is refused.
THEOREM RefuseTypedefs == TypedefInv /\ Refuse =>
    FilesInv(files, stack', outcome') /\ CompleteInv(stack', complete, outcome')
<1> SUFFICES ASSUME TypedefInv, Refuse
             PROVE  FilesInv(files, stack', outcome') /\ CompleteInv(stack', complete, outcome')
  OBVIOUS
<1>1. /\ AcceptsInv /\ IInv /\ doc \in Documents /\ Reading /\ InBuild /\ Ends("error")
      /\ ~ Taking(Build, Following)
      /\ Kw(Following) \notin Prefixed \cup {"Statement", "Parent"}
      /\ Kw(Following) = "Name" => Inner.name # ""
  BY DEF TypedefInv, AcceptsInv, IInv, Refuse, Reading
<1>2. /\ Following = Sub(Inner.node)[Inner.next] /\ Inner.next \in DOMAIN Sub(Inner.node)
      /\ Inner \in Frames /\ Inner.node = Build /\ NameInv(Inner)
      /\ Following \in ToSet(Sub(Build))
  BY <1>1, FollowingStmt, InnerFrame DEF Build, Inner, AcceptsInv, CallsInv, ToSet
<1>3. ~ Acceptable(Build, Following)
  BY <1>1, <1>2, RefusedIsNotAcceptable
<1>4. ~ Legal(Build)
  BY <1>2, <1>3 DEF Legal
<1> QED
  BY <1>1, <1>3, <1>4, FailedTypedefs

\* So does the failure at the end of a node without what it requires.
THEOREM MissingTypedefs == TypedefInv /\ Missing =>
    FilesInv(files, stack', outcome') /\ CompleteInv(stack', complete, outcome')
<1> SUFFICES ASSUME TypedefInv, Missing
             PROVE  FilesInv(files, stack', outcome') /\ CompleteInv(stack', complete, outcome')
  OBVIOUS
<1>1. InBuild /\ ~ Reading /\ Ends("error") /\ ~ Legal(Build)
  BY IncompleteIsNotLegal DEF Missing
<1> QED
  BY <1>1, FailedTypedefs

\* A node that is complete is one more that its call around has passed; the last is the
\* statement at the top, all of which is complete.
THEOREM CompleteTypedefs == TypedefInv /\ Complete =>
    FilesInv(files, stack', outcome') /\ CompleteInv(stack', complete', outcome')
<1> SUFFICES ASSUME TypedefInv, Complete
             PROVE  FilesInv(files, stack', outcome') /\ CompleteInv(stack', complete', outcome')
  OBVIOUS
<1> DEFINE root == stack[1].node
<1>1. /\ AcceptsInv /\ IInv /\ InBuild /\ ~ (Inner.next <= Len(Sub(Build))) /\ HasRequired(Build)
      /\ complete' = complete \cup {Build}
  BY DEF TypedefInv, AcceptsInv, Complete, Reading
<1>2. PICK k : /\ IsCalls(stack, k) /\ stack \in Seq(Frames)
               /\ Inner = stack[k] /\ Build = stack[k].node
               /\ root \in Top /\ root \in Stmts /\ doc \in Documents
  BY <1>1, StackIsCalls
<1>3. PathInv(stack) /\ CallsInv(stack) /\ Alias(Kw(root)) \in Keywords
  BY DEF TypedefInv, AcceptsInv, CompleteInv, CallsInv, Complete, InBuild
<1>4. k \in Nat \ {0} /\ Len(stack) = k /\ DOMAIN stack = 1 .. k /\ k \in 1 .. k
  BY <1>2 DEF IsCalls
<1>5. \A j \in DOMAIN Sub(Build) : j < Inner.next
  <2>1. Inner.next \in Nat \ {0} /\ Build \in Stmts
    BY <1>2, <1>4 DEF IsCalls
  <2> QED
    BY <1>1, <1>2, <2>1, SubOfStmt
<1>6. \A x \in Under(root) : x \in complete <=> Done(stack, x)
  BY <1>2 DEF TypedefInv, CompleteInv, Current, Complete, InBuild
<1>7. Build \in Under(root)
  <2>1. 1 \in 1 .. k
    BY <1>4
  <2> QED
    BY <1>2, <1>3, <1>4, <2>1 DEF PathInv
<1>8. CASE k = 1
  <2>1. Build = root /\ Ends("built")
    BY <1>2, <1>4, <1>8 DEF Complete
  <2>2. \A x \in Under(root) : Done(stack, x) \/ x = root
    BY <1>2, <1>3, <1>5, <1>8, <2>1, PathEnds
  <2>3. Valid(root)
    <3>1. outcome' = [outcome EXCEPT ![root] = "built"]
      BY <2>1 DEF Complete, Ends
    <3>2. outcome'[root] = "built"
      BY <1>1, <1>2, <3>1 DEF AcceptsInv, OutcomeInv
    <3>3. OutcomeInv(outcome')
      <4>1. CallsInv(stack') /\ OutcomeInv(outcome')
        BY <1>1, CompleteAccepts
      <4> QED
        BY <4>1
    <3> QED
      BY <1>2, <3>2, <3>3 DEF OutcomeInv, Buildable
  <2>4. \A x \in Under(root) : x \in complete' <=> IsBuilt(root, x)
    BY <1>1, <1>2, <1>3, <1>6, <2>1, <2>2, <2>3, PathBuilt DEF IsBuilt
  <2>5. "built" # "none"
    OBVIOUS
  <2> QED
    BY <1>1, <1>7, <2>1, <2>4, <2>5, CallsEnd DEF Ends
<1>9. CASE k # 1
  <2> DEFINE s == Front(stack)
  <2>1. stack' = s /\ outcome' = outcome
    BY <1>4, <1>9 DEF Complete
  <2>2. PICK n \in Nat \ {0} : k = n + 1
    <3>1. k - 1 \in Nat \ {0} /\ k = k - 1 + 1
      BY <1>4, <1>9
    <3> QED
      BY <3>1
  <2>3. Len(s) = n /\ DOMAIN s = 1 .. n /\ \A i \in 1 .. n : s[i] = stack[i]
    BY <1>2, <1>4, <2>2 DEF Front
  <2> HIDE DEF s
  <2>4. n \in 1 .. k /\ n < k /\ 1 \in 1 .. n /\ \A i \in 1 .. n : i \in 1 .. k
    BY <2>2
  <2>5. IsCalls(s, n)
    BY <1>2, <2>3, <2>4 DEF IsCalls
  <2>6. /\ stack[n].next - 1 \in DOMAIN Sub(stack[n].node)
        /\ stack[n + 1].node = Sub(stack[n].node)[stack[n].next - 1]
    BY <1>3, <1>4, <2>4 DEF CallsInv
  <2>7. PathInv(s) /\ \A x : Done(s, x) <=> Done(stack, x) \/ x = Build
    BY <1>2, <1>3, <1>5, <2>2, <2>3, <2>5, <2>6, PathReturns
  <2>8. s # <<>> /\ s[1].node = root
    <3>1. Len(s) # 0
      BY <2>3
    <3> QED
      BY <2>3, <2>4, <3>1
  <2>9. \A x \in Under(root) : x \in complete' <=> Done(s, x)
    BY <1>1, <1>6, <2>7
  <2> QED
    BY <1>1, <1>7, <2>1, <2>7, <2>8, <2>9, CallsKeep DEF Complete
<1> QED
  BY <1>8, <1>9

\* A legal node has the name that its argument or its one substatement Name gives it.
LEMMA LegalName ==
    ASSUME doc \in Documents, NEW f \in Frames, FrameInv(f), NameInv(f), Legal(f.node),
           ~ (f.next <= Len(Sub(f.node)))
    PROVE  f.name = NameOf[f.node]
<1> DEFINE n == f.node
           Name(c) == c \in ToSet(Sub(n)) /\ Kw(c) = "Name"
<1>1. n \in Stmts /\ f.next \in Nat
  BY DEF Frames
<1>2. \A j \in DOMAIN Sub(n) : j < f.next
  BY <1>1, SubOfStmt
<1>3. ASSUME NEW c, Name(c)
      PROVE  Arg(n) = "" /\ \A x \in Earlier(n, c) : Arg(x) = ""
  <2>1. Acceptable(n, c)
    BY <1>3 DEF Legal
  <2>2. "Name" \notin Prefixed \cup FieldsOf(Kw(n)).one \cup FieldsOf(Kw(n)).many
    BY NoMetaFields, PrefixedAssumption DEF Meta
  <2> QED
    BY <1>3, <2>1, <2>2 DEF Acceptable
<1>4. CASE f.name = ""
  <2>1. Arg(n) = "" /\ \A c : Name(c) => Arg(c) = ""
    BY <1>2, <1>4 DEF FrameInv, ToSet
  <2>2. Given(n) = {}
    BY <2>1 DEF Given
  <2> QED
    BY <1>1, <1>4, <2>1, <2>2 DEF NameOf
<1>5. CASE f.name # "" /\ Arg(n) = f.name
  BY <1>1, <1>5 DEF NameOf
<1>6. CASE f.name # "" /\ Arg(n) # f.name
  <2>1. PICK c : Name(c) /\ Arg(c) = f.name
    BY <1>6 DEF NameInv, ToSet
  <2>2. ASSUME NEW x, Name(x), Arg(x) # "" PROVE Arg(x) = f.name
    <3>1. x \in Nat /\ c \in Nat
      BY <1>1, <2>1, <2>2, SubOfStmt DEF ToSet
    <3>2. ~ (x < c) /\ ~ (c < x)
      BY <1>3, <1>6, <2>1, <2>2 DEF Earlier
    <3>3. x = c
      BY <3>1, <3>2
    <3> QED
      BY <2>1, <3>3
  <2>3. Given(n) = {f.name}
    BY <1>6, <2>1, <2>2 DEF Given
  <2>4. Arg(n) = ""
    BY <1>3, <2>1
  <2>5. Only({f.name}) = f.name
    BY DEF Only
  <2> QED
    BY <1>1, <2>3, <2>4, <2>5 DEF NameOf
<1> QED
  BY <1>4, <1>5, <1>6

\* A node that is complete has its name, and so have its typedefs.
THEOREM CompleteNames == TypedefInv /\ Complete =>
    NamesInv(complete', names') /\ DictInv(complete', dict')
<1> SUFFICES ASSUME TypedefInv, Complete
             PROVE  NamesInv(complete', names') /\ DictInv(complete', dict')
  OBVIOUS
<1> DEFINE root == stack[1].node
<1>1. /\ AcceptsInv /\ IInv /\ InBuild /\ ~ (Inner.next <= Len(Sub(Build))) /\ HasRequired(Build)
      /\ complete' = complete \cup {Build} /\ names' = [names EXCEPT ![Build] = Inner.name]
      /\ dict' = dict \cup AddTypedefs(Build)
  BY DEF TypedefInv, AcceptsInv, Complete, Reading
<1>2. PICK k : /\ IsCalls(stack, k) /\ stack \in Seq(Frames)
               /\ Inner = stack[k] /\ Build = stack[k].node
               /\ root \in Top /\ root \in Stmts /\ doc \in Documents
  BY <1>1, StackIsCalls
<1>3. k \in DOMAIN stack /\ k = Len(stack) /\ Inner \in Frames /\ FrameInv(Inner) /\ NameInv(Inner)
  BY <1>1, <1>2 DEF IsCalls, IInv, StackInv, AcceptsInv, CallsInv
<1>4. Build \in Stmts /\ Inner.next \in Nat \ {0} /\ Inner.node = Build
  BY <1>2, <1>3 DEF Frames
<1>5. Legal(Build)
  BY <1>1, <1>2, <1>3, <1>4, CompleteIsLegal
<1>6. Inner.name = NameOf[Build]
  BY <1>1, <1>2, <1>3, <1>4, <1>5, LegalName
<1>7. NamesInv(complete', names')
  BY <1>1, <1>4, <1>6 DEF TypedefInv, NamesInv
<1>8. ASSUME NEW t \in TypedefsOf(Build) PROVE names[t] = NameOf[t]
  <2>1. PICK j \in DOMAIN Sub(Build) : Sub(Build)[j] = t /\ Kw(t) = "typedef"
    BY DEF TypedefsOf, ToSet
  <2>2. t \in Stmts /\ j < Inner.next /\ t \in ToSet(Sub(Build))
    <3>1. /\ DOMAIN Sub(Build) = 1 .. Len(Sub(Build)) /\ Len(Sub(Build)) \in Nat
          /\ Sub(Build)[j] \in Stmts
      BY <1>2, <1>4, SubOfStmt
    <3>2. j < Inner.next
      BY <1>1, <1>4, <3>1
    <3> QED
      BY <2>1, <3>1, <3>2 DEF ToSet
  <2>3. t \in NodesIn(Build)
    <3>1. "typedef" \in DOMAIN NodeType
      BY DEF NodeType, Unhyphenated
    <3>2. "typedef" \notin Prefixed \cup Meta
      BY <3>1, PrefixedAssumption DEF Keywords, Meta
    <3> QED
      BY <2>1, <2>2, <3>2 DEF NodesIn
  <2>4. t \in Under(t) /\ Under(t) \subseteq Under(Build)
    BY <1>2, <1>4, <2>2, <2>3, ValidIs
  <2>5. Passed(stack, k) = Inner.next
    BY <1>2, <1>3 DEF Passed
  <2>6. Done(stack, t)
    BY <1>2, <1>3, <2>1, <2>2, <2>3, <2>4, <2>5 DEF Done, Behind
  <2>7. t \in Under(root)
    BY <1>1, <1>2, <1>3, <2>4 DEF AcceptsInv, CallsInv
  <2>8. t \in complete
    BY <1>1, <1>2, <2>6, <2>7 DEF TypedefInv, CompleteInv, Current, InBuild
  <2> QED
    BY <2>8 DEF TypedefInv, NamesInv
<1>9. AddTypedefs(Build) = NamedTypedefs(Build)
  BY <1>8 DEF AddTypedefs, NamedTypedefs, Entries, Kept
<1> QED
  BY <1>1, <1>7, <1>9 DEF TypedefInv, DictInv

\* A statement at the top is begun, or has no type: none of its nodes is complete.
THEOREM ParseTypedefs == TypedefInv /\ Parse =>
    FilesInv(files', stack', outcome') /\ CompleteInv(stack', complete, outcome')
<1> SUFFICES ASSUME TypedefInv, Parse
             PROVE  FilesInv(files', stack', outcome') /\ CompleteInv(stack', complete, outcome')
  OBVIOUS
<1> DEFINE root == Head(files)
<1>1. /\ doc \in Documents /\ root \in Top /\ root \in Stmts /\ stack = <<>>
      /\ files \in Seq(Stmts) /\ files # <<>> /\ files' = Tail(files)
  BY DEF TypedefInv, AcceptsInv, IInv, Parse, InBuild, ToSet
<1>2. \A n : ~ Current(stack, n)
  BY <1>1 DEF Current
<1>3. /\ \A n \in Top : \A x \in Under(n) : x \in complete <=> outcome[n] # "none" /\ IsBuilt(n, x)
      /\ outcome[root] = "none"
  <2>1. root \in ToSet(files)
    BY <1>1 DEF ToSet
  <2> QED
    BY <1>2, <2>1 DEF TypedefInv, CompleteInv, FilesInv
<1>4. /\ \A i, j \in DOMAIN files' : i < j => files'[i] < files'[j]
      /\ \A n \in ToSet(files') : n # root /\ n \in ToSet(files)
  <2>1. /\ DOMAIN files = 1 .. Len(files) /\ Len(files) \in Nat \ {0}
        /\ files[1] = root /\ 1 \in DOMAIN files
        /\ DOMAIN files' = 1 .. Len(files) - 1
        /\ \A i \in DOMAIN files' : files'[i] = files[i + 1]
    BY <1>1
  <2>2. \A i, j \in DOMAIN files : i < j => files[i] < files[j]
    BY DEF TypedefInv, FilesInv
  <2>3. \A i \in DOMAIN files' : i + 1 \in DOMAIN files /\ 1 < i + 1 /\ i \in Nat
    BY <2>1
  <2>4. \A i, j \in DOMAIN files' : i < j => i + 1 < j + 1
    BY <2>3
  <2>5. \A i \in DOMAIN files' : files[1] < files'[i] /\ files'[i] \in Nat
    BY <1>1, <2>1, <2>2, <2>3, Places
  <2>6. \A i \in DOMAIN files' : files'[i] # root
    BY <1>1, <2>1, <2>5, Places
  <2> QED
    BY <2>1, <2>2, <2>3, <2>4, <2>6 DEF ToSet
<1>5. CASE Alias(Kw(root)) \in Keywords
  <2> DEFINE s == <<Frame(root)>>
  <2>1. stack' = s /\ outcome' = outcome
    BY <1>5 DEF Parse
  <2>2. /\ Frame(root) \in Frames /\ Frame(root).node = root /\ Frame(root).next = 1
    BY <1>1, FirstFrame, FirstCall
  <2>3. s # <<>> /\ s[1] = Frame(root) /\ Len(s) = 1 /\ DOMAIN s = 1 .. 1
    OBVIOUS
  <2> HIDE DEF s
  <2>4. IsCalls(s, 1)
    <3>1. s[1].node \in Stmts /\ s[1].next \in Nat \ {0}
      BY <1>1, <2>2, <2>3
    <3>2. \A i \in 1 .. 1 : i = 1
      OBVIOUS
    <3> QED
      BY <2>3, <3>1, <3>2 DEF IsCalls
  <2>5. PathInv(s) /\ \A x : ~ Done(s, x)
    BY <1>1, <2>2, <2>3, <2>4, PathBegins
  <2>6. \A n : Current(s, n) <=> n = root
    BY <2>2, <2>3 DEF Current
  <2>7. FilesInv(files', s, outcome)
    BY <1>4, <2>6 DEF TypedefInv, FilesInv
  <2>8. CompleteInv(s, complete, outcome)
    BY <1>3, <2>5, <2>6 DEF CompleteInv
  <2> QED
    BY <2>1, <2>7, <2>8
<1>6. CASE Alias(Kw(root)) \notin Keywords
  <2> DEFINE o == [outcome EXCEPT ![root] = "panic"]
  <2>1. stack' = <<>> /\ outcome' = o
    BY <1>6 DEF Parse
  <2>2. o[root] = "panic" /\ \A n \in Top : n # root => o[n] = outcome[n]
    BY <1>1 DEF TypedefInv, AcceptsInv, OutcomeInv
  <2> HIDE DEF o
  <2>3. \A x : ~ IsBuilt(root, x)
    BY <1>6 DEF IsBuilt
  <2>4. \A n : ~ Current(<<>>, n)
    BY DEF Current
  <2>5. CompleteInv(<<>>, complete, o)
    <3>1. ASSUME NEW n \in Top, NEW x \in Under(n)
          PROVE  x \in complete <=> o[n] # "none" /\ IsBuilt(n, x)
      BY <1>3, <2>2, <2>3
    <3> QED
      BY <2>4, <3>1 DEF CompleteInv
  <2>6. FilesInv(files', <<>>, o)
    <3>1. ToSet(files) \subseteq Top
      BY DEF TypedefInv, AcceptsInv, IInv
    <3> QED
      BY <1>4, <2>2, <2>4, <3>1 DEF TypedefInv, FilesInv
  <2> QED
    BY <2>1, <2>5, <2>6
<1> QED
  BY <1>5, <1>6

\* The invariant is inductive: each step keeps what is complete, and what the dictionary
\* has is the typedefs of the complete nodes.
THEOREM TypedefNext == TypedefInv /\ [Next]_vars => TypedefInv'
<1> SUFFICES ASSUME TypedefInv, [Next]_vars PROVE TypedefInv'
  OBVIOUS
<1>1. AcceptsInv'
  BY AcceptsNext DEF TypedefInv
<1>2. doc' = doc
  BY DEF Next, Parse, Field, MetaField, NoParent, KeepExtension, Refuse, Missing, Complete, vars
<1>3. NamesInv(complete', names') /\ DictInv(complete', dict')
  <2>1. CASE Complete
    BY <2>1, CompleteNames
  <2>2. CASE UNCHANGED <<complete, names, dict>>
    BY <2>2 DEF TypedefInv, NamesInv, DictInv
  <2> QED
    BY <2>1, <2>2
       DEF Next, Parse, Field, MetaField, NoParent, KeepExtension, Refuse, Missing, vars
<1>4. FilesInv(files', stack', outcome') /\ CompleteInv(stack', complete', outcome')
  <2>1. CASE Parse
    BY <2>1, ParseTypedefs DEF Parse
  <2>2. CASE Field
    BY <2>2, FieldTypedefs DEF Field
  <2>3. CASE MetaField
    BY <2>3, MetaFieldTypedefs DEF MetaField
  <2>4. CASE NoParent
    BY <2>4, NoParentTypedefs DEF NoParent
  <2>5. CASE KeepExtension
    BY <2>5, KeepExtensionTypedefs DEF KeepExtension
  <2>6. CASE Refuse
    BY <2>6, RefuseTypedefs DEF Refuse
  <2>7. CASE Missing
    BY <2>7, MissingTypedefs DEF Missing
  <2>8. CASE Complete
    BY <2>8, CompleteTypedefs DEF Complete
  <2>9. CASE UNCHANGED vars
    BY <2>9 DEF TypedefInv, vars
  <2> QED
    BY <2>1, <2>2, <2>3, <2>4, <2>5, <2>6, <2>7, <2>8, <2>9 DEF Next
<1> QED
  BY <1>1, <1>2, <1>3, <1>4, TypedefAfter

\* Before the first call nothing is complete and the dictionary is empty.
THEOREM TypedefInit == Init => TypedefInv
<1> SUFFICES ASSUME Init PROVE TypedefInv
  OBVIOUS
<1>1. AcceptsInv /\ doc \in Documents
  <2>1. OutcomeInv(outcome)
    BY DEF Init, OutcomeInv
  <2> QED
    BY <2>1, InvariantInit, NoCallsEither DEF AcceptsInv, Init
<1>2. \A n : ~ Current(stack, n)
  BY DEF Init, Current
<1>3. FilesInv(files, stack, outcome)
  <2>1. \A i, j \in DOMAIN files : i < j => files[i] < files[j]
    BY <1>1, DocumentsAssumption DEF Init
  <2>2. \A n \in ToSet(files) : outcome[n] = "none"
    BY DEF Init, Top
  <2> QED
    BY <1>2, <2>1, <2>2 DEF FilesInv
<1>4. CompleteInv(stack, complete, outcome)
  BY <1>2 DEF CompleteInv, Init
<1>5. NamesInv(complete, names) /\ DictInv(complete, dict)
  BY DEF NamesInv, DictInv, Init
<1> QED
  BY <1>1, <1>3, <1>4, <1>5 DEF TypedefInv

\* The types that have typedefs implement Typedefer.
LEMMA HoldersAreTypedefers ==
    ASSUME NEW k, "typedef" \in FieldsOf(k).one \cup FieldsOf(k).many
    PROVE  k \in Typedefers
<1> DEFINE Others ==
        {Import, Include, Revision, BelongsTo, Typedef, TypeStatement, Must, Leaf, LeafList,
         Choice, Case, AnyXML, AnyData, Uses, Refine, Augment, Identity, Extension, Argument,
         Feature, Deviation, Deviate, Enum, Bit, RangeStatement, Length, Pattern, Value}
<1>1. \A t \in Others : "typedef" \notin t.one \cup t.many
  BY DEF Import, Include, Revision, BelongsTo, Typedef, TypeStatement, Must, Leaf, LeafList,
         Choice, Case, AnyXML, AnyData, Uses, Refine, Augment, Identity, Extension, Argument,
         Feature, Deviation, Deviate, Enum, Bit, RangeStatement, Length, Pattern, Value,
         Fields, DataNodes, Documented, Explained
<1>2. \A l \in DOMAIN Unhyphenated : l \in Typedefers \/ Unhyphenated[l] \in Others
  BY DEF Unhyphenated, Typedefers
<1>3. LeafList \in Others /\ BelongsTo \in Others /\ Value \in Others
  OBVIOUS
<1> HIDE DEF Others
<1>4. \A l \in DOMAIN NodeType : l \in Typedefers \/ NodeType[l] \in Others
  BY <1>2, <1>3 DEF NodeType
<1>5. "submodule" \in Typedefers
  BY DEF Typedefers
<1> QED
  BY <1>1, <1>3, <1>4, <1>5 DEF FieldsOf, Alias

\* A legal node with typedefs is one whose typedefs are added.
LEMMA LegalTypedefs ==
    ASSUME NEW x, Legal(x)
    PROVE  NamedTypedefs(x) = Entries(x, NameOf)
<1>1. CASE Kw(x) \in Typedefers
  BY <1>1 DEF NamedTypedefs
<1>2. CASE Kw(x) \notin Typedefers
  <2>1. "typedef" \notin Prefixed
    <3>1. "typedef" \in DOMAIN NodeType
      BY DEF NodeType, Unhyphenated
    <3> QED
      BY <3>1, PrefixedAssumption DEF Keywords
  <2>2. ASSUME NEW t \in TypedefsOf(x) PROVE FALSE
    <3>1. Acceptable(x, t) /\ Kw(t) = "typedef"
      BY DEF Legal, TypedefsOf
    <3>2. "typedef" \in FieldsOf(Kw(x)).one \cup FieldsOf(Kw(x)).many
      BY <2>1, <3>1 DEF Acceptable
    <3> QED
      BY <1>2, <3>2, HoldersAreTypedefers
  <2>3. Entries(x, NameOf) = {}
    BY <2>2 DEF Entries, Kept
  <2> QED
    BY <1>2, <2>3 DEF NamedTypedefs
<1> QED
  BY <1>1, <1>2

\* Of whatever documents, the dictionary has the typedefs of exactly the nodes that can
\* be built and are reached, those of refused files among them.
THEOREM TypedefsCorrect == Spec => []TypedefsOfNodes
<1>1. TypedefInv => TypedefsOfNodes
  <2> SUFFICES ASSUME TypedefInv, NEW n \in Top, Finished(n), NEW x \in Under(n)
               PROVE  {e \in dict : e[1] = x} =
                          IF IsBuilt(n, x) THEN Entries(x, NameOf) ELSE {}
    BY DEF TypedefsOfNodes, IsBuilt
  <2>1. \A y, e : e \in NamedTypedefs(y) => e[1] = y
    BY DEF NamedTypedefs, Entries
  <2>2. \A e : e \in dict <=> \E y \in complete : e \in NamedTypedefs(y)
    BY DEF TypedefInv, DictInv
  <2>3. {e \in dict : e[1] = x} = IF x \in complete THEN NamedTypedefs(x) ELSE {}
    BY <2>1, <2>2
  <2>4. x \in complete <=> IsBuilt(n, x)
    <3>1. ~ Current(stack, n) /\ outcome[n] # "none"
      BY DEF Finished, InBuild, Current
    <3> QED
      BY <3>1 DEF TypedefInv, CompleteInv
  <2>5. IsBuilt(n, x) => Legal(x)
    <3>1. doc \in Documents /\ n \in Stmts
      BY DocumentsAssumption DEF TypedefInv, AcceptsInv, IInv, Top, Stmts, ToSet
    <3>2. x \in Stmts
      BY <3>1, UnderRooted DEF Rooted
    <3> QED
      BY <3>1, <3>2, ValidIs DEF IsBuilt
  <2> QED
    BY <2>3, <2>4, <2>5, LegalTypedefs
<1> QED
  BY <1>1, TypedefInit, TypedefNext, PTL DEF Spec
=============================================================================
