---------------------------- MODULE TypesProofs ----------------------------
(***************************************************************************)
(* Proofs about EnumType and Types.  Whatever statements an enumeration or *)
(* a bits type is made of, its names and values lead to each other, and    *)
(* SetNext gives a value greater than all before.  Every type that is      *)
(* resolved holds the enumeration of its statements: the invariant says    *)
(* which types a call in progress may change.  Root leads to a YangType    *)
(* that equals the one that has it: the invariant says that lists only     *)
(* become longer, and that what is a root is not made again.  The first    *)
(* Process returns an error exactly if something is wrong: the calls in    *)
(* progress are a path through the document, and until there is an error   *)
(* all that is resolved is right.  Every type is what its chain of         *)
(* typedefs says, but for the patterns where two types have appended to    *)
(* the same list: the invariant says why lists are in the same array.      *)
(***************************************************************************)
EXTENDS Types, TLAPS, WellFoundedInduction, FiniteSetTheorems

\* The types of the fields.  toString and toInt are functions of what they hold.
IsEnumType(e) ==
    /\ e = [last |-> e.last, min |-> e.min, max |-> e.max, unique |-> e.unique,
            toString |-> e.toString, toInt |-> e.toInt]
    /\ e.last \in Int /\ e.min \in Int /\ e.max \in Int /\ e.unique \in BOOLEAN
    /\ DOMAIN e.toString \subseteq Int
    /\ e.toInt \in [DOMAIN e.toInt -> Int]

\* NewEnumType and NewBitfield are empty, so that their maps lead to each other.
THEOREM NewWellFormed ==
    /\ IsEnumType(NewEnumType) /\ WellFormed(NewEnumType)
    /\ IsEnumType(NewBitfield) /\ WellFormed(NewBitfield)
<1>1. DOMAIN <<>> = {}
  OBVIOUS
<1>2. <<>> \in [DOMAIN <<>> -> Int]
  OBVIOUS
<1> QED
  BY <1>1, <1>2, EnumAssumption
  DEF IsEnumType, WellFormed, NewEnumType, NewBitfield

\* What Set makes of a type that does not refuse the name and value.
LEMMA SetResult ==
    ASSUME NEW e, NEW name, NEW value \in Int, IsEnumType(e),
           ~ Refused(e, name, value)
    PROVE  LET f == Set(e, name, value) IN
           /\ IsEnumType(f)
           /\ f.min = e.min /\ f.max = e.max /\ f.unique = e.unique
           /\ f.last = Highest(e, value)
           /\ DOMAIN f.toInt = DOMAIN e.toInt \cup {name}
           /\ f.toInt[name] = value
           /\ \A n \in DOMAIN e.toInt : f.toInt[n] = e.toInt[n]
           /\ DOMAIN f.toString = DOMAIN e.toString \cup {value}
           /\ f.toString[value] = name
           /\ \A v \in DOMAIN e.toString : v # value => f.toString[v] = e.toString[v]
<1> DEFINE S == [v \in DOMAIN e.toString \cup {value} |->
                    IF v = value THEN name ELSE e.toString[v]]
           I == [n \in DOMAIN e.toInt \cup {name} |->
                    IF n = name THEN value ELSE e.toInt[n]]
<1>1. Set(e, name, value) =
        [last |-> Highest(e, value), min |-> e.min, max |-> e.max, unique |-> e.unique,
         toString |-> S, toInt |-> I]
  BY DEF Set, IsEnumType
<1>2. Highest(e, value) \in Int
  BY DEF Highest, IsEnumType
<1>3. name \notin DOMAIN e.toInt
  BY DEF Refused
<1>4. I \in [DOMAIN e.toInt \cup {name} -> Int]
  BY DEF IsEnumType
<1> QED
  BY <1>1, <1>2, <1>3, <1>4 DEF IsEnumType

\* Set keeps the maps leading to each other, and its values within the bounds.
THEOREM SetKeepsWellFormed ==
    ASSUME NEW e, NEW name, NEW value \in Int, IsEnumType(e), WellFormed(e)
    PROVE  IsEnumType(Set(e, name, value)) /\ WellFormed(Set(e, name, value))
<1>1. CASE Refused(e, name, value)
  BY <1>1 DEF Set
<1>2. CASE ~ Refused(e, name, value)
  <2> DEFINE f == Set(e, name, value)
  <2>1. /\ IsEnumType(f)
        /\ f.min = e.min /\ f.max = e.max /\ f.unique = e.unique
        /\ f.last = Highest(e, value)
        /\ DOMAIN f.toInt = DOMAIN e.toInt \cup {name}
        /\ f.toInt[name] = value
        /\ \A n \in DOMAIN e.toInt : f.toInt[n] = e.toInt[n]
        /\ DOMAIN f.toString = DOMAIN e.toString \cup {value}
        /\ f.toString[value] = name
        /\ \A v \in DOMAIN e.toString : v # value => f.toString[v] = e.toString[v]
    BY <1>2, SetResult
  <2> HIDE DEF f
  <2>2. /\ name \notin DOMAIN e.toInt
        /\ e.unique => value \notin DOMAIN e.toString
        /\ value \in e.min .. e.max
    BY <1>2 DEF Refused, IsEnumType
  <2>3. value <= f.last /\ e.last <= f.last
    BY <2>1 DEF Highest, IsEnumType
  <2>4. \A n \in DOMAIN f.toInt :
          /\ f.toInt[n] \in f.min .. f.max
          /\ f.toInt[n] <= f.last
          /\ f.toInt[n] \in DOMAIN f.toString
    <3> TAKE n \in DOMAIN f.toInt
    <3>1. CASE n = name
      BY <3>1, <2>1, <2>2, <2>3
    <3>2. CASE n # name
      <4>1. n \in DOMAIN e.toInt /\ f.toInt[n] = e.toInt[n]
        BY <3>2, <2>1
      <4>2. /\ e.toInt[n] \in e.min .. e.max /\ e.toInt[n] <= e.last
            /\ e.toInt[n] \in DOMAIN e.toString
        BY <4>1 DEF WellFormed
      <4>3. e.toInt[n] \in Int /\ e.last \in Int /\ f.last \in Int
        BY <4>1, <2>1 DEF IsEnumType
      <4> QED
        BY <4>1, <4>2, <4>3, <2>1, <2>3
    <3> QED
      BY <3>1, <3>2
  <2>5. \A v \in DOMAIN f.toString :
          f.toString[v] \in DOMAIN f.toInt /\ f.toInt[f.toString[v]] = v
    <3> TAKE v \in DOMAIN f.toString
    <3>1. CASE v = value
      BY <3>1, <2>1
    <3>2. CASE v # value
      <4>1. v \in DOMAIN e.toString /\ f.toString[v] = e.toString[v]
        BY <3>2, <2>1
      <4>2. e.toString[v] \in DOMAIN e.toInt /\ e.toInt[e.toString[v]] = v
        BY <4>1 DEF WellFormed
      <4> QED
        BY <4>1, <4>2, <2>1
    <3> QED
      BY <3>1, <3>2
  <2>6. ASSUME f.unique, NEW n \in DOMAIN f.toInt
        PROVE  f.toString[f.toInt[n]] = n
    <3>1. CASE n = name
      BY <3>1, <2>1
    <3>2. CASE n # name
      <4>1. n \in DOMAIN e.toInt /\ f.toInt[n] = e.toInt[n]
        BY <3>2, <2>1
      <4>2. e.toInt[n] \in DOMAIN e.toString /\ e.toString[e.toInt[n]] = n
        BY <4>1, <2>1, <2>6 DEF WellFormed
      <4>3. e.toInt[n] # value
        BY <4>2, <2>1, <2>2, <2>6
      <4> QED
        BY <4>1, <4>2, <4>3, <2>1
    <3> QED
      BY <3>1, <3>2
  <2>7. WellFormed(f)
    BY <2>4, <2>5, <2>6 DEF WellFormed
  <2> QED
    BY <2>1, <2>7 DEF f
<1> QED
  BY <1>1, <1>2

\* So does every statement of an enumeration or a bits type, refused or not.
THEOREM StatementKeepsWellFormed ==
    ASSUME NEW e, NEW s \in EnumStatement, IsEnumType(e), WellFormed(e)
    PROVE  IsEnumType(SetStatement(e, s)) /\ WellFormed(SetStatement(e, s))
<1>1. CASE StatementFails(e, s)
  BY <1>1 DEF SetStatement
<1>2. CASE ~ StatementFails(e, s)
  <2>1. ValueOf(e, s) \in Int
    BY DEF ValueOf, EnumStatement, IsEnumType
  <2> QED
    BY <1>2, <2>1, SetKeepsWellFormed DEF SetStatement
<1> QED
  BY <1>1, <1>2

\* SetNext, where it does not fail, gives a value that is greater than all given before.
THEOREM NextIsGreater ==
    ASSUME NEW e, NEW s \in EnumStatement, IsEnumType(e), WellFormed(e),
           s.value = NoValue, ~ StatementFails(e, s)
    PROVE  LET f == SetStatement(e, s) IN
           /\ s.name \in DOMAIN f.toInt
           /\ \A n \in DOMAIN e.toInt : f.toInt[n] = e.toInt[n] /\ e.toInt[n] < f.toInt[s.name]
<1> DEFINE f == SetStatement(e, s)
<1>1. ValueOf(e, s) = e.last + 1 /\ e.last + 1 \in Int
  BY DEF ValueOf, IsEnumType
<1>2. ~ Refused(e, s.name, e.last + 1) /\ f = Set(e, s.name, e.last + 1)
  BY <1>1 DEF StatementFails, SetStatement
<1>3. /\ DOMAIN f.toInt = DOMAIN e.toInt \cup {s.name}
      /\ f.toInt[s.name] = e.last + 1
      /\ \A n \in DOMAIN e.toInt : f.toInt[n] = e.toInt[n]
  BY <1>1, <1>2, SetResult
<1>4. \A n \in DOMAIN e.toInt : e.toInt[n] \in Int /\ e.toInt[n] <= e.last
  BY DEF WellFormed, IsEnumType
<1>5. e.last \in Int
  BY DEF IsEnumType
<1> HIDE DEF f
<1>6. \A n \in DOMAIN e.toInt : e.toInt[n] < e.last + 1
  BY <1>4, <1>5
<1> QED
  BY <1>3, <1>6 DEF f

-----------------------------------------------------------------------------
(* A sequence of statements *)

\* A set of numbers has a least one: induction over the statements.
LEMMA LeastNatural ==
    ASSUME NEW T, T \subseteq Nat, T # {}
    PROVE  \E n \in T : \A m \in T : n <= m
<1> DEFINE R == OpToRel(<, Nat)
<1>1. IsWellFoundedOn(R, Nat)
  BY NatLessThanWellFounded
<1>2. \A x, y \in Nat : x < y => <<x, y>> \in R
  BY DEF OpToRel
<1> HIDE DEF R
<1>3. PICK n \in T : \A m \in T : ~ (<<m, n>> \in R)
  BY <1>1, WFMin
<1>4. \A m \in T : ~ (m < n)
  BY <1>2, <1>3
<1>5. n \in Nat /\ \A m \in T : m \in Nat
  OBVIOUS
<1>6. ASSUME NEW m \in T PROVE n <= m
  BY <1>4, <1>5
<1> QED
  BY <1>6

\* f holds what a type is after each of the first k statements.
Follows(f, new, q, k) ==
    \A i \in 0 .. k : f[i] = IF i = 0 THEN new ELSE SetStatement(f[i - 1], q[i])

\* The recursion of After has a solution for any number of statements.
LEMMA FollowsExists ==
    ASSUME NEW new, NEW q, NEW n \in Nat
    PROVE  \E f : f = [i \in 0 .. n |-> f[i]] /\ Follows(f, new, q, n)
<1> DEFINE Some(k) == \E f : Follows(f, new, q, k)
           T == {k \in Nat : ~ Some(k)}
<1>1. T = {}
  <2> SUFFICES ASSUME T # {} PROVE FALSE
    OBVIOUS
  <2>1. PICK k \in T : \A m \in T : k <= m
    <3>1. T \subseteq Nat
      OBVIOUS
    <3> HIDE DEF T
    <3> QED
      BY <3>1, LeastNatural
  <2>2. k \in Nat /\ ~ Some(k)
    BY <2>1
  <2>3. k # 0
    <3>1. Follows([i \in {0} |-> new], new, q, 0)
      BY DEF Follows
    <3> QED
      BY <2>2, <3>1
  <2>4. k - 1 \in Nat /\ ~ (k <= k - 1)
    BY <2>2, <2>3
  <2>5. Some(k - 1)
    BY <2>1, <2>4
  <2>6. PICK f : Follows(f, new, q, k - 1)
    BY <2>5
  <2> DEFINE g == [i \in 0 .. k |-> IF i = k THEN SetStatement(f[k - 1], q[k]) ELSE f[i]]
  <2>7. Follows(g, new, q, k)
    <3> SUFFICES ASSUME NEW i \in 0 .. k
                 PROVE  g[i] = IF i = 0 THEN new ELSE SetStatement(g[i - 1], q[i])
      BY DEF Follows
    <3>1. CASE i = k
      <4>1. i - 1 \in 0 .. k /\ i - 1 # k
        BY <2>2, <2>3, <3>1
      <4> QED
        BY <2>3, <3>1, <4>1
    <3>2. CASE i # k
      <4>1. i \in 0 .. k - 1
        BY <2>2, <3>2
      <4>2. i # 0 => i - 1 \in 0 .. k /\ i - 1 # k
        BY <2>2, <3>2
      <4>3. f[i] = IF i = 0 THEN new ELSE SetStatement(f[i - 1], q[i])
        BY <2>6, <4>1 DEF Follows
      <4> QED
        BY <3>2, <4>2, <4>3
    <3> QED
      BY <3>1, <3>2
  <2> QED
    BY <2>2, <2>7
<1>2. PICK f : Follows(f, new, q, n)
  BY <1>1
<1> DEFINE g == [i \in 0 .. n |-> f[i]]
<1>3. g = [i \in 0 .. n |-> g[i]]
  OBVIOUS
<1>4. Follows(g, new, q, n)
  <2> SUFFICES ASSUME NEW i \in 0 .. n
               PROVE  g[i] = IF i = 0 THEN new ELSE SetStatement(g[i - 1], q[i])
    BY DEF Follows
  <2>1. f[i] = IF i = 0 THEN new ELSE SetStatement(f[i - 1], q[i])
    BY <1>2 DEF Follows
  <2>2. i # 0 => i - 1 \in 0 .. n
    OBVIOUS
  <2> QED
    BY <2>1, <2>2
<1> QED
  BY <1>3, <1>4

\* So After satisfies it.
LEMMA AfterIs ==
    ASSUME NEW S, NEW q \in Seq(S), NEW new
    PROVE  /\ After(new, q)[0] = new
           /\ \A i \in 1 .. Len(q) : After(new, q)[i] = SetStatement(After(new, q)[i - 1], q[i])
<1> DEFINE Solves(a) ==
               a = [i \in 0 .. Len(q) |-> IF i = 0 THEN new ELSE SetStatement(a[i - 1], q[i])]
           A == CHOOSE a : Solves(a)
<1>1. Len(q) \in Nat
  OBVIOUS
<1>2. PICK f : f = [i \in 0 .. Len(q) |-> f[i]] /\ Follows(f, new, q, Len(q))
  BY <1>1, FollowsExists
<1>3. Solves(f)
  <2>1. \A i \in 0 .. Len(q) : f[i] = IF i = 0 THEN new ELSE SetStatement(f[i - 1], q[i])
    BY <1>2 DEF Follows
  <2> QED
    BY <1>2, <2>1
<1>4. Solves(A)
  BY <1>3
<1>5. After(new, q) = A
  BY DEF After
<1> HIDE DEF A
<1>6. /\ A[0] = new
      /\ \A i \in 1 .. Len(q) : A[i] = SetStatement(A[i - 1], q[i])
  <2>1. \A i \in 0 .. Len(q) : A[i] = IF i = 0 THEN new ELSE SetStatement(A[i - 1], q[i])
    BY <1>4
  <2>2. 0 \in 0 .. Len(q) /\ \A i \in 1 .. Len(q) : i \in 0 .. Len(q) /\ i # 0
    BY <1>1
  <2> QED
    BY <2>1, <2>2
<1> QED
  BY <1>5, <1>6

\* What a statement that is not refused adds, and why one is refused.
LEMMA StatementResult ==
    ASSUME NEW e, NEW s \in EnumStatement, IsEnumType(e), WellFormed(e),
           e.min <= 0, 0 <= e.max,
           e.last >= -1, e.last = -1 \/ \E n \in DOMAIN e.toInt : e.toInt[n] = e.last
    PROVE  LET f == SetStatement(e, s) IN
           /\ f.min = e.min /\ f.max = e.max /\ f.unique = e.unique
           /\ StatementFails(e, s) =>
                 /\ f = e
                 /\ \/ s.name \in DOMAIN e.toInt
                    \/ s.value # NoValue /\ s.value \notin e.min .. e.max
                    \/ e.unique /\ \E n \in DOMAIN e.toInt : e.toInt[n] = s.value
                    \/ s.value = NoValue /\ \E n \in DOMAIN e.toInt : e.toInt[n] \in {MaxEnum, e.max}
           /\ ~ StatementFails(e, s) =>
                 /\ DOMAIN f.toInt = DOMAIN e.toInt \cup {s.name}
                 /\ \A n \in DOMAIN e.toInt : f.toInt[n] = e.toInt[n]
                 /\ f.last >= -1
                 /\ f.last = -1 \/ \E n \in DOMAIN f.toInt : f.toInt[n] = f.last
                 /\ s.value # NoValue => f.toInt[s.name] = s.value
                 /\ s.value = NoValue => \A n \in DOMAIN e.toInt : e.toInt[n] < f.toInt[s.name]
<1> DEFINE f == SetStatement(e, s)
           v == ValueOf(e, s)
<1>1. /\ e.last \in Int /\ e.min \in Int /\ e.max \in Int
      /\ \A n \in DOMAIN e.toInt : e.toInt[n] \in Int /\ e.toInt[n] \in e.min .. e.max
           /\ e.toInt[n] <= e.last
  BY DEF IsEnumType, WellFormed
<1>2. /\ v \in Int
      /\ s.value = NoValue => v = e.last + 1
      /\ s.value # NoValue => v = s.value
  BY <1>1 DEF ValueOf, EnumStatement
<1> HIDE DEF v
<1>3. CASE StatementFails(e, s)
  <2>1. f = e
    BY <1>3 DEF SetStatement
  <2>2. \/ s.name \in DOMAIN e.toInt
        \/ s.value # NoValue /\ s.value \notin e.min .. e.max
        \/ e.unique /\ \E n \in DOMAIN e.toInt : e.toInt[n] = s.value
        \/ s.value = NoValue /\ \E n \in DOMAIN e.toInt : e.toInt[n] \in {MaxEnum, e.max}
    <3>1. CASE s.value = NoValue /\ e.last = MaxEnum
      BY <1>1, <3>1, EnumAssumption
    <3>2. CASE s.name \in DOMAIN e.toInt
      BY <3>2
    <3>3. CASE e.unique /\ v \in DOMAIN e.toString
      <4>1. PICK n \in DOMAIN e.toInt : e.toInt[n] = v
        BY <3>3 DEF WellFormed
      <4>2. s.value # NoValue
        BY <1>1, <1>2, <4>1
      <4> QED
        BY <1>2, <3>3, <4>1, <4>2
    <3>4. CASE s.value # NoValue /\ (v < e.min \/ v > e.max)
      BY <1>1, <1>2, <3>4
    <3>5. CASE s.value = NoValue /\ (v < e.min \/ v > e.max)
      <4>1. e.last >= -1 /\ e.last <= e.max
        BY <1>1
      <4>2. e.last = e.max /\ e.last # -1
        BY <1>1, <1>2, <3>5, <4>1
      <4> QED
        BY <3>5, <4>2
    <3> QED
      BY <1>3, <3>1, <3>2, <3>3, <3>4, <3>5 DEF StatementFails, NoNext, Refused, v
  <2> QED
    BY <1>3, <2>1, <2>2
<1>4. CASE ~ StatementFails(e, s)
  <2>1. ~ Refused(e, s.name, v) /\ f = Set(e, s.name, v)
    BY <1>4 DEF StatementFails, SetStatement, v
  <2>2. /\ f.min = e.min /\ f.max = e.max /\ f.unique = e.unique
        /\ f.last = Highest(e, v)
        /\ DOMAIN f.toInt = DOMAIN e.toInt \cup {s.name}
        /\ f.toInt[s.name] = v
        /\ \A n \in DOMAIN e.toInt : f.toInt[n] = e.toInt[n]
    BY <1>2, <2>1, SetResult
  <2> HIDE DEF f
  <2>3. f.last >= -1 /\ (f.last = -1 \/ \E n \in DOMAIN f.toInt : f.toInt[n] = f.last)
    <3>1. f.last = v \/ f.last = e.last
      BY <2>2 DEF Highest
    <3>2. f.last >= -1
      BY <1>1, <1>2, <2>2 DEF Highest
    <3> QED
      BY <2>2, <3>1, <3>2
  <2>4. ASSUME s.value = NoValue
        PROVE  \A n \in DOMAIN e.toInt : e.toInt[n] < f.toInt[s.name]
    BY <1>1, <1>2, <2>2, <2>4
  <2>5. s.value # NoValue => f.toInt[s.name] = s.value
    BY <1>2, <2>2
  <2>6. /\ f.min = e.min /\ f.max = e.max /\ f.unique = e.unique
        /\ DOMAIN f.toInt = DOMAIN e.toInt \cup {s.name}
        /\ \A n \in DOMAIN e.toInt : f.toInt[n] = e.toInt[n]
        /\ f.last >= -1 /\ (f.last = -1 \/ \E n \in DOMAIN f.toInt : f.toInt[n] = f.last)
        /\ s.value # NoValue => f.toInt[s.name] = s.value
        /\ s.value = NoValue => \A n \in DOMAIN e.toInt : e.toInt[n] < f.toInt[s.name]
    BY <2>2, <2>3, <2>4, <2>5
  <2> QED
    BY <1>4, <2>6 DEF f
<1> QED
  BY <1>3, <1>4

\* What is known of a type after the first i statements.
Made(new, q, i) ==
    LET e == After(new, q)[i] IN
    /\ IsEnumType(e) /\ WellFormed(e)
    /\ e.min = new.min /\ e.max = new.max /\ e.unique = new.unique
    /\ e.last >= -1
    /\ e.last = -1 \/ \E n \in DOMAIN e.toInt : e.toInt[n] = e.last
    /\ DOMAIN e.toInt = {q[j].name : j \in (1 .. i) \ EnumErrors(new, q)}

\* What the statements of an enumeration and of a bits type start from.
News == {NewEnumType, NewBitfield}

\* Both are empty.
LEMMA NewIsEmpty ==
    ASSUME NEW new \in News
    PROVE  /\ new.min \in Int /\ new.max \in Int /\ new.min <= 0 /\ 0 <= new.max
           /\ new.last = -1 /\ DOMAIN new.toInt = {}
           /\ IsEnumType(new) /\ WellFormed(new)
<1>1. IsEnumType(new) /\ WellFormed(new)
  BY NewWellFormed DEF News
<1>2. DOMAIN <<>> = {}
  OBVIOUS
<1>3. /\ new.min \in Int /\ new.max \in Int /\ new.min <= 0 /\ 0 <= new.max
      /\ new.last = -1 /\ new.toInt = <<>>
  BY EnumAssumption DEF News, NewEnumType, NewBitfield
<1> QED
  BY <1>1, <1>2, <1>3

\* One statement more.
LEMMA MadeNext ==
    ASSUME NEW new \in News, NEW q \in Seq(EnumStatement), NEW i \in 1 .. Len(q),
           Made(new, q, i - 1)
    PROVE  Made(new, q, i)
<1> DEFINE e == After(new, q)[i - 1]
           f == After(new, q)[i]
           refused == EnumErrors(new, q)
<1>1. q[i] \in EnumStatement /\ i \in DOMAIN q
  OBVIOUS
<1>2. f = SetStatement(e, q[i])
  BY AfterIs
<1>3. i \in refused <=> StatementFails(e, q[i])
  BY <1>1 DEF EnumErrors
<1>4. /\ IsEnumType(e) /\ WellFormed(e)
      /\ e.min = new.min /\ e.max = new.max /\ e.unique = new.unique
      /\ e.last >= -1 /\ (e.last = -1 \/ \E n \in DOMAIN e.toInt : e.toInt[n] = e.last)
      /\ DOMAIN e.toInt = {q[j].name : j \in (1 .. (i - 1)) \ refused}
  BY DEF Made
<1>5. e.min <= 0 /\ 0 <= e.max
  BY <1>4, NewIsEmpty
<1> HIDE DEF e, f, refused
<1>6. IsEnumType(f) /\ WellFormed(f)
  BY <1>1, <1>2, <1>4, StatementKeepsWellFormed
<1>7. 1 .. i = (1 .. (i - 1)) \cup {i}
  OBVIOUS
<1>8. CASE i \in refused
  <2>1. f = e
    BY <1>1, <1>2, <1>3, <1>4, <1>5, <1>8, StatementResult
  <2>2. (1 .. i) \ refused = (1 .. (i - 1)) \ refused
    BY <1>7, <1>8
  <2> QED
    BY <1>4, <2>1, <2>2 DEF Made, f, refused
<1>9. CASE i \notin refused
  <2>1. /\ f.min = e.min /\ f.max = e.max /\ f.unique = e.unique
        /\ DOMAIN f.toInt = DOMAIN e.toInt \cup {q[i].name}
        /\ f.last >= -1 /\ (f.last = -1 \/ \E n \in DOMAIN f.toInt : f.toInt[n] = f.last)
    BY <1>1, <1>2, <1>3, <1>4, <1>5, <1>9, StatementResult
  <2>2. (1 .. i) \ refused = ((1 .. (i - 1)) \ refused) \cup {i}
    BY <1>7, <1>9
  <2>3. DOMAIN f.toInt = {q[j].name : j \in (1 .. i) \ refused}
    BY <1>4, <2>1, <2>2
  <2> QED
    BY <1>4, <1>6, <2>1, <2>3 DEF Made, f, refused
<1> QED
  BY <1>8, <1>9

\* So after any number.
LEMMA MadeAlways ==
    ASSUME NEW new \in News, NEW q \in Seq(EnumStatement)
    PROVE  \A i \in 0 .. Len(q) : Made(new, q, i)
<1> DEFINE T == {i \in 0 .. Len(q) : ~ Made(new, q, i)}
<1> SUFFICES ASSUME T # {} PROVE FALSE
  OBVIOUS
<1>1. T \subseteq Nat
  OBVIOUS
<1>2. PICK i \in T : \A m \in T : i <= m
  <2> HIDE DEF T
  <2> QED
    BY <1>1, LeastNatural
<1>3. i \in 0 .. Len(q) /\ ~ Made(new, q, i) /\ Len(q) \in Nat
  BY <1>2
<1>4. CASE i = 0
  <2>1. After(new, q)[0] = new
    BY AfterIs
  <2>2. {q[j].name : j \in (1 .. 0) \ EnumErrors(new, q)} = {}
    OBVIOUS
  <2> QED
    BY <1>3, <1>4, <2>1, <2>2, NewIsEmpty DEF Made
<1>5. CASE i # 0
  <2>1. i \in 1 .. Len(q) /\ i - 1 \in 0 .. Len(q) /\ ~ (i <= i - 1)
    BY <1>3, <1>5
  <2>2. Made(new, q, i - 1)
    BY <1>2, <2>1
  <2> QED
    BY <1>3, <2>1, <2>2, MadeNext
<1> QED
  BY <1>4, <1>5

\* A name keeps its value.
LEMMA ValuesStay ==
    ASSUME NEW new \in News, NEW q \in Seq(EnumStatement), NEW i \in 0 .. Len(q)
    PROVE  \A k \in i .. Len(q) :
               \A n \in DOMAIN After(new, q)[i].toInt :
                  /\ n \in DOMAIN After(new, q)[k].toInt
                  /\ After(new, q)[k].toInt[n] = After(new, q)[i].toInt[n]
<1> DEFINE Stays(k) == \A n \in DOMAIN After(new, q)[i].toInt :
                          /\ n \in DOMAIN After(new, q)[k].toInt
                          /\ After(new, q)[k].toInt[n] = After(new, q)[i].toInt[n]
           T == {k \in i .. Len(q) : ~ Stays(k)}
<1> SUFFICES ASSUME T # {} PROVE FALSE
  OBVIOUS
<1>1. T \subseteq Nat
  OBVIOUS
<1>2. PICK k \in T : \A m \in T : k <= m
  <2> HIDE DEF T
  <2> QED
    BY <1>1, LeastNatural
<1>3. k \in i .. Len(q) /\ ~ Stays(k) /\ Len(q) \in Nat /\ k # i
  BY <1>2
<1>4. k \in 1 .. Len(q) /\ k - 1 \in i .. Len(q) /\ ~ (k <= k - 1) /\ k - 1 \in 0 .. Len(q)
  BY <1>3
<1>5. Stays(k - 1)
  BY <1>2, <1>4
<1> DEFINE e == After(new, q)[k - 1]
           f == After(new, q)[k]
<1>6. f = SetStatement(e, q[k]) /\ q[k] \in EnumStatement
  BY <1>4, AfterIs
<1>7. /\ IsEnumType(e) /\ WellFormed(e) /\ e.min <= 0 /\ 0 <= e.max
      /\ e.last >= -1 /\ (e.last = -1 \/ \E n \in DOMAIN e.toInt : e.toInt[n] = e.last)
  <2>1. Made(new, q, k - 1)
    BY <1>4, MadeAlways
  <2>2. /\ IsEnumType(e) /\ WellFormed(e) /\ e.min = new.min /\ e.max = new.max
        /\ e.last >= -1 /\ (e.last = -1 \/ \E n \in DOMAIN e.toInt : e.toInt[n] = e.last)
    BY <2>1 DEF Made
  <2> HIDE DEF e
  <2> QED
    BY <2>2, NewIsEmpty
<1> HIDE DEF e, f
<1>8. \A n \in DOMAIN e.toInt : n \in DOMAIN f.toInt /\ f.toInt[n] = e.toInt[n]
  BY <1>6, <1>7, StatementResult
<1> QED
  BY <1>3, <1>5, <1>8 DEF e, f

\* Whatever statements an enumeration or a bits type is made of, it is as they say.
THEOREM AfterAsWritten ==
    ASSUME NEW new \in News, NEW q \in Seq(EnumStatement)
    PROVE  EnumAsWritten(new, After(new, q)[Len(q)], q)
<1> DEFINE n == Len(q)
           e == After(new, q)[n]
           refused == EnumErrors(new, q)
           before(i) == {q[j].name : j \in (1 .. i - 1) \ refused}
           values(i) == {e.toInt[m] : m \in before(i)}
<1>1. n \in Nat /\ DOMAIN q = 1 .. n /\ n \in 0 .. n
  OBVIOUS
<1>2. /\ WellFormed(e) /\ e.min = new.min /\ e.max = new.max /\ e.unique = new.unique
  BY <1>1, MadeAlways DEF Made
<1>3. ASSUME NEW i \in DOMAIN q
      PROVE  LET d == After(new, q)[i - 1]
                 f == After(new, q)[i]
             IN  /\ f = SetStatement(d, q[i]) /\ q[i] \in EnumStatement
                 /\ IsEnumType(d) /\ WellFormed(d) /\ d.min <= 0 /\ 0 <= d.max
                 /\ d.min = e.min /\ d.max = e.max /\ d.unique = e.unique
                 /\ d.last >= -1 /\ (d.last = -1 \/ \E m \in DOMAIN d.toInt : d.toInt[m] = d.last)
                 /\ DOMAIN d.toInt = before(i)
                 /\ i \in refused <=> StatementFails(d, q[i])
                 /\ \A m \in DOMAIN d.toInt : e.toInt[m] = d.toInt[m]
                 /\ \A m \in DOMAIN f.toInt : e.toInt[m] = f.toInt[m]
  <2>1. i \in 1 .. n /\ i - 1 \in 0 .. n /\ i \in 0 .. n /\ n \in (i - 1) .. n /\ n \in i .. n
    BY <1>1
  <2>2. Made(new, q, i - 1)
    BY <2>1, MadeAlways
  <2>3. After(new, q)[i] = SetStatement(After(new, q)[i - 1], q[i]) /\ q[i] \in EnumStatement
    BY <2>1, AfterIs
  <2>4. i \in refused <=> StatementFails(After(new, q)[i - 1], q[i])
    BY DEF EnumErrors
  <2>5. \A m \in DOMAIN After(new, q)[i - 1].toInt : e.toInt[m] = After(new, q)[i - 1].toInt[m]
    BY <2>1, ValuesStay
  <2>6. \A m \in DOMAIN After(new, q)[i].toInt : e.toInt[m] = After(new, q)[i].toInt[m]
    BY <2>1, ValuesStay
  <2>7. /\ IsEnumType(After(new, q)[i - 1]) /\ WellFormed(After(new, q)[i - 1])
        /\ After(new, q)[i - 1].min = new.min /\ After(new, q)[i - 1].max = new.max
        /\ After(new, q)[i - 1].unique = new.unique
        /\ After(new, q)[i - 1].last >= -1
        /\ \/ After(new, q)[i - 1].last = -1
           \/ \E m \in DOMAIN After(new, q)[i - 1].toInt :
                 After(new, q)[i - 1].toInt[m] = After(new, q)[i - 1].last
        /\ DOMAIN After(new, q)[i - 1].toInt = before(i)
    BY <2>2 DEF Made
  <2> HIDE DEF e, refused, before
  <2> QED
    BY <1>2, <2>3, <2>4, <2>5, <2>6, <2>7, NewIsEmpty
<1> HIDE DEF e, refused, before, n
<1>4. ASSUME NEW i \in DOMAIN q \ refused
      PROVE  IF q[i].value # NoValue THEN e.toInt[q[i].name] = q[i].value
             ELSE \A v \in values(i) : v < e.toInt[q[i].name]
  <2> DEFINE d == After(new, q)[i - 1]
             f == After(new, q)[i]
  <2>1. /\ f = SetStatement(d, q[i]) /\ q[i] \in EnumStatement
        /\ IsEnumType(d) /\ WellFormed(d) /\ d.min <= 0 /\ 0 <= d.max
        /\ d.last >= -1 /\ (d.last = -1 \/ \E m \in DOMAIN d.toInt : d.toInt[m] = d.last)
        /\ DOMAIN d.toInt = before(i)
        /\ ~ StatementFails(d, q[i])
        /\ \A m \in DOMAIN d.toInt : e.toInt[m] = d.toInt[m]
        /\ \A m \in DOMAIN f.toInt : e.toInt[m] = f.toInt[m]
    BY <1>3
  <2> HIDE DEF d, f
  <2>2. /\ DOMAIN f.toInt = DOMAIN d.toInt \cup {q[i].name}
        /\ q[i].value # NoValue => f.toInt[q[i].name] = q[i].value
        /\ q[i].value = NoValue => \A m \in DOMAIN d.toInt : d.toInt[m] < f.toInt[q[i].name]
    BY <2>1, StatementResult
  <2>3. e.toInt[q[i].name] = f.toInt[q[i].name]
    BY <2>1, <2>2
  <2> QED
    BY <2>1, <2>2, <2>3
<1>5. ASSUME NEW i \in refused
      PROVE  \/ q[i].name \in before(i)
             \/ q[i].value # NoValue /\ q[i].value \notin e.min .. e.max
             \/ e.unique /\ q[i].value \in values(i)
             \/ q[i].value = NoValue /\ {MaxEnum, e.max} \cap values(i) # {}
  <2> DEFINE d == After(new, q)[i - 1]
             f == After(new, q)[i]
  <2>0. i \in DOMAIN q
    BY DEF refused, EnumErrors
  <2>1. /\ f = SetStatement(d, q[i]) /\ q[i] \in EnumStatement
        /\ IsEnumType(d) /\ WellFormed(d) /\ d.min <= 0 /\ 0 <= d.max
        /\ d.min = e.min /\ d.max = e.max /\ d.unique = e.unique
        /\ d.last >= -1 /\ (d.last = -1 \/ \E m \in DOMAIN d.toInt : d.toInt[m] = d.last)
        /\ DOMAIN d.toInt = before(i)
        /\ StatementFails(d, q[i])
        /\ \A m \in DOMAIN d.toInt : e.toInt[m] = d.toInt[m]
    BY <1>3, <2>0
  <2> HIDE DEF d, f
  <2>2. \/ q[i].name \in DOMAIN d.toInt
        \/ q[i].value # NoValue /\ q[i].value \notin d.min .. d.max
        \/ d.unique /\ \E m \in DOMAIN d.toInt : d.toInt[m] = q[i].value
        \/ q[i].value = NoValue /\ \E m \in DOMAIN d.toInt : d.toInt[m] \in {MaxEnum, d.max}
    BY <2>1, StatementResult
  <2>3. \A m \in DOMAIN d.toInt : d.toInt[m] \in values(i)
    BY <2>1
  <2> QED
    BY <2>1, <2>2, <2>3
<1>6. EnumAsWritten(new, e, q)
  BY <1>2, <1>4, <1>5 DEF EnumAsWritten, before, refused
<1> QED
  BY <1>6 DEF e, n

-----------------------------------------------------------------------------
(* The types of a document *)

\* The fields of a YangType.
Fields ==
    {"kind", "range", "digits", "base", "enum", "bit", "patterns", "members", "default", "root"}
\* y is a record with these fields.
HasFields(y) == y = [f \in Fields |-> y[f]]

\* y holds the enumeration and the bits that the statement t is made of.
Written(t, y) ==
    /\ HasFields(y)
    /\ y.kind # "decimal64" =>
          /\ doc.type[t].enum # <<>> =>
                y.enum = After(NewEnumType, doc.type[t].enum)[Len(doc.type[t].enum)]
          /\ doc.type[t].bit # <<>> =>
                y.bit = After(NewBitfield, doc.type[t].bit)[Len(doc.type[t].bit)]

\* The errors, and the calls that hold them.
ErrorKinds == {"digits", "base", "range", "enum", "ext", "unknown"}
Errors == (Typedefs \cup Types) \X ErrorKinds
Frames == [of : Typedefs \cup Types, n : Nat, errs : SUBSET Errors]

\* A call of Type.resolve waits for a typedef, or for a member of the union it has made.
FrameInv(f) ==
    /\ f.n > 0 => f.of \in Types /\ Written(f.of, yt[f.of])
    /\ f.n = 0 /\ f.of \in Types => Defining(f.of) # {}

\* Every type that is resolved holds what its statements make.
TypesInv ==
    /\ yt = [p \in Builtin \cup Typedefs \cup Types |-> yt[p]]
    /\ \A b \in Builtin : HasFields(yt[b])
    /\ \A d \in Typedefs : yt[d] = None \/ HasFields(yt[d])
    /\ \A t \in Types : yt[t] = None \/ Written(t, yt[t])

\* The same of all calls.
CallsInv(s) == s \in Seq(Frames) /\ \A i \in DOMAIN s : FrameInv(s[i])

\* The invariant of the state.
StateInv ==
    /\ doc \in Documents
    /\ todo \subseteq Typedefs \cup Types
    /\ pc = "enter" => enter \in Typedefs \cup Types
    /\ ret \in SUBSET Errors
    /\ CallsInv(stack)
    /\ pc = "members" => stack # <<>> /\ Top.n > 0
    /\ TypesInv

\* The YangTypes that are made of others.
LEMMA ChangedFields ==
    ASSUME NEW t, NEW y, NEW x, NEW w, HasFields(y)
    PROVE  /\ HasFields([y EXCEPT !.root = x])
           /\ HasFields([y EXCEPT !.default = x, !.base = w])
           /\ Written(t, y) =>
                 Written(t, [y EXCEPT !.root = x]) /\ Written(t, [y EXCEPT !.members = x])
<1>1. /\ HasFields([y EXCEPT !.root = x])
      /\ HasFields([y EXCEPT !.default = x, !.base = w])
      /\ HasFields([y EXCEPT !.members = x])
  BY DEF HasFields, Fields
<1>2. /\ [y EXCEPT !.root = x].kind = y.kind
      /\ [y EXCEPT !.root = x].enum = y.enum
      /\ [y EXCEPT !.root = x].bit = y.bit
  BY DEF HasFields, Fields
<1>3. /\ [y EXCEPT !.members = x].kind = y.kind
      /\ [y EXCEPT !.members = x].enum = y.enum
      /\ [y EXCEPT !.members = x].bit = y.bit
  BY DEF HasFields, Fields
<1> QED
  BY <1>1, <1>2, <1>3 DEF Written

\* What the statement t makes of the YangType y of what it is based on.
LEMMA RestrictedIsWritten ==
    ASSUME doc \in Documents, NEW t \in Types, NEW y, NEW list, HasFields(y)
    PROVE  Written(t, Restricted(doc.type[t], y, list))
<1> DEFINE s == doc.type[t]
           z == Restricted(s, y, list)
<1>1. /\ HasFields(z) /\ z.kind = y.kind
      /\ z.enum = Enumerated(NewEnumType, s.enum, y.enum)
      /\ z.bit = Enumerated(NewBitfield, s.bit, y.bit)
  <2> HIDE DEF s
  <2> QED
    BY DEF Restricted, HasFields, Fields
<1> HIDE DEF z
<1>2. /\ s.enum # <<>> => z.enum = After(NewEnumType, s.enum)[Len(s.enum)]
      /\ s.bit # <<>> => z.bit = After(NewBitfield, s.bit)[Len(s.bit)]
  BY <1>1 DEF Enumerated
<1> QED
  BY <1>1, <1>2 DEF Written, z

\* As the statement digits of t is refused, the type is a decimal64.
LEMMA OverriddenIsWritten ==
    ASSUME NEW t, NEW y, HasFields(y), Overrides(doc.type[t], y)
    PROVE  Written(t, y)
  BY DEF Written, Overrides, IsDecimal

\* What is said of a document stays as long as the document does.
LEMMA SameDocument ==
    ASSUME doc' = doc
    PROVE  /\ Typedefs' = Typedefs /\ Types' = Types
           /\ Errors' = Errors /\ Frames' = Frames
           /\ \A t, y : Written(t, y)' <=> Written(t, y)
           /\ \A t : Defining(t)' = Defining(t)
<1>1. Typedefs' = Typedefs /\ Types' = Types
  BY DEF Typedefs, Types
<1>2. Errors' = Errors /\ Frames' = Frames
  BY <1>1 DEF Errors, Frames
<1>3. \A t, y : Written(t, y)' <=> Written(t, y)
  BY DEF Written
<1>4. \A t : Defining(t)' = Defining(t)
  BY <1>1 DEF Defining, Scopes, NodesAbove, IsLocal, Root, FindIn
<1> QED
  BY <1>1, <1>2, <1>3, <1>4

\* Found(t) is a typedef when the name of t is defined.
LEMMA FoundIsTypedef ==
    ASSUME doc \in Documents, NEW t \in Types, Defining(t) # {}
    PROVE  Found(t) \in Typedefs
<1> DEFINE s == doc.type[t]
<1>1. s.path \in Seq(STRING) /\ doc.include[Root(t)] \in Seq(STRING)
  BY DocumentsAssumption DEF Types, Root
<1>2. DOMAIN Scopes(t) \subseteq Nat
  <2>1. CASE IsLocal(t)
    <3>1. Scopes(t) \in Seq(STRING)
      BY <1>1, <2>1 DEF Scopes, NodesAbove
    <3> QED
      BY <3>1
  <2>2. CASE ~ IsLocal(t)
    <3>1. \A m : DOMAIN <<m>> = {1}
      OBVIOUS
    <3>2. DOMAIN <<>> = {}
      OBVIOUS
    <3>3. Scopes(t) = <<>> \/ \E m : Scopes(t) = <<m>>
      BY <2>2 DEF Scopes
    <3> QED
      BY <3>1, <3>2, <3>3
  <2> QED
    BY <2>1, <2>2
<1>3. Defining(t) \subseteq Nat
  BY <1>2 DEF Defining
<1>4. \E i \in Defining(t) : \A j \in Defining(t) : i <= j
  BY <1>3, LeastNatural
<1>5. Min(Defining(t)) \in Defining(t)
  BY <1>4 DEF Min
<1>6. FindIn(Scopes(t)[Min(Defining(t))], s.name) # {}
  BY <1>5 DEF Defining
<1>7. Found(t) \in FindIn(Scopes(t)[Min(Defining(t))], s.name)
  BY <1>6 DEF Found
<1> QED
  BY <1>7 DEF FindIn

\* A YangType that is made or changed.
LEMMA TypesAfter ==
    ASSUME StateInv, doc' = doc, NEW p \in Typedefs \cup Types, NEW z, HasFields(z),
           p \in Types => Written(p, z), yt' = [yt EXCEPT ![p] = z]
    PROVE  /\ TypesInv'
           /\ \A f : FrameInv(f) => FrameInv(f)'
           /\ p \in Types => Written(p, yt'[p])
<1> DEFINE P == Builtin \cup Typedefs \cup Types
<1>1. yt = [q \in P |-> yt[q]] /\ doc \in Documents
  BY DEF StateInv, TypesInv
<1>2. yt' = [q \in P |-> yt'[q]] /\ \A q \in P : yt'[q] = IF q = p THEN z ELSE yt[q]
  BY <1>1
<1>3. /\ Typedefs \cap Types = {}
      /\ Builtin \cap (Typedefs \cup Types) = {}
  BY <1>1, DocumentsAssumption DEF Typedefs, Types
<1>4. \A b \in Builtin : HasFields(yt'[b])
  BY <1>2, <1>3 DEF StateInv, TypesInv
<1>5. \A d \in Typedefs : yt'[d] = None \/ HasFields(yt'[d])
  BY <1>2, <1>3 DEF StateInv, TypesInv
<1>6. \A t \in Types : /\ yt'[t] = None \/ Written(t, yt'[t])
                       /\ Written(t, yt[t]) => Written(t, yt'[t])
  BY <1>2, <1>3 DEF StateInv, TypesInv
<1>7. TypesInv'
  BY <1>2, <1>4, <1>5, <1>6, SameDocument DEF TypesInv
<1>8. \A f : FrameInv(f) => FrameInv(f)'
  BY <1>6, SameDocument DEF FrameInv
<1> QED
  BY <1>2, <1>7, <1>8

\* No YangType is made or changed.
LEMMA TypesStay ==
    ASSUME StateInv, doc' = doc, yt' = yt
    PROVE  TypesInv' /\ \A f : FrameInv(f) => FrameInv(f)'
<1>1. TypesInv'
  BY SameDocument DEF TypesInv, StateInv
<1>2. \A f : FrameInv(f) => FrameInv(f)'
  BY SameDocument DEF FrameInv
<1> QED
  BY <1>1, <1>2

\* The calls after a step.
LEMMA CallsAfter ==
    ASSUME doc' = doc, \A f : FrameInv(f) => FrameInv(f)', NEW s, CallsInv(s), stack' = s
    PROVE  CallsInv(stack)'
  BY SameDocument DEF CallsInv

\* A call that returns leaves the others.
LEMMA FewerCalls ==
    ASSUME NEW s, CallsInv(s), s # <<>>
    PROVE  CallsInv(Front(s))
  BY DEF CallsInv, Front

\* One call more.
LEMMA MoreCalls ==
    ASSUME NEW s, CallsInv(s), NEW f \in Frames, FrameInv(f)
    PROVE  CallsInv(Append(s, f))
<1> DEFINE r == Append(s, f)
<1>1. s \in Seq(Frames) /\ \A i \in DOMAIN s : FrameInv(s[i])
  BY DEF CallsInv
<1>2. r \in Seq(Frames) /\ \A i \in DOMAIN r : r[i] = f \/ \E j \in DOMAIN s : r[i] = s[j]
  BY <1>1
<1> QED
  BY <1>1, <1>2 DEF CallsInv

\* The last call.
LEMMA TopCall ==
    ASSUME NEW s, CallsInv(s), s # <<>>
    PROVE  Last(s) \in Frames /\ FrameInv(Last(s)) /\ Len(s) \in DOMAIN s /\ Last(s) = s[Len(s)]
<1>1. s \in Seq(Frames) /\ Len(s) \in DOMAIN s /\ Last(s) = s[Len(s)]
  BY DEF CallsInv, Last
<1> QED
  BY <1>1 DEF CallsInv

\* A step that makes no YangType.
LEMMA SameTypes ==
    ASSUME StateInv, doc' = doc, yt' = yt, NEW s, CallsInv(s), stack' = s,
           todo' \subseteq Typedefs \cup Types,
           pc' = "enter" => enter' \in Typedefs \cup Types,
           ret' \in SUBSET Errors,
           pc' = "members" => s # <<>> /\ Last(s).n > 0
    PROVE  StateInv'
<1>1. TypesInv' /\ CallsInv(stack)'
  BY TypesStay, CallsAfter
<1>2. /\ (doc \in Documents)'
      /\ (todo \subseteq Typedefs \cup Types)'
      /\ (pc = "enter" => enter \in Typedefs \cup Types)'
      /\ (ret \in SUBSET Errors)'
      /\ (pc = "members" => stack # <<>> /\ Top.n > 0)'
  BY SameDocument DEF StateInv, Top
<1> QED
  BY <1>1, <1>2 DEF StateInv

\* Type.resolve has the YangType that t is based on.
LEMMA DeriveKeeps ==
    ASSUME StateInv, NEW t \in Types, NEW y, HasFields(y), NEW frames, CallsInv(frames),
           Derive(t, y, frames), UNCHANGED <<doc, loop, todo, enter, errs, calls>>
    PROVE  StateInv'
<1> DEFINE s == doc.type[t]
           list == AddPatterns(heap, y.patterns, s.patterns).list
           errors == StatementErrors(s, y)
<1>1. doc \in Documents /\ t \in Typedefs \cup Types
  BY DEF StateInv
<1>2. errors \subseteq ErrorKinds
  BY Zenon DEF StatementErrors, ErrorKinds
<1> HIDE DEF list, errors
<1>3. ASSUME NEW e, e \subseteq ErrorKinds
      PROVE  Tagged(t, e) \in SUBSET Errors
  <2>1. \A k \in e : <<t, k>> \in Errors
    BY <1>1, <1>3 DEF Errors
  <2> QED
    BY <2>1 DEF Tagged
<1>4. CASE Overrides(s, y)
  <2>1. yt' = [yt EXCEPT ![t] = y] /\ stack' = frames /\ pc' = "return" /\ ret' = Tagged(t, {"digits"})
    BY <1>4 DEF Derive, Returns
  <2>2. TypesInv' /\ \A f : FrameInv(f) => FrameInv(f)'
    BY <1>1, <1>4, <2>1, OverriddenIsWritten, TypesAfter
  <2>3. CallsInv(stack)'
    BY <2>1, <2>2, CallsAfter
  <2>4. ret' \in SUBSET Errors
    <3>1. {"digits"} \subseteq ErrorKinds
      BY DEF ErrorKinds
    <3> QED
      BY <1>3, <2>1, <3>1
  <2> QED
    BY <2>1, <2>2, <2>3, <2>4, SameDocument DEF StateInv
<1>5. CASE ~ Overrides(s, y)
  <2> DEFINE z == Restricted(s, y, list)
  <2>1. Written(t, z) /\ HasFields(z)
    BY <1>1, RestrictedIsWritten DEF Written
  <2>2. yt' = [yt EXCEPT ![t] = z]
    BY <1>5 DEF Derive, list
  <2> HIDE DEF z
  <2>3. TypesInv' /\ (\A f : FrameInv(f) => FrameInv(f)') /\ Written(t, yt'[t])
    BY <1>1, <2>1, <2>2, TypesAfter
  <2>4. CASE s.ext
    <3>1. stack' = frames /\ pc' = "return" /\ ret' = Tagged(t, {"ext"})
      BY <1>5, <2>4 DEF Derive, Returns, ErrorAlone
    <3>2. CallsInv(stack)'
      BY <2>3, <3>1, CallsAfter
    <3>3. {"ext"} \subseteq ErrorKinds
      BY DEF ErrorKinds
    <3>4. ret' \in SUBSET Errors
      BY <1>3, <3>1, <3>3
    <3> QED
      BY <2>3, <3>1, <3>2, <3>4, SameDocument DEF StateInv
  <2>5. CASE ~ s.ext
    <3>0. PICK f : f = [of |-> t, n |-> 1, errs |-> Tagged(t, errors)]
      OBVIOUS
    <3>1. stack' = Append(frames, f) /\ pc' = "members" /\ ret' = ret
      BY <1>5, <2>5, <3>0 DEF Derive, errors
    <3>2. f \in Frames /\ f.n = 1 /\ f.of = t
      BY <1>1, <1>2, <1>3, <3>0 DEF Frames
    <3>3. FrameInv(f)'
      BY <2>3, <3>2, SameDocument DEF FrameInv
    <3>4. /\ frames \in Seq(Frames) /\ \A i \in DOMAIN frames : FrameInv(frames[i])'
      BY <2>3 DEF CallsInv
    <3>5. /\ Append(frames, f) \in Seq(Frames)
          /\ \A i \in DOMAIN Append(frames, f) :
                Append(frames, f)[i] = f \/ \E j \in DOMAIN frames : Append(frames, f)[i] = frames[j]
          /\ Append(frames, f) # <<>> /\ Last(Append(frames, f)) = f
      BY <3>2, <3>4 DEF Last
    <3>6. CallsInv(stack)'
      BY <3>1, <3>3, <3>4, <3>5, SameDocument DEF CallsInv
    <3>7. stack' # <<>> /\ Top' = f
      BY <3>1, <3>5 DEF Top
    <3> QED
      BY <2>3, <3>1, <3>2, <3>6, <3>7, SameDocument DEF StateInv
  <2> QED
    BY <2>4, <2>5
<1> QED
  BY <1>4, <1>5

\* A call that begins.
LEMMA PushKeeps ==
    ASSUME StateInv, doc' = doc, yt' = yt, todo' = todo, ret' = ret,
           NEW x \in Typedefs \cup Types, Push(x), x \in Types => Defining(x) # {},
           pc' = "enter", enter' \in Typedefs \cup Types
    PROVE  StateInv'
<1>1. PICK f : f = [of |-> x, n |-> 0, errs |-> {}]
  OBVIOUS
<1>2. f \in Frames /\ FrameInv(f) /\ stack' = Append(stack, f)
  BY <1>1 DEF Frames, FrameInv, Push
<1>3. CallsInv(Append(stack, f))
  BY <1>2, MoreCalls DEF StateInv
<1> QED
  BY <1>2, <1>3, SameTypes DEF StateInv

\* Steps that begin no call and end none.
LEMMA LoopKeeps ==
    ASSUME StateInv, Process \/ Resolve \/ EndTypedefs \/ EndLeaves \/ AlreadyResolved
                     \/ UnknownType \/ Collect
    PROVE  StateInv'
<1>1. doc \in Documents /\ CallsInv(stack)
  BY DEF StateInv
<1>2. doc' = doc /\ yt' = yt /\ stack' = stack
  BY DEF Process, Resolve, EndTypedefs, EndLeaves, AlreadyResolved, UnknownType, Collect
<1>3. pc' # "members"
  BY DEF Process, Resolve, EndTypedefs, EndLeaves, AlreadyResolved, UnknownType, Collect, Returns
<1>4. todo' \subseteq Typedefs \cup Types
  <2>1. doc.leaves \subseteq Types
    BY <1>1, DocumentsAssumption DEF Types
  <2> QED
    BY <2>1 DEF Process, Resolve, EndTypedefs, EndLeaves, AlreadyResolved, UnknownType, Collect,
      StateInv
<1>5. pc' = "enter" => enter' \in Typedefs \cup Types
  BY DEF Process, Resolve, EndTypedefs, EndLeaves, AlreadyResolved, UnknownType, Collect, Returns,
    StateInv
<1>6. ret' \in SUBSET Errors
  <2>1. CASE Process \/ Resolve \/ EndTypedefs \/ EndLeaves \/ AlreadyResolved \/ Collect
    BY <2>1 DEF Process, Resolve, EndTypedefs, EndLeaves, AlreadyResolved, Collect, Returns, StateInv
  <2>2. CASE UnknownType
    <3>1. Tagged(enter, {"unknown"}) \in SUBSET Errors
      BY <2>2 DEF UnknownType, Tagged, Errors, ErrorKinds
    <3>2. ret' \in {ret, {}, Tagged(enter, {"unknown"})}
      BY <2>2 DEF UnknownType, Returns
    <3> QED
      BY <3>1, <3>2 DEF StateInv
  <2> QED
    BY <2>1, <2>2
<1> QED
  BY <1>1, <1>2, <1>3, <1>4, <1>5, <1>6, SameTypes

\* Typedef.resolve and Type.resolve call each other.
LEMMA EnterKeeps ==
    ASSUME StateInv, EnterTypedef \/ EnterType
    PROVE  StateInv'
<1>1. doc \in Documents
  BY DEF StateInv
<1>2. CASE EnterTypedef
  <2>1. enter \in Typedefs /\ enter' = doc.typedef[enter].type /\ pc' = "enter" /\ Push(enter)
    BY <1>2 DEF EnterTypedef
  <2>2. enter' \in Types /\ enter \notin Types
    BY <1>1, <2>1, DocumentsAssumption DEF Typedefs, Types
  <2> QED
    BY <1>2, <2>1, <2>2, PushKeeps DEF EnterTypedef
<1>3. CASE EnterType
  <2>1. enter \in Types /\ enter' = Found(enter) /\ pc' = "enter" /\ Push(enter)
    BY <1>3 DEF EnterType
  <2>2. Defining(enter) # {}
    BY <1>3 DEF EnterType, Found
  <2>3. enter' \in Typedefs
    BY <1>1, <2>1, <2>2, FoundIsTypedef
  <2> QED
    BY <1>3, <2>1, <2>2, <2>3, PushKeeps DEF EnterType
<1> QED
  BY <1>2, <1>3

\* A call that ends without a YangType.
LEMMA PopKeeps ==
    ASSUME StateInv, Fail \/ Ignored
    PROVE  StateInv'
<1>1. CallsInv(Front(stack)) /\ stack' = Front(stack) /\ pc' = "return"
  BY FewerCalls DEF Fail, Ignored, Waiting, StateInv
<1> QED
  BY <1>1, SameTypes DEF Fail, Ignored, StateInv

\* The members of a union.
LEMMA MemberKeeps ==
    ASSUME StateInv, Member
    PROVE  StateInv'
<1>1. /\ doc \in Documents /\ CallsInv(stack) /\ stack # <<>>
      /\ Top.n > 0 /\ Top.n <= Len(doc.type[Top.of].members)
      /\ enter' = doc.type[Top.of].members[Top.n]
  BY DEF StateInv, Member
<1>2. Top \in Frames /\ Top.of \in Types
  BY <1>1, TopCall DEF Top, FrameInv
<1>3. doc.type[Top.of].members \in Seq(Types) /\ Top.n \in Nat
  BY <1>1, <1>2, DocumentsAssumption DEF Types, Frames
<1>4. enter' \in Types
  BY <1>1, <1>3
<1> QED
  BY <1>1, <1>4, SameTypes DEF Member, StateInv

\* A member joins a union.
LEMMA MemberReturnsKeeps ==
    ASSUME StateInv, MemberReturns
    PROVE  StateInv'
<1>1. /\ doc \in Documents /\ doc' = doc /\ CallsInv(stack) /\ stack # <<>>
      /\ Top.of \in Types /\ Top.n > 0 /\ ret \in SUBSET Errors
  BY DEF StateInv, MemberReturns
<1>2. PICK t, u : t = Top.of /\ u = doc.type[t].members[Top.n]
  OBVIOUS
<1>3. Top \in Frames /\ Written(t, yt[t]) /\ Len(stack) \in DOMAIN stack /\ Top = stack[Len(stack)]
  BY <1>1, <1>2, TopCall DEF Top, FrameInv
<1>4. TypesInv' /\ \A f : FrameInv(f) => FrameInv(f)'
  <2>1. CASE yt' = yt
    BY <1>1, <2>1, TypesStay
  <2>2. CASE yt' = [yt EXCEPT ![t].members = Append(@, u)]
    <3> DEFINE z == [yt[t] EXCEPT !.members = Append(@, u)]
    <3>1. yt' = [yt EXCEPT ![t] = z]
      BY <2>2
    <3>2. Written(t, z) /\ HasFields(z)
      BY <1>3, ChangedFields DEF Written
    <3> HIDE DEF z
    <3> QED
      BY <1>1, <1>2, <3>1, <3>2, TypesAfter
  <2>3. yt' = yt \/ yt' = [yt EXCEPT ![t].members = Append(@, u)]
    BY <1>2 DEF MemberReturns
  <2> QED
    BY <2>1, <2>2, <2>3
<1>5. PICK f : f = [Top EXCEPT !.n = Top.n + 1, !.errs = Top.errs \cup ret]
  OBVIOUS
<1>6. f \in Frames /\ f.n = Top.n + 1 /\ f.of = t
  <2>1. Top.n + 1 \in Nat /\ Top.errs \cup ret \in SUBSET Errors
    BY <1>1, <1>3 DEF Frames
  <2> QED
    BY <1>2, <1>3, <1>5, <2>1 DEF Frames
<1>7. FrameInv(f)
  BY <1>1, <1>2, <1>3, <1>6 DEF FrameInv, Frames
<1> DEFINE s == [stack EXCEPT ![Len(stack)] = f]
<1>8. stack' = s
  <2>1. stack' = [stack EXCEPT ![Len(stack)].n = @ + 1, ![Len(stack)].errs = @ \cup ret]
    BY DEF MemberReturns, NextMember
  <2>2. [stack EXCEPT ![Len(stack)].n = @ + 1, ![Len(stack)].errs = @ \cup ret]
          = [[stack EXCEPT ![Len(stack)].n = @ + 1] EXCEPT ![Len(stack)].errs = @ \cup ret]
    OBVIOUS
  <2>3. stack \in Seq(Frames)
    BY <1>1 DEF CallsInv
  <2> QED
    BY <1>3, <1>5, <2>1, <2>2, <2>3
<1>9. CallsInv(s) /\ s # <<>> /\ Last(s) = f
  <2>1. stack \in Seq(Frames) /\ \A i \in DOMAIN stack : FrameInv(stack[i])
    BY <1>1 DEF CallsInv
  <2>2. /\ s \in Seq(Frames) /\ DOMAIN s = DOMAIN stack /\ Len(s) = Len(stack)
        /\ \A i \in DOMAIN s : s[i] = IF i = Len(stack) THEN f ELSE stack[i]
    BY <1>3, <1>6, <2>1
  <2>3. \A i \in DOMAIN s : FrameInv(s[i])
    BY <1>7, <2>1, <2>2
  <2>4. s # <<>> /\ Last(s) = f
    BY <1>1, <1>3, <2>2 DEF Last
  <2> QED
    BY <2>2, <2>3, <2>4 DEF CallsInv
<1> HIDE DEF s
<1>10. CallsInv(stack)'
  BY <1>1, <1>4, <1>8, <1>9, CallsAfter
<1>11. (pc = "members" => stack # <<>> /\ Top.n > 0)'
  <2>1. Top' = f /\ stack' # <<>>
    BY <1>8, <1>9 DEF Top
  <2>2. f.n > 0
    BY <1>1, <1>3, <1>6 DEF Frames
  <2> QED
    BY <2>1, <2>2
<1>12. pc' = "members" /\ ret' = {} /\ todo' = todo
  BY DEF MemberReturns
<1> QED
  BY <1>1, <1>4, <1>10, <1>11, <1>12, SameDocument DEF StateInv

\* Type.resolve and Typedef.resolve return.
LEMMA TypeResolvedKeeps ==
    ASSUME StateInv, TypeResolved
    PROVE  StateInv'
<1>1. /\ doc \in Documents /\ doc' = doc /\ CallsInv(stack) /\ stack # <<>> /\ Top.n > 0
      /\ stack' = Front(stack) /\ pc' = "return" /\ ret' = Top.errs /\ todo' = todo
  BY DEF StateInv, TypeResolved, Returns
<1>2. PICK t : t = Top.of
  OBVIOUS
<1>3. Top \in Frames /\ t \in Types /\ Written(t, yt[t])
  BY <1>1, <1>2, TopCall DEF Top, FrameInv
<1>4. TypesInv' /\ \A f : FrameInv(f) => FrameInv(f)'
  <2>1. PICK r : yt' = [yt EXCEPT ![t].root = r]
    BY <1>2 DEF TypeResolved
  <2> DEFINE z == [yt[t] EXCEPT !.root = r]
  <2>2. yt' = [yt EXCEPT ![t] = z]
    BY <2>1
  <2>3. Written(t, z) /\ HasFields(z)
    BY <1>3, ChangedFields DEF Written
  <2> HIDE DEF z
  <2> QED
    BY <1>1, <1>3, <2>2, <2>3, TypesAfter
<1>5. CallsInv(stack)'
  BY <1>1, <1>4, FewerCalls, CallsAfter
<1>6. ret' \in SUBSET Errors
  BY <1>1, <1>3 DEF Frames
<1> QED
  BY <1>1, <1>4, <1>5, <1>6, SameDocument DEF StateInv

\* The YangType of a typedef is a copy of its type's.
LEMMA TypedefResolvedKeeps ==
    ASSUME StateInv, TypedefResolved
    PROVE  StateInv'
<1>1. /\ doc \in Documents /\ doc' = doc /\ CallsInv(stack) /\ stack # <<>>
      /\ stack' = Front(stack) /\ todo' = todo /\ ret \in SUBSET Errors /\ pc = "return"
  BY DEF StateInv, TypedefResolved, Waiting
<1>2. PICK d : d = Top.of /\ d \in Typedefs
  BY DEF TypedefResolved, Waiting
<1>3. HasFields(yt[doc.typedef[d].type])
  <2>1. doc.typedef[d].type \in Types /\ yt[doc.typedef[d].type] # None
    BY <1>1, <1>2, DocumentsAssumption DEF Typedefs, Types, TypedefResolved
  <2> QED
    BY <2>1 DEF StateInv, TypesInv, Written
<1>4. HasFields(TypedefType(d))
  <2>1. PICK x, w : TypedefType(d) = [yt[doc.typedef[d].type] EXCEPT !.default = x, !.base = w]
    BY DEF TypedefType
  <2> QED
    BY <1>3, <2>1 DEF HasFields, Fields
<1>5. TypesInv' /\ \A f : FrameInv(f) => FrameInv(f)'
  <2>1. CASE yt' = yt
    BY <1>1, <2>1, TypesStay
  <2>2. CASE yt' # yt
    <3> DEFINE y == TypedefType(d)
               z == IF OwnRoot(d, y) THEN [y EXCEPT !.root = d] ELSE y
    <3>1. yt' = [yt EXCEPT ![d] = z]
      BY <1>2, <2>2 DEF TypedefResolved
    <3>2. HasFields(z)
      <4> HIDE DEF y
      <4> QED
        BY <1>4, ChangedFields DEF y
    <3>3. d \notin Types
      BY <1>1, <1>2, DocumentsAssumption DEF Typedefs, Types
    <3> HIDE DEF z
    <3> QED
      BY <1>1, <1>2, <3>1, <3>2, <3>3, TypesAfter
  <2> QED
    BY <2>1, <2>2
<1>6. CallsInv(stack)'
  BY <1>1, <1>5, FewerCalls, CallsAfter
<1>7. ret' \in SUBSET Errors /\ pc' = "return"
  <2>1. Tagged(d, {"base"}) \in SUBSET Errors
    BY <1>2 DEF Tagged, Errors, ErrorKinds
  <2>2. ret' \in {ret, Tagged(d, {"base"})} /\ pc' \in {pc, "return"}
    BY <1>2 DEF TypedefResolved, Returns
  <2> QED
    BY <1>1, <2>1, <2>2
<1> QED
  BY <1>1, <1>5, <1>6, <1>7, SameDocument DEF StateInv

\* Every step.
THEOREM StateNext == StateInv /\ [Next]_vars => StateInv'
<1> SUFFICES ASSUME StateInv, [Next]_vars PROVE StateInv'
  OBVIOUS
<1>1. CASE EnterBuiltin
  <2>1. /\ enter \in Types /\ Derive(enter, yt[doc.type[enter].name], stack)
        /\ UNCHANGED <<doc, loop, todo, enter, errs, calls>>
        /\ doc.type[enter].name \in Builtin
    BY <1>1 DEF EnterBuiltin, IsBuiltin
  <2>2. HasFields(yt[doc.type[enter].name]) /\ CallsInv(stack)
    BY <2>1 DEF StateInv, TypesInv
  <2> QED
    BY <2>1, <2>2, DeriveKeeps
<1>2. CASE TypeFound
  <2>1. /\ Top.of \in Types /\ Top.n = 0 /\ stack # <<>> /\ yt[Found(Top.of)] # None
        /\ Derive(Top.of, yt[Found(Top.of)], Front(stack))
        /\ UNCHANGED <<doc, loop, todo, enter, errs, calls>>
        /\ doc \in Documents /\ CallsInv(stack)
    BY <1>2 DEF TypeFound, Waiting, StateInv
  <2>2. Found(Top.of) \in Typedefs
    BY <2>1, TopCall, FoundIsTypedef DEF Top, FrameInv
  <2>3. HasFields(yt[Found(Top.of)]) /\ CallsInv(Front(stack))
    BY <2>1, <2>2, FewerCalls DEF StateInv, TypesInv
  <2> QED
    BY <2>1, <2>3, DeriveKeeps
<1>3. CASE UNCHANGED vars
  BY <1>3, SameTypes DEF vars, StateInv, Top
<1> QED
  BY <1>1, <1>2, <1>3, LoopKeeps, EnterKeeps, PopKeeps, MemberKeeps, MemberReturnsKeeps,
     TypeResolvedKeeps, TypedefResolvedKeeps DEF Next, Step

\* The invariant holds at the start: only base types have YangTypes.
THEOREM StateInit == Init => StateInv
<1> SUFFICES ASSUME Init PROVE StateInv
  OBVIOUS
<1>1. \A b : HasFields(BuiltinType(b))
  BY DEF BuiltinType, HasFields, Fields
<1>2. /\ yt = [p \in Builtin \cup Typedefs \cup Types |->
                  IF p \in Builtin THEN BuiltinType(p) ELSE None]
      /\ doc \in Documents
  BY DEF Init
<1>3. Builtin \cap (Typedefs \cup Types) = {}
  BY <1>2, DocumentsAssumption DEF Typedefs, Types
<1> HIDE DEF BuiltinType
<1>4. TypesInv
  <2>1. yt = [p \in Builtin \cup Typedefs \cup Types |-> yt[p]]
    BY <1>2
  <2>2. \A b \in Builtin : HasFields(yt[b])
    BY <1>1, <1>2
  <2>3. \A p \in Typedefs \cup Types : yt[p] = None
    BY <1>2, <1>3
  <2> QED
    BY <2>1, <2>2, <2>3 DEF TypesInv
<1>5. CallsInv(<<>>)
  BY DEF CallsInv
<1> QED
  BY <1>4, <1>5 DEF Init, StateInv

\* In every reachable state the type that a statement with an enumeration or with bits has
\* been resolved to holds exactly what the statement says, for all documents, in whatever
\* order typedefs and leaves were resolved and whether or not something failed.
THEOREM EnumsCorrect == Spec => []EnumsAsWritten
<1>1. StateInv => EnumsAsWritten
  <2> SUFFICES ASSUME StateInv, NEW t \in Types, yt[t] # None, yt[t].kind # "decimal64"
               PROVE  /\ doc.type[t].enum # <<>> =>
                            EnumAsWritten(NewEnumType, yt[t].enum, doc.type[t].enum)
                      /\ doc.type[t].bit # <<>> =>
                            EnumAsWritten(NewBitfield, yt[t].bit, doc.type[t].bit)
    BY DEF EnumsAsWritten
  <2>1. Written(t, yt[t])
    BY DEF StateInv, TypesInv
  <2>2. doc.type[t].enum \in Seq(EnumStatement) /\ doc.type[t].bit \in Seq(EnumStatement)
    BY DocumentsAssumption DEF StateInv, Types
  <2>3. NewEnumType \in News /\ NewBitfield \in News
    BY DEF News
  <2>4. /\ EnumAsWritten(NewEnumType, After(NewEnumType, doc.type[t].enum)[Len(doc.type[t].enum)],
                         doc.type[t].enum)
        /\ EnumAsWritten(NewBitfield, After(NewBitfield, doc.type[t].bit)[Len(doc.type[t].bit)],
                         doc.type[t].bit)
    BY <2>2, <2>3, AfterAsWritten
  <2> QED
    BY <2>1, <2>4 DEF Written
<1> QED
  BY <1>1, StateInit, StateNext, PTL DEF Spec
-----------------------------------------------------------------------------
(* Lists of patterns *)

\* The arrays of patterns.
Arrays == Seq(Seq(STRING \cup {None}))

\* The list s lies within its array of the heap h.
Lies(h, s) ==
    /\ s = [arr |-> s.arr, len |-> s.len]
    /\ s.arr \in Nat /\ s.len \in Nat
    /\ s.arr = 0 => s.len = 0
    /\ s.arr # 0 => s.arr \in DOMAIN h /\ s.len <= Len(h[s.arr])

\* Arrays are added and keep their lengths.
Grows(h, g) ==
    /\ g \in Arrays /\ Len(h) <= Len(g)
    /\ \A a \in DOMAIN h : Len(h[a]) = Len(g[a])

\* The heap grows with each append.
LEMMA GrowsOn ==
    ASSUME NEW h, NEW g, NEW k, Grows(h, g), Grows(g, k), h \in Arrays
    PROVE  Grows(h, k)
<1>1. DOMAIN h = 1 .. Len(h) /\ DOMAIN g = 1 .. Len(g) /\ Len(h) \in Nat /\ Len(g) \in Nat
      /\ k \in Arrays /\ Len(k) \in Nat
  BY DEF Grows, Arrays
<1>2. \A a \in DOMAIN h : a \in DOMAIN g
  BY <1>1 DEF Grows
<1> QED
  BY <1>1, <1>2 DEF Grows

\* A list lies within its array also when the heap has grown.
LEMMA LiesOn ==
    ASSUME NEW h \in Arrays, NEW g, Grows(h, g), NEW s, Lies(h, s)
    PROVE  Lies(g, s)
<1>1. \A a \in DOMAIN h : a \in DOMAIN g /\ Len(g[a]) = Len(h[a])
  BY DEF Grows, Arrays
<1> QED
  BY <1>1 DEF Lies

\* The content of a list is as long as the list.
LEMMA ContentLength ==
    ASSUME NEW h \in Arrays, NEW s, Lies(h, s)
    PROVE  Len(Content(h, s)) = s.len
<1>1. CASE s.len = 0
  BY <1>1 DEF Content
<1>2. CASE s.len # 0
  <2>1. h[s.arr] \in Seq(STRING \cup {None}) /\ s.len <= Len(h[s.arr]) /\ s.len \in Nat
    BY <1>2 DEF Lies, Arrays
  <2>2. Len(SubSeq(h[s.arr], 1, s.len)) = s.len
    BY <2>1
  <2> QED
    BY <1>2, <2>2 DEF Content
<1> QED
  BY <1>1, <1>2

\* What append leaves.
LEMMA AppendGrows ==
    ASSUME NEW h \in Arrays, NEW s, Lies(h, s), NEW x \in STRING
    PROVE  LET m == AppendTo([heap |-> h, list |-> s], x) IN
           /\ m = [heap |-> m.heap, list |-> m.list]
           /\ Grows(h, m.heap) /\ Lies(m.heap, m.list) /\ m.list.len = s.len + 1
<1> DEFINE P == STRING \cup {None}
           m == AppendTo([heap |-> h, list |-> s], x)
<1>1. h \in Seq(Seq(P)) /\ s.len \in Nat /\ s.arr \in Nat /\ s.len + 1 \in Nat
  BY DEF Lies, Arrays
<1>2. CASE Full(h, s)
  <2> DEFINE more == IF s.len = 0 THEN 0 ELSE s.len - 1
             new == Grown(h, s, x)
             g == Append(h, new)
  <2>1. Content(h, s) \in Seq(P)
    <3>1. CASE s.len = 0
      BY <3>1 DEF Content
    <3>2. CASE s.len # 0
      <4>1. h[s.arr] \in Seq(P) /\ s.len \in 1 .. Len(h[s.arr])
        BY <1>1, <3>2 DEF Lies
      <4>2. SubSeq(h[s.arr], 1, s.len) \in Seq(P)
        BY <4>1
      <4> QED
        BY <3>2, <4>2 DEF Content
    <3> QED
      BY <3>1, <3>2
  <2>2. more \in Nat
    BY <1>1
  <2> HIDE DEF more
  <2>3. [i \in 1 .. more |-> None] \in Seq(P) /\ Len([i \in 1 .. more |-> None]) = more
    BY <2>2
  <2>4. <<x>> \in Seq(P) /\ Len(<<x>>) = 1
    <3>1. \A Q : \A c \in Q : <<c>> \in Seq(Q) /\ Len(<<c>>) = 1
      OBVIOUS
    <3>2. x \in P
      OBVIOUS
    <3> HIDE DEF P
    <3> QED
      BY <3>1, <3>2
  <2>5. new \in Seq(P) /\ Len(new) = s.len + 1 + more
    <3>1. new = (Content(h, s) \o <<x>>) \o [i \in 1 .. more |-> None]
      BY DEF Grown, more
    <3>2. /\ Content(h, s) \o <<x>> \in Seq(P)
          /\ Len(Content(h, s) \o <<x>>) = s.len + 1
      BY <2>1, <2>4, ContentLength
    <3>3. PICK u, v : u = Content(h, s) \o <<x>> /\ v = [i \in 1 .. more |-> None]
      OBVIOUS
    <3>4. u \in Seq(P) /\ v \in Seq(P) /\ Len(u) = s.len + 1 /\ Len(v) = more /\ new = u \o v
      BY <2>3, <3>1, <3>2, <3>3
    <3>5. \A Q : \A c, e \in Seq(Q) : c \o e \in Seq(Q) /\ Len(c \o e) = Len(c) + Len(e)
      OBVIOUS
    <3> HIDE DEF P, new
    <3>6. u \o v \in Seq(P) /\ Len(u \o v) = Len(u) + Len(v)
      BY <3>4, <3>5
    <3> QED
      BY <3>4, <3>6
  <2> HIDE DEF new
  <2>6. /\ g \in Seq(Seq(P)) /\ Len(g) = Len(h) + 1 /\ g[Len(h) + 1] = new
        /\ \A a \in DOMAIN h : g[a] = h[a]
    BY <1>1, <2>5
  <2>7. m = [heap |-> g, list |-> [arr |-> Len(h) + 1, len |-> s.len + 1]]
    BY <1>2 DEF AppendTo, new
  <2> HIDE DEF m, g
  <2>8. Grows(h, g)
    BY <1>1, <2>6 DEF Grows, Arrays
  <2>9. Lies(g, [arr |-> Len(h) + 1, len |-> s.len + 1])
    <3>1. Len(h) + 1 \in DOMAIN g /\ Len(h) + 1 \in Nat /\ Len(h) + 1 # 0
      BY <1>1, <2>6
    <3>2. s.len + 1 <= Len(new)
      BY <1>1, <2>2, <2>5
    <3> QED
      BY <1>1, <2>6, <3>1, <3>2 DEF Lies
  <2> QED
    BY <2>7, <2>8, <2>9 DEF m
<1>3. CASE ~ Full(h, s)
  <2> DEFINE g == [h EXCEPT ![s.arr][s.len + 1] = x]
  <2>1. s.arr \in DOMAIN h /\ s.len < Len(h[s.arr]) /\ h[s.arr] \in Seq(P)
    <3>1. s.arr # 0 /\ s.arr \in DOMAIN h /\ s.len <= Len(h[s.arr]) /\ s.len # Len(h[s.arr])
      BY <1>3 DEF Full, Lies
    <3> QED
      BY <1>1, <3>1
  <2>2. PICK c : c = [h[s.arr] EXCEPT ![s.len + 1] = x]
    OBVIOUS
  <2>3. c \in Seq(P) /\ Len(c) = Len(h[s.arr])
    BY <1>1, <2>1, <2>2
  <2>4. g = [h EXCEPT ![s.arr] = c]
    BY <2>2
  <2>5. /\ g \in Seq(Seq(P)) /\ Len(g) = Len(h) /\ DOMAIN g = DOMAIN h
        /\ \A a \in DOMAIN h : Len(g[a]) = Len(h[a])
    <3>1. [h EXCEPT ![s.arr] = c] \in Seq(Seq(P)) /\ Len([h EXCEPT ![s.arr] = c]) = Len(h)
      BY <1>1, <2>1, <2>3
    <3> QED
      BY <1>1, <2>1, <2>3, <2>4, <3>1
  <2>6. m = [heap |-> g, list |-> [s EXCEPT !.len = s.len + 1]]
    BY <1>3 DEF AppendTo
  <2>7. [s EXCEPT !.len = s.len + 1] = [arr |-> s.arr, len |-> s.len + 1]
    BY DEF Lies
  <2> HIDE DEF m, g
  <2>8. Grows(h, g)
    BY <1>1, <2>5 DEF Grows, Arrays
  <2>9. Lies(g, [arr |-> s.arr, len |-> s.len + 1])
    <3>1. s.arr # 0
      BY <1>3 DEF Full
    <3>2. s.len + 1 <= Len(h[s.arr])
      BY <1>1, <2>1
    <3> QED
      BY <1>1, <2>1, <2>5, <3>1, <3>2 DEF Lies
  <2> QED
    BY <2>6, <2>7, <2>8, <2>9 DEF m
<1> QED
  BY <1>2, <1>3 DEF m

\* f holds what the list and the heap are after each of the first k patterns.
AddsOn(f, h, s, q, k) ==
    \A i \in 0 .. k :
        f[i] = IF i = 0 THEN [heap |-> h, list |-> s] ELSE AddPattern(f[i - 1], q[i])

\* The recursion of AddPatterns has a solution.
LEMMA AddsOnExists ==
    ASSUME NEW h, NEW s, NEW q, NEW n \in Nat
    PROVE  \E f : f = [i \in 0 .. n |-> f[i]] /\ AddsOn(f, h, s, q, n)
<1> DEFINE first == [heap |-> h, list |-> s]
           Some(k) == \E f : AddsOn(f, h, s, q, k)
           T == {k \in Nat : ~ Some(k)}
<1>1. T = {}
  <2> SUFFICES ASSUME T # {} PROVE FALSE
    OBVIOUS
  <2>1. PICK k \in T : \A m \in T : k <= m
    <3>1. T \subseteq Nat
      OBVIOUS
    <3> HIDE DEF T
    <3> QED
      BY <3>1, LeastNatural
  <2>2. k \in Nat /\ ~ Some(k)
    BY <2>1
  <2>3. k # 0
    <3>1. AddsOn([i \in {0} |-> first], h, s, q, 0)
      BY DEF AddsOn
    <3> QED
      BY <2>2, <3>1
  <2>4. k - 1 \in Nat /\ ~ (k <= k - 1)
    BY <2>2, <2>3
  <2>5. PICK f : AddsOn(f, h, s, q, k - 1)
    BY <2>1, <2>4
  <2> DEFINE g == [i \in 0 .. k |-> IF i = k THEN AddPattern(f[k - 1], q[k]) ELSE f[i]]
  <2>6. AddsOn(g, h, s, q, k)
    <3> SUFFICES ASSUME NEW i \in 0 .. k
                 PROVE  g[i] = IF i = 0 THEN first ELSE AddPattern(g[i - 1], q[i])
      BY DEF AddsOn
    <3>1. CASE i = k
      <4>1. i - 1 \in 0 .. k /\ i - 1 # k
        BY <2>2, <2>3, <3>1
      <4> QED
        BY <2>3, <3>1, <4>1
    <3>2. CASE i # k
      <4>1. i \in 0 .. k - 1 /\ (i # 0 => i - 1 \in 0 .. k /\ i - 1 # k)
        BY <2>2, <3>2
      <4>2. f[i] = IF i = 0 THEN first ELSE AddPattern(f[i - 1], q[i])
        BY <2>5, <4>1 DEF AddsOn
      <4> QED
        BY <3>2, <4>1, <4>2
    <3> QED
      BY <3>1, <3>2
  <2> QED
    BY <2>2, <2>6
<1>2. PICK f : AddsOn(f, h, s, q, n)
  BY <1>1
<1> DEFINE g == [i \in 0 .. n |-> f[i]]
<1>3. g = [i \in 0 .. n |-> g[i]]
  OBVIOUS
<1>4. \A i \in 0 .. n : g[i] = IF i = 0 THEN first ELSE AddPattern(g[i - 1], q[i])
  <2>1. \A i \in 0 .. n : f[i] = IF i = 0 THEN first ELSE AddPattern(f[i - 1], q[i])
    BY <1>2 DEF AddsOn
  <2>2. \A i \in 0 .. n : i # 0 => i - 1 \in 0 .. n
    OBVIOUS
  <2> QED
    BY <2>1, <2>2
<1> QED
  BY <1>3, <1>4 DEF AddsOn

\* What AddPatterns returns is reached pattern by pattern.
LEMMA AddPatternsIs ==
    ASSUME NEW h, NEW s, NEW q \in Seq(STRING)
    PROVE  \E A : /\ A[0] = [heap |-> h, list |-> s]
                  /\ \A k \in 1 .. Len(q) : A[k] = AddPattern(A[k - 1], q[k])
                  /\ AddPatterns(h, s, q) = A[Len(q)]
<1> DEFINE first == [heap |-> h, list |-> s]
           Solves(a) == a = [k \in 0 .. Len(q) |->
                                IF k = 0 THEN first ELSE AddPattern(a[k - 1], q[k])]
           A == CHOOSE a : Solves(a)
<1>1. Len(q) \in Nat /\ 0 \in 0 .. Len(q) /\ Len(q) \in 0 .. Len(q)
  OBVIOUS
<1>2. PICK f : f = [i \in 0 .. Len(q) |-> f[i]] /\ AddsOn(f, h, s, q, Len(q))
  BY <1>1, AddsOnExists
<1>3. Solves(f)
  <2>1. \A i \in 0 .. Len(q) : f[i] = IF i = 0 THEN first ELSE AddPattern(f[i - 1], q[i])
    BY <1>2 DEF AddsOn
  <2> QED
    BY <1>2, <2>1
<1>4. Solves(A)
  BY <1>3
<1>5. AddPatterns(h, s, q) = A[Len(q)]
  BY DEF AddPatterns
<1> HIDE DEF A
<1>6. A[0] = first /\ \A k \in 1 .. Len(q) : A[k] = AddPattern(A[k - 1], q[k])
  <2>1. \A i \in 0 .. Len(q) : A[i] = IF i = 0 THEN first ELSE AddPattern(A[i - 1], q[i])
    BY <1>4
  <2>2. \A i \in 1 .. Len(q) : i \in 0 .. Len(q) /\ i # 0
    BY <1>1
  <2> QED
    BY <1>1, <2>1, <2>2
<1> QED
  BY <1>5, <1>6

\* The list after the patterns of a statement is the list before them, or longer.
LEMMA AddPatternsGrow ==
    ASSUME NEW h \in Arrays, NEW s, Lies(h, s), NEW q \in Seq(STRING)
    PROVE  LET m == AddPatterns(h, s, q) IN
           /\ Grows(h, m.heap) /\ Lies(m.heap, m.list)
           /\ m.list = s \/ m.list.len > s.len
<1>1. Len(q) \in Nat
  OBVIOUS
<1>2. PICK A : /\ A[0] = [heap |-> h, list |-> s]
               /\ \A k \in 1 .. Len(q) : A[k] = AddPattern(A[k - 1], q[k])
               /\ AddPatterns(h, s, q) = A[Len(q)]
  BY AddPatternsIs
<1> DEFINE first == [heap |-> h, list |-> s]
           Fine(m) == /\ m = [heap |-> m.heap, list |-> m.list]
                      /\ Grows(h, m.heap) /\ Lies(m.heap, m.list)
                      /\ m.list = s \/ m.list.len > s.len
           T == {k \in Nat : k <= Len(q) /\ ~ Fine(A[k])}
<1>3. T = {}
  <2> SUFFICES ASSUME T # {} PROVE FALSE
    OBVIOUS
  <2>1. PICK k \in T : \A m \in T : k <= m
    <3>1. T \subseteq Nat
      OBVIOUS
    <3> HIDE DEF T
    <3> QED
      BY <3>1, LeastNatural
  <2>2. k \in Nat /\ k <= Len(q) /\ ~ Fine(A[k])
    BY <2>1
  <2>3. Fine(first)
    <3>1. Grows(h, h)
      BY DEF Grows, Arrays
    <3> QED
      BY <3>1
  <2>4. k # 0
    BY <1>2, <2>2, <2>3
  <2>5. k - 1 \in Nat /\ k - 1 <= Len(q) /\ k \in 1 .. Len(q) /\ ~ (k <= k - 1)
    BY <1>1, <2>2, <2>4
  <2>6. Fine(A[k - 1])
    <3>1. k - 1 \notin T
      BY <2>1, <2>5
    <3> QED
      BY <2>5, <3>1
  <2>7. PICK m, x : m = A[k - 1] /\ x = q[k] /\ A[k] = AddPattern(m, x)
    BY <1>2, <2>5
  <2>8. x \in STRING /\ m.heap \in Arrays /\ Lies(m.heap, m.list)
    BY <2>5, <2>6, <2>7 DEF Grows
  <2> DEFINE e == AppendTo(m, x)
  <2>9. /\ e = [heap |-> e.heap, list |-> e.list]
        /\ Grows(m.heap, e.heap) /\ Lies(e.heap, e.list) /\ e.list.len = m.list.len + 1
    <3>1. m = [heap |-> m.heap, list |-> m.list]
      BY <2>6, <2>7
    <3> HIDE DEF e
    <3>2. e = AppendTo([heap |-> m.heap, list |-> m.list], x)
      BY <3>1 DEF e
    <3> QED
      BY <2>8, <3>2, AppendGrows
  <2> HIDE DEF e
  <2>10. Fine(e)
    <3>1. Grows(h, e.heap)
      BY <2>6, <2>7, <2>9, GrowsOn
    <3>2. e.list.len > s.len
      <4>1. (m.list = s \/ m.list.len > s.len) /\ Lies(h, s)
        BY <2>6, <2>7
      <4>2. m.list.len \in Nat /\ s.len \in Nat
        BY <2>8, <4>1 DEF Lies
      <4> QED
        BY <2>9, <4>1, <4>2
    <3> QED
      BY <2>9, <3>1, <3>2
  <2>11. A[k] = m \/ A[k] = e
    BY <2>7 DEF AddPattern, e
  <2> QED
    BY <2>2, <2>6, <2>7, <2>10, <2>11
<1>4. Fine(A[Len(q)])
  <2>1. Len(q) \notin T
    BY <1>3
  <2> QED
    BY <1>1, <2>1
<1> QED
  BY <1>2, <1>4

-----------------------------------------------------------------------------
(* Roots *)

\* What YangTypes are resolved through has a rank, the higher first.
Ordered(rank) ==
    /\ rank \in [Typedefs \cup Types -> Nat]
    /\ \A d \in Typedefs : rank[doc.typedef[d].type] < rank[d]
    /\ \A t \in Types :
          /\ ~ IsBuiltin(t) /\ Found(t) # None => rank[Found(t)] < rank[t]
          /\ \A i \in DOMAIN doc.type[t].members : rank[doc.type[t].members[i]] < rank[t]

\* No typedef is based on itself, nor a member of a union it is based on.
NoCircles == \E rank : Ordered(rank)

\* A list of members.
IsSequence(q) == \E S : q \in Seq(S)
\* A YangType whose members and patterns are lists of the heap.
Sound(h, y) == HasFields(y) /\ IsSequence(y.members) /\ Lies(h, y.patterns)

\* The YangType of p is its own root, and is not made again.
IsRoot(p) == yt[p].root = p /\ (p \in Builtin \/ (p \in Typedefs /\ yt[p] # None))

\* y adds nothing to z, or has more patterns or members.
Same(y, z) ==
    /\ y.kind = z.kind /\ y.range = z.range /\ y.digits = z.digits
    /\ y.base = z.base /\ y.enum = z.enum /\ y.default = z.default
    /\ y.patterns = z.patterns /\ y.members = z.members
\* y has the patterns and the members of z, or more of them.
Extends(y, z) ==
    /\ y.patterns = z.patterns \/ y.patterns.len > z.patterns.len
    /\ y.members = z.members \/ Len(y.members) > Len(z.members)

\* A call for t is in progress; it has made the YangType, and resolves its members.
OnStack(t) == \E i \in DOMAIN stack : stack[i].of = t
Resolving(t) == \E i \in DOMAIN stack : stack[i].of = t /\ stack[i].n > 0

\* The roots of base types, of typedefs and of types.
BuiltinRoots == \A b \in Builtin : yt[b].root = b /\ Sound(heap, yt[b])

TypedefRoots ==
    \A d \in Typedefs : yt[d] # None =>
        /\ Sound(heap, yt[d])
        /\ yt[d].root = d \/ (IsRoot(yt[d].root) /\ Same(yt[d], yt[yt[d].root]))

TypeRoots ==
    \A t \in Types : yt[t] # None \/ Resolving(t) =>
        /\ Sound(heap, yt[t])
        /\ yt[t].root = t \/ (IsRoot(yt[t].root) /\ Extends(yt[t], yt[yt[t].root]))
        /\ \/ OnStack(t) \/ doc.type[t].ext \/ yt[t].root = t
           \/ Same(yt[t], yt[yt[t].root])

\* The calls in progress wait for what has a lower rank and has not been made.
Below(rank, x, s) == \A i \in DOMAIN s : rank[x] < rank[s[i].of]
\* Calls go down in the order, the later the lower.
Descends(rank, s) == \A i, j \in DOMAIN s : i < j => rank[s[j].of] < rank[s[i].of]

\* The order of the calls in progress and of what is called.
OrderInv(rank) ==
    /\ Descends(rank, stack)
    /\ pc = "enter" => Below(rank, enter, stack)
    /\ \A i \in DOMAIN stack : stack[i].n = 0 => yt[stack[i].of] = None
    /\ pc \in {"idle", "loop"} => stack = <<>>

\* All roots.
RootsInv == heap \in Arrays /\ BuiltinRoots /\ TypedefRoots /\ TypeRoots

\* The invariant of roots, for an order of typedefs and types.
RootInv(rank) == StateInv /\ Ordered(rank) /\ RootsInv /\ OrderInv(rank)

\* Equal compares what Same does.
LEMMA SameIsEqual ==
    ASSUME NEW ts, NEW h, NEW y, NEW z, Same(y, z)
    PROVE  Equal(ts, h, y, z)
  BY DEF Same, Equal, Alike

\* What is equal and has gained no patterns or members is the same.
LEMMA EqualIsSame ==
    ASSUME NEW ts, NEW h \in Arrays, NEW y, NEW z, Equal(ts, h, y, z), Extends(y, z),
           Sound(h, y), Sound(h, z)
    PROVE  Same(y, z)
<1>1. y.patterns.len = z.patterns.len
  BY ContentLength DEF Equal, Alike, Sound
<1>2. y.patterns.len \in Nat /\ Len(y.members) \in Nat /\ Len(y.members) = Len(z.members)
  <2>1. y.patterns.len \in Nat /\ Len(y.members) = Len(z.members)
    BY DEF Sound, Lies, Equal
  <2>2. PICK S : y.members \in Seq(S)
    BY DEF Sound, IsSequence
  <2> QED
    BY <2>1, <2>2
<1>3. y.patterns = z.patterns /\ y.members = z.members
  BY <1>1, <1>2 DEF Extends
<1> QED
  BY <1>3 DEF Same, Equal, Alike

\* The ranks depend on the document only.
LEMMA SameOrder ==
    ASSUME doc' = doc
    PROVE  /\ \A rank : Ordered(rank)' <=> Ordered(rank)
           /\ NoCircles' <=> NoCircles
<1>1. \A rank : Ordered(rank)' <=> Ordered(rank)
  <2>1. \A t : IsBuiltin(t)' <=> IsBuiltin(t)
    BY DEF IsBuiltin
  <2>2. \A t : Found(t)' = Found(t)
    <3>1. \A t : Scopes(t)' = Scopes(t)
      BY DEF Scopes, NodesAbove, IsLocal, Root
    <3>2. \A n, name : FindIn(n, name)' = FindIn(n, name)
      BY SameDocument DEF FindIn
    <3>3. \A t : Defining(t)' = Defining(t)
      BY SameDocument
    <3> SUFFICES ASSUME NEW t PROVE Found(t)' = Found(t)
      OBVIOUS
    <3>4. PICK S : S = FindIn(Scopes(t)[Min(Defining(t))], doc.type[t].name)
      OBVIOUS
    <3>5. FindIn(Scopes(t)[Min(Defining(t))], doc.type[t].name)' = S
      BY <3>1, <3>2, <3>3, <3>4
    <3>6. Found(t) = IF Defining(t) = {} THEN None ELSE CHOOSE d \in S : TRUE
      BY <3>4 DEF Found
    <3>7. Found(t)' = IF Defining(t)' = {} THEN None ELSE CHOOSE d \in S : TRUE
      BY <3>5 DEF Found
    <3> QED
      BY <3>3, <3>6, <3>7
  <2> QED
    BY <2>1, <2>2, SameDocument DEF Ordered
<1> QED
  BY <1>1 DEF NoCircles

\* A list, and what is made of lists, lies within the arrays that have grown.
LEMMA SoundOn ==
    ASSUME doc' = doc, NEW h \in Arrays, NEW g, Grows(h, g)
    PROVE  \A y : Sound(h, y) => Sound(g, y)'
<1> SUFFICES ASSUME NEW y, Sound(h, y) PROVE Sound(g, y)'
  OBVIOUS
<1>1. Lies(g, y.patterns)
  BY LiesOn DEF Sound
<1>2. Types' = Types
  BY SameDocument
<1> QED
  BY <1>1, <1>2 DEF Sound

\* A step that makes no YangType.
LEMMA RootsStay ==
    ASSUME StateInv, RootsInv, doc' = doc, yt' = yt, heap' = heap,
           \A t \in Types : Resolving(t)' => Resolving(t),
           \A t \in Types : yt[t] # None /\ OnStack(t) => OnStack(t)'
    PROVE  RootsInv'
<1>1. Typedefs' = Typedefs /\ Types' = Types
  BY SameDocument
<1>2. \A y : Sound(heap, y) => Sound(heap, y)'
  BY <1>1 DEF Sound
<1>3. \A p : IsRoot(p) => IsRoot(p)'
  BY <1>1 DEF IsRoot
<1>4. BuiltinRoots'
  BY <1>2 DEF RootsInv, BuiltinRoots
<1>5. TypedefRoots'
  BY <1>1, <1>2, <1>3 DEF RootsInv, TypedefRoots
<1>6. TypeRoots'
  <2> SUFFICES ASSUME NEW t \in Types, yt[t] # None \/ Resolving(t)'
               PROVE  /\ Sound(heap, yt[t])'
                      /\ \/ yt[t].root = t
                         \/ IsRoot(yt[t].root)' /\ Extends(yt[t], yt[yt[t].root])
                      /\ \/ OnStack(t)' \/ doc.type[t].ext \/ yt[t].root = t
                         \/ Same(yt[t], yt[yt[t].root])
    BY <1>1 DEF TypeRoots
  <2>1. yt[t] # None \/ Resolving(t)
    OBVIOUS
  <2>2. Resolving(t)' => OnStack(t)'
    BY DEF Resolving, OnStack
  <2>3. /\ Sound(heap, yt[t])
        /\ yt[t].root = t \/ (IsRoot(yt[t].root) /\ Extends(yt[t], yt[yt[t].root]))
        /\ \/ OnStack(t) \/ doc.type[t].ext \/ yt[t].root = t
           \/ Same(yt[t], yt[yt[t].root])
    BY <2>1 DEF RootsInv, TypeRoots
  <2> QED
    BY <1>2, <1>3, <2>2, <2>3
<1> QED
  BY <1>4, <1>5, <1>6 DEF RootsInv

\* A YangType that is made or changed: it is not the root of another.
LEMMA RootsAfter ==
    ASSUME StateInv, RootsInv, doc' = doc, Grows(heap, heap'),
           NEW p \in Typedefs \cup Types, NEW z, yt' = [yt EXCEPT ![p] = z],
           p \in Typedefs => yt[p] = None,
           Sound(heap', z),
           \A t \in Types : t # p => (OnStack(t)' <=> OnStack(t)) /\ (Resolving(t)' => Resolving(t)),
           z.root = p \/ (IsRoot(z.root) /\ Extends(z, yt[z.root])),
           \/ z.root = p \/ Same(z, yt[z.root])
           \/ (p \in Types /\ (OnStack(p)' \/ doc.type[p].ext))
    PROVE  RootsInv'
<1>1. /\ Typedefs' = Typedefs /\ Types' = Types /\ heap \in Arrays
      /\ Typedefs \cap Types = {} /\ Builtin \cap (Typedefs \cup Types) = {}
  BY SameDocument, DocumentsAssumption DEF StateInv, RootsInv, Typedefs, Types
<1>2. \A y : Sound(heap, y) => Sound(heap, y)'
  BY <1>1, SoundOn
<1>3. Sound(heap, z)'
  BY <1>1 DEF Sound
<1>4. \A q \in Builtin \cup Typedefs \cup Types : yt'[q] = IF q = p THEN z ELSE yt[q]
  BY DEF StateInv, TypesInv
<1>5. \A r : IsRoot(r) => r # p /\ yt'[r] = yt[r] /\ IsRoot(r)'
  BY <1>1, <1>4 DEF IsRoot
<1>6. heap' \in Arrays
  BY DEF Grows
<1>7. BuiltinRoots'
  BY <1>1, <1>2, <1>4 DEF RootsInv, BuiltinRoots
<1>8. TypedefRoots'
  <2> SUFFICES ASSUME NEW d \in Typedefs, yt'[d] # None
               PROVE  /\ Sound(heap, yt[d])'
                      /\ yt'[d].root = d \/ (IsRoot(yt[d].root)' /\ Same(yt'[d], yt'[yt'[d].root]))
    BY <1>1 DEF TypedefRoots
  <2>1. CASE d = p
    <3>1. yt'[d] = z /\ d \notin Types
      BY <1>1, <1>4, <2>1
    <3> QED
      BY <1>3, <1>5, <2>1, <3>1
  <2>2. CASE d # p
    <3>1. yt'[d] = yt[d]
      BY <1>4, <2>2
    <3>2. /\ Sound(heap, yt[d])
          /\ yt[d].root = d \/ (IsRoot(yt[d].root) /\ Same(yt[d], yt[yt[d].root]))
      BY <3>1 DEF RootsInv, TypedefRoots
    <3> QED
      BY <1>2, <1>5, <3>1, <3>2
  <2> QED
    BY <2>1, <2>2
<1>9. TypeRoots'
  <2> SUFFICES ASSUME NEW t \in Types, yt'[t] # None \/ Resolving(t)'
               PROVE  /\ Sound(heap, yt[t])'
                      /\ \/ yt'[t].root = t
                         \/ IsRoot(yt[t].root)' /\ Extends(yt'[t], yt'[yt'[t].root])
                      /\ \/ OnStack(t)' \/ doc.type[t].ext \/ yt'[t].root = t
                         \/ Same(yt'[t], yt'[yt'[t].root])
    BY <1>1 DEF TypeRoots
  <2>1. CASE t = p
    <3>1. yt'[t] = z
      BY <1>4, <2>1
    <3> QED
      BY <1>3, <1>5, <2>1, <3>1
  <2>2. CASE t # p
    <3>1. yt'[t] = yt[t] /\ (yt[t] # None \/ Resolving(t))
      BY <1>4, <2>2
    <3>2. /\ Sound(heap, yt[t])
          /\ yt[t].root = t \/ (IsRoot(yt[t].root) /\ Extends(yt[t], yt[yt[t].root]))
          /\ \/ OnStack(t) \/ doc.type[t].ext \/ yt[t].root = t
             \/ Same(yt[t], yt[yt[t].root])
      BY <3>1 DEF RootsInv, TypeRoots
    <3> QED
      BY <1>2, <1>5, <2>2, <3>1, <3>2
  <2> QED
    BY <2>1, <2>2
<1> QED
  BY <1>6, <1>7, <1>8, <1>9 DEF RootsInv

\* All but the last of a sequence.
LEMMA FrontIs ==
    ASSUME NEW S, NEW s \in Seq(S), s # <<>>
    PROVE  /\ Front(s) \in Seq(S)
           /\ \A i \in DOMAIN Front(s) : i \in DOMAIN s /\ i < Len(s) /\ Front(s)[i] = s[i]
           /\ \A i \in DOMAIN s : i = Len(s) \/ i \in DOMAIN Front(s)
           /\ Len(s) \in DOMAIN s /\ Last(s) = s[Len(s)]
<1>1. Len(s) \in Nat \ {0} /\ DOMAIN s = 1 .. Len(s)
  OBVIOUS
<1>2. Front(s) = SubSeq(s, 1, Len(s) - 1)
  BY DEF Front
<1>3. /\ Front(s) \in Seq(S) /\ DOMAIN Front(s) = 1 .. (Len(s) - 1)
      /\ \A i \in 1 .. (Len(s) - 1) : Front(s)[i] = s[i]
  BY <1>1, <1>2
<1> HIDE DEF Front
<1> QED
  BY <1>1, <1>3 DEF Last

\* The calls in progress are for different statements, which have ranks.
LEMMA CallsDiffer ==
    ASSUME NEW rank, RootInv(rank)
    PROVE  /\ stack \in Seq(Frames)
           /\ \A x \in Typedefs \cup Types : rank[x] \in Nat
           /\ \A i \in DOMAIN stack : stack[i].of \in Typedefs \cup Types
           /\ stack # <<>> =>
                 /\ Len(stack) \in DOMAIN stack /\ Top = stack[Len(stack)]
                 /\ \A i \in DOMAIN stack : i # Len(stack) =>
                       i < Len(stack) /\ rank[Top.of] < rank[stack[i].of] /\ stack[i].of # Top.of
<1>1. stack \in Seq(Frames) /\ Descends(rank, stack) /\ rank \in [Typedefs \cup Types -> Nat]
  BY DEF RootInv, StateInv, CallsInv, OrderInv, Ordered
<1>2. \A i \in DOMAIN stack : stack[i] \in Frames /\ i \in Nat /\ i <= Len(stack)
  BY <1>1
<1>3. \A i \in DOMAIN stack : stack[i].of \in Typedefs \cup Types
  BY <1>2 DEF Frames
<1>4. \A x \in Typedefs \cup Types : rank[x] \in Nat
  BY <1>1
<1>5. ASSUME stack # <<>>
      PROVE  /\ Len(stack) \in DOMAIN stack /\ Top = stack[Len(stack)]
             /\ \A i \in DOMAIN stack : i # Len(stack) =>
                   i < Len(stack) /\ rank[Top.of] < rank[stack[i].of] /\ stack[i].of # Top.of
  <2>1. Len(stack) \in DOMAIN stack /\ Top = stack[Len(stack)]
    BY <1>1, <1>5, FrontIs DEF Top
  <2>2. ASSUME NEW i \in DOMAIN stack, i # Len(stack)
        PROVE  i < Len(stack) /\ rank[Top.of] < rank[stack[i].of] /\ stack[i].of # Top.of
    <3>1. i < Len(stack)
      BY <1>1, <2>2
    <3>2. rank[Top.of] < rank[stack[i].of]
      BY <1>1, <2>1, <3>1 DEF Descends
    <3>3. rank[Top.of] \in Nat
      BY <1>3, <1>4, <2>1
    <3> QED
      BY <3>1, <3>2, <3>3
  <2> QED
    BY <2>1, <2>2
<1> QED
  BY <1>1, <1>3, <1>4, <1>5

\* A call that ends leaves the others.
LEMMA CallsLeft ==
    ASSUME NEW rank, RootInv(rank), stack # <<>>
    PROVE  LET s == Front(stack) IN
           /\ Descends(rank, s) /\ Below(rank, Top.of, s)
           /\ \A i \in DOMAIN s : s[i].n = 0 => yt[s[i].of] = None
           /\ \A i \in DOMAIN s : s[i].of # Top.of
           /\ \A t : t # Top.of =>
                 /\ (\E i \in DOMAIN s : s[i].of = t) <=> OnStack(t)
                 /\ (\E i \in DOMAIN s : s[i].of = t /\ s[i].n > 0) <=> Resolving(t)
<1>1. PICK s : s = Front(stack)
  OBVIOUS
<1>2. /\ \A i \in DOMAIN s : i \in DOMAIN stack /\ i < Len(stack) /\ s[i] = stack[i]
      /\ \A i \in DOMAIN stack : i = Len(stack) \/ i \in DOMAIN s
      /\ Len(stack) \in DOMAIN stack /\ Top = stack[Len(stack)]
  <2>1. stack \in Seq(Frames)
    BY CallsDiffer
  <2> QED
    BY <1>1, <2>1, FrontIs DEF Top
<1>3. \A i \in DOMAIN s : i # Len(stack)
  <2>1. Len(stack) \in Nat
    BY CallsDiffer
  <2> QED
    BY <1>2, <2>1
<1>4. Descends(rank, s) /\ \A i \in DOMAIN s : s[i].n = 0 => yt[s[i].of] = None
  BY <1>2 DEF RootInv, OrderInv, Descends
<1>5. Below(rank, Top.of, s) /\ \A i \in DOMAIN s : s[i].of # Top.of
  BY <1>2, <1>3, CallsDiffer DEF Below
<1>6. ASSUME NEW t, t # Top.of
      PROVE  /\ (\E i \in DOMAIN s : s[i].of = t) <=> OnStack(t)
             /\ (\E i \in DOMAIN s : s[i].of = t /\ s[i].n > 0) <=> Resolving(t)
  BY <1>2, <1>6 DEF OnStack, Resolving
<1> QED
  BY <1>1, <1>4, <1>5, <1>6

\* Steps that make no YangType and leave the calls as they are.
LEMMA LoopRoots ==
    ASSUME NEW rank, RootInv(rank),
           Process \/ Resolve \/ EndTypedefs \/ EndLeaves \/ AlreadyResolved
              \/ UnknownType \/ Collect \/ Member \/ UNCHANGED vars
    PROVE  RootsInv' /\ OrderInv(rank)'
<1>1. doc' = doc /\ yt' = yt /\ heap' = heap /\ stack' = stack
  BY DEF Process, Resolve, EndTypedefs, EndLeaves, AlreadyResolved, UnknownType, Collect,
         Member, vars
<1>2. RootsInv'
  <2>1. \A t : (Resolving(t)' <=> Resolving(t)) /\ (OnStack(t)' <=> OnStack(t))
    BY <1>1 DEF Resolving, OnStack
  <2> QED
    BY <1>1, <2>1, RootsStay DEF RootInv
<1>3. Descends(rank, stack)' /\ \A i \in DOMAIN stack' : stack'[i].n = 0 => yt'[stack'[i].of] = None
  BY <1>1 DEF RootInv, OrderInv, Descends
<1>4. pc' \in {"idle", "loop"} => stack' = <<>>
  BY <1>1 DEF Process, Resolve, EndTypedefs, EndLeaves, AlreadyResolved, UnknownType, Collect,
         Member, Returns, vars, RootInv, OrderInv
<1>5. pc' = "enter" => Below(rank, enter, stack)'
  <2>1. CASE Resolve
    BY <1>1, <2>1 DEF Resolve, RootInv, OrderInv, Below
  <2>2. CASE Member
    <3>1. /\ doc \in Documents /\ CallsInv(stack) /\ stack # <<>> /\ Top.n > 0
          /\ Top.n <= Len(doc.type[Top.of].members)
          /\ enter' = doc.type[Top.of].members[Top.n]
      BY <2>2 DEF Member, RootInv, StateInv
    <3>2. Top \in Frames /\ Top.of \in Types
      BY <3>1, TopCall DEF Top, FrameInv
    <3>3. doc.type[Top.of].members \in Seq(Types) /\ Top.n \in Nat
      BY <3>1, <3>2, DocumentsAssumption DEF Types, Frames
    <3>4. Top.n \in DOMAIN doc.type[Top.of].members /\ enter' \in Types
      BY <3>1, <3>3
    <3>5. rank[enter'] < rank[Top.of] /\ rank[enter'] \in Nat /\ rank[Top.of] \in Nat
      BY <3>1, <3>2, <3>4, CallsDiffer DEF RootInv, Ordered
    <3>6. ASSUME NEW i \in DOMAIN stack PROVE rank[enter'] < rank[stack[i].of]
      <4>1. i = Len(stack) \/ rank[Top.of] < rank[stack[i].of]
        BY <3>1, CallsDiffer
      <4>2. Top = stack[Len(stack)] /\ rank[stack[i].of] \in Nat
        BY <3>1, CallsDiffer
      <4> QED
        BY <3>5, <4>1, <4>2
    <3> QED
      BY <1>1, <3>6 DEF Below
  <2>3. CASE UNCHANGED vars
    BY <2>3 DEF vars, RootInv, OrderInv, Below
  <2>4. CASE ~ Resolve /\ ~ Member /\ ~ UNCHANGED vars
    BY <2>4 DEF Process, EndTypedefs, EndLeaves, AlreadyResolved, UnknownType, Collect,
         Returns, RootInv, OrderInv
  <2> QED
    BY <2>1, <2>2, <2>3, <2>4
<1> QED
  BY <1>2, <1>3, <1>4, <1>5 DEF OrderInv

\* A call that begins.
LEMMA PushRoots ==
    ASSUME NEW rank, RootInv(rank), EnterTypedef \/ EnterType
    PROVE  RootsInv' /\ OrderInv(rank)'
<1>1. PICK x : x = enter
  OBVIOUS
<1>2. /\ doc' = doc /\ yt' = yt /\ heap' = heap /\ pc' = "enter" /\ pc = "enter"
      /\ Push(x) /\ yt[x] = None /\ Below(rank, x, stack) /\ x \in Typedefs \cup Types
  BY <1>1 DEF EnterTypedef, EnterType, RootInv, OrderInv
<1>3. rank[enter'] < rank[x] /\ enter' \in Typedefs \cup Types
  <2>1. doc \in Documents
    BY DEF RootInv, StateInv
  <2>2. CASE EnterTypedef
    BY <1>1, <2>1, <2>2, DocumentsAssumption DEF EnterTypedef, RootInv, Ordered, Typedefs, Types
  <2>3. CASE EnterType
    <3>1. x \in Types /\ ~ IsBuiltin(x) /\ Found(x) # None /\ enter' = Found(x)
      BY <1>1, <2>3 DEF EnterType
    <3>2. Found(x) \in Typedefs
      BY <2>1, <3>1, FoundIsTypedef DEF Found
    <3> QED
      BY <3>1, <3>2 DEF RootInv, Ordered
  <2> QED
    BY <2>2, <2>3
<1>4. PICK f : f = [of |-> x, n |-> 0, errs |-> {}]
  OBVIOUS
<1>5. /\ stack' = Append(stack, f) /\ f.of = x /\ f.n = 0 /\ f \in Frames
      /\ stack \in Seq(Frames) /\ Len(stack) \in Nat
  <2>1. f \in Frames /\ f.of = x /\ f.n = 0
    BY <1>2, <1>4 DEF Frames
  <2>2. stack' = Append(stack, f)
    BY <1>2, <1>4 DEF Push
  <2>3. stack \in Seq(Frames)
    BY CallsDiffer
  <2> QED
    BY <2>1, <2>2, <2>3
<1> DEFINE s == Append(stack, f)
<1>6. /\ DOMAIN s = DOMAIN stack \cup {Len(stack) + 1} /\ s[Len(stack) + 1] = f
      /\ \A i \in DOMAIN stack : s[i] = stack[i] /\ i \in Nat /\ i <= Len(stack)
  BY <1>5
<1> HIDE DEF s
<1>7. stack' = s
  BY <1>5 DEF s
<1>8. \A i \in DOMAIN s :
         (i = Len(stack) + 1 /\ s[i] = f) \/ (i \in DOMAIN stack /\ s[i] = stack[i])
  BY <1>6
<1>9. RootsInv'
  <2>1. ASSUME NEW t PROVE (Resolving(t)' => Resolving(t)) /\ (OnStack(t) => OnStack(t)')
    BY <1>5, <1>6, <1>7, <1>8 DEF Resolving, OnStack
  <2> QED
    BY <1>2, <2>1, RootsStay DEF RootInv
<1>10. Descends(rank, s)
  <2> SUFFICES ASSUME NEW i \in DOMAIN s, NEW j \in DOMAIN s, i < j
               PROVE  rank[s[j].of] < rank[s[i].of]
    BY DEF Descends
  <2>1. i \in DOMAIN stack
    BY <1>5, <1>6, <1>8
  <2>2. CASE j \in DOMAIN stack
    BY <1>6, <2>1, <2>2 DEF RootInv, OrderInv, Descends
  <2>3. CASE s[j] = f
    BY <1>2, <1>5, <1>6, <2>1, <2>3 DEF Below
  <2> QED
    BY <1>8, <2>2, <2>3
<1>11. Below(rank, enter', s)
  <2> SUFFICES ASSUME NEW i \in DOMAIN s PROVE rank[enter'] < rank[s[i].of]
    BY DEF Below
  <2>1. CASE s[i] = f
    BY <1>3, <1>5, <2>1
  <2>2. CASE i \in DOMAIN stack /\ s[i] = stack[i]
    <3>1. rank[x] < rank[s[i].of]
      BY <1>2, <2>2 DEF Below
    <3>2. rank[enter'] \in Nat /\ rank[x] \in Nat /\ rank[s[i].of] \in Nat
      BY <1>2, <1>3, <2>2, CallsDiffer
    <3> QED
      BY <1>3, <3>1, <3>2
  <2> QED
    BY <1>8, <2>1, <2>2
<1>12. \A i \in DOMAIN s : s[i].n = 0 => yt[s[i].of] = None
  BY <1>2, <1>5, <1>8 DEF RootInv, OrderInv
<1>13. OrderInv(rank)'
  <2>1. Descends(rank, stack)'
    BY <1>7, <1>10 DEF Descends
  <2>2. Below(rank, enter, stack)'
    BY <1>7, <1>11 DEF Below
  <2> QED
    BY <1>2, <1>7, <1>12, <2>1, <2>2 DEF OrderInv
<1> QED
  BY <1>9, <1>13

\* A call that ends without a YangType.
LEMMA PopRoots ==
    ASSUME NEW rank, RootInv(rank), Fail \/ Ignored
    PROVE  RootsInv' /\ OrderInv(rank)'
<1>1. /\ doc' = doc /\ yt' = yt /\ heap' = heap /\ stack # <<>> /\ Top.n = 0
      /\ stack' = Front(stack) /\ pc' = "return"
  BY DEF Fail, Ignored, Waiting
<1>2. yt[Top.of] = None
  BY <1>1, CallsDiffer DEF RootInv, OrderInv
<1>3. PICK s : s = Front(stack)
  OBVIOUS
<1>4. /\ Descends(rank, s) /\ \A i \in DOMAIN s : s[i].n = 0 => yt[s[i].of] = None
      /\ \A i \in DOMAIN s : s[i].of # Top.of
      /\ \A t : t # Top.of =>
            /\ (\E i \in DOMAIN s : s[i].of = t) <=> OnStack(t)
            /\ (\E i \in DOMAIN s : s[i].of = t /\ s[i].n > 0) <=> Resolving(t)
  BY <1>1, <1>3, CallsLeft
<1>5. RootsInv'
  <2>1. ASSUME NEW t, Resolving(t)' PROVE Resolving(t)
    <3>1. \E i \in DOMAIN s : s[i].of = t /\ s[i].n > 0
      BY <1>1, <1>3, <2>1 DEF Resolving
    <3>2. t # Top.of
      BY <1>4, <3>1
    <3> QED
      BY <1>4, <3>1, <3>2
  <2>2. ASSUME NEW t, yt[t] # None, OnStack(t) PROVE OnStack(t)'
    <3>1. \E i \in DOMAIN s : s[i].of = t
      BY <1>2, <1>4, <2>2
    <3> QED
      BY <1>1, <1>3, <3>1 DEF OnStack
  <2> QED
    BY <1>1, <2>1, <2>2, RootsStay DEF RootInv
<1>6. OrderInv(rank)'
  <2>1. Descends(rank, stack)'
    BY <1>1, <1>3, <1>4 DEF Descends
  <2> QED
    BY <1>1, <1>3, <1>4, <2>1 DEF OrderInv
<1> QED
  BY <1>5, <1>6

\* What Restricted leaves alone.
LEMMA RestrictedFields ==
    ASSUME NEW s, NEW y, NEW list, HasFields(y)
    PROVE  LET z == Restricted(s, y, list) IN
           HasFields(z) /\ z.root = y.root /\ z.members = y.members /\ z.patterns = list
  BY DEF Restricted, HasFields, Fields

\* Only the root changes.
LEMMA ChangedRoot ==
    ASSUME NEW y, NEW x, HasFields(y)
    PROVE  LET z == [y EXCEPT !.root = x] IN
           /\ HasFields(z) /\ z.root = x
           /\ z.members = y.members /\ z.patterns = y.patterns
           /\ \A v : Same(y, v) => Same(z, v)
           /\ \A v : Extends(y, v) => Extends(z, v)
  BY DEF HasFields, Fields, Same, Extends

\* The YangType y that a type is based on is that of a base type or a typedef.
LEMMA BaseFields ==
    ASSUME NEW rank, RootInv(rank), NEW b,
           b \in Builtin \/ (b \in Typedefs /\ yt[b] # None)
    PROVE  /\ Sound(heap, yt[b])
           /\ IsRoot(yt[b].root) /\ Same(yt[b], yt[yt[b].root])
<1>1. \A y : Same(y, y)
  BY DEF Same
<1>2. CASE b \in Builtin
  BY <1>1, <1>2 DEF RootInv, RootsInv, BuiltinRoots, IsRoot
<1>3. CASE b \in Typedefs /\ yt[b] # None
  <2>1. /\ Sound(heap, yt[b])
        /\ yt[b].root = b \/ (IsRoot(yt[b].root) /\ Same(yt[b], yt[yt[b].root]))
    BY <1>3 DEF RootInv, RootsInv, TypedefRoots
  <2> QED
    BY <1>1, <1>3, <2>1 DEF IsRoot
<1> QED
  BY <1>2, <1>3

\* Type.resolve has the YangType that t is based on, and is called by others than t.
LEMMA DeriveRoots ==
    ASSUME NEW rank, RootInv(rank), NEW t \in Types, NEW y,
           Sound(heap, y), IsRoot(y.root), Same(y, yt[y.root]),
           NEW frames \in Seq(Frames), Descends(rank, frames), Below(rank, t, frames),
           \A i \in DOMAIN frames : frames[i].n = 0 => yt[frames[i].of] = None,
           \A u : u # t => /\ (\E i \in DOMAIN frames : frames[i].of = u) <=> OnStack(u)
                           /\ (\E i \in DOMAIN frames : frames[i].of = u /\ frames[i].n > 0)
                                 <=> Resolving(u),
           Derive(t, y, frames), doc' = doc
    PROVE  RootsInv' /\ OrderInv(rank)'
<1> DEFINE s == doc.type[t]
           m == AddPatterns(heap, y.patterns, s.patterns)
<1>1. /\ doc \in Documents /\ t \in Typedefs \cup Types /\ t \notin Typedefs
      /\ heap \in Arrays /\ HasFields(y) /\ s.patterns \in Seq(STRING)
      /\ Lies(heap, y.patterns) /\ IsSequence(y.members)
  BY DocumentsAssumption DEF RootInv, RootsInv, StateInv, Typedefs, Types, Sound
<1>2. /\ \A i \in DOMAIN frames : frames[i].of # t
      /\ yt = [p \in Builtin \cup Typedefs \cup Types |-> yt[p]]
  <2>1. rank[t] \in Nat
    BY <1>1, CallsDiffer
  <2> QED
    BY <2>1 DEF Below, RootInv, StateInv, TypesInv
<1>3. PICK f : f = [of |-> t, n |-> 1, errs |-> Tagged(t, StatementErrors(s, y))]
  OBVIOUS
<1>4. f.of = t /\ f.n = 1
  BY <1>3
<1>5. \/ /\ yt' = [yt EXCEPT ![t] = y] /\ heap' = heap
         /\ stack' = frames /\ pc' = "return"
      \/ /\ yt' = [yt EXCEPT ![t] = Restricted(s, y, m.list)] /\ heap' = m.heap
         /\ \/ s.ext /\ stack' = frames /\ pc' = "return"
            \/ stack' = Append(frames, f) /\ pc' = "members"
  BY <1>3 DEF Derive, Returns
<1>6. /\ Grows(heap, m.heap) /\ Lies(m.heap, m.list)
      /\ m.list = y.patterns \/ m.list.len > y.patterns.len
  BY <1>1, AddPatternsGrow
<1> HIDE DEF m
<1>7. PICK z : /\ yt' = [yt EXCEPT ![t] = z] /\ Grows(heap, heap') /\ Sound(heap', z)
               /\ z.root = y.root /\ Extends(z, yt[z.root])
               /\ Same(z, yt[z.root]) \/ s.ext \/ stack' = Append(frames, f)
  <2>1. CASE yt' = [yt EXCEPT ![t] = y] /\ heap' = heap
    <3>1. Grows(heap, heap)
      BY <1>1 DEF Grows, Arrays
    <3>2. Extends(y, yt[y.root])
      BY DEF Extends, Same
    <3> QED
      BY <2>1, <3>1, <3>2
  <2>2. CASE /\ yt' = [yt EXCEPT ![t] = Restricted(s, y, m.list)] /\ heap' = m.heap
             /\ s.ext \/ stack' = Append(frames, f)
    <3>1. PICK z : z = Restricted(s, y, m.list)
      OBVIOUS
    <3>2. HasFields(z) /\ z.root = y.root /\ z.members = y.members /\ z.patterns = m.list
      BY <1>1, <3>1, RestrictedFields
    <3>3. Sound(heap', z) /\ Extends(z, yt[z.root])
      BY <1>1, <1>6, <2>2, <3>2 DEF Sound, Extends, Same
    <3> QED
      BY <1>6, <2>2, <3>1, <3>2, <3>3
  <2> QED
    BY <1>5, <2>1, <2>2
<1> DEFINE r == Append(frames, f)
<1>8. /\ \A i \in DOMAIN r : \/ i = Len(frames) + 1 /\ r[i] = f
                             \/ i \in DOMAIN frames /\ r[i] = frames[i]
      /\ \A i \in DOMAIN frames : i \in DOMAIN r /\ r[i] = frames[i] /\ i \in Nat /\ i <= Len(frames)
      /\ Len(frames) + 1 \in DOMAIN r /\ r[Len(frames) + 1] = f /\ Len(frames) \in Nat
  OBVIOUS
<1> HIDE DEF r
<1>9. stack' = frames \/ stack' = r
  BY <1>5 DEF r
<1>10. stack' = r => OnStack(t)'
  BY <1>4, <1>8 DEF OnStack
<1>11. ASSUME NEW u, u # t
       PROVE  (OnStack(u)' <=> OnStack(u)) /\ (Resolving(u)' => Resolving(u))
  <2>1. OnStack(u)' <=> \E i \in DOMAIN frames : frames[i].of = u
    BY <1>4, <1>8, <1>9, <1>11 DEF OnStack
  <2>2. Resolving(u)' => \E i \in DOMAIN frames : frames[i].of = u /\ frames[i].n > 0
    BY <1>4, <1>8, <1>9, <1>11 DEF Resolving
  <2> QED
    BY <1>11, <2>1, <2>2
<1>12. RootsInv'
  <2>1. IsRoot(z.root)
    BY <1>7
  <2>2. Same(z, yt[z.root]) \/ OnStack(t)' \/ s.ext
    BY <1>7, <1>10 DEF r
  <2> QED
    BY <1>1, <1>7, <1>11, <2>1, <2>2, RootsAfter DEF RootInv
<1>13. Descends(rank, r)
  <2> SUFFICES ASSUME NEW i \in DOMAIN r, NEW j \in DOMAIN r, i < j
               PROVE  rank[r[j].of] < rank[r[i].of]
    BY DEF Descends
  <2>1. i \in DOMAIN frames /\ r[i] = frames[i]
    BY <1>8
  <2>2. CASE j \in DOMAIN frames
    BY <1>8, <2>1, <2>2 DEF Descends
  <2>3. CASE r[j] = f
    BY <1>4, <2>1, <2>3 DEF Below
  <2> QED
    BY <1>8, <2>2, <2>3
<1>14. OrderInv(rank)'
  <2>1. Descends(rank, stack)'
    BY <1>9, <1>13 DEF Descends
  <2>2. \A i \in DOMAIN stack' : stack'[i].n = 0 => i \in DOMAIN frames /\ stack'[i] = frames[i]
    BY <1>4, <1>8, <1>9
  <2>3. ASSUME NEW i \in DOMAIN stack', stack'[i].n = 0 PROVE yt'[stack'[i].of] = None
    <3>1. i \in DOMAIN frames /\ stack'[i] = frames[i] /\ frames[i].of # t /\ yt[frames[i].of] = None
      BY <1>2, <2>2, <2>3
    <3>2. frames[i].of \in Typedefs \cup Types
      <4>1. frames[i] \in Frames
        BY <3>1
      <4> QED
        BY <4>1 DEF Frames
    <3> QED
      BY <1>2, <1>7, <3>1, <3>2
  <2>4. pc' \in {"return", "members"}
    BY <1>5
  <2> QED
    BY <2>1, <2>3, <2>4 DEF OrderInv
<1> QED
  BY <1>12, <1>14

\* Type.resolve has found what the type is based on.
LEMMA TypeRoot ==
    ASSUME NEW rank, RootInv(rank), EnterBuiltin \/ TypeFound
    PROVE  RootsInv' /\ OrderInv(rank)'
<1>1. stack \in Seq(Frames) /\ StateInv
  BY CallsDiffer DEF RootInv
<1>2. CASE EnterBuiltin
  <2>1. PICK t : t = enter
    OBVIOUS
  <2>2. /\ t \in Types /\ doc' = doc /\ pc = "enter" /\ doc.type[t].name \in Builtin
        /\ Derive(t, yt[doc.type[t].name], stack)
    BY <1>2, <2>1 DEF EnterBuiltin, IsBuiltin
  <2>3. /\ Descends(rank, stack) /\ Below(rank, t, stack)
        /\ \A i \in DOMAIN stack : stack[i].n = 0 => yt[stack[i].of] = None
    BY <2>1, <2>2 DEF RootInv, OrderInv
  <2>4. \A u : /\ (\E i \in DOMAIN stack : stack[i].of = u) <=> OnStack(u)
               /\ (\E i \in DOMAIN stack : stack[i].of = u /\ stack[i].n > 0) <=> Resolving(u)
    BY DEF OnStack, Resolving
  <2>5. LET y == yt[doc.type[t].name] IN Sound(heap, y) /\ IsRoot(y.root) /\ Same(y, yt[y.root])
    BY <2>2, BaseFields
  <2> QED
    BY <1>1, <2>2, <2>3, <2>4, <2>5, DeriveRoots
<1>3. CASE TypeFound
  <2>1. PICK t : t = Top.of
    OBVIOUS
  <2>2. /\ t \in Types /\ doc' = doc /\ stack # <<>> /\ Top.n = 0 /\ yt[Found(t)] # None
        /\ Derive(t, yt[Found(t)], Front(stack)) /\ doc \in Documents /\ CallsInv(stack)
    BY <1>1, <1>3, <2>1 DEF TypeFound, Waiting, StateInv
  <2>3. Found(t) \in Typedefs
    <3>1. Defining(t) # {}
      BY <2>1, <2>2, TopCall DEF Top, FrameInv
    <3> QED
      BY <2>2, <3>1, FoundIsTypedef
  <2>4. PICK s : s = Front(stack) /\ s \in Seq(Frames)
    BY <1>1, <2>2, FrontIs
  <2>5. /\ Descends(rank, s) /\ Below(rank, t, s)
        /\ \A i \in DOMAIN s : s[i].n = 0 => yt[s[i].of] = None
        /\ \A u : u # t =>
              /\ (\E i \in DOMAIN s : s[i].of = u) <=> OnStack(u)
              /\ (\E i \in DOMAIN s : s[i].of = u /\ s[i].n > 0) <=> Resolving(u)
    BY <2>1, <2>2, <2>4, CallsLeft
  <2>6. LET y == yt[Found(t)] IN Sound(heap, y) /\ IsRoot(y.root) /\ Same(y, yt[y.root])
    BY <2>2, <2>3, BaseFields
  <2> QED
    BY <2>2, <2>4, <2>5, <2>6, DeriveRoots
<1> QED
  BY <1>2, <1>3

\* The YangType of a root is one.
LEMMA RootIsSound ==
    ASSUME RootsInv, NEW r, IsRoot(r)
    PROVE  Sound(heap, yt[r])
  BY DEF RootsInv, BuiltinRoots, TypedefRoots, IsRoot

\* A union that is being made may become longer than the one it is based on.
LEMMA MemberReturnsRoots ==
    ASSUME NEW rank, RootInv(rank), MemberReturns
    PROVE  RootsInv' /\ OrderInv(rank)'
<1>1. PICK t, u : t = Top.of /\ u = doc.type[t].members[Top.n]
  OBVIOUS
<1>2. /\ doc \in Documents /\ doc' = doc /\ stack # <<>> /\ t \in Types /\ t \notin Typedefs
      /\ Top.n > 0 /\ pc' = "members" /\ heap' = heap /\ heap \in Arrays
      /\ yt' = yt \/ yt' = [yt EXCEPT ![t].members = Append(@, u)]
  BY <1>1, DocumentsAssumption
     DEF MemberReturns, RootInv, RootsInv, StateInv, Typedefs, Types
<1>3. /\ stack \in Seq(Frames) /\ Len(stack) \in DOMAIN stack /\ Top = stack[Len(stack)]
      /\ Top \in Frames /\ Top.n \in Nat
  <2>1. stack \in Seq(Frames) /\ Len(stack) \in DOMAIN stack /\ Top = stack[Len(stack)]
    BY <1>2, CallsDiffer
  <2>2. Top \in Frames
    BY <2>1
  <2> QED
    BY <2>1, <2>2 DEF Frames
<1>4. PICK f : f = [Top EXCEPT !.n = Top.n + 1, !.errs = Top.errs \cup ret]
  OBVIOUS
<1>5. f.of = t /\ f.n > 0
  <2>1. f.of = Top.of /\ f.n = Top.n + 1
    BY <1>3, <1>4 DEF Frames
  <2> QED
    BY <1>1, <1>3, <2>1
<1> DEFINE s == [stack EXCEPT ![Len(stack)] = f]
<1>6. stack' = s
  <2>1. stack' = [stack EXCEPT ![Len(stack)].n = @ + 1, ![Len(stack)].errs = @ \cup ret]
    BY DEF MemberReturns, NextMember
  <2>2. [stack EXCEPT ![Len(stack)].n = @ + 1, ![Len(stack)].errs = @ \cup ret]
          = [[stack EXCEPT ![Len(stack)].n = @ + 1] EXCEPT ![Len(stack)].errs = @ \cup ret]
    OBVIOUS
  <2> QED
    BY <1>3, <1>4, <2>1, <2>2
<1>7. /\ DOMAIN s = DOMAIN stack
      /\ \A i \in DOMAIN stack : s[i] = IF i = Len(stack) THEN f ELSE stack[i]
  BY <1>3
<1> HIDE DEF s
<1>8. /\ \A i \in DOMAIN stack : s[i].of = stack[i].of
      /\ \A i \in DOMAIN stack : s[i].n > 0 <=> stack[i].n > 0
      /\ \A i \in DOMAIN stack : s[i].n = 0 => s[i] = stack[i]
  <2>1. \A i \in DOMAIN stack : i = Len(stack) => s[i] = f /\ stack[i] = Top
    BY <1>3, <1>7
  <2>2. f.n # 0
    BY <1>5
  <2> QED
    BY <1>1, <1>2, <1>5, <1>7, <2>1, <2>2
<1>9. \A v : (OnStack(v)' <=> OnStack(v)) /\ (Resolving(v)' <=> Resolving(v))
  BY <1>6, <1>7, <1>8 DEF OnStack, Resolving
<1>10. OnStack(t) /\ Resolving(t)
  BY <1>1, <1>2, <1>3 DEF OnStack, Resolving
<1>11. RootsInv'
  <2>1. CASE yt' = yt
    BY <1>2, <1>9, <2>1, RootsStay DEF RootInv
  <2>2. CASE yt' = [yt EXCEPT ![t].members = Append(@, u)]
    <3>1. PICK z : z = [yt[t] EXCEPT !.members = Append(@, u)]
      OBVIOUS
    <3>2. yt' = [yt EXCEPT ![t] = z]
      BY <2>2, <3>1
    <3>3. /\ Sound(heap, yt[t])
          /\ yt[t].root = t \/ (IsRoot(yt[t].root) /\ Extends(yt[t], yt[yt[t].root]))
      BY <1>2, <1>10 DEF RootInv, RootsInv, TypeRoots
    <3>4. PICK S : yt[t].members \in Seq(S)
      BY <3>3 DEF Sound, IsSequence
    <3>5. PICK R : S \subseteq R /\ u \in R
      <4>1. S \subseteq S \cup {u} /\ u \in S \cup {u}
        OBVIOUS
      <4> QED
        BY <4>1
    <3>6. /\ Append(yt[t].members, u) \in Seq(R) /\ Len(yt[t].members) \in Nat
          /\ Len(Append(yt[t].members, u)) = Len(yt[t].members) + 1
      <4>1. yt[t].members \in Seq(R)
        BY <3>4, <3>5
      <4> QED
        BY <3>5, <4>1
    <3>7. /\ HasFields(z) /\ z.root = yt[t].root /\ z.patterns = yt[t].patterns
          /\ z.members = Append(yt[t].members, u)
      BY <3>1, <3>3 DEF Sound, HasFields, Fields
    <3>8. Sound(heap, z)
      BY <3>3, <3>6, <3>7 DEF Sound, IsSequence
    <3>9. z.root = t \/ (IsRoot(z.root) /\ Extends(z, yt[z.root]))
      <4>1. CASE yt[t].root # t
        <5>1. Len(z.members) > Len(yt[yt[t].root].members)
          <6>1. yt[t].members = yt[yt[t].root].members
                  \/ Len(yt[t].members) > Len(yt[yt[t].root].members)
            BY <3>3, <4>1 DEF Extends
          <6>2. Len(yt[yt[t].root].members) \in Nat
            <7>1. PICK Q : yt[yt[t].root].members \in Seq(Q)
              BY <3>3, <4>1, RootIsSound DEF RootInv, Sound, IsSequence
            <7> QED
              BY <7>1
          <6> QED
            BY <3>6, <3>7, <6>1, <6>2
        <5> QED
          BY <3>3, <3>7, <4>1, <5>1 DEF Extends
      <4> QED
        BY <3>7, <4>1
    <3>10. Grows(heap, heap')
      BY <1>2 DEF Grows, Arrays
    <3> QED
      BY <1>2, <1>9, <1>10, <3>2, <3>8, <3>9, <3>10, RootsAfter DEF RootInv
  <2> QED
    BY <1>2, <2>1, <2>2
<1>12. OrderInv(rank)'
  <2>1. Descends(rank, stack)'
    BY <1>6, <1>7, <1>8 DEF RootInv, OrderInv, Descends
  <2>2. ASSUME NEW i \in DOMAIN stack', stack'[i].n = 0 PROVE yt'[stack'[i].of] = None
    <3>1. i \in DOMAIN stack /\ stack'[i] = stack[i] /\ stack[i].n = 0
      BY <1>6, <1>7, <1>8, <2>2
    <3>2. i # Len(stack)
      BY <1>2, <1>3, <3>1
    <3>3. stack[i].of # t /\ stack[i].of \in Typedefs \cup Types /\ yt[stack[i].of] = None
      BY <1>1, <1>2, <3>1, <3>2, CallsDiffer DEF RootInv, OrderInv
    <3> QED
      BY <1>2, <3>1, <3>3 DEF RootInv, StateInv, TypesInv
  <2> QED
    BY <1>2, <2>1, <2>2 DEF OrderInv
<1> QED
  BY <1>11, <1>12

\* A type and a typedef are compared with their root when they are finished.
LEMMA FinishedRoot ==
    ASSUME NEW rank, RootInv(rank), stack # <<>>, stack' = Front(stack), doc' = doc, heap' = heap,
           pc' = "return", NEW z, Top.of \in Typedefs => Top.n = 0,
           \/ yt' = yt /\ Top.n = 0
           \/ /\ yt' = [yt EXCEPT ![Top.of] = z] /\ Sound(heap, z)
              /\ z.root = Top.of \/ (IsRoot(z.root) /\ Extends(z, yt[z.root])
                                       /\ Same(z, yt[z.root]))
    PROVE  RootsInv' /\ OrderInv(rank)'
<1>1. PICK s, x : s = Front(stack) /\ x = Top.of
  OBVIOUS
<1>2. /\ Descends(rank, s)
      /\ \A i \in DOMAIN s : s[i].n = 0 => yt[s[i].of] = None
      /\ \A i \in DOMAIN s : s[i].of # x
      /\ \A t : t # x =>
            /\ (\E i \in DOMAIN s : s[i].of = t) <=> OnStack(t)
            /\ (\E i \in DOMAIN s : s[i].of = t /\ s[i].n > 0) <=> Resolving(t)
  BY <1>1, CallsLeft
<1>3. \A t : t # x => (OnStack(t)' <=> OnStack(t)) /\ (Resolving(t)' <=> Resolving(t))
  <2>1. \A t : /\ OnStack(t)' <=> \E i \in DOMAIN s : s[i].of = t
               /\ Resolving(t)' <=> \E i \in DOMAIN s : s[i].of = t /\ s[i].n > 0
    BY <1>1 DEF OnStack, Resolving
  <2> QED
    BY <1>2, <2>1
<1>4. /\ x \in Typedefs \cup Types /\ (Top.n = 0 => yt[x] = None) /\ ~ Resolving(x)'
      /\ \A i \in DOMAIN s : s[i].of \in Typedefs \cup Types
  <2>1. /\ stack \in Seq(Frames) /\ Len(stack) \in DOMAIN stack /\ Top = stack[Len(stack)]
        /\ \A i \in DOMAIN stack : stack[i].of \in Typedefs \cup Types
    BY CallsDiffer
  <2>2. \A i \in DOMAIN s : i \in DOMAIN stack /\ s[i] = stack[i]
    BY <1>1, <2>1, FrontIs
  <2>3. x \in Typedefs \cup Types /\ (Top.n = 0 => yt[x] = None)
    BY <1>1, <2>1 DEF RootInv, OrderInv
  <2>4. ~ Resolving(x)'
    BY <1>1, <1>2 DEF Resolving
  <2> QED
    BY <2>1, <2>2, <2>3, <2>4
<1>5. RootsInv'
  <2>1. CASE yt' = yt /\ Top.n = 0
    <3>1. \A t : Resolving(t)' => Resolving(t)
      BY <1>3, <1>4
    <3>2. \A t : yt[t] # None /\ OnStack(t) => OnStack(t)'
      BY <1>3, <1>4, <2>1
    <3> QED
      BY <2>1, <3>1, <3>2, RootsStay DEF RootInv
  <2>2. CASE /\ yt' = [yt EXCEPT ![x] = z] /\ Sound(heap, z)
             /\ z.root = x \/ (IsRoot(z.root) /\ Extends(z, yt[z.root]) /\ Same(z, yt[z.root]))
    <3>1. yt' = [yt EXCEPT ![x] = z] /\ (x \in Typedefs => yt[x] = None)
      BY <1>1, <1>4, <2>2
    <3>2. Grows(heap, heap')
      BY DEF RootInv, RootsInv, Grows, Arrays
    <3> QED
      BY <1>1, <1>3, <1>4, <2>2, <3>1, <3>2, RootsAfter DEF RootInv
  <2> QED
    BY <1>1, <2>1, <2>2
<1>6. OrderInv(rank)'
  <2>1. Descends(rank, stack)'
    BY <1>1, <1>2 DEF Descends
  <2>2. \A i \in DOMAIN s : yt'[s[i].of] = yt[s[i].of]
    BY <1>1, <1>2, <1>4 DEF RootInv, StateInv, TypesInv
  <2> QED
    BY <1>1, <1>2, <2>1, <2>2 DEF OrderInv
<1> QED
  BY <1>5, <1>6

\* A type whose statement adds nothing keeps the root it got.
LEMMA TypeResolvedRoots ==
    ASSUME NEW rank, RootInv(rank), TypeResolved
    PROVE  RootsInv' /\ OrderInv(rank)'
<1>1. PICK t : t = Top.of
  OBVIOUS
<1>2. /\ doc \in Documents /\ doc' = doc /\ heap' = heap /\ heap \in Arrays
      /\ stack # <<>> /\ Top.n > 0 /\ CallsInv(stack) /\ StateInv
      /\ stack' = Front(stack) /\ pc' = "return"
  BY DEF TypeResolved, Returns, RootInv, RootsInv, StateInv
<1>3. t \in Types /\ t \notin Typedefs /\ Resolving(t)
  <2>1. t \in Types
    BY <1>1, <1>2, TopCall DEF Top, FrameInv
  <2>2. Resolving(t)
    BY <1>1, <1>2, CallsDiffer DEF Resolving
  <2> QED
    BY <1>2, <2>1, <2>2, DocumentsAssumption DEF Typedefs, Types
<1>4. /\ Sound(heap, yt[t])
      /\ yt[t].root = t \/ (IsRoot(yt[t].root) /\ Extends(yt[t], yt[yt[t].root]))
  BY <1>3 DEF RootInv, RootsInv, TypeRoots
<1>5. PICK x : x = IF Equal(yt, heap, yt[t], yt[yt[t].root]) THEN yt[t].root ELSE t
  OBVIOUS
<1>6. PICK z : z = [yt[t] EXCEPT !.root = x]
  OBVIOUS
<1>7. yt' = [yt EXCEPT ![t] = z]
  BY <1>1, <1>5, <1>6 DEF TypeResolved
<1>8. /\ HasFields(z) /\ z.root = x /\ z.members = yt[t].members /\ z.patterns = yt[t].patterns
      /\ \A v : Same(yt[t], v) => Same(z, v)
      /\ \A v : Extends(yt[t], v) => Extends(z, v)
  BY <1>4, <1>6, ChangedRoot DEF Sound
<1>9. Sound(heap, z)
  BY <1>4, <1>8 DEF Sound
<1>10. z.root = t \/ (IsRoot(z.root) /\ Extends(z, yt[z.root]) /\ Same(z, yt[z.root]))
  <2>1. CASE x # t
    <3>1. /\ x = yt[t].root /\ Equal(yt, heap, yt[t], yt[x])
          /\ IsRoot(x) /\ Extends(yt[t], yt[x])
      BY <1>4, <1>5, <2>1
    <3>2. Sound(heap, yt[x])
      BY <3>1, RootIsSound DEF RootInv
    <3>3. Same(yt[t], yt[x])
      BY <1>2, <1>4, <3>1, <3>2, EqualIsSame
    <3> QED
      BY <1>8, <3>1, <3>3
  <2> QED
    BY <1>8, <2>1
<1> QED
  BY <1>1, <1>2, <1>3, <1>7, <1>9, <1>10, FinishedRoot

\* What a typedef changes of the YangType of its type.
LEMMA TypedefFields ==
    ASSUME NEW d, HasFields(yt[doc.typedef[d].type])
    PROVE  LET y == TypedefType(d)
               v == yt[doc.typedef[d].type]
           IN  HasFields(y) /\ y.root = v.root /\ y.members = v.members /\ y.patterns = v.patterns
<1>1. PICK v, x, w : v = yt[doc.typedef[d].type]
        /\ TypedefType(d) = [v EXCEPT !.default = x, !.base = w]
  BY DEF TypedefType
<1> QED
  BY <1>1 DEF HasFields, Fields

\* A typedef never keeps the root that is its type statement.
LEMMA TypedefResolvedRoots ==
    ASSUME NEW rank, RootInv(rank), TypedefResolved
    PROVE  RootsInv' /\ OrderInv(rank)'
<1>1. PICK d, y, t : d = Top.of /\ y = TypedefType(d) /\ t = doc.typedef[d].type
  OBVIOUS
<1>2. /\ doc \in Documents /\ doc' = doc /\ heap' = heap /\ heap \in Arrays
      /\ stack # <<>> /\ Top.n = 0 /\ d \in Typedefs /\ yt[t] # None
      /\ stack' = Front(stack) /\ pc' = "return"
  BY <1>1 DEF TypedefResolved, Waiting, Returns, RootInv, RootsInv, StateInv
<1>3. \/ yt' = yt
      \/ yt' = [yt EXCEPT ![d] = IF OwnRoot(d, y) THEN [y EXCEPT !.root = d] ELSE y]
  BY <1>1 DEF TypedefResolved
<1>4. CASE yt' = yt
  BY <1>1, <1>2, <1>4, FinishedRoot
<1>5. CASE yt' = [yt EXCEPT ![d] = IF OwnRoot(d, y) THEN [y EXCEPT !.root = d] ELSE y]
  <2>1. t \in Types
    BY <1>1, <1>2, DocumentsAssumption DEF Typedefs, Types
  <2>2. /\ Sound(heap, yt[t])
        /\ yt[t].root = t \/ (IsRoot(yt[t].root) /\ Extends(yt[t], yt[yt[t].root]))
    BY <1>2, <2>1 DEF RootInv, RootsInv, TypeRoots
  <2>3. HasFields(y) /\ y.root = yt[t].root /\ y.members = yt[t].members /\ y.patterns = yt[t].patterns
    BY <1>1, <2>2, TypedefFields DEF Sound
  <2>4. Sound(heap, y)
    BY <2>2, <2>3 DEF Sound
  <2>5. CASE OwnRoot(d, y)
    <3>1. PICK z : z = [y EXCEPT !.root = d]
      OBVIOUS
    <3>2. Sound(heap, z) /\ z.root = d
      BY <2>3, <2>4, <3>1, ChangedRoot DEF Sound
    <3> QED
      BY <1>1, <1>2, <1>5, <2>5, <3>1, <3>2, FinishedRoot
  <2>6. CASE ~ OwnRoot(d, y)
    <3>1. y.root # t /\ Equal(yt, heap, y, yt[y.root])
      BY <1>1, <2>6 DEF OwnRoot
    <3>2. IsRoot(y.root) /\ Extends(y, yt[y.root])
      BY <2>2, <2>3, <3>1 DEF Extends
    <3>3. Same(y, yt[y.root])
      BY <1>2, <2>4, <3>1, <3>2, RootIsSound, EqualIsSame DEF RootInv
    <3> QED
      BY <1>1, <1>2, <1>5, <2>4, <2>6, <3>2, <3>3, FinishedRoot
  <2> QED
    BY <2>5, <2>6
<1> QED
  BY <1>3, <1>4, <1>5

\* The invariant is inductive for documents without circles.
THEOREM RootNext == ASSUME NEW rank, RootInv(rank), [Next]_vars PROVE RootInv(rank)'
<1>1. StateInv' /\ doc' = doc
  <2>1. StateInv'
    BY StateNext DEF RootInv
  <2>2. doc' = doc
    BY DEF Next, Step, Process, Resolve, EndTypedefs, EndLeaves, AlreadyResolved, EnterTypedef,
           EnterBuiltin, EnterType, UnknownType, Collect, Fail, TypedefResolved, TypeFound,
           Ignored, Member, MemberReturns, TypeResolved, vars
  <2> QED
    BY <2>1, <2>2
<1>2. Ordered(rank)'
  BY <1>1, SameOrder DEF RootInv
<1>3. RootsInv' /\ OrderInv(rank)'
  BY LoopRoots, PushRoots, PopRoots, TypeRoot, MemberReturnsRoots, TypeResolvedRoots,
     TypedefResolvedRoots DEF Next, Step
<1> QED
  BY <1>1, <1>2, <1>3 DEF RootInv

\* At the start there are the base types, which are their own roots.
THEOREM RootInit == ASSUME NEW rank, Init, Ordered(rank) PROVE RootInv(rank)
<1>1. /\ doc \in Documents /\ stack = <<>> /\ heap = <<>> /\ pc = "idle"
      /\ yt = [p \in Builtin \cup Typedefs \cup Types |->
                  IF p \in Builtin THEN BuiltinType(p) ELSE None]
  BY DEF Init
<1>2. Builtin \cap (Typedefs \cup Types) = {}
  BY <1>1, DocumentsAssumption DEF Typedefs, Types
<1>3. \A t : ~ Resolving(t)
  BY <1>1 DEF Resolving
<1>4. BuiltinRoots
  <2> SUFFICES ASSUME NEW b \in Builtin PROVE yt[b].root = b /\ Sound(heap, yt[b])
    BY DEF BuiltinRoots
  <2>1. yt[b] = BuiltinType(b)
    BY <1>1
  <2>2. HasFields(BuiltinType(b)) /\ BuiltinType(b).root = b
    BY DEF BuiltinType, HasFields, Fields
  <2>3. BuiltinType(b).members = <<>> /\ BuiltinType(b).patterns = NoPatterns
    BY DEF BuiltinType
  <2>4. IsSequence(<<>>)
    <3>1. <<>> \in Seq({})
      OBVIOUS
    <3> QED
      BY <3>1 DEF IsSequence
  <2>5. Lies(heap, NoPatterns)
    BY DEF Lies, NoPatterns
  <2> QED
    BY <2>1, <2>2, <2>3, <2>4, <2>5 DEF Sound
<1>5. TypedefRoots /\ TypeRoots
  <2>1. \A p \in Typedefs \cup Types : yt[p] = None
    BY <1>1, <1>2
  <2> QED
    BY <1>3, <2>1 DEF TypedefRoots, TypeRoots
<1>6. OrderInv(rank)
  BY <1>1 DEF OrderInv, Descends
<1>7. heap \in Arrays
  BY <1>1 DEF Arrays
<1> QED
  BY <1>4, <1>5, <1>6, <1>7, StateInit DEF RootInv, RootsInv

\* Of whatever documents without circles, in whatever order typedefs and leaves are
\* resolved, whatever fails and however often Process runs, Root of every YangType leads
\* to one that is its own root and equals it, but for the types left at an extension.
THEOREM RootIsSameCorrect == Spec => [](NoCircles => RootIsSame)
<1> DEFINE I == NoCircles => \E rank : RootInv(rank)
<1>1. Init => I
  BY RootInit DEF NoCircles
<1>2. I /\ [Next]_vars => I'
  <2> SUFFICES ASSUME I, [Next]_vars, NoCircles' PROVE \E rank : RootInv(rank)'
    OBVIOUS
  <2>1. doc' = doc
    BY DEF Next, Step, Process, Resolve, EndTypedefs, EndLeaves, AlreadyResolved, EnterTypedef,
           EnterBuiltin, EnterType, UnknownType, Collect, Fail, TypedefResolved, TypeFound,
           Ignored, Member, MemberReturns, TypeResolved, vars
  <2>2. PICK rank : RootInv(rank)
    BY <2>1, SameOrder
  <2> QED
    BY <2>2, RootNext
<1>3. I => (NoCircles => RootIsSame)
  <2> SUFFICES ASSUME NEW rank, RootInv(rank), pc = "idle", NEW p \in DOMAIN yt, yt[p] # None
               PROVE  /\ yt[yt[p].root].root = yt[p].root
                      /\ Equal(yt, heap, yt[p], yt[yt[p].root]) \/ (p \in Types /\ doc.type[p].ext)
                      /\ yt[p].root \in Types => yt[p].root = p
    BY DEF RootIsSame
  <2>1. /\ DOMAIN yt = Builtin \cup Typedefs \cup Types /\ stack = <<>>
        /\ Types \cap (Builtin \cup Typedefs) = {}
    BY DocumentsAssumption DEF RootInv, OrderInv, StateInv, TypesInv, Typedefs, Types
  <2>2. \A y : Same(y, y)
    BY DEF Same
  <2>3. CASE p \notin Types
    <3>1. IsRoot(yt[p].root) /\ Same(yt[p], yt[yt[p].root])
      BY <2>1, <2>3, BaseFields
    <3> QED
      BY <2>1, <3>1, SameIsEqual DEF IsRoot
  <2>4. CASE p \in Types
    <3>1. /\ yt[p].root = p \/ (IsRoot(yt[p].root) /\ Extends(yt[p], yt[yt[p].root]))
          /\ OnStack(p) \/ doc.type[p].ext \/ yt[p].root = p \/ Same(yt[p], yt[yt[p].root])
      BY <2>4 DEF RootInv, RootsInv, TypeRoots
    <3>2. ~ OnStack(p)
      BY <2>1 DEF OnStack
    <3>3. doc.type[p].ext \/ Same(yt[p], yt[yt[p].root])
      BY <2>2, <3>1, <3>2
    <3> QED
      BY <2>1, <2>4, <3>1, <3>3, SameIsEqual DEF IsRoot
  <2> QED
    BY <2>3, <2>4
<1> QED
  BY <1>1, <1>2, <1>3, PTL DEF Spec

-----------------------------------------------------------------------------
(* What is reached *)

\* f holds what T leads to in each of the first k numbers of steps.
Leads(f, to, T, k) ==
    \A n \in 0 .. k : f[n] = IF n = 0 THEN T ELSE f[n - 1] \cup UNION {to[x] : x \in f[n - 1]}

\* The recursion of Reached has a solution.
LEMMA LeadsExists ==
    ASSUME NEW to, NEW T, NEW n \in Nat
    PROVE  \E f : f = [i \in 0 .. n |-> f[i]] /\ Leads(f, to, T, n)
<1> DEFINE Some(k) == \E f : Leads(f, to, T, k)
           U == {k \in Nat : ~ Some(k)}
<1>1. U = {}
  <2> SUFFICES ASSUME U # {} PROVE FALSE
    OBVIOUS
  <2>1. PICK k \in U : \A m \in U : k <= m
    <3>1. U \subseteq Nat
      OBVIOUS
    <3> HIDE DEF U
    <3> QED
      BY <3>1, LeastNatural
  <2>2. k \in Nat /\ ~ Some(k)
    BY <2>1
  <2>3. k # 0
    <3>1. Leads([i \in {0} |-> T], to, T, 0)
      BY DEF Leads
    <3> QED
      BY <2>2, <3>1
  <2>4. k - 1 \in Nat /\ ~ (k <= k - 1)
    BY <2>2, <2>3
  <2>5. PICK f : Leads(f, to, T, k - 1)
    BY <2>1, <2>4
  <2>6. PICK last : last = f[k - 1] \cup UNION {to[x] : x \in f[k - 1]}
    OBVIOUS
  <2> DEFINE g == [i \in 0 .. k |-> IF i = k THEN last ELSE f[i]]
  <2>7. ASSUME NEW i \in 0 .. k
        PROVE  g[i] = IF i = 0 THEN T ELSE g[i - 1] \cup UNION {to[x] : x \in g[i - 1]}
    <3>1. CASE i = k
      <4>1. i - 1 \in 0 .. k /\ i - 1 # k
        BY <2>2, <2>3, <3>1
      <4>2. g[i] = last /\ g[i - 1] = f[k - 1]
        BY <3>1, <4>1
      <4> HIDE DEF g
      <4> QED
        BY <2>3, <2>6, <3>1, <4>2
    <3>2. CASE i # k
      <4>1. i \in 0 .. k - 1 /\ (i # 0 => i - 1 \in 0 .. k /\ i - 1 # k)
        BY <2>2, <3>2
      <4>2. f[i] = IF i = 0 THEN T ELSE f[i - 1] \cup UNION {to[x] : x \in f[i - 1]}
        BY <2>5, <4>1 DEF Leads
      <4>3. g[i] = f[i] /\ (i # 0 => g[i - 1] = f[i - 1])
        BY <3>2, <4>1
      <4> HIDE DEF g
      <4> QED
        BY <4>2, <4>3
    <3> QED
      BY <3>1, <3>2
  <2> HIDE DEF g
  <2>8. Leads(g, to, T, k)
    BY <2>7 DEF Leads
  <2> QED
    BY <2>2, <2>8
<1>2. PICK f : Leads(f, to, T, n)
  BY <1>1
<1> DEFINE g == [i \in 0 .. n |-> f[i]]
<1>3. g = [i \in 0 .. n |-> g[i]] /\ \A i \in 0 .. n : g[i] = f[i]
  OBVIOUS
<1> HIDE DEF g
<1>4. \A i \in 0 .. n : i # 0 => i - 1 \in 0 .. n
  OBVIOUS
<1>5. Leads(g, to, T, n)
  BY <1>2, <1>3, <1>4 DEF Leads
<1> QED
  BY <1>3, <1>5

\* What to leads to from members of R is in R.
Closed(to, R) == \A x \in R \cap DOMAIN to : to[x] \subseteq R

\* In as many steps as there are things to reach, everything has been reached: Reached is
\* the least set with T that the function to does not leave.
LEMMA ReachedIsLeast ==
    ASSUME NEW S, IsFiniteSet(S), NEW to \in [S -> SUBSET S], NEW T \in SUBSET S
    PROVE  /\ T \subseteq Reached(to, T) /\ Reached(to, T) \subseteq S
           /\ Closed(to, Reached(to, T))
           /\ \A R : T \subseteq R /\ Closed(to, R) => Reached(to, T) \subseteq R
<1> DEFINE N == Cardinality(DOMAIN to)
           Solves(a) == a = [n \in 0 .. N |->
               IF n = 0 THEN T
               ELSE LET before == a[n - 1] IN before \cup UNION {to[x] : x \in before}]
           A == CHOOSE a : Solves(a)
<1>1. DOMAIN to = S /\ N = Cardinality(S) /\ N \in Nat
  BY FS_CardinalityType
<1>2. Reached(to, T) = A[N]
  BY DEF Reached
<1> HIDE DEF N
<1>3. PICK f : f = [i \in 0 .. N |-> f[i]] /\ Leads(f, to, T, N)
  BY <1>1, LeadsExists
<1>4. Solves(f)
  <2>1. \A n \in 0 .. N : f[n] = IF n = 0 THEN T ELSE f[n - 1] \cup UNION {to[x] : x \in f[n - 1]}
    BY <1>3 DEF Leads
  <2> QED
    BY <1>3, <2>1, Zenon
<1>5. Solves(A)
  BY <1>4, Zenon
<1> HIDE DEF A
<1>6. /\ A[0] = T
      /\ \A n \in 1 .. N : A[n] = A[n - 1] \cup UNION {to[x] : x \in A[n - 1]}
  <2>1. \A n \in 0 .. N :
           A[n] = IF n = 0 THEN T ELSE A[n - 1] \cup UNION {to[x] : x \in A[n - 1]}
    BY <1>5, Zenon
  <2>2. 0 \in 0 .. N /\ \A n \in 1 .. N : n \in 0 .. N /\ n # 0
    BY <1>1
  <2> QED
    BY <2>1, <2>2
<1> DEFINE Fine(n) == /\ T \subseteq A[n] /\ A[n] \subseteq S
                      /\ Closed(to, A[n]) \/ Cardinality(A[n]) >= n
                      /\ \A R : T \subseteq R /\ Closed(to, R) => A[n] \subseteq R
           U == {n \in Nat : n <= N /\ ~ Fine(n)}
<1>7. ASSUME NEW R, R \subseteq S
      PROVE  IsFiniteSet(R) /\ Cardinality(R) \in Nat /\ Cardinality(R) <= N
               /\ (Cardinality(R) = N => R = S)
  <2>1. IsFiniteSet(R) /\ Cardinality(R) <= N /\ (Cardinality(R) = N => R = S)
    BY <1>1, <1>7, FS_Subset
  <2> QED
    BY <2>1, FS_CardinalityType
<1>8. U = {}
  <2> SUFFICES ASSUME U # {} PROVE FALSE
    OBVIOUS
  <2>1. PICK n \in U : \A m \in U : n <= m
    <3>1. U \subseteq Nat
      OBVIOUS
    <3> HIDE DEF U
    <3> QED
      BY <3>1, LeastNatural
  <2>2. n \in Nat /\ n <= N /\ ~ Fine(n)
    BY <2>1
  <2>3. Fine(0)
    BY <1>6, <1>7
  <2>4. n - 1 \in Nat /\ n - 1 <= N /\ n \in 1 .. N /\ ~ (n <= n - 1)
    <3>1. n # 0
      BY <2>2, <2>3
    <3> HIDE DEF Fine
    <3> QED
      BY <1>1, <2>2, <3>1
  <2>5. Fine(n - 1)
    <3>1. n - 1 \notin U
      BY <2>1, <2>4
    <3> HIDE DEF Fine
    <3> QED
      BY <2>4, <3>1
  <2>6. PICK B : B = A[n - 1]
    OBVIOUS
  <2>7. A[n] = B \cup UNION {to[x] : x \in B}
    BY <1>6, <2>4, <2>6
  <2>8. /\ T \subseteq B /\ B \subseteq S /\ (Closed(to, B) \/ Cardinality(B) >= n - 1)
        /\ \A R : T \subseteq R /\ Closed(to, R) => B \subseteq R
    BY <2>5, <2>6
  <2>9. T \subseteq A[n] /\ A[n] \subseteq S
    <3>1. \A x \in B : to[x] \subseteq S
      BY <2>8
    <3> QED
      BY <2>7, <2>8, <3>1
  <2>10. ASSUME NEW R, T \subseteq R, Closed(to, R) PROVE A[n] \subseteq R
    <3>1. B \subseteq R
      BY <2>8, <2>10
    <3>2. \A x \in B : to[x] \subseteq R
      BY <1>1, <2>8, <2>10, <3>1 DEF Closed
    <3> QED
      BY <2>7, <3>1, <3>2
  <2>11. CASE Closed(to, B)
    <3>1. \A x \in B : to[x] \subseteq B
      BY <1>1, <2>8, <2>11 DEF Closed
    <3>2. A[n] = B
      BY <2>7, <3>1
    <3> QED
      BY <2>2, <2>9, <2>10, <2>11, <3>2
  <2>12. CASE ~ Closed(to, B)
    <3>1. PICK x \in B : \E y \in to[x] : y \notin B
      BY <2>12 DEF Closed
    <3>1a. PICK y \in to[x] : y \notin B
      BY <3>1
    <3>2. y \in A[n] /\ B \subseteq A[n]
      BY <2>7, <3>1, <3>1a
    <3>3. A[n] # B /\ B \in SUBSET A[n]
      BY <3>1a, <3>2
    <3>4. /\ IsFiniteSet(A[n]) /\ Cardinality(A[n]) \in Nat /\ Cardinality(B) \in Nat
          /\ Cardinality(B) >= n - 1
      BY <1>7, <2>8, <2>9, <2>12
    <3>5. Cardinality(B) <= Cardinality(A[n]) /\ Cardinality(A[n]) # Cardinality(B)
      BY <3>3, <3>4, FS_Subset
    <3>6. Cardinality(A[n]) >= n
      BY <2>2, <3>4, <3>5
    <3> QED
      BY <2>2, <2>9, <2>10, <3>6
  <2> QED
    BY <2>11, <2>12
<1>9. Fine(N)
  <2>1. N \notin U
    BY <1>8
  <2> HIDE DEF Fine
  <2> QED
    BY <1>1, <2>1
<1>10. Closed(to, A[N])
  <2>1. CASE Cardinality(A[N]) >= N
    <3>1. A[N] = S
      BY <1>1, <1>7, <1>9, <2>1
    <3> QED
      BY <1>1, <3>1 DEF Closed
  <2> QED
    BY <1>9, <2>1
<1> QED
  BY <1>2, <1>9, <1>10

-----------------------------------------------------------------------------
(* What a type is based on *)

\* The type statement of a typedef.
TypeOf(d) == doc.typedef[d].type

\* Typedefs, types and base types are told apart, and the first two are finite.
LEMMA DocumentTypes ==
    ASSUME doc \in Documents
    PROVE  /\ Typedefs \cap Types = {} /\ Builtin \cap (Typedefs \cup Types) = {}
           /\ IsFiniteSet(Typedefs \cup Types) /\ IsFiniteSet(Types)
           /\ \A d \in Typedefs : TypeOf(d) \in Types
           /\ doc.leaves \subseteq Types
           /\ \A t \in Types : doc.type[t].members \in Seq(Types)
<1>1. IsFiniteSet(Typedefs) /\ IsFiniteSet(Types)
  BY DocumentsAssumption DEF Typedefs, Types
<1>2. IsFiniteSet(Typedefs \cup Types)
  BY <1>1, FS_Union
<1>3. Typedefs \cap Types = {} /\ Builtin \cap (Typedefs \cup Types) = {}
  BY DocumentsAssumption DEF Typedefs, Types
<1>4. \A d \in Typedefs : TypeOf(d) \in Types
  BY DocumentsAssumption DEF Typedefs, Types, TypeOf
<1>5. doc.leaves \subseteq Types /\ \A t \in Types : doc.type[t].members \in Seq(Types)
  BY DocumentsAssumption DEF Types
<1> QED
  BY <1>1, <1>2, <1>3, <1>4, <1>5

\* A node has one typedef of a name.
LEMMA FindInOne ==
    ASSUME doc \in Documents, NEW n, NEW name, NEW d \in FindIn(n, name), NEW e \in FindIn(n, name)
    PROVE  d = e
<1>1. /\ d \in DOMAIN doc.typedef /\ e \in DOMAIN doc.typedef
      /\ doc.typedef[d].node = doc.typedef[e].node /\ doc.typedef[d].name = doc.typedef[e].name
  BY DEF FindIn, Typedefs
<1> QED
  BY <1>1, DocumentsAssumption

\* The places where a name is looked up are in the order of Scopes.
LEMMA ScopesOf ==
    ASSUME doc \in Documents, NEW t \in Types
    PROVE  /\ IsLocal(t) => Scopes(t) = doc.type[t].path \o doc.include[Root(t)]
           /\ ~ IsLocal(t) =>
                 \/ doc.type[t].prefix \notin DOMAIN doc.import[Root(t)] /\ Scopes(t) = <<>>
                 \/ /\ doc.type[t].prefix \in DOMAIN doc.import[Root(t)]
                    /\ Scopes(t) = <<doc.import[Root(t)][doc.type[t].prefix]>>
           /\ DOMAIN Scopes(t) \subseteq Nat \ {0}
           /\ \A i \in DOMAIN Scopes(t) : 1 .. i \subseteq DOMAIN Scopes(t)
<1>1. doc.type[t].path \in Seq(STRING) /\ doc.include[Root(t)] \in Seq(STRING)
  BY DocumentsAssumption DEF Types, Root
<1>2. CASE IsLocal(t)
  <2>1. Scopes(t) = doc.type[t].path \o doc.include[Root(t)]
    BY <1>2 DEF Scopes, NodesAbove
  <2>2. Scopes(t) \in Seq(STRING)
    BY <1>1, <2>1
  <2>3. DOMAIN Scopes(t) \subseteq Nat \ {0}
          /\ \A i \in DOMAIN Scopes(t) : 1 .. i \subseteq DOMAIN Scopes(t)
    BY <2>2
  <2> QED
    BY <1>2, <2>1, <2>3
<1>3. CASE ~ IsLocal(t)
  <2>1. \/ doc.type[t].prefix \notin DOMAIN doc.import[Root(t)] /\ Scopes(t) = <<>>
        \/ /\ doc.type[t].prefix \in DOMAIN doc.import[Root(t)]
           /\ Scopes(t) = <<doc.import[Root(t)][doc.type[t].prefix]>>
    BY <1>3 DEF Scopes
  <2>2. \A m : DOMAIN <<m>> = {1}
    OBVIOUS
  <2>3. DOMAIN <<>> = {} /\ 1 .. 1 = {1}
    OBVIOUS
  <2>4. DOMAIN Scopes(t) \subseteq {1}
    BY <2>1, <2>2, <2>3
  <2>5. \A i \in DOMAIN Scopes(t) : 1 .. i \subseteq DOMAIN Scopes(t)
    BY <2>3, <2>4
  <2>6. DOMAIN Scopes(t) \subseteq Nat \ {0}
    <3>1. {1} \subseteq Nat \ {0}
      OBVIOUS
    <3> QED
      BY <2>4, <3>1, Zenon
  <2> QED
    BY <1>3, <2>1, <2>5, <2>6, Zenon
<1> QED
  BY <1>2, <1>3

\* The first of the places where a name is defined.
LEMMA FirstPlace ==
    ASSUME doc \in Documents, NEW t \in Types, Defining(t) # {}
    PROVE  LET m == Min(Defining(t)) IN
           /\ m \in Defining(t) /\ m \in Nat /\ \A i \in Defining(t) : m <= i
           /\ Found(t) \in FindIn(Scopes(t)[m], doc.type[t].name)
<1>1. Defining(t) \subseteq Nat
  BY ScopesOf DEF Defining
<1>2. \E i \in Defining(t) : \A j \in Defining(t) : i <= j
  BY <1>1, LeastNatural
<1>3. PICK m : m = Min(Defining(t))
  OBVIOUS
<1>4. m \in Defining(t) /\ \A j \in Defining(t) : m <= j
  BY <1>2, <1>3 DEF Min
<1>5. FindIn(Scopes(t)[m], doc.type[t].name) # {}
  BY <1>4 DEF Defining
<1>6. Found(t) \in FindIn(Scopes(t)[m], doc.type[t].name)
  BY <1>3, <1>5 DEF Found
<1> QED
  BY <1>1, <1>3, <1>4, <1>6

\* Type.resolve finds what the name means.
LEMMA MeantIsFound ==
    ASSUME doc \in Documents, NEW t \in Types
    PROVE  Meant(t) = IF Defining(t) = {} THEN {} ELSE {Found(t)}
<1> DEFINE q == Scopes(t)
           name == doc.type[t].name
           m == Min(Defining(t))
<1>1. ASSUME NEW d \in Typedefs, doc.typedef[d].name = name, NEW i \in DOMAIN q,
             doc.typedef[d].node = q[i]
      PROVE  d \in FindIn(q[i], name) /\ i \in Defining(t)
  BY <1>1 DEF FindIn, Defining
<1>2. CASE IsLocal(t)
  <2>1. Meant(t) = {d \in Typedefs :
                      /\ doc.typedef[d].name = name
                      /\ \E i \in DOMAIN q : doc.typedef[d].node = q[i]
                           /\ \A j \in 1 .. i - 1 : FindIn(q[j], name) = {}}
    BY <1>2, ScopesOf DEF Meant
  <2>2. CASE Defining(t) = {}
    <3>1. \A d : d \notin Meant(t)
      BY <1>1, <2>1, <2>2
    <3> QED
      BY <2>2, <3>1
  <2>3. CASE Defining(t) # {}
    <3> HIDE DEF q, name, m
    <3>1. m \in Defining(t) /\ m \in Nat /\ (\A i \in Defining(t) : m <= i)
            /\ Found(t) \in FindIn(q[m], name)
      BY <2>3, FirstPlace DEF q, name, m
    <3>2. \A j \in 1 .. m - 1 : FindIn(q[j], name) = {}
      <4> SUFFICES ASSUME NEW j \in 1 .. m - 1, FindIn(q[j], name) # {} PROVE FALSE
        OBVIOUS
      <4>1. m \in DOMAIN q /\ 1 .. m \subseteq DOMAIN q
        BY <3>1, ScopesOf DEF q, Defining
      <4>2. j \in DOMAIN q /\ j < m
        BY <3>1, <4>1
      <4>3. j \in Defining(t)
        BY <4>2 DEF Defining, q, name
      <4> QED
        BY <3>1, <4>2, <4>3
    <3>3. Found(t) \in Meant(t)
      <4>1. m \in DOMAIN q
        BY <3>1 DEF Defining, q
      <4>2. Found(t) \in Typedefs /\ doc.typedef[Found(t)].name = name
              /\ doc.typedef[Found(t)].node = q[m]
        BY <3>1 DEF FindIn
      <4> QED
        BY <2>1, <3>2, <4>1, <4>2
    <3>4. ASSUME NEW d \in Meant(t) PROVE d = Found(t)
      <4>1. PICK i \in DOMAIN q : /\ doc.typedef[d].node = q[i]
                                  /\ \A j \in 1 .. i - 1 : FindIn(q[j], name) = {}
        BY <2>1
      <4>2. d \in FindIn(q[i], name) /\ i \in Defining(t)
        BY <1>1, <2>1, <4>1
      <4>3. i \in Nat /\ m <= i /\ m \in 1 .. i
        <5>1. i \in Nat /\ m \in Nat \ {0}
          BY <3>1, ScopesOf DEF q, Defining
        <5> QED
          BY <3>1, <4>2, <5>1
      <4>4. FindIn(q[m], name) # {}
        BY <3>1
      <4>5. m = i
        BY <4>1, <4>3, <4>4
      <4> QED
        BY <3>1, <4>2, <4>5, FindInOne
    <3> QED
      BY <2>3, <3>3, <3>4
  <2> QED
    BY <2>2, <2>3
<1>3. CASE ~ IsLocal(t)
  <2> DEFINE prefix == doc.type[t].prefix
             imports == doc.import[Root(t)]
  <2>1. Meant(t) = {d \in Typedefs : /\ doc.typedef[d].name = name
                                     /\ prefix \in DOMAIN imports
                                     /\ doc.typedef[d].node = imports[prefix]}
    BY <1>3 DEF Meant
  <2>2. CASE prefix \notin DOMAIN imports
    <3>1. q = <<>>
      BY <1>3, <2>2, ScopesOf
    <3>2. DOMAIN <<>> = {}
      OBVIOUS
    <3>3. Defining(t) = {}
      BY <3>1, <3>2 DEF Defining
    <3> QED
      BY <2>1, <2>2, <3>3
  <2>3. CASE prefix \in DOMAIN imports
    <3>1. q = <<imports[prefix]>>
      BY <1>3, <2>3, ScopesOf
    <3> HIDE DEF q, prefix, imports, name
    <3>2. DOMAIN q = {1} /\ q[1] = imports[prefix]
      BY <3>1
    <3>3. Meant(t) = FindIn(q[1], name)
      BY <2>1, <2>3, <3>2 DEF FindIn
    <3>4. Defining(t) = {i \in {1} : FindIn(q[i], name) # {}}
      BY <3>2 DEF Defining, q, name
    <3>5. CASE Meant(t) = {}
      BY <3>3, <3>4, <3>5
    <3>6. CASE Meant(t) # {}
      <4>1. Defining(t) = {1}
        BY <3>3, <3>4, <3>6
      <4>2. Found(t) \in FindIn(q[1], name)
        BY <4>1, FirstPlace DEF q, name
      <4>3. \A d \in FindIn(q[1], name) : d = Found(t)
        BY <4>2, FindInOne
      <4> QED
        BY <3>3, <4>1, <4>2, <4>3
    <3> QED
      BY <3>5, <3>6
  <2> QED
    BY <2>2, <2>3
<1> QED
  BY <1>2, <1>3

\* What a typedef and a type statement are based on.
LEMMA BasedOnIs ==
    ASSUME doc \in Documents
    PROVE  /\ BasedOn \in [Typedefs \cup Types -> SUBSET (Typedefs \cup Types)]
           /\ \A d \in Typedefs : BasedOn[d] = {TypeOf(d)}
           /\ \A t \in Types : BasedOn[t] = IF IsBuiltin(t) THEN {} ELSE Meant(t)
<1>1. \A t : Meant(t) \subseteq Typedefs
  BY DEF Meant
<1>2. \A d \in Typedefs : TypeOf(d) \in Types
  BY DocumentTypes
<1>3. \A t \in Types : t \notin Typedefs
  BY DocumentTypes
<1> QED
  BY <1>1, <1>2, <1>3 DEF BasedOn, TypeOf

\* A chain holds its type, and what its members are based on, and no more.
LEMMA ChainIsLeast ==
    ASSUME doc \in Documents, NEW t \in Types
    PROVE  /\ t \in ChainOf(t) /\ ChainOf(t) \subseteq Typedefs \cup Types
           /\ Closed(BasedOn, ChainOf(t))
           /\ \A R : t \in R /\ Closed(BasedOn, R) => ChainOf(t) \subseteq R
<1>1. IsFiniteSet(Typedefs \cup Types) /\ {t} \in SUBSET (Typedefs \cup Types)
  BY DocumentTypes
<1>2. BasedOn \in [Typedefs \cup Types -> SUBSET (Typedefs \cup Types)]
  BY BasedOnIs
<1> HIDE DEF BasedOn
<1>3. /\ {t} \subseteq Reached(BasedOn, {t}) /\ Reached(BasedOn, {t}) \subseteq Typedefs \cup Types
      /\ Closed(BasedOn, Reached(BasedOn, {t}))
      /\ \A R : {t} \subseteq R /\ Closed(BasedOn, R) => Reached(BasedOn, {t}) \subseteq R
  BY <1>1, <1>2, ReachedIsLeast
<1> QED
  BY <1>3 DEF ChainOf

\* A type that is based on no typedef is alone.
LEMMA ChainEnds ==
    ASSUME doc \in Documents, NEW t \in Types, IsBuiltin(t) \/ Defining(t) = {}
    PROVE  ChainOf(t) = {t}
<1>1. BasedOn[t] = {} /\ DOMAIN BasedOn = Typedefs \cup Types
  BY BasedOnIs, MeantIsFound
<1>2. Closed(BasedOn, {t})
  BY <1>1 DEF Closed
<1> QED
  BY <1>2, ChainIsLeast

\* The chain of a type is that of the type of its typedef, longer by the two.
LEMMA ChainGoesOn ==
    ASSUME doc \in Documents, NEW t \in Types, ~ IsBuiltin(t), Defining(t) # {}
    PROVE  /\ Found(t) \in Typedefs /\ TypeOf(Found(t)) \in Types
           /\ ChainOf(t) = {t, Found(t)} \cup ChainOf(TypeOf(Found(t)))
<1>1. PICK d : d = Found(t)
  OBVIOUS
<1>2. d \in Typedefs /\ TypeOf(d) \in Types
  BY <1>1, FoundIsTypedef, DocumentTypes
<1>3. BasedOn[t] = {d} /\ BasedOn[d] = {TypeOf(d)} /\ DOMAIN BasedOn = Typedefs \cup Types
  BY <1>1, <1>2, BasedOnIs, MeantIsFound
<1> DEFINE R == {t, d} \cup ChainOf(TypeOf(d))
<1>4. Closed(BasedOn, R)
  BY <1>2, <1>3, ChainIsLeast DEF Closed
<1>5. ChainOf(t) \subseteq R
  BY <1>4, ChainIsLeast
<1>6. t \in ChainOf(t) /\ d \in ChainOf(t) /\ TypeOf(d) \in ChainOf(t) /\ Closed(BasedOn, ChainOf(t))
  BY <1>2, <1>3, ChainIsLeast DEF Closed
<1>7. ChainOf(TypeOf(d)) \subseteq ChainOf(t)
  BY <1>2, <1>6, ChainIsLeast
<1> QED
  BY <1>1, <1>2, <1>5, <1>6, <1>7

\* The chain that starts later is part of the one that starts earlier.
LEMMA ChainWithin ==
    ASSUME doc \in Documents, NEW t \in Types, NEW u \in ChainOf(t) \cap Types
    PROVE  ChainOf(u) \subseteq ChainOf(t)
  BY ChainIsLeast

\* The base of a base type is itself ...
LEMMA BaseOfBuiltin ==
    ASSUME doc \in Documents, NEW t \in Types, IsBuiltin(t)
    PROVE  Base0(t) = doc.type[t].name /\ Base0(t) \in Builtin /\ Statements(t) = {doc.type[t]}
<1>1. ChainOf(t) \cap Types = {t}
  BY ChainEnds
<1>2. \A b : (\E u \in ChainOf(t) \cap Types : IsBuiltin(u) /\ doc.type[u].name = b)
               <=> b = doc.type[t].name
  BY <1>1
<1>3. doc.type[t].name \in Builtin
  BY DEF IsBuiltin
<1>4. Statements(t) = {doc.type[t]}
  BY <1>1 DEF Statements
<1> QED
  BY <1>2, <1>3, <1>4 DEF Base0

\* ... and that of another type is that of the type of its typedef.
LEMMA BaseOfDerived ==
    ASSUME doc \in Documents, NEW t \in Types, ~ IsBuiltin(t), Defining(t) # {}
    PROVE  LET u == TypeOf(Found(t)) IN
           Base0(t) = Base0(u) /\ Statements(t) = {doc.type[t]} \cup Statements(u)
<1>1. PICK d : d = Found(t)
  OBVIOUS
<1>2. d \notin Types /\ ChainOf(t) = {t, d} \cup ChainOf(TypeOf(d))
  BY <1>1, ChainGoesOn, DocumentTypes
<1>3. ChainOf(t) \cap Types = {t} \cup (ChainOf(TypeOf(d)) \cap Types)
  BY <1>2
<1>4. ASSUME NEW b
      PROVE  (\E v \in ChainOf(t) \cap Types : IsBuiltin(v) /\ doc.type[v].name = b) <=>
             (\E v \in ChainOf(TypeOf(d)) \cap Types : IsBuiltin(v) /\ doc.type[v].name = b)
  BY <1>3
<1>5. Base0(t) = Base0(TypeOf(d))
  BY <1>4 DEF Base0
<1>6. Statements(t) = {doc.type[t]} \cup Statements(TypeOf(d))
  BY <1>3 DEF Statements
<1> QED
  BY <1>1, <1>5, <1>6

\* The types that Process comes to include the members of unions, and no more than that.
LEMMA TypesOfIsLeast ==
    ASSUME doc \in Documents, NEW T \in SUBSET Types
    PROVE  /\ T \subseteq TypesOf(T) /\ TypesOf(T) \subseteq Types
           /\ \A t \in TypesOf(T) : \A k \in DOMAIN doc.type[t].members :
                 doc.type[t].members[k] \in TypesOf(T)
           /\ \A R : /\ T \subseteq R
                     /\ \A t \in R \cap Types : \A k \in DOMAIN doc.type[t].members :
                           doc.type[t].members[k] \in R
                     => TypesOf(T) \subseteq R
<1> DEFINE to == [t \in Types |-> ToSet(doc.type[t].members)]
<1>1. \A t \in Types :
          ToSet(doc.type[t].members) = {doc.type[t].members[k] : k \in DOMAIN doc.type[t].members}
  BY DEF ToSet
<1>2. \A t \in Types : to[t] = {doc.type[t].members[k] : k \in DOMAIN doc.type[t].members}
  BY <1>1
<1>3. to \in [Types -> SUBSET Types] /\ DOMAIN to = Types
  <2>1. \A t \in Types : \A k \in DOMAIN doc.type[t].members : doc.type[t].members[k] \in Types
    BY DocumentTypes
  <2>2. \A t \in Types : ToSet(doc.type[t].members) \subseteq Types
    BY <1>1, <2>1
  <2> QED
    BY <2>2
<1>4. TypesOf(T) = Reached(to, T)
  BY DEF TypesOf
<1> HIDE DEF to
<1>5. IsFiniteSet(Types)
  BY DocumentTypes
<1>6. /\ T \subseteq TypesOf(T) /\ TypesOf(T) \subseteq Types
      /\ Closed(to, TypesOf(T))
      /\ \A R : T \subseteq R /\ Closed(to, R) => TypesOf(T) \subseteq R
  BY <1>3, <1>4, <1>5, ReachedIsLeast
<1>7. \A R : Closed(to, R) <=> \A t \in R \cap Types : \A k \in DOMAIN doc.type[t].members :
                                   doc.type[t].members[k] \in R
  BY <1>2, <1>3 DEF Closed
<1> QED
  BY <1>6, <1>7

-----------------------------------------------------------------------------
(* YangTypes are what the document can make *)

\* The fields of the YangTypes of the document.
FieldsOf(y) ==
    /\ HasFields(y)
    /\ y.kind \in Builtin
    /\ y.range \in {doc.type[t].range : t \in Types} \cup {BuiltinRange[b] : b \in Builtin}
    /\ y.digits \in {doc.type[t].digits : t \in Types} \cup {0}
    /\ y.base \in {doc.type[t].base : t \in Types} \cup {None}
    /\ y.enum \in {Enumerated(NewEnumType, doc.type[t].enum, None) : t \in Types} \cup {None}
    /\ y.bit \in {Enumerated(NewBitfield, doc.type[t].bit, None) : t \in Types} \cup {None}
    /\ y.patterns \in [arr : Nat, len : Nat]
    /\ y.members \in Seq(Types)
    /\ y.default \in {doc.typedef[d].default : d \in Typedefs} \cup {None}
    /\ y.root \in Builtin \cup Typedefs \cup Types

\* What has the fields of a YangType is one.
LEMMA YangTypeIs ==
    ASSUME NEW y, FieldsOf(y)
    PROVE  y \in YangType(doc)
<1> DEFINE written(f) == {doc.type[t][f] : t \in Types}
<1>1. PICK A : A = written("range") \cup {BuiltinRange[b] : b \in Builtin}
  OBVIOUS
<1>2. PICK B : B = written("digits") \cup {0}
  OBVIOUS
<1>3. PICK C : C = written("base") \cup {None}
  OBVIOUS
<1>4. PICK D : D = {Enumerated(NewEnumType, q, None) : q \in written("enum")} \cup {None}
  OBVIOUS
<1>5. PICK E : E = {Enumerated(NewBitfield, q, None) : q \in written("bit")} \cup {None}
  OBVIOUS
<1>6. PICK F : F = {doc.typedef[i].default : i \in Typedefs} \cup {None}
  OBVIOUS
<1>7. YangType(doc) = [kind : Builtin, range : A, digits : B, base : C, enum : D, bit : E,
          patterns : [arr : Nat, len : Nat], members : Seq(Types), default : F,
          root : Builtin \cup Typedefs \cup Types]
  BY <1>1, <1>2, <1>3, <1>4, <1>5, <1>6, Zenon DEF YangType, Types, Typedefs
<1>8. /\ y.range \in A /\ y.digits \in B /\ y.base \in C /\ y.default \in F
  BY <1>1, <1>2, <1>3, <1>6 DEF FieldsOf
<1>9. y.enum \in D /\ y.bit \in E
  <2>1. \A t \in Types : doc.type[t].enum \in written("enum") /\ doc.type[t].bit \in written("bit")
    OBVIOUS
  <2> HIDE DEF written
  <2> QED
    BY <1>4, <1>5, <2>1, Zenon DEF FieldsOf
<1>10. /\ HasFields(y) /\ y.kind \in Builtin /\ y.patterns \in [arr : Nat, len : Nat]
       /\ y.members \in Seq(Types) /\ y.root \in Builtin \cup Typedefs \cup Types
  BY DEF FieldsOf
<1> HIDE DEF written
<1>11. y \in [kind : Builtin, range : A, digits : B, base : C, enum : D, bit : E,
          patterns : [arr : Nat, len : Nat], members : Seq(Types), default : F,
          root : Builtin \cup Typedefs \cup Types]
  BY <1>8, <1>9, <1>10 DEF HasFields, Fields
<1> QED
  BY <1>7, <1>11

\* A YangType is not nil.
LEMMA NotNone ==
    ASSUME doc \in Documents, NEW y, FieldsOf(y)
    PROVE  y # None
  BY YangTypeIs, NoneAssumption

\* What a statement makes of a YangType.
LEMMA RestrictedIsMade ==
    ASSUME NEW t \in Types, NEW y, FieldsOf(y), NEW list \in [arr : Nat, len : Nat]
    PROVE  FieldsOf(Restricted(doc.type[t], y, list))
<1> DEFINE s == doc.type[t]
           z == Restricted(s, y, list)
<1>1. HasFields(y)
  BY DEF FieldsOf
<1>2. /\ HasFields(z) /\ z.kind = y.kind /\ z.default = y.default /\ z.root = y.root
      /\ z.members = y.members /\ z.patterns = list
      /\ z.digits = Digits(s, y) /\ z.base = Base(s, y)
      /\ z.range = IF Narrows(s, y) THEN s.range ELSE y.range
      /\ z.enum = Enumerated(NewEnumType, s.enum, y.enum)
      /\ z.bit = Enumerated(NewBitfield, s.bit, y.bit)
  <2> HIDE DEF s
  <2> QED
    BY <1>1 DEF Restricted, HasFields, Fields
<1> HIDE DEF z
<1>3. z.digits \in {s.digits, 0, y.digits} /\ z.base \in {s.base, y.base}
        /\ z.range \in {s.range, y.range}
  BY <1>2, Zenon DEF Digits, Base
<1>4. /\ z.enum \in {y.enum, Enumerated(NewEnumType, s.enum, None)}
      /\ z.bit \in {y.bit, Enumerated(NewBitfield, s.bit, None)}
  BY <1>2, Zenon DEF Enumerated
<1>5. /\ z.range \in {doc.type[u].range : u \in Types} \cup {BuiltinRange[b] : b \in Builtin}
      /\ z.digits \in {doc.type[u].digits : u \in Types} \cup {0}
      /\ z.base \in {doc.type[u].base : u \in Types} \cup {None}
  BY <1>3 DEF FieldsOf
<1>6. /\ z.enum \in {Enumerated(NewEnumType, doc.type[u].enum, None) : u \in Types} \cup {None}
      /\ z.bit \in {Enumerated(NewBitfield, doc.type[u].bit, None) : u \in Types} \cup {None}
  BY <1>4, Zenon DEF FieldsOf
<1>7. FieldsOf(z)
  BY <1>2, <1>5, <1>6 DEF FieldsOf
<1> QED
  BY <1>7 DEF z

\* What a typedef makes of one, and the changes of a type that has been made.
LEMMA ChangedIsMade ==
    ASSUME NEW y, FieldsOf(y)
    PROVE  /\ \A r \in Builtin \cup Typedefs \cup Types : FieldsOf([y EXCEPT !.root = r])
           /\ \A q \in Seq(Types) : FieldsOf([y EXCEPT !.members = q])
           /\ \A x \in {doc.typedef[d].default : d \in Typedefs} \cup {y.default} :
              \A w \in {doc.type[t].base : t \in Types} \cup {y.base} :
                 FieldsOf([y EXCEPT !.default = x, !.base = w])
<1>0. HasFields(y)
  BY DEF FieldsOf
<1>1. ASSUME NEW r \in Builtin \cup Typedefs \cup Types PROVE FieldsOf([y EXCEPT !.root = r])
  <2>1. PICK z : z = [y EXCEPT !.root = r]
    OBVIOUS
  <2>2. /\ HasFields(z) /\ z.root = r
        /\ z.kind = y.kind /\ z.range = y.range /\ z.digits = y.digits /\ z.base = y.base
        /\ z.enum = y.enum /\ z.bit = y.bit /\ z.patterns = y.patterns
        /\ z.members = y.members /\ z.default = y.default
    BY <1>0, <2>1 DEF HasFields, Fields
  <2> QED
    BY <2>1, <2>2 DEF FieldsOf
<1>2. ASSUME NEW q \in Seq(Types) PROVE FieldsOf([y EXCEPT !.members = q])
  <2>1. PICK z : z = [y EXCEPT !.members = q]
    OBVIOUS
  <2>2. /\ HasFields(z) /\ z.members = q
        /\ z.kind = y.kind /\ z.range = y.range /\ z.digits = y.digits /\ z.base = y.base
        /\ z.enum = y.enum /\ z.bit = y.bit /\ z.patterns = y.patterns
        /\ z.default = y.default /\ z.root = y.root
    BY <1>0, <2>1 DEF HasFields, Fields
  <2> QED
    BY <2>1, <2>2 DEF FieldsOf
<1>3. ASSUME NEW x \in {doc.typedef[d].default : d \in Typedefs} \cup {y.default},
             NEW w \in {doc.type[t].base : t \in Types} \cup {y.base}
      PROVE  FieldsOf([y EXCEPT !.default = x, !.base = w])
  <2>1. PICK z : z = [y EXCEPT !.default = x, !.base = w]
    OBVIOUS
  <2>2. /\ HasFields(z) /\ z.default = x /\ z.base = w
        /\ z.kind = y.kind /\ z.range = y.range /\ z.digits = y.digits
        /\ z.enum = y.enum /\ z.bit = y.bit /\ z.patterns = y.patterns
        /\ z.members = y.members /\ z.root = y.root
    BY <1>0, <2>1 DEF HasFields, Fields
  <2>3. /\ z.default \in {doc.typedef[d].default : d \in Typedefs} \cup {None}
        /\ z.base \in {doc.type[t].base : t \in Types} \cup {None}
    BY <2>2 DEF FieldsOf
  <2> QED
    BY <2>1, <2>2, <2>3 DEF FieldsOf
<1> QED
  BY <1>1, <1>2, <1>3

\* The base types stay, and every other YangType is one of the document.
TypedInv ==
    /\ heap \in Arrays
    /\ \A b \in Builtin : yt[b] = BuiltinType(b)
    /\ \A p \in Builtin \cup Typedefs \cup Types :
          yt[p] = None \/ (FieldsOf(yt[p]) /\ Lies(heap, yt[p].patterns))

\* The YangTypes of the base types are YangTypes, without patterns.
LEMMA BuiltinIsMade ==
    ASSUME NEW b \in Builtin
    PROVE  FieldsOf(BuiltinType(b)) /\ \A h : Lies(h, BuiltinType(b).patterns)
<1>1. PICK y : y = BuiltinType(b)
  OBVIOUS
<1>2. /\ HasFields(y) /\ y.kind = b /\ y.range = BuiltinRange[b] /\ y.digits = 0 /\ y.base = None
      /\ y.enum = None /\ y.bit = None /\ y.patterns = NoPatterns /\ y.members = <<>>
      /\ y.default = None /\ y.root = b
  BY <1>1 DEF BuiltinType, HasFields, Fields
<1>3. NoPatterns \in [arr : Nat, len : Nat] /\ \A h : Lies(h, NoPatterns)
  BY DEF NoPatterns, Lies
<1>4. <<>> \in Seq(Types)
  OBVIOUS
<1> QED
  BY <1>1, <1>2, <1>3, <1>4 DEF FieldsOf

\* They stay while neither they nor the lists change.
LEMMA TypedStays ==
    ASSUME TypedInv, doc' = doc, yt' = yt, heap' = heap
    PROVE  TypedInv'
<1>1. \A y : FieldsOf(y)' <=> FieldsOf(y)
  BY SameDocument DEF FieldsOf
<1> QED
  BY <1>1, SameDocument DEF TypedInv

\* They stay when one of them is made or changed, and lists become longer.
LEMMA TypedAfter ==
    ASSUME StateInv, TypedInv, doc' = doc, Grows(heap, heap'), NEW p \in Typedefs \cup Types, NEW z,
           yt' = [yt EXCEPT ![p] = z], FieldsOf(z), Lies(heap', z.patterns)
    PROVE  TypedInv' /\ yt'[p] # None
<1>1. \A y : FieldsOf(y)' <=> FieldsOf(y)
  BY SameDocument DEF FieldsOf
<1>2. \A q \in Builtin \cup Typedefs \cup Types : yt'[q] = IF q = p THEN z ELSE yt[q]
  BY DEF StateInv, TypesInv
<1>3. p \notin Builtin /\ doc \in Documents
  BY DocumentTypes DEF StateInv
<1>4. heap' \in Arrays
  BY DEF Grows
<1>5. \A q \in Builtin \cup Typedefs \cup Types :
         yt'[q] = None \/ (FieldsOf(yt'[q]) /\ Lies(heap', yt'[q].patterns))
  BY <1>2, LiesOn DEF TypedInv
<1>6. \A b \in Builtin : yt'[b] = BuiltinType(b)
  BY <1>2, <1>3 DEF TypedInv
<1>7. z # None
  BY <1>3, NotNone
<1> QED
  BY <1>1, <1>2, <1>4, <1>5, <1>6, <1>7, SameDocument DEF TypedInv

\* What is said of a document and a type stays as long as the document does.
LEMMA SameFound ==
    ASSUME doc' = doc
    PROVE  \A t : (IsBuiltin(t)' <=> IsBuiltin(t)) /\ Found(t)' = Found(t) /\ Meant(t)' = Meant(t)
<1>1. \A t : (IsBuiltin(t)' <=> IsBuiltin(t)) /\ (IsLocal(t)' <=> IsLocal(t)) /\ Root(t)' = Root(t)
  BY DEF IsBuiltin, IsLocal, Root
<1>2. \A t : Scopes(t)' = Scopes(t)
  BY <1>1 DEF Scopes, NodesAbove
<1>3. \A n, name : FindIn(n, name)' = FindIn(n, name)
  BY SameDocument DEF FindIn
<1>4. \A t : Defining(t)' = Defining(t)
  BY SameDocument
<1>5. ASSUME NEW t PROVE Found(t)' = Found(t)
  <2>1. PICK S : S = FindIn(Scopes(t)[Min(Defining(t))], doc.type[t].name)
    OBVIOUS
  <2>2. FindIn(Scopes(t)[Min(Defining(t))], doc.type[t].name)' = S
    BY <1>2, <1>3, <1>4, <2>1
  <2>3. Found(t) = IF Defining(t) = {} THEN None ELSE CHOOSE d \in S : TRUE
    BY <2>1 DEF Found
  <2>4. Found(t)' = IF Defining(t)' = {} THEN None ELSE CHOOSE d \in S : TRUE
    BY <2>2 DEF Found
  <2> QED
    BY <1>4, <2>3, <2>4
<1>6. ASSUME NEW t PROVE Meant(t)' = Meant(t)
  BY <1>1, <1>3, SameDocument DEF Meant
<1> QED
  BY <1>1, <1>5, <1>6

\* Chains, and what Process comes to, depend on the document alone.
LEMMA SameChains ==
    ASSUME doc' = doc
    PROVE  /\ \A t : ChainOf(t)' = ChainOf(t) /\ Statements(t)' = Statements(t) /\ Base0(t)' = Base0(t)
           /\ TypedefTypes' = TypedefTypes /\ LeafTypes' = LeafTypes
<1>1. BasedOn' = BasedOn
  BY SameFound, SameDocument DEF BasedOn
<1>2. \A t : ChainOf(t)' = ChainOf(t)
  BY <1>1 DEF ChainOf
<1>3. \A t : Statements(t)' = Statements(t)
  BY <1>2, SameDocument DEF Statements
<1>4. \A t : Base0(t)' = Base0(t)
  BY <1>2, SameFound, SameDocument DEF Base0
<1>5. \A T : TypesOf(T)' = TypesOf(T)
  BY SameDocument DEF TypesOf
<1>6. TypedefTypes' = TypedefTypes /\ LeafTypes' = LeafTypes
  BY <1>5, SameDocument DEF TypedefTypes, LeafTypes
<1> QED
  BY <1>2, <1>3, <1>4, <1>6

-----------------------------------------------------------------------------
(* The calls in progress *)

\* What Process comes to.
Subject == Typedefs \cup TypedefTypes \cup LeafTypes

\* What a typedef, a type or a union of these leads to is one of these.
LEMMA SubjectIs ==
    ASSUME doc \in Documents
    PROVE  /\ Subject \subseteq Typedefs \cup Types /\ Typedefs \subseteq Subject
           /\ \A d \in Typedefs : TypeOf(d) \in Subject
           /\ doc.leaves \subseteq Subject
           /\ \A t \in Subject \cap Types : \A k \in DOMAIN doc.type[t].members :
                 doc.type[t].members[k] \in Subject
           /\ \A t \in Types : ~ IsBuiltin(t) /\ Found(t) # None => Found(t) \in Subject
<1>1. PICK T : T = {doc.typedef[d].type : d \in Typedefs}
  OBVIOUS
<1>2. T \in SUBSET Types /\ doc.leaves \in SUBSET Types /\ \A d \in Typedefs : TypeOf(d) \in T
  BY <1>1, DocumentTypes DEF TypeOf
<1>3. /\ T \subseteq TypedefTypes /\ TypedefTypes \subseteq Types
      /\ \A t \in TypedefTypes : \A k \in DOMAIN doc.type[t].members :
            doc.type[t].members[k] \in TypedefTypes
  BY <1>1, <1>2, TypesOfIsLeast DEF TypedefTypes
<1>4. /\ doc.leaves \subseteq LeafTypes /\ LeafTypes \subseteq Types
      /\ \A t \in LeafTypes : \A k \in DOMAIN doc.type[t].members :
            doc.type[t].members[k] \in LeafTypes
  BY <1>2, TypesOfIsLeast DEF LeafTypes
<1>5. Typedefs \cap Types = {}
  BY DocumentTypes
<1>6. \A t \in Types : Found(t) # None => Found(t) \in Typedefs
  BY FoundIsTypedef DEF Found
<1> QED
  BY <1>2, <1>3, <1>4, <1>5, <1>6 DEF Subject

\* What a call waits for.
Awaited(f) ==
    IF f.of \in Typedefs THEN TypeOf(f.of)
    ELSE IF f.n = 0 THEN Found(f.of) ELSE doc.type[f.of].members[f.n]

\* It waits for a member that there is.
Waits(f) == f.n > 0 => f.n \in DOMAIN doc.type[f.of].members

\* It has made no YangType yet, and there is no error.
Fresh(f) == f.n = 0 => f.errs = {} /\ (f.of \in Types => ~ IsBuiltin(f.of))

\* Each call has been made by the one below it.
Path(s) ==
    /\ \A i \in DOMAIN s : i < Len(s) => Waits(s[i])
    /\ \A i, j \in DOMAIN s : j = i + 1 => s[j].of = Awaited(s[i])
    /\ \A i \in DOMAIN s : s[i].of \in Subject /\ Fresh(s[i])

\* A call that resolves members has made its YangType.
Begun(s, types) == \A i \in DOMAIN s : s[i].n > 0 => types[s[i].of] # None

\* The invariant of the calls: they form a path, and the last one waits for what is called.
PathInv ==
    /\ Path(stack) /\ Begun(stack, yt)
    /\ pc # "members" /\ stack # <<>> => Waits(Top)
    /\ pc = "enter" => enter \in Subject /\ (stack # <<>> => enter = Awaited(Top))
    /\ todo \subseteq Subject
    /\ pc \in {"idle", "loop"} => stack = <<>>
    /\ ret # {} => pc = "return"
    /\ calls = 0 => pc = "idle" /\ errs = {} /\ \A p \in Typedefs \cup Types : yt[p] = None
    /\ calls \in Nat

\* A path depends on the document alone.
LEMMA PathSame ==
    ASSUME doc' = doc, NEW s, Path(s)
    PROVE  Path(s)'
<1>1. Subject' = Subject
  BY SameChains, SameDocument DEF Subject
<1>2. \A f : Awaited(f)' = Awaited(f)
  BY SameFound, SameDocument DEF Awaited, TypeOf
<1>3. \A f : (Waits(f)' <=> Waits(f)) /\ (Fresh(f)' <=> Fresh(f))
  BY SameFound, SameDocument DEF Waits, Fresh
<1> QED
  BY <1>1, <1>2, <1>3 DEF Path

\* When the last call returns, the one before waits for it.
LEMMA PathFront ==
    ASSUME NEW s \in Seq(Frames), s # <<>>, Path(s)
    PROVE  /\ Path(Front(s)) /\ Front(s) \in Seq(Frames)
           /\ Front(s) # <<>> => Last(s).of = Awaited(Last(Front(s))) /\ Waits(Last(Front(s)))
           /\ \A types : Begun(s, types) => Begun(Front(s), types)
<1>1. PICK r : r = Front(s)
  OBVIOUS
<1>2. /\ r \in Seq(Frames) /\ \A i \in DOMAIN r : i \in DOMAIN s /\ i < Len(s) /\ r[i] = s[i]
      /\ \A i \in DOMAIN s : i = Len(s) \/ i \in DOMAIN r
      /\ Len(s) \in DOMAIN s /\ Last(s) = s[Len(s)]
  BY <1>1, FrontIs
<1>3. Path(r) /\ \A types : Begun(s, types) => Begun(r, types)
  BY <1>2 DEF Path, Begun
<1>4. ASSUME r # <<>> PROVE Last(s).of = Awaited(Last(r)) /\ Waits(Last(r))
  <2>1. Len(r) \in DOMAIN r /\ Last(r) = r[Len(r)]
    BY <1>2, <1>4, FrontIs
  <2>2. Len(r) + 1 \in DOMAIN s
    BY <1>2, <2>1
  <2>3. Len(r) + 1 \notin DOMAIN r
    BY <1>2
  <2>4. Len(s) = Len(r) + 1
    BY <1>2, <2>2, <2>3
  <2> QED
    BY <1>2, <2>1, <2>4 DEF Path
<1> QED
  BY <1>1, <1>2, <1>3, <1>4

\* A call of what is awaited goes on with the path.
LEMMA PathAppend ==
    ASSUME NEW s \in Seq(Frames), Path(s), NEW f, f.of \in Subject,
           Fresh(f), s # <<>> => f.of = Awaited(Last(s)) /\ Waits(Last(s))
    PROVE  /\ Path(Append(s, f)) /\ Append(s, f) # <<>> /\ Last(Append(s, f)) = f
           /\ \A types : Begun(s, types) /\ (f.n > 0 => types[f.of] # None)
                            => Begun(Append(s, f), types)
<1>1. PICK r : r = Append(s, f)
  OBVIOUS
<1>2. /\ DOMAIN r = DOMAIN s \cup {Len(s) + 1} /\ r[Len(s) + 1] = f /\ Len(r) = Len(s) + 1
      /\ \A i \in DOMAIN s : r[i] = s[i] /\ i \in Nat /\ i <= Len(s)
      /\ Len(s) \in Nat
  BY <1>1
<1>3. s # <<>> => Len(s) \in DOMAIN s /\ Last(s) = s[Len(s)]
  BY FrontIs
<1>4. ASSUME NEW i \in DOMAIN r, NEW j \in DOMAIN r, j = i + 1 PROVE r[j].of = Awaited(r[i])
  <2>1. CASE j \in DOMAIN s
    <3>1. i \in DOMAIN s
      BY <1>2, <1>4, <2>1
    <3> QED
      BY <1>2, <1>4, <2>1, <3>1 DEF Path
  <2>2. CASE j = Len(s) + 1
    <3>1. i = Len(s) /\ i \in DOMAIN s
      BY <1>2, <1>4, <2>2
    <3>2. s # <<>>
      BY <1>2, <3>1
    <3> QED
      BY <1>2, <1>3, <2>2, <3>1, <3>2
  <2> QED
    BY <1>2, <2>1, <2>2
<1>5. /\ \A i \in DOMAIN r : r[i].of \in Subject /\ Fresh(r[i])
      /\ \A types : Begun(s, types) /\ (f.n > 0 => types[f.of] # None) => Begun(r, types)
  BY <1>2 DEF Path, Begun
<1>7. ASSUME NEW i \in DOMAIN r, i < Len(r) PROVE Waits(r[i])
  <2>1. i \in DOMAIN s /\ r[i] = s[i] /\ (i < Len(s) \/ i = Len(s))
    BY <1>2, <1>7
  <2>2. s # <<>>
    BY <2>1
  <2> QED
    BY <1>3, <2>1, <2>2 DEF Path
<1>6. r # <<>> /\ Last(r) = f
  <2>1. Len(r) # 0
    BY <1>2
  <2> QED
    BY <1>1, <1>2, <2>1 DEF Last
<1> QED
  BY <1>1, <1>4, <1>5, <1>6, <1>7 DEF Path

\* The last call may go on to its members.
LEMMA PathTurn ==
    ASSUME NEW s \in Seq(Frames), s # <<>>, Path(s), NEW f \in Frames, f.of = Last(s).of,
           f.n # 0
    PROVE  LET r == [s EXCEPT ![Len(s)] = f] IN
           Path(r) /\ \A types : Begun(s, types) /\ types[f.of] # None => Begun(r, types)
<1>1. PICK r : r = [s EXCEPT ![Len(s)] = f]
  OBVIOUS
<1>2. Len(s) \in DOMAIN s /\ Last(s) = s[Len(s)] /\ Len(s) \in Nat
  <2>1. Len(s) \in DOMAIN s /\ Last(s) = s[Len(s)]
    BY FrontIs
  <2>2. Len(s) \in Nat
    OBVIOUS
  <2> QED
    BY <2>1, <2>2
<1>3. DOMAIN r = DOMAIN s /\ \A i \in DOMAIN s : r[i] = IF i = Len(s) THEN f ELSE s[i]
  BY <1>1, <1>2
<1>4. \A i \in DOMAIN s : r[i].of = s[i].of /\ i \in Nat /\ i <= Len(s)
  BY <1>2, <1>3
<1>5. ASSUME NEW i \in DOMAIN s, NEW j \in DOMAIN s, j = i + 1 PROVE r[j].of = Awaited(r[i])
  <2>1. i # Len(s)
    BY <1>2, <1>4, <1>5
  <2>2. r[i] = s[i]
    BY <1>3, <2>1
  <2> QED
    BY <1>4, <1>5, <2>2 DEF Path
<1>6. /\ \A i \in DOMAIN s : r[i].of \in Subject /\ Fresh(r[i])
      /\ \A types : Begun(s, types) /\ types[f.of] # None => Begun(r, types)
  <2>1. Fresh(f)
    BY DEF Fresh
  <2> QED
    BY <1>2, <1>3, <2>1 DEF Path, Begun
<1>7. Len(r) = Len(s) /\ \A i \in DOMAIN s : i < Len(s) => r[i] = s[i]
  BY <1>1, <1>2, <1>3
<1>8. \A i \in DOMAIN r : i < Len(r) => Waits(r[i])
  BY <1>3, <1>7 DEF Path
<1> QED
  BY <1>1, <1>3, <1>5, <1>6, <1>8 DEF Path

\* Those that have YangTypes.
Holders == Builtin \cup Typedefs \cup Types

\* A YangType that is made or changed stays one.
LEMMA MadeStays ==
    ASSUME StateInv, NEW p \in Typedefs \cup Types, NEW z, yt' = [yt EXCEPT ![p] = z], z # None
    PROVE  /\ \A q \in Holders : yt[q] # None => yt'[q] # None
           /\ \A q \in Holders : q # p => yt'[q] = yt[q]
           /\ yt'[p] = z
  BY DEF StateInv, TypesInv, Holders

\* Derive makes a YangType of t, and changes no other.
LEMMA DeriveTyped ==
    ASSUME StateInv, TypedInv, NEW t \in Types, NEW b \in Builtin \cup Typedefs, yt[b] # None,
           NEW frames, Derive(t, yt[b], frames), doc' = doc
    PROVE  /\ TypedInv' /\ yt'[t] # None
           /\ \A p \in Holders : p # t => yt'[p] = yt[p]
<1> DEFINE s == doc.type[t]
           m == AddPatterns(heap, yt[b].patterns, s.patterns)
<1>1. /\ doc \in Documents /\ heap \in Arrays /\ s.patterns \in Seq(STRING)
      /\ t \in Typedefs \cup Types
  BY DocumentsAssumption DEF StateInv, TypedInv, Types
<1>2. PICK y : y = yt[b]
  OBVIOUS
<1>3. FieldsOf(y) /\ Lies(heap, y.patterns)
  BY <1>2 DEF TypedInv
<1>4. Grows(heap, m.heap) /\ Lies(m.heap, m.list)
  BY <1>1, <1>2, <1>3, AddPatternsGrow
<1>5. \/ yt' = [yt EXCEPT ![t] = y] /\ heap' = heap
      \/ yt' = [yt EXCEPT ![t] = Restricted(s, y, m.list)] /\ heap' = m.heap
  BY <1>2 DEF Derive
<1> HIDE DEF m
<1>6. Grows(heap, heap)
  BY <1>1 DEF Grows, Arrays
<1>7. m.list \in [arr : Nat, len : Nat]
  BY <1>4 DEF Lies
<1>8. FieldsOf(Restricted(s, y, m.list)) /\ Restricted(s, y, m.list).patterns = m.list
  <2>1. FieldsOf(Restricted(s, y, m.list))
    BY <1>3, <1>7, RestrictedIsMade
  <2>2. Restricted(s, y, m.list).patterns = m.list
    <3> HIDE DEF s
    <3> QED
      BY <1>3, RestrictedFields DEF FieldsOf
  <2> QED
    BY <2>1, <2>2
<1>9. PICK z : /\ yt' = [yt EXCEPT ![t] = z] /\ FieldsOf(z)
               /\ Lies(heap', z.patterns) /\ Grows(heap, heap')
  BY <1>3, <1>4, <1>5, <1>6, <1>8
<1>10. TypedInv' /\ yt'[t] # None
  BY <1>1, <1>9, TypedAfter
<1>11. \A p \in Holders : p # t => yt'[p] = yt[p]
  BY <1>9 DEF StateInv, TypesInv, Holders
<1> QED
  BY <1>10, <1>11

\* The last call.
LEMMA TopIs ==
    ASSUME StateInv, PathInv, stack # <<>>
    PROVE  /\ stack \in Seq(Frames) /\ Top \in Frames /\ FrameInv(Top)
           /\ Top.of \in Subject /\ Top.of \in Typedefs \cup Types
           /\ Top.n > 0 => yt[Top.of] # None /\ Top.of \in Types
           /\ Top.n = 0 /\ Top.of \in Types => Defining(Top.of) # {}
           /\ Top.n = 0 => Top.errs = {} /\ (Top.of \in Types => ~ IsBuiltin(Top.of))
           /\ Len(stack) \in DOMAIN stack /\ Top = stack[Len(stack)]
<1>1. /\ stack \in Seq(Frames) /\ Top \in Frames /\ FrameInv(Top)
      /\ Len(stack) \in DOMAIN stack /\ Top = stack[Len(stack)]
  BY TopCall DEF StateInv, CallsInv, Top
<1>2. /\ Top.of \in Subject
      /\ Top.n > 0 => yt[Top.of] # None
      /\ Top.n = 0 => Top.errs = {} /\ (Top.of \in Types => ~ IsBuiltin(Top.of))
  <2>1. Fresh(Top) /\ Top.of \in Subject
    BY <1>1 DEF PathInv, Path
  <2>2. Top.n > 0 => yt[Top.of] # None
    BY <1>1 DEF PathInv, Begun
  <2> QED
    BY <2>1, <2>2 DEF Fresh
<1>3. Top.of \in Typedefs \cup Types
  BY <1>1 DEF Frames
<1> QED
  BY <1>1, <1>2, <1>3 DEF FrameInv

\* What a call of Type.resolve or Typedef.resolve does to the YangTypes.
LEMMA MemberReturnsTyped ==
    ASSUME StateInv, TypedInv, PathInv, MemberReturns
    PROVE  TypedInv' /\ \A p \in Holders : yt[p] # None => yt'[p] # None
<1>1. stack # <<>> /\ Top.n > 0 /\ doc' = doc /\ heap' = heap
  BY DEF MemberReturns
<1>2. PICK t, u : t = Top.of /\ u = doc.type[t].members[Top.n]
  OBVIOUS
<1>3. yt[t] # None /\ t \in Types /\ doc \in Documents /\ Top \in Frames
  BY <1>1, <1>2, TopIs DEF StateInv
<1>4. CASE yt' = yt
  BY <1>1, <1>4, TypedStays
<1>5. CASE yt' # yt
  <2>1. yt[u] # None /\ yt' = [yt EXCEPT ![t].members = Append(@, u)]
    BY <1>2, <1>5 DEF MemberReturns
  <2>2. u \in Types
    <3>1. doc.type[t].members \in Seq(Types)
      BY <1>3, DocumentTypes
    <3>2. Top.n \in DOMAIN doc.type[t].members
      <4>1. Waits(Top)
        BY <1>1 DEF PathInv, MemberReturns
      <4> QED
        BY <1>1, <1>2, <4>1 DEF Waits
    <3> QED
      BY <1>2, <3>1, <3>2
  <2>3. PICK z : z = [yt[t] EXCEPT !.members = Append(@, u)]
    OBVIOUS
  <2>4. yt' = [yt EXCEPT ![t] = z]
    BY <2>1, <2>3
  <2>5. FieldsOf(yt[t]) /\ Lies(heap, yt[t].patterns)
    BY <1>3 DEF TypedInv
  <2>6. Append(yt[t].members, u) \in Seq(Types)
    BY <2>2, <2>5 DEF FieldsOf
  <2>7. FieldsOf(z) /\ z.patterns = yt[t].patterns
    <3>1. FieldsOf(z)
      BY <2>3, <2>5, <2>6, ChangedIsMade
    <3>2. z.patterns = yt[t].patterns
      BY <2>3, <2>5 DEF FieldsOf, HasFields, Fields
    <3> QED
      BY <3>1, <3>2
  <2>8. Grows(heap, heap)
    BY DEF TypedInv, Grows, Arrays
  <2>9. TypedInv' /\ yt'[t] # None
    BY <1>1, <1>3, <2>4, <2>5, <2>7, <2>8, TypedAfter
  <2>10. z # None
    BY <1>3, <2>7, NotNone
  <2> QED
    BY <1>3, <2>4, <2>9, <2>10, MadeStays
<1> QED
  BY <1>4, <1>5

\* TypeResolved changes the root of a YangType alone.
LEMMA TypeResolvedTyped ==
    ASSUME StateInv, TypedInv, PathInv, TypeResolved
    PROVE  TypedInv' /\ \A p \in Holders : yt[p] # None => yt'[p] # None
<1>1. stack # <<>> /\ Top.n > 0 /\ doc' = doc /\ heap' = heap
  BY DEF TypeResolved, StateInv
<1>2. PICK t : t = Top.of
  OBVIOUS
<1>3. yt[t] # None /\ t \in Types /\ doc \in Documents /\ t \in Typedefs \cup Types
  BY <1>1, <1>2, TopIs DEF StateInv
<1>4. PICK r : r \in {yt[t].root, t} /\ yt' = [yt EXCEPT ![t].root = r]
  BY <1>2 DEF TypeResolved
<1>5. PICK z : z = [yt[t] EXCEPT !.root = r]
  OBVIOUS
<1>6. yt' = [yt EXCEPT ![t] = z]
  BY <1>4, <1>5
<1>7. FieldsOf(yt[t]) /\ Lies(heap, yt[t].patterns)
  BY <1>3 DEF TypedInv
<1>8. r \in Builtin \cup Typedefs \cup Types
  BY <1>3, <1>4, <1>7 DEF FieldsOf
<1>9. FieldsOf(z) /\ z.patterns = yt[t].patterns
  <2>1. FieldsOf(z)
    BY <1>5, <1>7, <1>8, ChangedIsMade
  <2>2. z.patterns = yt[t].patterns
    BY <1>5, <1>7 DEF FieldsOf, HasFields, Fields
  <2> QED
    BY <2>1, <2>2
<1>10. Grows(heap, heap)
  BY DEF TypedInv, Grows, Arrays
<1>11. TypedInv' /\ yt'[t] # None
  BY <1>1, <1>3, <1>6, <1>7, <1>9, <1>10, TypedAfter
<1>12. z # None
  BY <1>3, <1>9, NotNone
<1> QED
  BY <1>3, <1>6, <1>11, <1>12, MadeStays

\* The YangType of a typedef.
LEMMA TypedefIsMade ==
    ASSUME doc \in Documents, NEW d \in Typedefs, FieldsOf(yt[TypeOf(d)])
    PROVE  LET y == yt[TypeOf(d)]
               z == TypedefType(d)
           IN  /\ FieldsOf(z) /\ FieldsOf([z EXCEPT !.root = d])
               /\ z.patterns = y.patterns /\ [z EXCEPT !.root = d].patterns = y.patterns
<1>1. PICK y, s : y = yt[TypeOf(d)] /\ s = doc.type[TypeOf(d)]
  OBVIOUS
<1>2. PICK x : x = IF doc.typedef[d].default # None THEN doc.typedef[d].default ELSE y.default
  OBVIOUS
<1>3. PICK w : w = IF s.base # None THEN s.base ELSE y.base
  OBVIOUS
<1>4. PICK z : z = [y EXCEPT !.default = x, !.base = w]
  OBVIOUS
<1>5. z = TypedefType(d)
  BY <1>1, <1>2, <1>3, <1>4 DEF TypedefType, TypeOf
<1>6. TypeOf(d) \in Types
  BY DocumentTypes
<1>7. /\ x \in {doc.typedef[e].default : e \in Typedefs} \cup {y.default}
      /\ w \in {doc.type[t].base : t \in Types} \cup {y.base}
  BY <1>1, <1>2, <1>3, <1>6
<1>8. FieldsOf(z)
  BY <1>1, <1>4, <1>7, ChangedIsMade
<1>9. FieldsOf([z EXCEPT !.root = d])
  BY <1>8, ChangedIsMade
<1>10. z.patterns = y.patterns
  BY <1>1, <1>4 DEF FieldsOf, HasFields, Fields
<1>11. [z EXCEPT !.root = d].patterns = z.patterns
  BY <1>8 DEF FieldsOf, HasFields, Fields
<1> QED
  BY <1>1, <1>5, <1>8, <1>9, <1>10, <1>11

\* TypedefResolved makes the YangType of a typedef from that of its type.
LEMMA TypedefResolvedTyped ==
    ASSUME StateInv, TypedInv, PathInv, TypedefResolved
    PROVE  TypedInv' /\ \A p \in Holders : yt[p] # None => yt'[p] # None
<1>1. stack # <<>> /\ Top.of \in Typedefs /\ doc' = doc /\ heap' = heap /\ doc \in Documents
  BY DEF TypedefResolved, Waiting, StateInv
<1>2. PICK d : d = Top.of /\ d \in Typedefs
  BY <1>1
<1>3. yt[TypeOf(d)] # None /\ TypeOf(d) \in Types
  BY <1>1, <1>2, DocumentTypes DEF TypedefResolved, TypeOf
<1>4. FieldsOf(yt[TypeOf(d)]) /\ Lies(heap, yt[TypeOf(d)].patterns)
  BY <1>3 DEF TypedInv
<1>5. CASE yt' = yt
  BY <1>1, <1>5, TypedStays
<1>6. CASE yt' # yt
  <2>1. PICK z : /\ z \in {TypedefType(d), [TypedefType(d) EXCEPT !.root = d]}
                 /\ yt' = [yt EXCEPT ![d] = z]
    BY <1>2, <1>6 DEF TypedefResolved
  <2>2. FieldsOf(z) /\ Lies(heap', z.patterns)
    BY <1>1, <1>2, <1>4, <2>1, TypedefIsMade
  <2>3. Grows(heap, heap')
    BY <1>1 DEF TypedInv, Grows, Arrays
  <2>4. TypedInv'
    BY <1>1, <1>2, <2>1, <2>2, <2>3, TypedAfter
  <2>5. z # None
    BY <1>1, <2>2, NotNone
  <2> QED
    BY <1>2, <2>1, <2>4, <2>5, MadeStays
<1> QED
  BY <1>5, <1>6

\* A type that is based on no typedef, and one whose typedef has been resolved.
LEMMA DeriveSteps ==
    ASSUME StateInv, TypedInv, PathInv, EnterBuiltin \/ TypeFound
    PROVE  \E t \in Types, b \in Builtin \cup Typedefs, frames \in {stack, Front(stack)} :
              /\ yt[b] # None /\ Derive(t, yt[b], frames)
              /\ \/ /\ EnterBuiltin /\ t = enter /\ frames = stack /\ IsBuiltin(t)
                    /\ b = doc.type[t].name /\ b \in Builtin
                 \/ /\ TypeFound /\ t = Top.of /\ frames = Front(stack) /\ stack # <<>>
                    /\ b = Found(t) /\ b \in Typedefs /\ ~ IsBuiltin(t) /\ Defining(t) # {}
<1>1. CASE EnterBuiltin
  <2>1. enter \in Types /\ IsBuiltin(enter) /\ Derive(enter, yt[doc.type[enter].name], stack)
    BY <1>1 DEF EnterBuiltin
  <2>2. doc.type[enter].name \in Builtin
    BY <2>1 DEF IsBuiltin
  <2>3. yt[doc.type[enter].name] # None
    <3>1. doc \in Documents
      BY DEF StateInv
    <3> QED
      BY <2>2, <3>1, BuiltinIsMade, NotNone DEF TypedInv
  <2> QED
    BY <1>1, <2>1, <2>2, <2>3
<1>2. CASE TypeFound
  <2>1. /\ stack # <<>> /\ Top.of \in Types /\ Top.n = 0 /\ yt[Found(Top.of)] # None
        /\ Derive(Top.of, yt[Found(Top.of)], Front(stack))
    BY <1>2 DEF TypeFound, Waiting
  <2>2. Defining(Top.of) # {} /\ ~ IsBuiltin(Top.of)
    BY <2>1, TopIs
  <2>3. Found(Top.of) \in Typedefs
    BY <2>1, <2>2, FoundIsTypedef DEF StateInv
  <2> QED
    BY <1>2, <2>1, <2>2, <2>3
<1> QED
  BY <1>1, <1>2

\* Every step keeps YangTypes YangTypes, and takes none back.
LEMMA TypedNext ==
    ASSUME StateInv, TypedInv, PathInv, [Next]_vars
    PROVE  TypedInv' /\ doc' = doc /\ \A p \in Holders : yt[p] # None => yt'[p] # None
<1>1. CASE EnterBuiltin \/ TypeFound
  <2>1. doc' = doc
    BY <1>1 DEF EnterBuiltin, TypeFound
  <2>2. PICK t \in Types, b \in Builtin \cup Typedefs, frames \in {stack, Front(stack)} :
           yt[b] # None /\ Derive(t, yt[b], frames)
    BY <1>1, DeriveSteps
  <2>3. TypedInv' /\ yt'[t] # None /\ \A p \in Holders : p # t => yt'[p] = yt[p]
    BY <2>1, <2>2, DeriveTyped
  <2> QED
    BY <2>1, <2>3
<1>2. CASE MemberReturns
  BY <1>2, MemberReturnsTyped DEF MemberReturns
<1>3. CASE TypeResolved
  BY <1>3, TypeResolvedTyped DEF TypeResolved
<1>4. CASE TypedefResolved
  BY <1>4, TypedefResolvedTyped DEF TypedefResolved
<1>5. CASE Process \/ Resolve \/ EndTypedefs \/ EndLeaves \/ AlreadyResolved \/ EnterTypedef
           \/ EnterType \/ UnknownType \/ Collect \/ Fail \/ Ignored \/ Member \/ UNCHANGED vars
  <2>1. doc' = doc /\ yt' = yt /\ heap' = heap
    BY <1>5 DEF Process, Resolve, EndTypedefs, EndLeaves, AlreadyResolved, EnterTypedef,
         EnterType, UnknownType, Collect, Fail, Ignored, Member, vars
  <2> QED
    BY <2>1, TypedStays
<1> QED
  BY <1>1, <1>2, <1>3, <1>4, <1>5 DEF Next, Step

\* The invariant of the calls holds after a step that leaves a path.
LEMMA PathAfter ==
    ASSUME StateInv, PathInv, doc' = doc, NEW s, Path(s), Begun(s, yt'), stack' = s,
           pc' # "members" /\ s # <<>> => Waits(Last(s)),
           pc' = "enter" => enter' \in Subject /\ (s # <<>> => enter' = Awaited(Last(s))),
           todo' \subseteq Subject, pc' \in {"idle", "loop"} => s = <<>>,
           ret' # {} => pc' = "return", calls' \in Nat \ {0}
    PROVE  PathInv'
<1>1. Subject' = Subject
  BY SameChains, SameDocument DEF Subject
<1>2. \A f : Awaited(f)' = Awaited(f) /\ (Waits(f)' <=> Waits(f))
  BY SameFound, SameDocument DEF Awaited, TypeOf, Waits
<1>3. Path(stack)' /\ Begun(stack, yt)'
  <2>1. Path(s)'
    BY PathSame
  <2> QED
    BY <2>1 DEF Path, Begun
<1>4. Top' = Last(s)
  BY DEF Top
<1>5. /\ pc' # "members" /\ stack' # <<>> => Waits(Top)'
      /\ pc' = "enter" => enter' \in Subject' /\ (stack' # <<>> => enter' = Awaited(Top)')
  <2>1. Waits(Top)' <=> Waits(Last(s))
    BY <1>4 DEF Waits
  <2>2. Awaited(Top)' = Awaited(Last(s))
    BY <1>4, SameFound, SameDocument DEF Awaited, TypeOf
  <2> QED
    BY <1>1, <2>1, <2>2
<1>6. (calls = 0 => pc = "idle" /\ errs = {} /\ \A p \in Typedefs \cup Types : yt[p] = None)'
  OBVIOUS
<1> QED
  BY <1>1, <1>3, <1>5, <1>6 DEF PathInv

\* Calls that have made a YangType have one after a step.
LEMMA SubjectsResolved ==
    ASSUME StateInv, \A p \in Holders : yt[p] # None => yt'[p] # None, NEW s, Path(s), Begun(s, yt)
    PROVE  Begun(s, yt')
<1>1. Subject \subseteq Holders
  BY SubjectIs DEF StateInv, Holders
<1> QED
  BY <1>1 DEF Path, Begun

\* The loops of Process.
LEMMA PathLoops ==
    ASSUME StateInv, PathInv, Process \/ Resolve \/ EndTypedefs \/ EndLeaves \/ Collect
    PROVE  PathInv'
<1>1. doc' = doc /\ yt' = yt /\ stack' = stack /\ stack = <<>> /\ doc \in Documents
  BY DEF Process, Resolve, EndTypedefs, EndLeaves, Collect, PathInv, StateInv
<1>2. Path(stack) /\ Begun(stack, yt')
  BY <1>1 DEF PathInv
<1>3. pc' = "enter" => enter' \in Subject
  BY DEF Process, Resolve, EndTypedefs, EndLeaves, Collect, PathInv
<1>4. todo' \subseteq Subject
  <2>1. doc.leaves \subseteq Subject /\ Typedefs \subseteq Subject
    BY <1>1, SubjectIs
  <2> QED
    BY <2>1 DEF Process, Resolve, EndTypedefs, EndLeaves, Collect, PathInv
<1>5. ret' # {} => pc' = "return"
  BY DEF Process, Resolve, EndTypedefs, EndLeaves, Collect, PathInv
<1>6. calls' \in Nat \ {0}
  BY DEF Process, Resolve, EndTypedefs, EndLeaves, Collect, PathInv
<1> QED
  BY <1>1, <1>2, <1>3, <1>4, <1>5, <1>6, PathAfter

\* A call that begins.
LEMMA PathCalls ==
    ASSUME StateInv, PathInv, EnterTypedef \/ EnterType
    PROVE  PathInv'
<1>1. PICK f : f = [of |-> enter, n |-> 0, errs |-> {}]
  OBVIOUS
<1>2. f.of = enter /\ f.n = 0 /\ ~ (f.n > 0) /\ f.errs = {}
  BY <1>1
<1>3. /\ doc' = doc /\ yt' = yt /\ stack' = Append(stack, f) /\ doc \in Documents
      /\ pc = "enter" /\ pc' = "enter" /\ todo' = todo /\ ret' = ret /\ calls' = calls
  BY <1>1 DEF EnterTypedef, EnterType, Push, StateInv
<1>4. /\ stack \in Seq(Frames) /\ Path(stack) /\ Begun(stack, yt) /\ enter \in Subject
      /\ stack # <<>> => enter = Awaited(Last(stack)) /\ Waits(Last(stack))
      /\ todo \subseteq Subject /\ ret = {} /\ calls \in Nat \ {0}
  BY <1>3 DEF StateInv, CallsInv, PathInv, Top
<1> DEFINE r == Append(stack, f)
<1>9. Fresh(f)
  <2>1. enter \in Types => ~ IsBuiltin(enter)
    BY DocumentTypes DEF EnterTypedef, EnterType, StateInv
  <2> QED
    BY <1>2, <2>1 DEF Fresh
<1>5. Path(r) /\ r # <<>> /\ Last(r) = f /\ Begun(r, yt)
  BY <1>2, <1>4, <1>9, PathAppend
<1> HIDE DEF r
<1>6. enter' = Awaited(f) /\ enter' \in Subject
  <2>1. CASE EnterTypedef
    <3>1. enter \in Typedefs /\ enter' = TypeOf(enter)
      BY <2>1 DEF EnterTypedef, TypeOf
    <3>2. enter' \in Subject
      BY <1>3, <3>1, SubjectIs
    <3> QED
      BY <1>2, <3>1, <3>2 DEF Awaited
  <2>2. CASE EnterType
    <3>1. enter \in Types /\ enter' = Found(enter) /\ Found(enter) # None /\ ~ IsBuiltin(enter)
      BY <2>2 DEF EnterType
    <3>2. enter' \in Subject /\ enter \notin Typedefs
      BY <1>3, <3>1, SubjectIs, DocumentTypes
    <3> QED
      BY <1>2, <3>1, <3>2 DEF Awaited
  <2> QED
    BY <2>1, <2>2
<1>7. Waits(f)
  BY <1>2 DEF Waits
<1>8. stack' = r
  BY <1>3 DEF r
<1> QED
  BY <1>3, <1>4, <1>5, <1>6, <1>7, <1>8, PathAfter

\* Calls that end.
LEMMA PathReturns ==
    ASSUME StateInv, PathInv, TypedInv, \A p \in Holders : yt[p] # None => yt'[p] # None,
           Fail \/ Ignored \/ TypedefResolved \/ TypeResolved
    PROVE  PathInv'
<1>1. /\ doc' = doc /\ stack # <<>> /\ stack' = Front(stack) /\ todo' = todo /\ calls' = calls
      /\ pc # "idle"
  BY DEF Fail, Ignored, TypedefResolved, TypeResolved, Waiting, StateInv
<1>2. pc' = "return"
  BY DEF Fail, Ignored, TypedefResolved, TypeResolved, Waiting, Returns
<1>3. stack \in Seq(Frames) /\ Path(stack) /\ Begun(stack, yt) /\ todo \subseteq Subject
        /\ calls \in Nat \ {0}
  BY <1>1 DEF StateInv, CallsInv, PathInv
<1>4. /\ Path(Front(stack)) /\ Begun(Front(stack), yt)
      /\ Front(stack) # <<>> => Waits(Last(Front(stack)))
  BY <1>1, <1>3, PathFront
<1>5. Begun(Front(stack), yt')
  BY <1>4, SubjectsResolved
<1> QED
  BY <1>1, <1>2, <1>3, <1>4, <1>5, PathAfter

\* Type.resolve has made the YangType.
LEMMA PathDerives ==
    ASSUME StateInv, PathInv, TypedInv, EnterBuiltin \/ TypeFound
    PROVE  PathInv'
<1>1. /\ doc' = doc /\ todo' = todo /\ calls' = calls /\ doc \in Documents /\ pc # "idle"
      /\ pc # "members" /\ stack \in Seq(Frames) /\ Path(stack) /\ Begun(stack, yt)
      /\ todo \subseteq Subject /\ calls \in Nat \ {0}
  BY DEF EnterBuiltin, TypeFound, Waiting, StateInv, CallsInv, PathInv
<1>2. PICK t \in Types, b \in Builtin \cup Typedefs, frames \in {stack, Front(stack)} :
         /\ yt[b] # None /\ Derive(t, yt[b], frames)
         /\ \/ EnterBuiltin /\ t = enter /\ frames = stack
            \/ TypeFound /\ t = Top.of /\ frames = Front(stack) /\ stack # <<>>
  BY DeriveSteps
<1>3. yt'[t] # None /\ \A p \in Holders : p # t => yt'[p] = yt[p]
  BY <1>1, <1>2, DeriveTyped
<1>4. \A p \in Holders : yt[p] # None => yt'[p] # None
  BY <1>3
<1>5. /\ frames \in Seq(Frames) /\ Path(frames) /\ Begun(frames, yt) /\ t \in Subject
      /\ frames # <<>> => t = Awaited(Last(frames)) /\ Waits(Last(frames))
  <2>1. CASE EnterBuiltin /\ t = enter /\ frames = stack
    BY <1>1, <2>1 DEF PathInv, EnterBuiltin, Top
  <2>2. CASE TypeFound /\ t = Top.of /\ frames = Front(stack) /\ stack # <<>>
    <3>1. t \in Subject /\ t = Last(stack).of
      BY <2>2, TopIs DEF Top
    <3> QED
      BY <1>1, <2>2, <3>1, PathFront
  <2> QED
    BY <1>2, <2>1, <2>2
<1>6. Begun(frames, yt')
  BY <1>4, <1>5, SubjectsResolved
<1>7. PICK f : f = [of |-> t, n |-> 1, errs |-> Tagged(t, StatementErrors(doc.type[t], yt[b]))]
  OBVIOUS
<1>8. f.of = t /\ f.n = 1 /\ f.n # 0
  BY <1>7
<1>9. \/ stack' = frames /\ pc' = "return"
      \/ stack' = Append(frames, f) /\ pc' = "members" /\ ret' = ret
  BY <1>2, <1>7 DEF Derive, Returns
<1>10. ret = {}
  BY <1>1 DEF PathInv, EnterBuiltin, TypeFound, Waiting
<1>11. CASE stack' = frames /\ pc' = "return"
  BY <1>1, <1>5, <1>6, <1>11, PathAfter
<1>12. CASE stack' = Append(frames, f) /\ pc' = "members" /\ ret' = ret
  <2>1. Path(Append(frames, f)) /\ Begun(Append(frames, f), yt')
    BY <1>3, <1>5, <1>6, <1>8, PathAppend DEF Fresh
  <2> QED
    BY <1>1, <1>10, <1>12, <2>1, PathAfter
<1> QED
  BY <1>9, <1>11, <1>12

\* Steps that leave the calls.
LEMMA PathStays ==
    ASSUME StateInv, PathInv, AlreadyResolved \/ UnknownType \/ Member
    PROVE  PathInv'
<1>1. /\ doc' = doc /\ yt' = yt /\ stack' = stack /\ todo' = todo /\ calls' = calls /\ doc \in Documents
      /\ Path(stack) /\ Begun(stack, yt') /\ todo \subseteq Subject /\ calls \in Nat \ {0}
  BY DEF AlreadyResolved, UnknownType, Member, PathInv, StateInv
<1>2. CASE AlreadyResolved \/ UnknownType
  <2>1. stack # <<>> => Waits(Last(stack))
    BY <1>2 DEF AlreadyResolved, UnknownType, PathInv, Top
  <2>2. pc' \in {"return", "panic"} /\ (ret' # {} => pc' = "return")
    BY <1>2 DEF AlreadyResolved, UnknownType, Returns, PathInv
  <2> QED
    BY <1>1, <2>1, <2>2, PathAfter
<1>3. CASE Member
  <2>1. /\ pc' = "enter" /\ ret' = ret /\ ret = {} /\ stack # <<>> /\ Top.n > 0
        /\ enter' = doc.type[Top.of].members[Top.n] /\ Top.n <= Len(doc.type[Top.of].members)
    BY <1>3 DEF Member, PathInv, StateInv
  <2>2. /\ Top.of \in Types /\ Top \in Frames /\ Top.of \in Subject
        /\ doc.type[Top.of].members \in Seq(Types) /\ Top.of \notin Typedefs
    BY <1>1, <2>1, TopIs, DocumentTypes
  <2>3. Top.n \in DOMAIN doc.type[Top.of].members /\ Top.n # 0
    <3>1. Top.n \in Nat
      BY <2>2 DEF Frames
    <3> QED
      BY <2>1, <2>2, <3>1
  <2>4. enter' \in Subject
    BY <1>1, <2>1, <2>2, <2>3, SubjectIs
  <2>5. Waits(Last(stack)) /\ enter' = Awaited(Last(stack))
    BY <2>1, <2>2, <2>3 DEF Waits, Awaited, Top
  <2> QED
    BY <1>1, <2>1, <2>4, <2>5, PathAfter
<1> QED
  BY <1>2, <1>3

\* A member that returns lets the union go on with the next one.
LEMMA PathMember ==
    ASSUME StateInv, PathInv, \A p \in Holders : yt[p] # None => yt'[p] # None, MemberReturns
    PROVE  /\ PathInv'
           /\ \E f \in Frames : /\ stack' = [stack EXCEPT ![Len(stack)] = f]
                                /\ f.of = Top.of /\ f.n = Top.n + 1 /\ f.errs = Top.errs \cup ret
<1>1. /\ doc' = doc /\ stack # <<>> /\ Top.n > 0 /\ todo' = todo /\ calls' = calls
      /\ pc' = "members" /\ ret' = {} /\ pc # "idle" /\ ret \in SUBSET Errors
  BY DEF MemberReturns, StateInv
<1>2. /\ Top \in Frames /\ Top.of \in Subject /\ yt[Top.of] # None /\ stack \in Seq(Frames)
      /\ Len(stack) \in DOMAIN stack /\ Top = stack[Len(stack)] /\ Top = Last(stack)
  BY <1>1, TopIs DEF Top
<1>3. PICK f : f = [Top EXCEPT !.n = Top.n + 1, !.errs = Top.errs \cup ret]
  OBVIOUS
<1>4. f \in Frames /\ f.of = Top.of /\ f.n = Top.n + 1 /\ f.errs = Top.errs \cup ret
  <2>1. Top.n + 1 \in Nat /\ Top.errs \cup ret \in SUBSET Errors
    BY <1>1, <1>2 DEF Frames
  <2> QED
    BY <1>2, <1>3, <2>1 DEF Frames
<1>5. stack' = [stack EXCEPT ![Len(stack)] = f]
  <2>1. stack' = [stack EXCEPT ![Len(stack)].n = @ + 1, ![Len(stack)].errs = @ \cup ret]
    BY DEF MemberReturns, NextMember
  <2>2. [stack EXCEPT ![Len(stack)].n = @ + 1, ![Len(stack)].errs = @ \cup ret]
          = [[stack EXCEPT ![Len(stack)].n = @ + 1] EXCEPT ![Len(stack)].errs = @ \cup ret]
    OBVIOUS
  <2> QED
    BY <1>2, <1>3, <2>1, <2>2
<1>6. Path(stack) /\ Begun(stack, yt) /\ todo \subseteq Subject /\ calls \in Nat \ {0}
  BY <1>1 DEF PathInv
<1>7. Begun(stack, yt') /\ yt'[f.of] # None /\ f.n # 0
  <2>1. Subject \subseteq Holders
    BY SubjectIs DEF StateInv, Holders
  <2>2. f.n # 0
    BY <1>1, <1>2, <1>4 DEF Frames
  <2> QED
    BY <1>2, <1>4, <1>6, <2>1, <2>2, SubjectsResolved
<1> DEFINE r == [stack EXCEPT ![Len(stack)] = f]
<1>8. Path(r) /\ Begun(r, yt')
  BY <1>1, <1>2, <1>4, <1>6, <1>7, PathTurn
<1> HIDE DEF r
<1>9. stack' = r
  BY <1>5 DEF r
<1>10. PathInv'
  BY <1>1, <1>6, <1>8, <1>9, PathAfter
<1> QED
  BY <1>4, <1>5, <1>10

\* Every step keeps the calls a path.
LEMMA PathNext ==
    ASSUME StateInv, TypedInv, PathInv, [Next]_vars
    PROVE  PathInv'
<1>1. \A p \in Holders : yt[p] # None => yt'[p] # None
  BY TypedNext
<1>2. CASE UNCHANGED vars
  <2>1. doc' = doc /\ stack' = stack /\ yt' = yt /\ pc' = pc /\ enter' = enter /\ todo' = todo
        /\ ret' = ret /\ calls' = calls /\ errs' = errs
    BY <1>2 DEF vars
  <2>2. Subject' = Subject /\ Typedefs' = Typedefs /\ Types' = Types
    BY <2>1, SameChains, SameDocument DEF Subject
  <2>3. \A f : Awaited(f)' = Awaited(f) /\ (Waits(f)' <=> Waits(f)) /\ (Fresh(f)' <=> Fresh(f))
    BY <2>1, SameFound, SameDocument DEF Awaited, TypeOf, Waits, Fresh
  <2>4. Path(stack)' /\ Begun(stack, yt)'
    <3>1. Path(stack) /\ Begun(stack, yt)
      BY DEF PathInv
    <3> QED
      BY <2>1, <2>2, <2>3, <3>1 DEF Path, Begun
  <2>5. Top' = Top
    BY <2>1 DEF Top
  <2>6. (Waits(Top)' <=> Waits(Top)) /\ Awaited(Top)' = Awaited(Top)
    BY <2>1, <2>5, SameFound, SameDocument DEF Awaited, TypeOf, Waits
  <2> QED
    BY <2>1, <2>2, <2>4, <2>6 DEF PathInv
<1> QED
  BY <1>1, <1>2, PathLoops, PathCalls, PathReturns, PathDerives, PathStays, PathMember DEF Next, Step

-----------------------------------------------------------------------------
(* What the statements say *)

\* The ranges that the chain of t gives.
Ranges(t) == {BuiltinRange[Base0(t)]} \cup {s.range : s \in Statements(t)}

\* The YangType y is what the chain of t says, but for its patterns.
Fits(y, t) ==
    /\ y.kind = Base0(t)
    /\ y.range \in Ranges(t) /\ \A r \in Ranges(t) \ {None} : y.range # None /\ y.range \subseteq r
    /\ IF y.kind = "decimal64" THEN y.digits # 0 ELSE y.digits = 0
    /\ \A s \in Statements(t) : s.digits # 0 => y.digits = s.digits
    /\ y.base = None \/ y.base \in doc.identities
    /\ y.kind = "identityref" => y.base \in {s.base : s \in Statements(t)} \ {None}
    /\ \A d \in ChainOf(t) \cap Typedefs : doc.typedef[d].default # None => y.default # None

\* When the statements of s fail on the YangType y.
LEMMA ErrorsAre ==
    ASSUME NEW s, NEW y
    PROVE  StatementErrors(s, y) # {} <=>
              \/ NeedsDigits(s, y) /\ s.digits \notin 1 .. 18
              \/ ~ IsDecimal(s, y) /\ s.digits # 0
              \/ NeedsBase(s, y) /\ s.base \notin doc.identities
              \/ s.range # None /\ ~ Narrows(s, y)
              \/ EnumErrors(NewEnumType, s.enum) # {} \/ EnumErrors(NewBitfield, s.bit) # {}
<1> DEFINE R(k) == \/ k = "digits" /\ NeedsDigits(s, y) /\ s.digits \notin 1 .. 18
                   \/ k = "digits" /\ ~ IsDecimal(s, y) /\ s.digits # 0
                   \/ k = "base" /\ NeedsBase(s, y) /\ s.base \notin doc.identities
                   \/ k = "range" /\ s.range # None /\ ~ Narrows(s, y)
                   \/ k = "enum" /\ EnumErrors(NewEnumType, s.enum) # {}
                   \/ k = "enum" /\ EnumErrors(NewBitfield, s.bit) # {}
<1>1. StatementErrors(s, y) = {k \in {"digits", "base", "range", "enum"} : R(k)}
  BY DEF StatementErrors
<1>2. StatementErrors(s, y) # {} <=> R("digits") \/ R("base") \/ R("range") \/ R("enum")
  <2> HIDE DEF R
  <2> QED
    BY <1>1
<1> QED
  BY <1>2

\* The fields that Type.resolve sets.
LEMMA RestrictedSets ==
    ASSUME NEW s, NEW y, NEW list, HasFields(y)
    PROVE  LET z == Restricted(s, y, list) IN
           /\ z.kind = y.kind /\ z.digits = Digits(s, y) /\ z.base = Base(s, y)
           /\ z.range = IF Narrows(s, y) THEN s.range ELSE y.range
           /\ z.default = y.default
  BY DEF Restricted, HasFields, Fields

\* A type statement with a base type.
LEMMA BuiltinRight ==
    ASSUME doc \in Documents, NEW t \in Types, IsBuiltin(t), NEW y, y = BuiltinType(doc.type[t].name)
    PROVE  LET s == doc.type[t] IN
           /\ ~ Overrides(s, y)
           /\ StatementErrors(s, y) # {} \/ s.ext <=> Faulty(t)
           /\ StatementErrors(s, y) = {} => \A list : Fits(Restricted(s, y, list), t)
<1> DEFINE b == doc.type[t].name
<1>1. PICK s : s = doc.type[t]
  OBVIOUS
<1>2. /\ s.prefix = "" /\ b \in Builtin /\ s.name = b /\ Base0(t) = b /\ Statements(t) = {s}
      /\ ChainOf(t) = {t} /\ ChainOf(t) \cap Types = {t} /\ ChainOf(t) \cap Typedefs = {}
  <2>1. Base0(t) = b /\ Statements(t) = {s} /\ ChainOf(t) = {t}
    BY <1>1, BaseOfBuiltin, ChainEnds
  <2>2. t \notin Typedefs
    BY DocumentTypes
  <2> QED
    BY <1>1, <2>1, <2>2 DEF IsBuiltin
<1>3. /\ HasFields(y) /\ y.kind = b /\ y.range = BuiltinRange[b] /\ y.digits = 0 /\ y.base = None
  BY DEF BuiltinType, HasFields, Fields
<1>4. /\ IsDecimal(s, y) <=> b = "decimal64"
      /\ NeedsDigits(s, y) <=> b = "decimal64"
      /\ NeedsBase(s, y) <=> s.digits = 0 /\ b = "identityref"
      /\ ~ Overrides(s, y)
  BY <1>2, <1>3 DEF IsDecimal, NeedsDigits, NeedsBase, Overrides
<1>5. s.range # None => (Narrows(s, y) <=> \A r \in Allowed(t) \ {None} : s.range \subseteq r)
  <2>1. Allowed(t) = {BuiltinRange[b]}
    BY <1>2 DEF Allowed
  <2> QED
    BY <1>3, <2>1 DEF Narrows
<1>6. \A r : r \in 1 .. 18 => r # 0
  OBVIOUS
<1>7. Faulty(t) <=>
         \/ b = "decimal64" /\ s.digits \notin 1 .. 18
         \/ s.digits # 0 /\ b # "decimal64"
         \/ b = "identityref" /\ s.base \notin doc.identities
         \/ s.range # None /\ \E r \in Allowed(t) \ {None} : ~ s.range \subseteq r
         \/ EnumErrors(NewEnumType, s.enum) # {} \/ EnumErrors(NewBitfield, s.bit) # {}
         \/ s.ext
  BY <1>1, <1>2 DEF Faulty
<1>8. StatementErrors(s, y) # {} \/ s.ext <=> Faulty(t)
  <2>1. StatementErrors(s, y) # {} <=>
              \/ b = "decimal64" /\ s.digits \notin 1 .. 18
              \/ b # "decimal64" /\ s.digits # 0
              \/ s.digits = 0 /\ b = "identityref" /\ s.base \notin doc.identities
              \/ s.range # None /\ ~ Narrows(s, y)
              \/ EnumErrors(NewEnumType, s.enum) # {} \/ EnumErrors(NewBitfield, s.bit) # {}
    BY <1>4, ErrorsAre, Zenon
  <2>2. "identityref" # "decimal64"
    OBVIOUS
  <2> HIDE DEF b
  <2> QED
    BY <1>5, <1>7, <2>1, <2>2
<1>9. ASSUME StatementErrors(s, y) = {}, NEW list PROVE Fits(Restricted(s, y, list), t)
  <2>1. PICK z : z = Restricted(s, y, list)
    OBVIOUS
  <2>2. /\ z.kind = b /\ z.digits = Digits(s, y) /\ z.base = Base(s, y)
        /\ z.range = IF Narrows(s, y) THEN s.range ELSE y.range
    BY <1>3, <2>1, RestrictedSets
  <2>3. /\ b = "decimal64" => s.digits \in 1 .. 18
        /\ b # "decimal64" => s.digits = 0
        /\ b = "identityref" /\ s.digits = 0 => s.base \in doc.identities
        /\ s.range # None => Narrows(s, y)
    BY <1>4, <1>9, ErrorsAre
  <2>4. z.digits = IF b = "decimal64" THEN s.digits ELSE 0
    BY <1>3, <1>4, <2>2, <2>3 DEF Digits
  <2>5. z.base = IF b = "identityref" THEN s.base ELSE None
    BY <1>3, <1>4, <2>2, <2>3 DEF Base
  <2>6. Ranges(t) = {BuiltinRange[b], s.range}
    BY <1>2 DEF Ranges
  <2>7. z.range \in Ranges(t) /\ \A r \in Ranges(t) \ {None} : z.range # None /\ z.range \subseteq r
    <3>1. CASE Narrows(s, y)
      <4>1. z.range = s.range /\ s.range # None
        BY <2>2, <3>1 DEF Narrows
      <4>2. BuiltinRange[b] # None => s.range \subseteq BuiltinRange[b]
        BY <1>3, <3>1 DEF Narrows
      <4> QED
        BY <2>6, <4>1, <4>2
    <3>2. CASE ~ Narrows(s, y)
      <4>1. z.range = BuiltinRange[b] /\ s.range = None
        BY <1>3, <2>2, <2>3, <3>2
      <4> QED
        BY <2>6, <4>1
    <3> QED
      BY <3>1, <3>2
  <2>8. IF z.kind = "decimal64" THEN z.digits # 0 ELSE z.digits = 0
    BY <1>6, <2>2, <2>3, <2>4
  <2>9. \A u \in Statements(t) : u.digits # 0 => z.digits = u.digits
    BY <1>2, <2>3, <2>4
  <2>10. /\ z.base = None \/ z.base \in doc.identities
         /\ z.kind = "identityref" => z.base \in {u.base : u \in Statements(t)} \ {None}
    <3>1. None \notin doc.identities
      BY DocumentsAssumption
    <3>2. b = "identityref" => s.base \in doc.identities
      <4>1. "identityref" # "decimal64"
        OBVIOUS
      <4> HIDE DEF b
      <4> QED
        BY <2>3, <4>1
    <3> QED
      BY <1>2, <2>2, <2>5, <3>1, <3>2
  <2> QED
    BY <1>2, <2>1, <2>2, <2>7, <2>8, <2>9, <2>10 DEF Fits
<1> QED
  BY <1>1, <1>4, <1>8, <1>9

\* A type statement with a typedef whose YangType y is right.
LEMMA DerivedRight ==
    ASSUME doc \in Documents, NEW t \in Types, ~ IsBuiltin(t), Defining(t) # {},
           NEW y, HasFields(y), NEW d, d = Found(t), Fits(y, TypeOf(d)), ~ Faulty(TypeOf(d)),
           doc.typedef[d].default # None => y.default # None,
           t \notin ChainOf(TypeOf(d))
    PROVE  LET s == doc.type[t] IN
           /\ Overrides(s, y) => Faulty(t)
           /\ ~ Overrides(s, y) => (StatementErrors(s, y) # {} \/ s.ext <=> Faulty(t))
           /\ ~ Overrides(s, y) /\ StatementErrors(s, y) = {} =>
                 \A list : Fits(Restricted(s, y, list), t)
<1> DEFINE u == TypeOf(d)
<1>1. PICK s : s = doc.type[t]
  OBVIOUS
<1>2. /\ d \in Typedefs /\ u \in Types /\ ChainOf(t) = {t, d} \cup ChainOf(u)
      /\ Base0(t) = Base0(u) /\ Statements(t) = {s} \cup Statements(u)
  BY <1>1, ChainGoesOn, BaseOfDerived
<1>3. t \notin Typedefs /\ d \notin Types
  BY <1>2, DocumentTypes
<1>4. s.prefix = "" => s.name \notin {"decimal64", "identityref"}
  BY <1>1, BuiltinAssumption DEF IsBuiltin
<1>5. /\ IsDecimal(s, y) <=> y.kind = "decimal64"
      /\ ~ NeedsDigits(s, y) /\ ~ NeedsBase(s, y)
      /\ Overrides(s, y) <=> y.kind = "decimal64" /\ s.digits # 0
  BY <1>4 DEF IsDecimal, NeedsDigits, NeedsBase, Overrides, Fits
<1>6. Allowed(t) = Ranges(u)
  <2>1. (ChainOf(t) \cap Types) \ {t} = ChainOf(u) \cap Types
    BY <1>2, <1>3
  <2>2. Statements(u) = {doc.type[v] : v \in ChainOf(u) \cap Types}
    BY DEF Statements
  <2>3. {doc.type[v].range : v \in ChainOf(u) \cap Types} = {w.range : w \in Statements(u)}
    BY <2>2
  <2> QED
    BY <1>2, <2>1, <2>3 DEF Allowed, Ranges
<1>7. s.range # None => (Narrows(s, y) <=> \A r \in Allowed(t) \ {None} : s.range \subseteq r)
  <2>1. y.range \in Ranges(u) /\ \A r \in Ranges(u) \ {None} : y.range # None /\ y.range \subseteq r
    BY DEF Fits
  <2> QED
    BY <1>6, <2>1 DEF Narrows
<1>8. Meant(t) # {} /\ \A v \in ChainOf(t) \cap Types : ~ IsBuiltin(v) => Meant(v) # {}
  <2>1. Meant(t) = {d}
    BY MeantIsFound
  <2>2. \A v \in ChainOf(u) \cap Types : ~ IsBuiltin(v) => Meant(v) # {}
    BY DEF Faulty
  <2> QED
    BY <1>2, <1>3, <2>1, <2>2
<1>9. Faulty(t) <=>
         \/ s.digits # 0
         \/ s.range # None /\ \E r \in Allowed(t) \ {None} : ~ s.range \subseteq r
         \/ EnumErrors(NewEnumType, s.enum) # {} \/ EnumErrors(NewBitfield, s.bit) # {}
         \/ s.ext
  BY <1>1, <1>8 DEF Faulty
<1>10. ~ Overrides(s, y) => (StatementErrors(s, y) # {} \/ s.ext <=> Faulty(t))
  <2>1. StatementErrors(s, y) # {} <=>
              \/ y.kind # "decimal64" /\ s.digits # 0
              \/ s.range # None /\ ~ Narrows(s, y)
              \/ EnumErrors(NewEnumType, s.enum) # {} \/ EnumErrors(NewBitfield, s.bit) # {}
    BY <1>5, ErrorsAre, Zenon
  <2> QED
    BY <1>5, <1>7, <1>9, <2>1
<1>11. Overrides(s, y) => Faulty(t)
  BY <1>5, <1>9
<1>12. ASSUME ~ Overrides(s, y), StatementErrors(s, y) = {}, NEW list
       PROVE  Fits(Restricted(s, y, list), t)
  <2>1. PICK z : z = Restricted(s, y, list)
    OBVIOUS
  <2>2. /\ z.kind = y.kind /\ z.digits = Digits(s, y) /\ z.base = Base(s, y)
        /\ z.range = IF Narrows(s, y) THEN s.range ELSE y.range
        /\ z.default = y.default
    BY <2>1, RestrictedSets
  <2>3. s.digits = 0 /\ (s.range # None => Narrows(s, y))
    BY <1>5, <1>12, ErrorsAre
  <2>4. z.digits = y.digits /\ z.base = y.base
    BY <1>5, <2>2 DEF Digits, Base
  <2>5. Ranges(t) = {s.range} \cup Ranges(u)
    BY <1>2 DEF Ranges
  <2>6. y.range \in Ranges(u) /\ \A r \in Ranges(u) \ {None} : y.range # None /\ y.range \subseteq r
    BY DEF Fits
  <2>7. z.range \in Ranges(t) /\ \A r \in Ranges(t) \ {None} : z.range # None /\ z.range \subseteq r
    BY <2>2, <2>3, <2>5, <2>6 DEF Narrows
  <2>8. \A w \in Statements(t) : w.digits # 0 => z.digits = w.digits
    BY <1>2, <2>3, <2>4 DEF Fits
  <2>9. \A e \in ChainOf(t) \cap Typedefs : doc.typedef[e].default # None => z.default # None
    BY <1>2, <1>3, <2>2 DEF Fits
  <2>10. z.kind = "identityref" => z.base \in {w.base : w \in Statements(t)} \ {None}
    BY <1>2, <2>2, <2>4 DEF Fits
  <2>11. /\ z.kind = Base0(t) /\ IF z.kind = "decimal64" THEN z.digits # 0 ELSE z.digits = 0
         /\ z.base = None \/ z.base \in doc.identities
    BY <1>2, <2>2, <2>4 DEF Fits
  <2> QED
    BY <2>1, <2>7, <2>8, <2>9, <2>10, <2>11 DEF Fits
<1> QED
  BY <1>1, <1>10, <1>11, <1>12

\* The YangType of a typedef whose type is right.
LEMMA TypedefRight ==
    ASSUME doc \in Documents, NEW d \in Typedefs, HasFields(yt[TypeOf(d)]),
           Fits(yt[TypeOf(d)], TypeOf(d))
    PROVE  LET z == TypedefType(d) IN
           /\ z.base # None /\ z.base \notin doc.identities <=> FaultyTypedef(d)
           /\ ~ FaultyTypedef(d) => Fits(z, TypeOf(d)) /\ Fits([z EXCEPT !.root = d], TypeOf(d))
           /\ doc.typedef[d].default # None => z.default # None /\ [z EXCEPT !.root = d].default # None
<1>1. PICK y, s : y = yt[TypeOf(d)] /\ s = doc.type[TypeOf(d)]
  OBVIOUS
<1>2. PICK z : z = TypedefType(d)
  OBVIOUS
<1>3. z = [y EXCEPT !.default = IF doc.typedef[d].default # None THEN doc.typedef[d].default ELSE @,
                    !.base = IF s.base # None THEN s.base ELSE @]
  BY <1>1, <1>2 DEF TypedefType, TypeOf
<1>4. /\ z.kind = y.kind /\ z.range = y.range /\ z.digits = y.digits /\ HasFields(z)
      /\ z.base = IF s.base # None THEN s.base ELSE y.base
      /\ z.default = IF doc.typedef[d].default # None THEN doc.typedef[d].default ELSE y.default
  <2> HIDE DEF TypeOf
  <2> QED
    BY <1>1, <1>3 DEF HasFields, Fields
<1>5. PICK v : v = [z EXCEPT !.root = d]
  OBVIOUS
<1>6. /\ v.kind = z.kind /\ v.range = z.range /\ v.digits = z.digits /\ v.base = z.base
      /\ v.default = z.default
  BY <1>4, <1>5 DEF HasFields, Fields
<1>7. FaultyTypedef(d) <=> s.base # None /\ s.base \notin doc.identities
  BY <1>1 DEF FaultyTypedef, TypeOf
<1>8. z.base # None /\ z.base \notin doc.identities <=> FaultyTypedef(d)
  BY <1>1, <1>4, <1>7 DEF Fits
<1>9. s \in Statements(TypeOf(d))
  <2>1. TypeOf(d) \in Types
    BY DocumentTypes
  <2>2. TypeOf(d) \in ChainOf(TypeOf(d))
    BY <2>1, ChainIsLeast
  <2> QED
    BY <1>1, <2>1, <2>2 DEF Statements
<1>10. ASSUME ~ FaultyTypedef(d) PROVE Fits(z, TypeOf(d))
  <2>1. z.kind = "identityref" => z.base \in {w.base : w \in Statements(TypeOf(d))} \ {None}
    BY <1>1, <1>4, <1>9 DEF Fits
  <2>2. z.base = None \/ z.base \in doc.identities
    BY <1>8, <1>10
  <2>3. \A e \in ChainOf(TypeOf(d)) \cap Typedefs : doc.typedef[e].default # None => z.default # None
    BY <1>1, <1>4 DEF Fits
  <2> QED
    BY <1>1, <1>4, <2>1, <2>2, <2>3 DEF Fits
<1>11. ~ FaultyTypedef(d) => Fits(v, TypeOf(d))
  BY <1>6, <1>10 DEF Fits
<1> QED
  BY <1>2, <1>4, <1>5, <1>6, <1>8, <1>10, <1>11

-----------------------------------------------------------------------------
(* The first Process *)

\* Something is wrong with a typedef, its type or the type of a leaf.
Wrong ==
    \/ \E d \in Typedefs : FaultyTypedef(d)
    \/ \E t \in TypedefTypes \cup LeafTypes : Faulty(t)

\* An error has been returned, or waits in a call.
Kept(s) == \E i \in DOMAIN s : s[i].errs # {}
\* An error is on its way to the errors of this Process, or there.
Erred == errs # {} \/ ret # {} \/ Kept(stack)

\* A type that has been resolved is what its chain says, of which all has been resolved.
Right(t) ==
    /\ ~ Faulty(t) /\ Fits(yt[t], t)
    /\ \A p \in ChainOf(t) : yt[p] # None
    /\ ~ IsBuiltin(t) => t \notin ChainOf(TypeOf(Found(t)))
\* A typedef that has been resolved is what its type is, with its own default.
RightTypedef(d) ==
    /\ ~ FaultyTypedef(d) /\ Fits(yt[d], TypeOf(d)) /\ yt[TypeOf(d)] # None
    /\ doc.typedef[d].default # None => yt[d].default # None
\* What has been resolved is right.
RightInv ==
    /\ \A t \in Types : yt[t] # None => Right(t)
    /\ \A d \in Typedefs : yt[d] # None => RightTypedef(d)

\* The members of a union that has been made are resolved, or will be.
Pending(s, t, k) == \E i \in DOMAIN s : s[i].of = t /\ 0 < s[i].n /\ s[i].n <= k

\* The member k of the union t.
MemberOf(t, k) == doc.type[t].members[k]

\* Members of what has been made are made, or a call is going to.
MembersInv ==
    /\ \A t \in Types : yt[t] # None =>
          \A k \in DOMAIN doc.type[t].members : yt[MemberOf(t, k)] # None \/ Pending(stack, t, k)
    /\ \A i \in DOMAIN stack : \A k \in 1 .. stack[i].n - 1 :
          /\ k \in DOMAIN doc.type[stack[i].of].members
          /\ yt[MemberOf(stack[i].of, k)] # None

\* What the loop has passed is resolved, or being resolved.
InProgress(x) ==
    IF stack = <<>> THEN pc = "enter" /\ enter = x ELSE stack[1].of = x

\* What the loops of Process have to come to until now.
Met == IF loop = "leaves" THEN Typedefs \cup doc.leaves ELSE Typedefs

\* The loops of Process pass over nothing.
ComeInv ==
    /\ \A x \in Met : yt[x] # None \/ InProgress(x) \/ x \in todo
    /\ pc = "idle" => loop = "leaves" /\ todo = {}

\* What a call has waited for is resolved.
AwaitInv == pc = "return" /\ stack # <<>> => yt[Awaited(Top)] # None

\* What holds as long as there has been no error.
Good == RightInv /\ MembersInv /\ ComeInv /\ AwaitInv

\* The invariant: there is an error only if something is wrong, and until there is one all
\* that has been resolved is right.
FaultInv == calls = 1 /\ ~ doc.ignore /\ pc # "panic" => IF Erred THEN Wrong ELSE Good

\* What is wrong, and what fits, depends on the document alone.
LEMMA SameRight ==
    ASSUME doc' = doc
    PROVE  /\ \A t : Faulty(t)' <=> Faulty(t)
           /\ \A d : FaultyTypedef(d)' <=> FaultyTypedef(d)
           /\ \A y, t : Fits(y, t)' <=> Fits(y, t)
           /\ Wrong' <=> Wrong
           /\ \A d : TypeOf(d)' = TypeOf(d)
           /\ \A t, k : MemberOf(t, k)' = MemberOf(t, k)
           /\ \A f : Awaited(f)' = Awaited(f)
<1>1. \A t : Allowed(t)' = Allowed(t) /\ Ranges(t)' = Ranges(t)
  BY SameChains, SameDocument DEF Allowed, Ranges
<1>2. \A t : Faulty(t)' <=> Faulty(t)
  <2> SUFFICES ASSUME NEW t PROVE Faulty(t)' <=> Faulty(t)
    OBVIOUS
  <2>1. (\E u \in ChainOf(t) \cap Types : ~ IsBuiltin(u) /\ Meant(u) = {})' <=>
        (\E u \in ChainOf(t) \cap Types : ~ IsBuiltin(u) /\ Meant(u) = {})
    BY SameChains, SameFound, SameDocument
  <2>2. (~ IsBuiltin(t) /\ Meant(t) = {})' <=> ~ IsBuiltin(t) /\ Meant(t) = {}
    BY SameFound
  <2>3. Base0(t)' = Base0(t) /\ Allowed(t)' = Allowed(t) /\ (IsBuiltin(t)' <=> IsBuiltin(t))
    BY <1>1, SameChains, SameFound
  <2> QED
    BY <2>1, <2>2, <2>3, Zenon DEF Faulty
<1>3. \A d : (FaultyTypedef(d)' <=> FaultyTypedef(d)) /\ TypeOf(d)' = TypeOf(d)
  BY DEF FaultyTypedef, TypeOf
<1>4. \A y, t : Fits(y, t)' <=> Fits(y, t)
  <2> SUFFICES ASSUME NEW y, NEW t PROVE Fits(y, t)' <=> Fits(y, t)
    OBVIOUS
  <2>1. /\ Base0(t)' = Base0(t) /\ Ranges(t)' = Ranges(t) /\ Statements(t)' = Statements(t)
        /\ ChainOf(t)' = ChainOf(t) /\ Typedefs' = Typedefs
    BY <1>1, SameChains, SameDocument
  <2> QED
    BY <2>1, Zenon DEF Fits
<1>5. Wrong' <=> Wrong
  BY <1>2, <1>3, SameChains, SameDocument DEF Wrong
<1>6. \A t, k : MemberOf(t, k)' = MemberOf(t, k)
  BY DEF MemberOf
<1>7. \A f : Awaited(f)' = Awaited(f)
  BY SameFound, SameDocument DEF Awaited, TypeOf
<1> QED
  BY <1>2, <1>3, <1>4, <1>5, <1>6, <1>7

\* Nothing is found exactly if no scope defines the name.
LEMMA FoundNone ==
    ASSUME doc \in Documents, NEW t \in Types
    PROVE  Found(t) = None <=> Defining(t) = {}
<1>1. None \notin Typedefs
  BY DocumentsAssumption DEF Typedefs
<1>2. Defining(t) # {} => Found(t) \in Typedefs
  BY FoundIsTypedef
<1> QED
  BY <1>1, <1>2 DEF Found

\* What is wrong with what Process comes to is wrong.
LEMMA FaultyIsWrong ==
    ASSUME NEW t \in Subject, doc \in Documents, t \in Types, Faulty(t)
    PROVE  Wrong
<1>1. t \in TypedefTypes \cup LeafTypes
  BY DocumentTypes DEF Subject
<1> QED
  BY <1>1 DEF Wrong

\* A type or a typedef that is right after a step.
LEMMA RightAfter ==
    ASSUME doc' = doc, NEW t \in Types, ~ Faulty(t), Fits(yt'[t], t),
           \A p \in ChainOf(t) : yt'[p] # None,
           ~ IsBuiltin(t) => t \notin ChainOf(TypeOf(Found(t)))
    PROVE  Right(t)'
<1>1. ChainOf(t)' = ChainOf(t) /\ (IsBuiltin(t)' <=> IsBuiltin(t))
  BY SameChains, SameFound
<1>2. ChainOf(TypeOf(Found(t)))' = ChainOf(TypeOf(Found(t)))
  <2>1. TypeOf(Found(t))' = TypeOf(Found(t))
    BY SameFound DEF TypeOf
  <2> QED
    BY <2>1, SameChains
<1>3. Fits(yt[t], t)'
  <2>1. Base0(t)' = Base0(t) /\ Ranges(t)' = Ranges(t) /\ Statements(t)' = Statements(t)
    BY SameChains, SameDocument DEF Ranges
  <2> QED
    BY <1>1, <2>1, SameDocument, Zenon DEF Fits
<1> QED
  BY <1>1, <1>2, <1>3, SameRight DEF Right

\* A typedef is right after a step in which its YangType fits.
LEMMA RightTypedefAfter ==
    ASSUME doc' = doc, NEW d \in Typedefs, ~ FaultyTypedef(d), Fits(yt'[d], TypeOf(d)),
           yt'[TypeOf(d)] # None, doc.typedef[d].default # None => yt'[d].default # None
    PROVE  RightTypedef(d)'
<1>1. PICK u : u = TypeOf(d)
  OBVIOUS
<1>2. TypeOf(d)' = u /\ (FaultyTypedef(d)' <=> FaultyTypedef(d))
  BY <1>1, SameRight
<1>3. /\ Base0(TypeOf(d))' = Base0(u) /\ Ranges(TypeOf(d))' = Ranges(u)
      /\ Statements(TypeOf(d))' = Statements(u) /\ ChainOf(TypeOf(d))' = ChainOf(u)
  BY <1>2, SameChains, SameDocument DEF Ranges
<1>4. Fits(yt[d], TypeOf(d))'
  BY <1>1, <1>3, SameDocument, Zenon DEF Fits
<1> QED
  BY <1>1, <1>2, <1>4 DEF RightTypedef

\* What is right stays right as long as it is not made again.
LEMMA RightStays ==
    ASSUME doc' = doc, doc \in Documents, \A p \in Holders : yt[p] # None => yt'[p] # None
    PROVE  /\ \A t \in Types : Right(t) /\ yt'[t] = yt[t] => Right(t)'
           /\ \A d \in Typedefs : RightTypedef(d) /\ yt'[d] = yt[d] => RightTypedef(d)'
<1>1. \A t \in Types : ChainOf(t) \subseteq Holders
  BY ChainIsLeast DEF Holders
<1>2. \A d \in Typedefs : TypeOf(d) \in Holders
  BY DocumentTypes DEF Holders
<1>3. ASSUME NEW t \in Types, Right(t), yt'[t] = yt[t] PROVE Right(t)'
  <2>1. \A p \in ChainOf(t) : yt'[p] # None
    BY <1>1, <1>3 DEF Right
  <2> QED
    BY <1>3, <2>1, RightAfter DEF Right
<1>4. ASSUME NEW d \in Typedefs, RightTypedef(d), yt'[d] = yt[d] PROVE RightTypedef(d)'
  BY <1>2, <1>4, RightTypedefAfter DEF RightTypedef
<1> QED
  BY <1>3, <1>4

-----------------------------------------------------------------------------
(* Errors are kept until they are returned to Process *)

\* A new call adds its errors.
LEMMA KeptPush ==
    ASSUME NEW s \in Seq(Frames), NEW f
    PROVE  Kept(Append(s, f)) <=> Kept(s) \/ f.errs # {}
<1>1. PICK r : r = Append(s, f)
  OBVIOUS
<1>2. /\ DOMAIN r = DOMAIN s \cup {Len(s) + 1} /\ r[Len(s) + 1] = f
      /\ \A i \in DOMAIN s : r[i] = s[i]
  BY <1>1
<1>3. Kept(r) <=> Kept(s) \/ f.errs # {}
  BY <1>2 DEF Kept
<1> QED
  BY <1>1, <1>3

\* The call that returns takes its errors along.
LEMMA KeptPop ==
    ASSUME NEW s \in Seq(Frames), s # <<>>
    PROVE  Kept(s) <=> Kept(Front(s)) \/ Last(s).errs # {}
<1>1. PICK r : r = Front(s)
  OBVIOUS
<1>2. /\ \A i \in DOMAIN r : i \in DOMAIN s /\ r[i] = s[i]
      /\ \A i \in DOMAIN s : i = Len(s) \/ i \in DOMAIN r
      /\ Len(s) \in DOMAIN s /\ Last(s) = s[Len(s)]
  BY <1>1, FrontIs
<1>3. Kept(s) <=> Kept(r) \/ Last(s).errs # {}
  BY <1>2 DEF Kept
<1> QED
  BY <1>1, <1>3

\* The last call may get errors.
LEMMA KeptTurn ==
    ASSUME NEW s \in Seq(Frames), s # <<>>, NEW f
    PROVE  Kept([s EXCEPT ![Len(s)] = f]) <=> Kept(Front(s)) \/ f.errs # {}
<1>1. PICK r, q : r = [s EXCEPT ![Len(s)] = f] /\ q = Front(s)
  OBVIOUS
<1>2. /\ \A i \in DOMAIN q : i \in DOMAIN s /\ i < Len(s) /\ q[i] = s[i]
      /\ \A i \in DOMAIN s : i = Len(s) \/ i \in DOMAIN q
      /\ Len(s) \in DOMAIN s
  BY <1>1, FrontIs
<1>3. DOMAIN r = DOMAIN s /\ r[Len(s)] = f /\ \A i \in DOMAIN q : i # Len(s) /\ r[i] = q[i]
  <2>1. \A i \in DOMAIN q : i # Len(s)
    BY <1>2
  <2> QED
    BY <1>1, <1>2, <2>1
<1>4. Kept(r) <=> Kept(q) \/ f.errs # {}
  BY <1>2, <1>3 DEF Kept
<1> QED
  BY <1>1, <1>4

\* What Type.resolve does to the calls once it has made the YangType.
LEMMA DerivesCalls ==
    ASSUME StateInv, PathInv, NEW t \in Types, NEW y, NEW frames \in Seq(Frames), Derive(t, y, frames)
    PROVE  LET s == doc.type[t]
               e == Tagged(t, StatementErrors(s, y))
               f == [of |-> t, n |-> 1, errs |-> e]
           IN  \/ Overrides(s, y) /\ stack' = frames /\ pc' = "return" /\ ret' # {}
               \/ ~ Overrides(s, y) /\ s.ext /\ stack' = frames /\ pc' = "return" /\ ret' # {}
               \/ /\ ~ Overrides(s, y) /\ ~ s.ext /\ stack' = Append(frames, f) /\ pc' = "members"
                  /\ ret' = ret /\ (e = {} <=> StatementErrors(s, y) = {})
<1> DEFINE s == doc.type[t]
           e == StatementErrors(s, y)
<1>1. \A S : Tagged(t, S) = {} <=> S = {}
  BY DEF Tagged
<1>2. Tagged(t, {"digits"}) # {} /\ Tagged(t, ErrorAlone(e)) # {}
  BY <1>1 DEF ErrorAlone
<1>3. CASE Overrides(s, y)
  BY <1>2, <1>3 DEF Derive, Returns
<1>4. CASE ~ Overrides(s, y) /\ s.ext
  BY <1>2, <1>4 DEF Derive, Returns
<1>5. CASE ~ Overrides(s, y) /\ ~ s.ext
  <2>1. stack' = Append(frames, [of |-> t, n |-> 1, errs |-> Tagged(t, e)]) /\ pc' = "members"
          /\ ret' = ret
    BY <1>5 DEF Derive
  <2>2. Tagged(t, e) = {} <=> e = {}
    BY <1>1
  <2> QED
    BY <1>5, <2>1, <2>2
<1> QED
  BY <1>3, <1>4, <1>5

\* An error is not forgotten.
LEMMA ErredStays ==
    ASSUME StateInv, TypedInv, PathInv, Step, Erred
    PROVE  Erred'
<1>1. stack \in Seq(Frames)
  BY DEF StateInv, CallsInv
<1>2. CASE Resolve \/ EndTypedefs \/ EndLeaves \/ Member
  <2>1. errs' = errs /\ ret' = ret /\ stack' = stack
    BY <1>2 DEF Resolve, EndTypedefs, EndLeaves, Member
  <2> QED
    BY <2>1 DEF Erred, Kept
<1>3. CASE AlreadyResolved \/ UnknownType
  <2>1. errs' = errs /\ ret = {} /\ stack' = stack
    BY <1>3 DEF AlreadyResolved, UnknownType, PathInv
  <2> QED
    BY <2>1 DEF Erred, Kept
<1>4. CASE EnterTypedef \/ EnterType
  <2>1. errs' = errs /\ ret' = ret /\ stack' = Append(stack, [of |-> enter, n |-> 0, errs |-> {}])
    BY <1>4 DEF EnterTypedef, EnterType, Push
  <2>2. Kept(stack) => Kept(stack')
    BY <1>1, <2>1, KeptPush
  <2>3. Kept(stack)' <=> Kept(stack')
    BY DEF Kept
  <2> QED
    BY <2>1, <2>2, <2>3 DEF Erred
<1>5. CASE EnterBuiltin \/ TypeFound
  <2>1. PICK t \in Types, b \in Builtin \cup Typedefs, frames \in {stack, Front(stack)} :
           /\ yt[b] # None /\ Derive(t, yt[b], frames)
           /\ \/ EnterBuiltin /\ frames = stack
              \/ TypeFound /\ frames = Front(stack) /\ stack # <<>>
    BY <1>5, DeriveSteps
  <2>2. errs' = errs /\ ret = {}
    BY <1>5 DEF EnterBuiltin, TypeFound, Waiting, PathInv
  <2>3. frames \in Seq(Frames) /\ (Kept(stack) => Kept(frames))
    <3>1. CASE TypeFound /\ frames = Front(stack) /\ stack # <<>>
      <4>1. Top.errs = {}
        BY <3>1, TopIs DEF TypeFound, Waiting
      <4> QED
        BY <1>1, <3>1, <4>1, KeptPop, FrontIs DEF Top
    <3> QED
      BY <1>1, <2>1, <3>1
  <2>4. \/ ret' # {}
        \/ \E f : stack' = Append(frames, f)
    BY <2>1, <2>3, DerivesCalls
  <2>5. Kept(stack') <=> Kept(stack)'
    BY DEF Kept
  <2> QED
    BY <2>2, <2>3, <2>4, <2>5, KeptPush DEF Erred
<1>6. CASE Collect
  <2>1. errs' = errs \cup ret /\ stack' = stack
    BY <1>6 DEF Collect
  <2> QED
    BY <2>1 DEF Erred, Kept
<1>7. CASE Fail \/ TypedefResolved \/ Ignored
  <2>1. errs' = errs /\ stack' = Front(stack) /\ stack # <<>> /\ Top.n = 0 /\ (ret # {} => ret' = ret)
    BY <1>7 DEF Fail, TypedefResolved, Ignored, Waiting
  <2>2. Kept(stack) => Kept(stack')
    BY <1>1, <2>1, TopIs, KeptPop DEF Top
  <2>3. Kept(stack)' <=> Kept(stack')
    BY DEF Kept
  <2> QED
    BY <2>1, <2>2, <2>3 DEF Erred
<1>8. CASE MemberReturns
  <2>1. PICK f : stack' = [stack EXCEPT ![Len(stack)] = f] /\ f.errs = Top.errs \cup ret
    BY <1>8, MemberReturnsTyped, PathMember
  <2>2. stack # <<>> /\ errs' = errs
    BY <1>8 DEF MemberReturns
  <2>5. Last(stack).errs # {} \/ ret # {} => f.errs # {}
    BY <2>1 DEF Top
  <2>6. Kept(stack') <=> Kept(Front(stack)) \/ f.errs # {}
    BY <1>1, <2>1, <2>2, KeptTurn
  <2>3. Kept(stack) \/ ret # {} => Kept(stack')
    BY <1>1, <2>2, <2>5, <2>6, KeptPop
  <2>4. Kept(stack)' <=> Kept(stack')
    BY DEF Kept
  <2> QED
    BY <2>2, <2>3, <2>4 DEF Erred
<1>9. CASE TypeResolved
  <2>1. errs' = errs /\ ret = {} /\ ret' = Top.errs /\ stack' = Front(stack) /\ stack # <<>>
    BY <1>9 DEF TypeResolved, Returns, PathInv, StateInv
  <2>2. Kept(stack) => Kept(stack') \/ ret' # {}
    BY <1>1, <2>1, KeptPop DEF Top
  <2>3. Kept(stack)' <=> Kept(stack')
    BY DEF Kept
  <2> QED
    BY <2>1, <2>2, <2>3 DEF Erred
<1> QED
  BY <1>2, <1>3, <1>4, <1>5, <1>6, <1>7, <1>8, <1>9 DEF Step

-----------------------------------------------------------------------------
(* What a step without errors keeps *)

\* The same calls resolve members of unions.
SameUnions(s, r) ==
    /\ \A i \in DOMAIN s : s[i].n > 0 =>
          \E j \in DOMAIN r : r[j].of = s[i].of /\ r[j].n = s[i].n
    /\ \A j \in DOMAIN r : r[j].n > 1 =>
          \E i \in DOMAIN s : s[i].of = r[j].of /\ s[i].n = r[j].n

\* A call of a typedef or type is no union with members yet.
LEMMA SameUnionsPush ==
    ASSUME NEW s \in Seq(Frames), NEW f, f.n \in {0, 1}
    PROVE  SameUnions(s, Append(s, f))
<1>1. PICK r : r = Append(s, f)
  OBVIOUS
<1>2. /\ DOMAIN r = DOMAIN s \cup {Len(s) + 1} /\ r[Len(s) + 1] = f
      /\ \A i \in DOMAIN s : r[i] = s[i]
  BY <1>1
<1>3. ~ (f.n > 1)
  OBVIOUS
<1> QED
  BY <1>1, <1>2, <1>3 DEF SameUnions

\* Nor is one that returns before it has come to its members.
LEMMA SameUnionsPop ==
    ASSUME NEW s \in Seq(Frames), s # <<>>, Last(s).n = 0
    PROVE  SameUnions(s, Front(s))
<1>1. PICK r : r = Front(s)
  OBVIOUS
<1>2. /\ \A i \in DOMAIN r : i \in DOMAIN s /\ r[i] = s[i]
      /\ \A i \in DOMAIN s : i = Len(s) \/ i \in DOMAIN r
      /\ Len(s) \in DOMAIN s /\ Last(s) = s[Len(s)]
  BY <1>1, FrontIs
<1>3. ~ (s[Len(s)].n > 0)
  BY <1>2
<1> QED
  BY <1>1, <1>2, <1>3 DEF SameUnions

\* Members are resolved or awaited after a step that leaves only calls behind that have
\* come to the end of a union, or whose member is resolved.
LEMMA MembersAfter ==
    ASSUME StateInv, MembersInv, doc' = doc, \A p \in Holders : yt[p] # None => yt'[p] # None,
           stack' \in Seq(Frames),
           \A t \in Types : yt'[t] # None =>
              yt[t] # None \/ \A k \in DOMAIN doc.type[t].members : Pending(stack', t, k),
           \A t \in Types : \A k \in DOMAIN doc.type[t].members : Pending(stack, t, k) =>
              Pending(stack', t, k) \/ yt'[MemberOf(t, k)] # None,
           \A j \in DOMAIN stack' : \A k \in 1 .. stack'[j].n - 1 :
              \/ \E i \in DOMAIN stack : stack[i].of = stack'[j].of /\ k \in 1 .. stack[i].n - 1
              \/ k \in DOMAIN doc.type[stack'[j].of].members /\ yt'[MemberOf(stack'[j].of, k)] # None
    PROVE  MembersInv'
<1>1. /\ Types' = Types /\ doc \in Documents /\ \A t, k : MemberOf(t, k)' = MemberOf(t, k)
      /\ \A t \in Types : doc.type[t].members \in Seq(Types)
  BY SameDocument, SameRight, DocumentTypes DEF StateInv
<1>2. \A t \in Types : \A k \in DOMAIN doc.type[t].members : MemberOf(t, k) \in Holders
  BY <1>1 DEF MemberOf, Holders
<1>3. ASSUME NEW t \in Types, yt'[t] # None, NEW k \in DOMAIN doc.type[t].members
      PROVE  yt'[MemberOf(t, k)] # None \/ Pending(stack', t, k)
  <2>1. CASE yt[t] # None
    <3>1. yt[MemberOf(t, k)] # None \/ Pending(stack, t, k)
      BY <2>1 DEF MembersInv
    <3> QED
      BY <1>2, <3>1
  <2>2. CASE yt[t] = None
    BY <1>3, <2>2
  <2> QED
    BY <2>1, <2>2
<1>4. ASSUME NEW j \in DOMAIN stack', NEW k \in 1 .. stack'[j].n - 1
      PROVE  /\ k \in DOMAIN doc.type[stack'[j].of].members
             /\ yt'[MemberOf(stack'[j].of, k)] # None
  <2>1. ASSUME NEW i \in DOMAIN stack, stack[i].of = stack'[j].of, k \in 1 .. stack[i].n - 1
        PROVE  /\ k \in DOMAIN doc.type[stack'[j].of].members
               /\ yt'[MemberOf(stack'[j].of, k)] # None
    <3>1. k \in DOMAIN doc.type[stack[i].of].members /\ yt[MemberOf(stack[i].of, k)] # None
      BY <2>1 DEF MembersInv
    <3>2. stack[i].of \in Types
      <4>1. stack[i] \in Frames /\ FrameInv(stack[i])
        BY DEF StateInv, CallsInv
      <4>2. stack[i].n \in Nat
        BY <4>1 DEF Frames
      <4>3. stack[i].n > 0
        BY <2>1, <4>2
      <4> QED
        BY <4>1, <4>3 DEF FrameInv
    <3>3. yt'[MemberOf(stack[i].of, k)] # None
      BY <1>2, <3>1, <3>2
    <3> QED
      BY <2>1, <3>1, <3>3
  <2> QED
    BY <2>1
<1> QED
  BY <1>1, <1>3, <1>4 DEF MembersInv, Pending

\* The members of unions stay resolved, or awaited by the same unions.
LEMMA MembersStay ==
    ASSUME StateInv, MembersInv, doc' = doc, \A p \in Holders : yt[p] # None => yt'[p] # None,
           \A t \in Types : yt'[t] # None =>
              yt[t] # None \/ \A k \in DOMAIN doc.type[t].members : Pending(stack', t, k),
           stack' \in Seq(Frames), SameUnions(stack, stack')
    PROVE  MembersInv'
<1>1. ASSUME NEW t \in Types, NEW k \in DOMAIN doc.type[t].members, Pending(stack, t, k)
      PROVE  Pending(stack', t, k)
  <2>1. PICK i \in DOMAIN stack : stack[i].of = t /\ 0 < stack[i].n /\ stack[i].n <= k
    BY <1>1 DEF Pending
  <2>2. stack[i].n > 0
    BY <2>1
  <2>3. PICK j \in DOMAIN stack' : stack'[j].of = stack[i].of /\ stack'[j].n = stack[i].n
    BY <2>2 DEF SameUnions
  <2>4. stack'[j].of = t /\ 0 < stack'[j].n /\ stack'[j].n <= k
    BY <2>1, <2>3
  <2> QED
    BY <2>3, <2>4 DEF Pending
<1>2. ASSUME NEW j \in DOMAIN stack', NEW k \in 1 .. stack'[j].n - 1
      PROVE  \E i \in DOMAIN stack : stack[i].of = stack'[j].of /\ k \in 1 .. stack[i].n - 1
  <2>1. stack'[j].n > 1
    <3>1. stack'[j] \in Frames
      OBVIOUS
    <3>2. stack'[j].n \in Nat
      BY <3>1 DEF Frames
    <3> QED
      BY <3>2
  <2>2. PICK i \in DOMAIN stack : stack[i].of = stack'[j].of /\ stack[i].n = stack'[j].n
    BY <2>1 DEF SameUnions
  <2> QED
    BY <2>2
<1> QED
  BY <1>1, <1>2, MembersAfter

\* The call that the loop has made.
Bottom(s, x) == s # <<>> /\ s[1].of = x

\* The call of the loop stays the first when another is made.
LEMMA BottomPush ==
    ASSUME NEW s \in Seq(Frames), NEW f, NEW x
    PROVE  /\ Bottom(s, x) => Bottom(Append(s, f), x)
           /\ s = <<>> => Bottom(Append(s, f), f.of)
<1>1. PICK r : r = Append(s, f)
  OBVIOUS
<1>2. r # <<>> /\ (s # <<>> => r[1] = s[1]) /\ (s = <<>> => r[1] = f)
  BY <1>1
<1> QED
  BY <1>1, <1>2 DEF Bottom

\* It stays the first until it returns itself.
LEMMA BottomPop ==
    ASSUME NEW s \in Seq(Frames), s # <<>>, NEW x, Bottom(s, x)
    PROVE  x = Last(s).of \/ Bottom(Front(s), x)
<1>1. PICK r : r = Front(s)
  OBVIOUS
<1>2. /\ r \in Seq(Frames) /\ \A i \in DOMAIN r : r[i] = s[i]
      /\ \A i \in DOMAIN s : i = Len(s) \/ i \in DOMAIN r
      /\ Last(s) = s[Len(s)]
  BY <1>1, FrontIs
<1>3. 1 \in DOMAIN s
  OBVIOUS
<1>4. CASE 1 = Len(s)
  BY <1>2, <1>4 DEF Bottom
<1>5. CASE 1 \in DOMAIN r
  <2>1. r # <<>> /\ r[1] = s[1]
    BY <1>2, <1>5
  <2> QED
    BY <1>1, <2>1 DEF Bottom
<1> QED
  BY <1>2, <1>3, <1>4, <1>5

\* It stays the first when the last call goes on.
LEMMA BottomTurn ==
    ASSUME NEW s \in Seq(Frames), s # <<>>, NEW f \in Frames, f.of = Last(s).of, NEW x, Bottom(s, x)
    PROVE  Bottom([s EXCEPT ![Len(s)] = f], x)
<1>1. PICK r : r = [s EXCEPT ![Len(s)] = f]
  OBVIOUS
<1>2. 1 \in DOMAIN s /\ Len(s) \in DOMAIN s /\ Last(s) = s[Len(s)]
  <2>1. Len(s) \in DOMAIN s /\ Last(s) = s[Len(s)]
    BY FrontIs
  <2>2. 1 \in DOMAIN s
    OBVIOUS
  <2> QED
    BY <2>1, <2>2
<1>3. r[1].of = s[1].of
  BY <1>1, <1>2
<1>4. r # <<>>
  <2>1. DOMAIN r = DOMAIN s
    BY <1>1
  <2> QED
    BY <1>2, <2>1
<1> QED
  BY <1>1, <1>3, <1>4 DEF Bottom

\* What the loop has passed stays resolved, or in progress.
LEMMA ComeAfter ==
    ASSUME StateInv, ComeInv, doc' = doc, \A p \in Holders : yt[p] # None => yt'[p] # None,
           loop' = loop, todo' = todo, pc' # "idle",
           \A x : InProgress(x) => InProgress(x)' \/ yt'[x] # None
    PROVE  ComeInv'
<1>1. Met' = Met /\ Met \subseteq Holders
  BY SameDocument, DocumentTypes DEF StateInv, Met, Holders
<1>2. ASSUME NEW x \in Met PROVE yt'[x] # None \/ InProgress(x)' \/ x \in todo'
  BY <1>1, <1>2 DEF ComeInv
<1> QED
  BY <1>1, <1>2 DEF ComeInv

\* What is right stays so while no YangType changes.
LEMMA RightSame ==
    ASSUME StateInv, RightInv, doc' = doc, yt' = yt
    PROVE  RightInv'
<1>1. Types' = Types /\ Typedefs' = Typedefs /\ doc \in Documents
  BY SameDocument DEF StateInv
<1>2. /\ \A t \in Types : Right(t) => Right(t)'
      /\ \A d \in Typedefs : RightTypedef(d) => RightTypedef(d)'
  BY <1>1, RightStays
<1> QED
  BY <1>1, <1>2 DEF RightInv

-----------------------------------------------------------------------------
(* The steps without errors *)

\* Before the step there has been no error.
Before == StateInv /\ TypedInv /\ PathInv /\ Good /\ ~ Erred /\ ~ doc.ignore
\* After it either something is wrong, or all is still good.
Outcome == IF Erred' THEN Wrong ELSE Good'

\* Without an error no call has one.
LEMMA NoErrors ==
    ASSUME ~ Erred
    PROVE  errs = {} /\ ret = {} /\ ~ Kept(stack) /\ \A i \in DOMAIN stack : stack[i].errs = {}
  BY DEF Erred, Kept

\* The loops of Process return no error that has not been found.
LEMMA FaultLoops ==
    ASSUME Before, Resolve \/ EndTypedefs \/ EndLeaves \/ Collect
    PROVE  Outcome
<1>1. /\ doc' = doc /\ yt' = yt /\ stack' = stack /\ stack = <<>> /\ doc \in Documents
      /\ pc \in {"loop", "return"}
  BY DEF Before, Resolve, EndTypedefs, EndLeaves, Collect, PathInv, StateInv
<1>2. errs = {} /\ ret = {} /\ ~ Kept(stack)
  BY NoErrors DEF Before
<1>3. errs' = {} /\ ret' = {}
  BY <1>2 DEF Resolve, EndTypedefs, EndLeaves, Collect
<1>4. ~ Erred'
  BY <1>1, <1>2, <1>3 DEF Erred, Kept
<1>5. RightInv'
  BY <1>1, RightSame DEF Before, Good
<1>6. MembersInv'
  <2>1. stack \in Seq(Frames) /\ SameUnions(stack, stack)
    BY <1>1 DEF SameUnions
  <2> QED
    BY <1>1, <2>1, MembersStay DEF Before, Good
<1>7. ComeInv'
  <2>1. \A x \in Met : yt[x] # None \/ x \in todo
    BY <1>1 DEF Before, Good, ComeInv, InProgress
  <2>2. Typedefs' = Typedefs
    BY <1>1, SameDocument
  <2>3. CASE Resolve
    <3>1. PICK x \in todo : enter' = x /\ todo' = todo \ {x}
      BY <2>3 DEF Resolve
    <3>2. pc' = "enter" /\ loop' = loop
      BY <2>3 DEF Resolve
    <3>3. Met' = Met
      BY <1>1, <2>2, <3>2 DEF Met
    <3>4. InProgress(x)'
      BY <1>1, <3>1, <3>2 DEF InProgress
    <3> QED
      BY <1>1, <2>1, <3>1, <3>2, <3>3, <3>4 DEF ComeInv
  <2>4. CASE EndTypedefs
    <3>1. /\ loop = "typedefs" /\ todo = {} /\ loop' = "leaves" /\ todo' = doc.leaves /\ pc' = pc
          /\ pc = "loop"
      BY <1>2, <2>4 DEF EndTypedefs
    <3>2. Met = Typedefs /\ Met' = Typedefs \cup doc.leaves
      BY <1>1, <2>2, <3>1 DEF Met
    <3>3. \A x \in Met' : yt'[x] # None \/ x \in todo'
      BY <1>1, <2>1, <3>1, <3>2
    <3> QED
      BY <3>1, <3>3 DEF ComeInv
  <2>5. CASE EndLeaves
    <3>1. loop = "leaves" /\ loop' = loop /\ todo = {} /\ todo' = todo
      BY <2>5 DEF EndLeaves
    <3>2. Met' = Met
      BY <1>1, <2>2, <3>1 DEF Met
    <3> QED
      BY <1>1, <2>1, <3>1, <3>2 DEF ComeInv
  <2>6. CASE Collect
    <3>1. loop' = loop /\ todo' = todo /\ pc' = "loop"
      BY <2>6 DEF Collect
    <3>2. Met' = Met
      BY <1>1, <2>2, <3>1 DEF Met
    <3> QED
      BY <1>1, <2>1, <3>1, <3>2 DEF ComeInv
  <2> QED
    BY <2>3, <2>4, <2>5, <2>6
<1>8. AwaitInv'
  BY <1>1 DEF AwaitInv
<1> QED
  BY <1>4, <1>5, <1>6, <1>7, <1>8 DEF Outcome, Good

\* Steps that leave the calls and the YangTypes.
LEMMA FaultStays ==
    ASSUME Before, AlreadyResolved \/ Member
    PROVE  Outcome
<1>1. /\ doc' = doc /\ yt' = yt /\ stack' = stack /\ doc \in Documents /\ errs' = errs
      /\ loop' = loop /\ todo' = todo /\ pc' # "idle"
  BY DEF Before, AlreadyResolved, Member, Returns, StateInv
<1>2. errs = {} /\ ret = {} /\ ~ Kept(stack)
  BY NoErrors DEF Before
<1>3. ret' = {}
  BY <1>2 DEF AlreadyResolved, Member, Returns
<1>4. ~ Erred'
  BY <1>1, <1>2, <1>3 DEF Erred, Kept
<1>5. RightInv'
  BY <1>1, RightSame DEF Before, Good
<1>6. MembersInv'
  <2>1. stack \in Seq(Frames) /\ stack' \in Seq(Frames)
    BY <1>1 DEF Before, StateInv, CallsInv
  <2>2. SameUnions(stack, stack')
    BY <1>1 DEF SameUnions
  <2> QED
    BY <1>1, <2>1, <2>2, MembersStay DEF Before, Good
<1>7. ASSUME NEW x, InProgress(x) PROVE InProgress(x)' \/ yt'[x] # None
  <2>1. CASE stack # <<>>
    <3>1. stack[1].of = x
      BY <1>7, <2>1 DEF InProgress
    <3> QED
      BY <1>1, <2>1, <3>1 DEF InProgress
  <2>2. CASE stack = <<>>
    <3>1. pc = "enter" /\ enter = x
      BY <1>7, <2>2 DEF InProgress
    <3>2. AlreadyResolved
      BY <3>1 DEF Member
    <3> QED
      BY <1>1, <3>1, <3>2 DEF AlreadyResolved
  <2> QED
    BY <2>1, <2>2
<1>8. ComeInv'
  BY <1>1, <1>7, ComeAfter DEF Before, Good
<1>9. AwaitInv'
  <2>1. CASE AlreadyResolved /\ stack # <<>>
    <3>1. yt[enter] # None /\ enter = Awaited(Top)
      BY <2>1 DEF AlreadyResolved, Before, PathInv
    <3>2. Awaited(Top)' = Awaited(Top)
      <4>1. Top' = Top
        BY <1>1 DEF Top
      <4> QED
        BY <1>1, <4>1, SameFound, SameDocument DEF Awaited, TypeOf
    <3> QED
      BY <1>1, <3>1, <3>2 DEF AwaitInv
  <2>2. CASE Member \/ stack = <<>>
    <3>1. Member => pc' # "return"
      BY DEF Member
    <3> QED
      BY <1>1, <2>2, <3>1 DEF AwaitInv
  <2> QED
    BY <2>1, <2>2
<1> QED
  BY <1>4, <1>5, <1>6, <1>8, <1>9 DEF Outcome, Good

\* A call that begins.
LEMMA FaultCalls ==
    ASSUME Before, EnterTypedef \/ EnterType
    PROVE  Outcome
<1>1. PICK f : f = [of |-> enter, n |-> 0, errs |-> {}]
  OBVIOUS
<1>2. f.of = enter /\ f.n = 0 /\ f.errs = {}
  BY <1>1
<1>3. /\ doc' = doc /\ yt' = yt /\ stack' = Append(stack, f) /\ doc \in Documents /\ errs' = errs
      /\ loop' = loop /\ todo' = todo /\ pc = "enter" /\ pc' = "enter" /\ ret' = ret
      /\ stack \in Seq(Frames) /\ enter \in Typedefs \cup Types
  BY <1>1 DEF Before, EnterTypedef, EnterType, Push, StateInv, CallsInv
<1>4. errs = {} /\ ret = {} /\ ~ Kept(stack)
  BY NoErrors DEF Before
<1>5. ~ Erred'
  <2>1. ~ Kept(stack')
    BY <1>2, <1>3, <1>4, KeptPush
  <2>2. Kept(stack)' <=> Kept(stack')
    BY DEF Kept
  <2> QED
    BY <1>3, <1>4, <2>1, <2>2 DEF Erred
<1>6. RightInv'
  BY <1>3, RightSame DEF Before, Good
<1>7. MembersInv'
  <2>1. f \in Frames
    BY <1>1, <1>3 DEF Frames
  <2>2. stack' \in Seq(Frames)
    BY <1>3, <2>1
  <2>3. SameUnions(stack, stack')
    BY <1>2, <1>3, SameUnionsPush
  <2> QED
    BY <1>3, <2>2, <2>3, MembersStay DEF Before, Good
<1>8. ASSUME NEW x, InProgress(x) PROVE InProgress(x)'
  <2>1. Bottom(stack', x)
    <3>1. CASE stack = <<>>
      <4>1. x = f.of
        BY <1>2, <1>8, <3>1 DEF InProgress
      <4> QED
        BY <1>3, <3>1, <4>1, BottomPush
    <3>2. CASE stack # <<>>
      <4>1. Bottom(stack, x)
        BY <1>8, <3>2 DEF InProgress, Bottom
      <4> QED
        BY <1>3, <4>1, BottomPush
    <3> QED
      BY <3>1, <3>2
  <2> QED
    BY <2>1 DEF Bottom, InProgress
<1>9. ComeInv'
  BY <1>3, <1>8, ComeAfter DEF Before, Good
<1>10. AwaitInv'
  BY <1>3 DEF AwaitInv
<1> QED
  BY <1>5, <1>6, <1>7, <1>9, <1>10 DEF Outcome, Good

\* A name that means nothing.
LEMMA FaultUnknown ==
    ASSUME Before, UnknownType, pc' # "panic"
    PROVE  Outcome
<1>1. /\ enter \in Types /\ ~ IsBuiltin(enter) /\ Found(enter) = None /\ doc \in Documents
      /\ enter \in Subject /\ ret' = Tagged(enter, {"unknown"})
  BY DEF Before, UnknownType, Returns, StateInv, PathInv
<1>2. Meant(enter) = {}
  BY <1>1, FoundNone, MeantIsFound
<1>3. Faulty(enter)
  BY <1>1, <1>2 DEF Faulty
<1>4. Wrong
  BY <1>1, <1>3, FaultyIsWrong
<1>5. Erred'
  BY <1>1 DEF Erred, Tagged
<1> QED
  BY <1>4, <1>5 DEF Outcome

\* Without an error no call fails, and what it waited for is resolved.
LEMMA FaultFails ==
    ASSUME Before, Fail \/ Ignored
    PROVE  FALSE
<1>1. CASE Fail
  BY <1>1, NoErrors DEF Before, Fail
<1>2. CASE Ignored
  <2>1. pc = "return" /\ stack # <<>> /\ Top.n = 0 /\ Top.of \in Typedefs \cup Types
    BY <1>2 DEF Ignored, Waiting
  <2>2. yt[Awaited(Top)] # None
    BY <2>1 DEF Before, Good, AwaitInv
  <2>3. Typedefs \cap Types = {}
    BY DocumentTypes DEF Before, StateInv
  <2>4. Awaited(Top) = IF Top.of \in Types THEN Found(Top.of) ELSE doc.typedef[Top.of].type
    BY <2>1, <2>3 DEF Awaited, TypeOf
  <2> QED
    BY <1>2, <2>2, <2>4 DEF Ignored
<1> QED
  BY <1>1, <1>2

\* The types and typedefs stay right if what is made is.
LEMMA RightMade ==
    ASSUME StateInv, RightInv, doc' = doc, \A q \in Holders : yt[q] # None => yt'[q] # None,
           NEW p \in Holders, \A q \in Holders : q # p => yt'[q] = yt[q],
           p \in Types => Right(p)', p \in Typedefs => RightTypedef(p)'
    PROVE  RightInv'
<1>1. Types' = Types /\ Typedefs' = Typedefs /\ doc \in Documents
  BY SameDocument DEF StateInv
<1>2. /\ \A t \in Types : Right(t) /\ yt'[t] = yt[t] => Right(t)'
      /\ \A d \in Typedefs : RightTypedef(d) /\ yt'[d] = yt[d] => RightTypedef(d)'
  BY <1>1, RightStays
<1>3. ASSUME NEW t \in Types, yt'[t] # None PROVE Right(t)'
  <2>1. CASE t # p
    <3>1. yt'[t] = yt[t]
      BY <2>1 DEF Holders
    <3> QED
      BY <1>2, <1>3, <3>1 DEF RightInv
  <2> QED
    BY <2>1
<1>4. ASSUME NEW d \in Typedefs, yt'[d] # None PROVE RightTypedef(d)'
  <2>1. CASE d # p
    <3>1. yt'[d] = yt[d]
      BY <2>1 DEF Holders
    <3> QED
      BY <1>2, <1>4, <3>1 DEF RightInv
  <2> QED
    BY <2>1
<1> QED
  BY <1>1, <1>3, <1>4 DEF RightInv

\* Members and root are not what the statements say.
LEMMA FitsSame ==
    ASSUME NEW y, HasFields(y), NEW t, Fits(y, t), NEW x
    PROVE  Fits([y EXCEPT !.members = x], t) /\ Fits([y EXCEPT !.root = x], t)
<1>1. ASSUME NEW z, z.kind = y.kind, z.range = y.range, z.digits = y.digits, z.base = y.base,
             z.default = y.default
      PROVE  Fits(z, t)
  BY <1>1 DEF Fits
<1>2. PICK z : z = [y EXCEPT !.members = x]
  OBVIOUS
<1>3. PICK w : w = [y EXCEPT !.root = x]
  OBVIOUS
<1>4. /\ z.kind = y.kind /\ z.range = y.range /\ z.digits = y.digits /\ z.base = y.base
      /\ z.default = y.default
  BY <1>2 DEF HasFields, Fields
<1>5. /\ w.kind = y.kind /\ w.range = y.range /\ w.digits = y.digits /\ w.base = y.base
      /\ w.default = y.default
  BY <1>3 DEF HasFields, Fields
<1> QED
  BY <1>1, <1>2, <1>3, <1>4, <1>5

\* A union whose members or root change stays right.
LEMMA RightUnion ==
    ASSUME StateInv, TypedInv, RightInv, doc' = doc, NEW t \in Types, yt[t] # None, NEW x,
           yt' = [yt EXCEPT ![t].members = x] \/ yt' = [yt EXCEPT ![t].root = x],
           \A p \in Holders : yt[p] # None => yt'[p] # None
    PROVE  RightInv'
<1>1. PICK z : z \in {[yt[t] EXCEPT !.members = x], [yt[t] EXCEPT !.root = x]}
        /\ yt' = [yt EXCEPT ![t] = z]
  OBVIOUS
<1>2. yt'[t] = z /\ t \in Holders /\ \A q \in Holders : q # t => yt'[q] = yt[q]
  BY <1>1 DEF StateInv, TypesInv, Holders
<1>3. Right(t) /\ HasFields(yt[t]) /\ doc \in Documents
  <2>1. FieldsOf(yt[t])
    BY DEF TypedInv
  <2>2. HasFields(yt[t])
    BY <2>1 DEF FieldsOf
  <2>3. Right(t) /\ doc \in Documents
    BY DEF RightInv, StateInv
  <2> QED
    BY <2>2, <2>3
<1>4. Fits(z, t)
  <2>1. Fits(yt[t], t)
    BY <1>3 DEF Right
  <2>2. PICK y : y = yt[t]
    OBVIOUS
  <2>3. Fits([y EXCEPT !.members = x], t) /\ Fits([y EXCEPT !.root = x], t)
    BY <1>3, <2>1, <2>2, FitsSame
  <2> QED
    BY <1>1, <2>2, <2>3
<1>5. \A p \in ChainOf(t) : yt'[p] # None
  <2>1. ChainOf(t) \subseteq Holders
    BY <1>3, ChainIsLeast DEF Holders
  <2> QED
    BY <1>3, <2>1 DEF Right
<1>6. Right(t)'
  <2>1. ~ Faulty(t) /\ (~ IsBuiltin(t) => t \notin ChainOf(TypeOf(Found(t))))
    BY <1>3 DEF Right
  <2> QED
    BY <1>2, <1>4, <1>5, <2>1, RightAfter
<1>7. t \notin Typedefs
  BY <1>3, DocumentTypes
<1> QED
  BY <1>2, <1>6, <1>7, RightMade

\* A typedef whose type is resolved.
LEMMA FaultTypedef ==
    ASSUME Before, TypedefResolved
    PROVE  Outcome
<1>1. /\ stack # <<>> /\ Top.of \in Typedefs /\ Top.n = 0 /\ doc' = doc /\ doc \in Documents
      /\ stack' = Front(stack) /\ errs' = errs /\ loop' = loop /\ todo' = todo /\ ret = {}
      /\ pc = "return" /\ stack \in Seq(Frames)
  BY DEF Before, TypedefResolved, Waiting, StateInv, CallsInv
<1>2. PICK d : d = Top.of /\ d \in Typedefs
  BY <1>1
<1>3. yt[TypeOf(d)] # None /\ TypeOf(d) \in Types
  BY <1>1, <1>2, DocumentTypes DEF TypedefResolved, TypeOf
<1>4. Fits(yt[TypeOf(d)], TypeOf(d)) /\ HasFields(yt[TypeOf(d)])
  BY <1>3 DEF Before, Good, RightInv, Right, TypedInv, FieldsOf
<1>5. CASE FaultyTypedef(d)
  <2>1. TypedefType(d).base # None /\ TypedefType(d).base \notin doc.identities
    BY <1>1, <1>2, <1>4, <1>5, TypedefRight
  <2>2. ret' = Tagged(d, {"base"})
    BY <1>2, <2>1 DEF TypedefResolved, Returns
  <2>3. Erred'
    BY <2>2 DEF Erred, Tagged
  <2>4. Wrong
    BY <1>2, <1>5 DEF Wrong
  <2> QED
    BY <2>3, <2>4 DEF Outcome
<1>6. CASE ~ FaultyTypedef(d)
  <2>1. ~ (TypedefType(d).base # None /\ TypedefType(d).base \notin doc.identities)
    BY <1>1, <1>2, <1>4, <1>6, TypedefRight
  <2>2. PICK z \in {TypedefType(d), [TypedefType(d) EXCEPT !.root = d]} :
           yt' = [yt EXCEPT ![d] = z] /\ pc' = pc /\ ret' = ret
    BY <1>2, <2>1 DEF TypedefResolved
  <2>3. d \in Holders /\ yt'[d] = z /\ \A p \in Holders : p # d => yt'[p] = yt[p]
    BY <1>2, <2>2 DEF Before, StateInv, TypesInv, Holders
  <2>4. \A p \in Holders : yt[p] # None => yt'[p] # None
    BY TypedefResolvedTyped DEF Before
  <2>5. Fits(z, TypeOf(d)) /\ (doc.typedef[d].default # None => z.default # None)
    BY <1>1, <1>2, <1>4, <1>6, <2>2, TypedefRight
  <2>6. d \notin Types /\ yt'[TypeOf(d)] # None /\ \A t \in Types : t \in Holders /\ t # d
    BY <1>1, <1>2, <1>3, <2>4, DocumentTypes DEF Holders
  <2>7. RightTypedef(d)'
    BY <1>1, <1>2, <1>6, <2>3, <2>5, <2>6, RightTypedefAfter
  <2>8. RightInv'
    BY <1>1, <2>3, <2>4, <2>6, <2>7, RightMade DEF Before, Good
  <2>9. ~ Erred'
    <3>1. ~ Kept(stack')
      BY <1>1, NoErrors, KeptPop DEF Before
    <3>2. Kept(stack)' <=> Kept(stack')
      BY DEF Kept
    <3> QED
      BY <1>1, <2>2, <3>1, <3>2, NoErrors DEF Erred, Before
  <2>10. MembersInv'
    <3>1. SameUnions(stack, stack') /\ stack' \in Seq(Frames)
      BY <1>1, SameUnionsPop, FrontIs DEF Top
    <3>2. \A t \in Types : yt'[t] # None => yt[t] # None
      BY <2>3, <2>6
    <3> QED
      BY <1>1, <2>4, <3>1, <3>2, MembersStay DEF Before, Good
  <2>11. yt'[d] # None
    <3>1. FieldsOf(yt[TypeOf(d)])
      BY <1>3 DEF Before, TypedInv
    <3>2. FieldsOf(z)
      BY <1>1, <1>2, <2>2, <3>1, TypedefIsMade
    <3> QED
      BY <1>1, <2>3, <3>2, NotNone
  <2>12. ASSUME NEW x, InProgress(x) PROVE InProgress(x)' \/ yt'[x] # None
    <3>1. Bottom(stack, x)
      BY <1>1, <2>12 DEF InProgress, Bottom
    <3>2. x = Last(stack).of \/ Bottom(Front(stack), x)
      BY <1>1, <3>1, BottomPop
    <3>3. CASE Bottom(stack', x)
      BY <3>3 DEF Bottom, InProgress
    <3> QED
      BY <1>1, <1>2, <2>11, <3>2, <3>3 DEF Top
  <2>13. ComeInv'
    BY <1>1, <2>2, <2>4, <2>12, ComeAfter DEF Before, Good
  <2>14. AwaitInv'
    <3>1. ASSUME stack' # <<>> PROVE yt'[Awaited(Top)'] # None
      <4>1. Top.of = Awaited(Last(stack'))
        BY <1>1, <3>1, PathFront DEF Before, PathInv, Top
      <4>2. Top' = Last(stack')
        BY DEF Top
      <4>3. Awaited(Top)' = d
        BY <1>1, <1>2, <4>1, <4>2, SameFound, SameDocument DEF Awaited, TypeOf
      <4> QED
        BY <2>11, <4>3
    <3> QED
      BY <3>1 DEF AwaitInv
  <2> QED
    BY <2>8, <2>9, <2>10, <2>13, <2>14 DEF Outcome, Good
<1> QED
  BY <1>5, <1>6

\* What Type.resolve makes of the YangType y that t is based on.
DerivesRight(t, y) ==
    LET s == doc.type[t] IN
    /\ Overrides(s, y) => Faulty(t)
    /\ ~ Overrides(s, y) => (StatementErrors(s, y) # {} \/ s.ext <=> Faulty(t))
    /\ ~ Overrides(s, y) /\ StatementErrors(s, y) = {} => \A list : Fits(Restricted(s, y, list), t)

\* A type whose typedef is resolved without errors, or that is based on none.
LEMMA DerivesFrom ==
    ASSUME StateInv, TypedInv, RightInv, NEW t \in Types, NEW b, yt[b] # None,
           \/ IsBuiltin(t) /\ b = doc.type[t].name /\ b \in Builtin
           \/ ~ IsBuiltin(t) /\ b = Found(t) /\ b \in Typedefs /\ Defining(t) # {}
    PROVE  /\ DerivesRight(t, yt[b])
           /\ \A p \in ChainOf(t) : p # t => yt[p] # None
           /\ ~ IsBuiltin(t) => t \notin ChainOf(TypeOf(Found(t)))
<1>1. doc \in Documents
  BY DEF StateInv
<1>2. CASE IsBuiltin(t) /\ b = doc.type[t].name /\ b \in Builtin
  <2>1. yt[b] = BuiltinType(b)
    BY <1>2 DEF TypedInv
  <2>2. ChainOf(t) = {t}
    BY <1>1, <1>2, ChainEnds
  <2>3. DerivesRight(t, yt[b])
    BY <1>1, <1>2, <2>1, BuiltinRight DEF DerivesRight
  <2> QED
    BY <1>2, <2>2, <2>3
<1>3. CASE ~ IsBuiltin(t) /\ b = Found(t) /\ b \in Typedefs /\ Defining(t) # {}
  <2>1. RightTypedef(b)
    BY <1>3 DEF RightInv
  <2>2. TypeOf(b) \in Types /\ yt[TypeOf(b)] # None /\ Fits(yt[b], TypeOf(b))
    BY <1>1, <1>3, <2>1, DocumentTypes DEF RightTypedef
  <2>3. Right(TypeOf(b))
    BY <2>2 DEF RightInv
  <2>4. \A p \in ChainOf(TypeOf(b)) : yt[p] # None
    BY <2>3 DEF Right
  <2>5. t \notin ChainOf(TypeOf(b))
    <3>1. CASE yt[t] = None
      BY <2>4, <3>1
    <3>2. CASE yt[t] # None
      BY <1>3, <3>2 DEF RightInv, Right
    <3> QED
      BY <3>1, <3>2
  <2>6. ChainOf(t) = {t, b} \cup ChainOf(TypeOf(b))
    BY <1>1, <1>3, ChainGoesOn
  <2>7. HasFields(yt[b])
    <3>1. FieldsOf(yt[b])
      BY <1>3 DEF TypedInv
    <3> QED
      BY <3>1 DEF FieldsOf
  <2>8. ~ Faulty(TypeOf(b)) /\ (doc.typedef[b].default # None => yt[b].default # None)
    BY <2>1, <2>3 DEF Right, RightTypedef
  <2>9. DerivesRight(t, yt[b])
    BY <1>1, <1>3, <2>2, <2>5, <2>7, <2>8, DerivedRight DEF DerivesRight
  <2> QED
    BY <1>3, <2>4, <2>5, <2>6, <2>9
<1> QED
  BY <1>2, <1>3

\* Two changes of the stack that keep the unions.
LEMMA SameUnionsTrans ==
    ASSUME NEW s, NEW r, NEW q, SameUnions(s, r), SameUnions(r, q)
    PROVE  SameUnions(s, q)
  BY DEF SameUnions

\* The YangType of a type statement is made.
LEMMA FaultDerives ==
    ASSUME Before, EnterBuiltin \/ TypeFound
    PROVE  Outcome
<1>1. /\ doc' = doc /\ doc \in Documents /\ errs' = errs /\ loop' = loop /\ todo' = todo /\ ret = {}
      /\ stack \in Seq(Frames) /\ Path(stack) /\ errs = {} /\ ~ Kept(stack)
  BY NoErrors DEF Before, EnterBuiltin, TypeFound, Waiting, StateInv, CallsInv, PathInv
<1>2. PICK t \in Types, b \in Builtin \cup Typedefs, frames \in {stack, Front(stack)} :
         /\ yt[b] # None /\ Derive(t, yt[b], frames)
         /\ \/ /\ EnterBuiltin /\ t = enter /\ frames = stack /\ IsBuiltin(t)
               /\ b = doc.type[t].name /\ b \in Builtin
            \/ /\ TypeFound /\ t = Top.of /\ frames = Front(stack) /\ stack # <<>>
               /\ b = Found(t) /\ b \in Typedefs /\ ~ IsBuiltin(t) /\ Defining(t) # {}
  BY DeriveSteps DEF Before
<1>3. /\ DerivesRight(t, yt[b])
      /\ \A p \in ChainOf(t) : p # t => yt[p] # None
      /\ ~ IsBuiltin(t) => t \notin ChainOf(TypeOf(Found(t)))
  BY <1>2, DerivesFrom DEF Before, Good
<1>4. /\ frames \in Seq(Frames) /\ ~ Kept(frames) /\ SameUnions(stack, frames) /\ t \in Subject
      /\ \A x : InProgress(x) => x = t \/ Bottom(frames, x)
  <2>1. CASE EnterBuiltin /\ t = enter /\ frames = stack
    <3>1. t \in Subject
      BY <2>1 DEF Before, PathInv, EnterBuiltin
    <3>2. SameUnions(stack, stack)
      BY DEF SameUnions
    <3>3. \A x : InProgress(x) => x = t \/ Bottom(stack, x)
      BY <2>1 DEF InProgress, Bottom
    <3> QED
      BY <1>1, <2>1, <3>1, <3>2, <3>3
  <2>2. CASE TypeFound /\ t = Top.of /\ frames = Front(stack) /\ stack # <<>>
    <3>1. Last(stack).n = 0 /\ Last(stack).of = t
      BY <2>2 DEF TypeFound, Waiting, Top
    <3>2. t \in Subject
      BY <2>2, TopIs DEF Before
    <3>3. frames \in Seq(Frames) /\ SameUnions(stack, frames) /\ ~ Kept(frames)
      BY <1>1, <2>2, <3>1, SameUnionsPop, KeptPop, FrontIs
    <3>4. \A x : InProgress(x) => x = t \/ Bottom(frames, x)
      BY <1>1, <2>2, <3>1, BottomPop DEF InProgress, Bottom
    <3> QED
      BY <3>2, <3>3, <3>4
  <2> QED
    BY <1>2, <2>1, <2>2
<1> DEFINE s == doc.type[t]
           e == Tagged(t, StatementErrors(s, yt[b]))
           f == [of |-> t, n |-> 1, errs |-> e]
<1>5. \/ Overrides(s, yt[b]) /\ stack' = frames /\ pc' = "return" /\ ret' # {}
      \/ ~ Overrides(s, yt[b]) /\ s.ext /\ stack' = frames /\ pc' = "return" /\ ret' # {}
      \/ /\ ~ Overrides(s, yt[b]) /\ ~ s.ext /\ stack' = Append(frames, f) /\ pc' = "members"
         /\ ret' = ret /\ (e = {} <=> StatementErrors(s, yt[b]) = {})
  BY <1>2, <1>4, DerivesCalls DEF Before
<1>6. f.of = t /\ f.n = 1 /\ f.errs = e
  OBVIOUS
<1>7. CASE ret' # {} \/ StatementErrors(s, yt[b]) # {}
  <2>1. Faulty(t)
    BY <1>1, <1>3, <1>5, <1>7 DEF DerivesRight
  <2>2. Wrong
    BY <1>1, <1>4, <2>1, FaultyIsWrong
  <2>3. Erred'
    <3>1. CASE ret' # {}
      BY <3>1 DEF Erred
    <3>2. CASE stack' = Append(frames, f) /\ e # {}
      <4> HIDE DEF f
      <4>1. Kept(stack')
        BY <1>4, <1>6, <3>2, KeptPush
      <4>2. Kept(stack)' <=> Kept(stack')
        BY DEF Kept
      <4> QED
        BY <4>1, <4>2 DEF Erred
    <3> HIDE DEF e, f
    <3> QED
      BY <1>5, <1>7, <3>1, <3>2
  <2> QED
    BY <2>2, <2>3 DEF Outcome
<1>8. CASE ret' = {} /\ StatementErrors(s, yt[b]) = {}
  <2> HIDE DEF e, f
  <2>1. /\ ~ Overrides(s, yt[b]) /\ ~ s.ext /\ stack' = Append(frames, f) /\ pc' = "members" /\ e = {}
    BY <1>5, <1>8
  <2>2. ~ Faulty(t) /\ \A list : Fits(Restricted(s, yt[b], list), t)
    BY <1>3, <1>8, <2>1 DEF DerivesRight
  <2>3. yt'[t] # None /\ \A p \in Holders : p # t => yt'[p] = yt[p]
    BY <1>1, <1>2, DeriveTyped DEF Before
  <2>4. \A p \in Holders : yt[p] # None => yt'[p] # None
    BY <2>3
  <2>5. Fits(yt'[t], t)
    <3>1. PICK list : yt' = [yt EXCEPT ![t] = Restricted(s, yt[b], list)]
      BY <1>2, <2>1 DEF Derive
    <3>2. yt'[t] = Restricted(s, yt[b], list)
      BY <3>1 DEF Before, StateInv, TypesInv
    <3> QED
      BY <2>2, <3>2
  <2>6. \A p \in ChainOf(t) : yt'[p] # None
    <3>1. ChainOf(t) \subseteq Holders
      BY <1>1, ChainIsLeast DEF Holders
    <3> QED
      BY <1>3, <2>3, <3>1
  <2>7. Right(t)'
    BY <1>1, <1>3, <2>2, <2>5, <2>6, RightAfter
  <2>8. RightInv'
    <3>1. t \in Holders /\ t \notin Typedefs
      BY <1>1, DocumentTypes DEF Holders
    <3> QED
      BY <1>1, <2>3, <2>4, <2>7, <3>1, RightMade DEF Before, Good
  <2>9. ~ Erred'
    <3>1. ~ Kept(stack')
      BY <1>4, <1>6, <2>1, KeptPush
    <3>2. Kept(stack)' <=> Kept(stack')
      BY DEF Kept
    <3> QED
      BY <1>1, <1>8, <3>1, <3>2 DEF Erred
  <2>10. stack' \in Seq(Frames) /\ \E j \in DOMAIN stack' : stack'[j] = f
    <3>1. StateInv'
      BY <1>1, StateNext DEF Before, Next, Step
    <3>2. stack' \in Seq(Frames)
      BY <1>1, <3>1, SameDocument DEF StateInv, CallsInv
    <3>3. Len(frames) + 1 \in DOMAIN stack' /\ stack'[Len(frames) + 1] = f
      BY <1>4, <2>1
    <3> QED
      BY <3>2, <3>3
  <2>11. MembersInv'
    <3>1. SameUnions(stack, stack')
      <4>1. SameUnions(frames, stack')
        BY <1>4, <1>6, <2>1, SameUnionsPush
      <4> QED
        BY <1>4, <4>1, SameUnionsTrans
    <3>2. \A k \in DOMAIN doc.type[t].members : Pending(stack', t, k)
      <4>1. doc.type[t].members \in Seq(Types)
        BY <1>1, DocumentTypes
      <4>2. \A k \in DOMAIN doc.type[t].members : 0 < f.n /\ f.n <= k
        BY <1>6, <4>1
      <4> QED
        BY <1>6, <2>10, <4>2 DEF Pending
    <3>3. \A u \in Types : yt'[u] # None =>
             yt[u] # None \/ \A k \in DOMAIN doc.type[u].members : Pending(stack', u, k)
      <4>1. \A u \in Types : u # t => yt'[u] = yt[u]
        BY <2>3 DEF Holders
      <4> QED
        BY <3>2, <4>1
    <3> QED
      BY <1>1, <2>4, <2>10, <3>1, <3>3, MembersStay DEF Before, Good
  <2>12. ASSUME NEW x, InProgress(x) PROVE InProgress(x)' \/ yt'[x] # None
    <3>1. CASE Bottom(frames, x)
      <4>1. Bottom(stack', x)
        BY <1>4, <2>1, <3>1, BottomPush
      <4> QED
        BY <4>1 DEF Bottom, InProgress
    <3> QED
      BY <1>4, <2>3, <2>12, <3>1
  <2>13. ComeInv'
    BY <1>1, <2>1, <2>4, <2>12, ComeAfter DEF Before, Good
  <2>14. AwaitInv'
    BY <2>1 DEF AwaitInv
  <2> QED
    BY <2>8, <2>9, <2>11, <2>13, <2>14 DEF Outcome, Good
<1> QED
  BY <1>7, <1>8

\* A member of a union has been resolved.
LEMMA FaultMember ==
    ASSUME Before, MemberReturns
    PROVE  Outcome
<1>1. /\ doc' = doc /\ doc \in Documents /\ errs' = errs /\ loop' = loop /\ todo' = todo /\ ret' = {}
      /\ stack \in Seq(Frames) /\ stack # <<>> /\ Top.of \in Types /\ Top.n > 0
      /\ pc' = "members" /\ pc = "return"
  BY DEF Before, MemberReturns, StateInv, CallsInv
<1>2. errs = {} /\ ret = {} /\ ~ Kept(stack)
  BY NoErrors DEF Before
<1>3. \A p \in Holders : yt[p] # None => yt'[p] # None
  BY MemberReturnsTyped DEF Before
<1>4. PICK f \in Frames : /\ stack' = [stack EXCEPT ![Len(stack)] = f]
                          /\ f.of = Top.of /\ f.n = Top.n + 1 /\ f.errs = Top.errs \cup ret
  BY <1>3, PathMember DEF Before
<1>5. PICK t, n : t = Top.of /\ n = Top.n
  OBVIOUS
<1>6. /\ t \in Types /\ n \in Nat \ {0} /\ yt[t] # None /\ n \in DOMAIN doc.type[t].members
      /\ Len(stack) \in DOMAIN stack /\ stack[Len(stack)] = Top /\ Top = Last(stack)
  <2>1. Top \in Frames /\ yt[Top.of] # None /\ Len(stack) \in DOMAIN stack /\ stack[Len(stack)] = Top
    BY <1>1, TopIs DEF Before
  <2>2. n \in Nat \ {0}
    BY <1>1, <1>5, <2>1 DEF Frames
  <2>3. Waits(Top)
    BY <1>1 DEF Before, PathInv
  <2> QED
    BY <1>1, <1>5, <2>1, <2>2, <2>3 DEF Waits, Top
<1>7. ~ Erred'
  <2>1. Top.errs = {} /\ ~ Kept(Front(stack))
    BY <1>1, <1>2, <1>6, KeptPop
  <2>2. f.errs = {}
    BY <1>2, <1>4, <2>1
  <2>3. ~ Kept(stack')
    BY <1>1, <1>4, <2>1, <2>2, KeptTurn
  <2>4. Kept(stack)' <=> Kept(stack')
    BY DEF Kept
  <2> QED
    BY <1>1, <1>2, <2>3, <2>4 DEF Erred
<1>8. RightInv'
  <2>1. CASE yt' = yt
    BY <1>1, <2>1, RightSame DEF Before, Good
  <2>2. CASE yt' # yt
    <3>1. PICK u : yt' = [yt EXCEPT ![t].members = Append(@, u)]
      BY <1>5, <2>2 DEF MemberReturns
    <3>2. PICK x : yt' = [yt EXCEPT ![t].members = x]
      BY <3>1
    <3> QED
      BY <1>1, <1>3, <1>6, <3>2, RightUnion DEF Before, Good
  <2> QED
    BY <2>1, <2>2
<1>9. \A u \in Types : yt'[u] # None => yt[u] # None
  <2>1. CASE yt' # yt
    <3>1. PICK u : yt' = [yt EXCEPT ![t].members = Append(@, u)]
      BY <1>5, <2>1 DEF MemberReturns
    <3>2. \A v \in Types : v # t => yt'[v] = yt[v]
      BY <3>1 DEF Before, StateInv, TypesInv
    <3> QED
      BY <1>6, <3>2
  <2> QED
    BY <2>1
<1>10. yt'[MemberOf(t, n)] # None
  <2>1. Awaited(Top) = MemberOf(t, n)
    <3>1. t \notin Typedefs
      BY <1>1, <1>6, DocumentTypes
    <3> QED
      BY <1>5, <1>6, <3>1 DEF Awaited, MemberOf
  <2>2. yt[MemberOf(t, n)] # None
    BY <1>1, <2>1 DEF Before, Good, AwaitInv
  <2>3. MemberOf(t, n) \in Holders
    <3>1. doc.type[t].members \in Seq(Types)
      BY <1>1, <1>6, DocumentTypes
    <3> QED
      BY <1>6, <3>1 DEF MemberOf, Holders
  <2> QED
    BY <1>3, <2>2, <2>3
<1>11. DOMAIN stack' = DOMAIN stack
         /\ \A i \in DOMAIN stack : stack'[i] = IF i = Len(stack) THEN f ELSE stack[i]
  BY <1>1, <1>4, <1>6
<1>12. MembersInv'
  <2>1. stack' \in Seq(Frames)
    BY <1>1, <1>4, <1>6
  <2>2. ASSUME NEW u \in Types, NEW k \in DOMAIN doc.type[u].members, Pending(stack, u, k)
        PROVE  Pending(stack', u, k) \/ yt'[MemberOf(u, k)] # None
    <3>1. PICK i \in DOMAIN stack : stack[i].of = u /\ 0 < stack[i].n /\ stack[i].n <= k
      BY <2>2 DEF Pending
    <3>2. CASE i # Len(stack)
      BY <1>11, <3>1, <3>2 DEF Pending
    <3>3. CASE i = Len(stack)
      <4>1. u = t /\ n <= k
        BY <1>5, <1>6, <3>1, <3>3
      <4>2. CASE n = k
        BY <1>10, <4>1, <4>2
      <4>3. CASE n # k
        <5>1. doc.type[u].members \in Seq(Types)
          BY <1>1, DocumentTypes
        <5>2. k \in Nat
          BY <5>1
        <5>3. 0 < f.n /\ f.n <= k
          BY <1>4, <1>5, <1>6, <4>1, <4>3, <5>2
        <5>4. stack'[i] = f /\ f.of = u /\ i \in DOMAIN stack'
          BY <1>4, <1>5, <1>11, <3>3, <4>1
        <5> QED
          BY <5>3, <5>4 DEF Pending
      <4> QED
        BY <4>2, <4>3
    <3> QED
      BY <3>2, <3>3
  <2>3. ASSUME NEW j \in DOMAIN stack', NEW k \in 1 .. stack'[j].n - 1
        PROVE  \/ \E i \in DOMAIN stack : stack[i].of = stack'[j].of /\ k \in 1 .. stack[i].n - 1
               \/ k \in DOMAIN doc.type[stack'[j].of].members /\ yt'[MemberOf(stack'[j].of, k)] # None
    <3>1. CASE j # Len(stack)
      BY <1>11, <3>1
    <3>2. CASE j = Len(stack)
      <4>1. stack'[j].of = t /\ stack'[j].n = n + 1
        BY <1>4, <1>5, <1>6, <1>11, <3>2
      <4>2. CASE k = n
        BY <1>6, <1>10, <4>1, <4>2
      <4>3. CASE k # n
        <5>1. k \in 1 .. n - 1
          BY <1>6, <4>1, <4>3
        <5> QED
          BY <1>5, <1>6, <3>2, <4>1, <5>1
      <4> QED
        BY <4>2, <4>3
    <3> QED
      BY <3>1, <3>2
  <2> QED
    BY <1>1, <1>3, <1>9, <2>1, <2>2, <2>3, MembersAfter DEF Before, Good
<1>13. ASSUME NEW x, InProgress(x) PROVE InProgress(x)'
  <2>1. Bottom(stack, x)
    BY <1>1, <1>13 DEF InProgress, Bottom
  <2>2. Bottom(stack', x)
    BY <1>1, <1>4, <1>6, <2>1, BottomTurn
  <2> QED
    BY <2>2 DEF Bottom, InProgress
<1>14. ComeInv'
  BY <1>1, <1>3, <1>13, ComeAfter DEF Before, Good
<1>15. AwaitInv'
  BY <1>1 DEF AwaitInv
<1> QED
  BY <1>7, <1>8, <1>12, <1>14, <1>15 DEF Outcome, Good

\* The members of a type have been resolved.
LEMMA FaultUnion ==
    ASSUME Before, TypeResolved
    PROVE  Outcome
<1>1. /\ doc' = doc /\ doc \in Documents /\ errs' = errs /\ loop' = loop /\ todo' = todo
      /\ stack \in Seq(Frames) /\ stack # <<>> /\ Top.n > 0 /\ Top.n > Len(doc.type[Top.of].members)
      /\ stack' = Front(stack) /\ ret' = Top.errs /\ pc' = "return"
  BY DEF Before, TypeResolved, Returns, StateInv, CallsInv
<1>2. errs = {} /\ ret = {} /\ ~ Kept(stack)
  BY NoErrors DEF Before
<1>3. \A p \in Holders : yt[p] # None => yt'[p] # None
  BY TypeResolvedTyped DEF Before
<1>4. PICK t : t = Top.of
  OBVIOUS
<1>5. /\ t \in Types /\ yt[t] # None /\ Len(stack) \in DOMAIN stack /\ stack[Len(stack)] = Top
      /\ Top = Last(stack) /\ t \in Holders /\ Top.n \in Nat
  <2>1. Top \in Frames /\ t \in Types /\ yt[Top.of] # None /\ Len(stack) \in DOMAIN stack
          /\ stack[Len(stack)] = Top
    BY <1>1, <1>4, TopIs DEF Before
  <2>2. Top.n \in Nat
    BY <2>1 DEF Frames
  <2> QED
    BY <1>4, <2>1, <2>2 DEF Top, Holders
<1>6. ~ Erred'
  <2>1. Top.errs = {} /\ ~ Kept(stack')
    BY <1>1, <1>2, <1>5, KeptPop
  <2>2. Kept(stack)' <=> Kept(stack')
    BY DEF Kept
  <2> QED
    BY <1>1, <1>2, <2>1, <2>2 DEF Erred
<1>7. PICK r : yt' = [yt EXCEPT ![t].root = r]
  BY <1>4 DEF TypeResolved
<1>8. RightInv'
  BY <1>1, <1>3, <1>5, <1>7, RightUnion DEF Before, Good
<1>9. \A u \in Types : yt'[u] # None => yt[u] # None
  <2>1. \A v \in Types : v # t => yt'[v] = yt[v]
    BY <1>7 DEF Before, StateInv, TypesInv
  <2> QED
    BY <1>5, <2>1
<1>10. /\ stack' \in Seq(Frames) /\ \A i \in DOMAIN stack' : i \in DOMAIN stack /\ stack'[i] = stack[i]
       /\ \A i \in DOMAIN stack : i = Len(stack) \/ i \in DOMAIN stack'
  BY <1>1, FrontIs
<1>11. MembersInv'
  <2>1. ASSUME NEW u \in Types, NEW k \in DOMAIN doc.type[u].members, Pending(stack, u, k)
        PROVE  Pending(stack', u, k)
    <3>1. PICK i \in DOMAIN stack : stack[i].of = u /\ 0 < stack[i].n /\ stack[i].n <= k
      BY <2>1 DEF Pending
    <3>2. i # Len(stack)
      <4>1. ASSUME i = Len(stack) PROVE FALSE
        <5>1. u = t /\ Top.n <= k
          BY <1>4, <1>5, <3>1, <4>1
        <5>2. doc.type[t].members \in Seq(Types)
          BY <1>1, <1>5, DocumentTypes
        <5>3. k \in Nat /\ k <= Len(doc.type[t].members) /\ Len(doc.type[t].members) \in Nat
          BY <5>1, <5>2
        <5> QED
          BY <1>1, <1>4, <1>5, <5>1, <5>3
      <4> QED
        BY <4>1
    <3> QED
      BY <1>10, <3>1, <3>2 DEF Pending
  <2>2. \A j \in DOMAIN stack' : \A k \in 1 .. stack'[j].n - 1 :
           \E i \in DOMAIN stack : stack[i].of = stack'[j].of /\ k \in 1 .. stack[i].n - 1
    BY <1>10
  <2> QED
    BY <1>1, <1>3, <1>9, <1>10, <2>1, <2>2, MembersAfter DEF Before, Good
<1>12. ASSUME NEW x, InProgress(x) PROVE InProgress(x)' \/ yt'[x] # None
  <2>1. Bottom(stack, x)
    BY <1>1, <1>12 DEF InProgress, Bottom
  <2>2. x = t \/ Bottom(stack', x)
    BY <1>1, <1>4, <1>5, <2>1, BottomPop
  <2>3. CASE Bottom(stack', x)
    BY <2>3 DEF Bottom, InProgress
  <2> QED
    BY <1>3, <1>5, <2>2, <2>3
<1>13. ComeInv'
  BY <1>1, <1>3, <1>12, ComeAfter DEF Before, Good
<1>14. AwaitInv'
  <2>1. ASSUME stack' # <<>> PROVE yt'[Awaited(Top)'] # None
    <3>1. t = Awaited(Last(stack'))
      BY <1>1, <1>4, <1>5, <2>1, PathFront DEF Before, PathInv
    <3>2. Top' = Last(stack')
      BY DEF Top
    <3>3. Awaited(Top)' = t
      BY <1>1, <3>1, <3>2, SameFound, SameDocument DEF Awaited, TypeOf
    <3> QED
      BY <1>3, <1>5, <3>3
  <2> QED
    BY <2>1 DEF AwaitInv
<1> QED
  BY <1>6, <1>8, <1>11, <1>13, <1>14 DEF Outcome, Good

\* The first call of Process.
LEMMA FaultFirst ==
    ASSUME StateInv, PathInv, Process, calls' = 1
    PROVE  Outcome
<1>1. /\ doc' = doc /\ yt' = yt /\ stack' = stack /\ pc = "idle" /\ pc' = "loop" /\ errs' = {}
      /\ ret' = ret /\ loop' = "typedefs" /\ todo' = Typedefs /\ calls' = calls + 1
  BY DEF Process
<1>2. calls = 0
  BY <1>1 DEF PathInv
<1>3. stack = <<>> /\ ret = {} /\ \A p \in Typedefs \cup Types : yt[p] = None
  BY <1>1, <1>2 DEF PathInv
<1>4. ~ Erred'
  BY <1>1, <1>3 DEF Erred, Kept
<1>5. Types' = Types /\ Typedefs' = Typedefs
  BY <1>1, SameDocument
<1>6. RightInv' /\ MembersInv'
  BY <1>1, <1>3, <1>5 DEF RightInv, MembersInv
<1>7. ComeInv'
  BY <1>1, <1>5 DEF ComeInv, Met
<1>8. AwaitInv'
  BY <1>1 DEF AwaitInv
<1> QED
  BY <1>4, <1>6, <1>7, <1>8 DEF Outcome, Good

\* Every step keeps the invariant.
LEMMA FaultNext ==
    ASSUME StateInv, TypedInv, PathInv, FaultInv, [Next]_vars
    PROVE  FaultInv'
<1>1. doc' = doc
  BY TypedNext
<1>2. Wrong' <=> Wrong
  BY <1>1, SameRight
<1>3. SUFFICES ASSUME calls' = 1, ~ doc.ignore, pc' # "panic" PROVE Outcome
  <2>1. Outcome => IF Erred' THEN Wrong' ELSE Good'
    BY <1>2 DEF Outcome
  <2> QED
    BY <1>1, <2>1 DEF FaultInv
<1>4. CASE Process
  BY <1>3, <1>4, FaultFirst
<1>5. CASE Step
  <2>1. calls' = calls /\ pc # "panic"
    BY <1>5 DEF Step, Resolve, EndTypedefs, EndLeaves, AlreadyResolved, EnterTypedef, EnterBuiltin,
       EnterType, UnknownType, Collect, Fail, TypedefResolved, TypeFound, Ignored, Member,
       MemberReturns, TypeResolved, Waiting
  <2>2. IF Erred THEN Wrong ELSE Good
    BY <1>3, <2>1 DEF FaultInv
  <2>3. CASE Erred
    BY <1>5, <2>2, <2>3, ErredStays DEF Outcome
  <2>4. CASE ~ Erred
    <3>1. Before
      BY <1>3, <2>2, <2>4 DEF Before
    <3> QED
      BY <1>3, <1>5, <3>1, FaultLoops, FaultStays, FaultCalls, FaultUnknown, FaultFails,
         FaultTypedef, FaultDerives, FaultMember, FaultUnion DEF Step
  <2> QED
    BY <2>3, <2>4
<1>6. CASE UNCHANGED vars
  <2>1. /\ doc' = doc /\ yt' = yt /\ stack' = stack /\ pc' = pc /\ errs' = errs /\ ret' = ret
        /\ loop' = loop /\ todo' = todo /\ calls' = calls /\ enter' = enter
    BY <1>6 DEF vars
  <2>2. IF Erred THEN Wrong ELSE Good
    BY <1>3, <2>1 DEF FaultInv
  <2>3. Erred' <=> Erred
    BY <2>1 DEF Erred, Kept
  <2>4. ASSUME Good PROVE Good'
    <3>1. RightInv'
      BY <2>1, <2>4, RightSame DEF Good
    <3>2. MembersInv'
      <4>1. stack' \in Seq(Frames) /\ SameUnions(stack, stack')
        BY <2>1 DEF StateInv, CallsInv, SameUnions
      <4> QED
        BY <2>1, <2>4, <4>1, MembersStay DEF Good
    <3>3. ComeInv'
      <4>1. Met' = Met
        BY <2>1, SameDocument DEF Met
      <4>2. \A x : InProgress(x)' <=> InProgress(x)
        BY <2>1 DEF InProgress
      <4>3. ComeInv
        BY <2>4 DEF Good
      <4> QED
        BY <2>1, <4>1, <4>2, <4>3 DEF ComeInv
    <3>4. AwaitInv'
      <4>1. Top' = Top
        BY <2>1 DEF Top
      <4>2. Awaited(Top)' = Awaited(Top)
        BY <2>1, <4>1, SameFound, SameDocument DEF Awaited, TypeOf
      <4>3. AwaitInv
        BY <2>4 DEF Good
      <4> QED
        BY <2>1, <4>2, <4>3 DEF AwaitInv
    <3> QED
      BY <3>1, <3>2, <3>3, <3>4 DEF Good
  <2> QED
    BY <2>2, <2>3, <2>4 DEF Outcome
<1> QED
  BY <1>4, <1>5, <1>6 DEF Next

\* At the start nothing has been resolved.
LEMMA FaultInit ==
    ASSUME Init
    PROVE  TypedInv /\ PathInv /\ FaultInv
<1>1. /\ doc \in Documents /\ heap = <<>> /\ stack = <<>> /\ todo = {} /\ ret = {} /\ errs = {}
      /\ pc = "idle" /\ calls = 0
      /\ yt = [p \in Builtin \cup Typedefs \cup Types |->
                   IF p \in Builtin THEN BuiltinType(p) ELSE None]
  BY DEF Init
<1>2. Builtin \cap (Typedefs \cup Types) = {}
  BY <1>1, DocumentTypes
<1>3. /\ \A b \in Builtin : yt[b] = BuiltinType(b)
      /\ \A p \in Typedefs \cup Types : yt[p] = None
  BY <1>1, <1>2
<1>4. TypedInv
  <2>1. heap \in Arrays
    BY <1>1 DEF Arrays
  <2>2. \A b \in Builtin : FieldsOf(yt[b]) /\ Lies(heap, yt[b].patterns)
    BY <1>3, BuiltinIsMade
  <2> QED
    BY <1>3, <2>1, <2>2 DEF TypedInv
<1>5. PathInv
  <2>1. Path(stack) /\ Begun(stack, yt)
    <3>1. DOMAIN stack = {}
      BY <1>1
    <3> QED
      BY <3>1 DEF Path, Begun
  <2>2. todo \subseteq Subject
    BY <1>1
  <2> QED
    BY <1>1, <1>3, <2>1, <2>2 DEF PathInv
<1>6. FaultInv
  BY <1>1 DEF FaultInv
<1> QED
  BY <1>4, <1>5, <1>6

\* What has been resolved when Process ends without errors.
LEMMA EndResolved ==
    ASSUME StateInv, PathInv, FaultInv, pc = "idle", calls = 1, ~ doc.ignore, errs = {}
    PROVE  /\ RightInv /\ \A d \in Typedefs : yt[d] # None
           /\ \A t \in TypedefTypes \cup LeafTypes : t \in Types /\ yt[t] # None
<1>1. stack = <<>> /\ ret = {} /\ doc \in Documents
  BY DEF PathInv, StateInv
<1>2. Good
  <2>1. ~ Erred
    BY <1>1 DEF Erred, Kept
  <2> QED
    BY <2>1 DEF FaultInv
<1>3. \A x \in Typedefs \cup doc.leaves : yt[x] # None
  BY <1>1, <1>2 DEF Good, ComeInv, Met, InProgress
<1>4. PICK R : R = {t \in Types : yt[t] # None}
  OBVIOUS
<1>5. \A t \in R \cap Types : \A k \in DOMAIN doc.type[t].members : doc.type[t].members[k] \in R
  <2>1. ASSUME NEW t \in R, NEW k \in DOMAIN doc.type[t].members PROVE doc.type[t].members[k] \in R
    <3>1. t \in Types /\ yt[t] # None
      BY <1>4, <2>1
    <3>2. doc.type[t].members[k] \in Types
      <4>1. doc.type[t].members \in Seq(Types)
        BY <1>1, <3>1, DocumentTypes
      <4> QED
        BY <2>1, <4>1
    <3>3. yt[doc.type[t].members[k]] # None
      BY <1>1, <1>2, <2>1, <3>1 DEF Good, MembersInv, Pending, MemberOf
    <3> QED
      BY <1>4, <3>2, <3>3
  <2> QED
    BY <2>1
<1>6. RightInv
  BY <1>2 DEF Good
<1>7. PICK T : T = {doc.typedef[d].type : d \in Typedefs}
  OBVIOUS
<1>8. T \in SUBSET Types /\ T \subseteq R
  <2>1. \A d \in Typedefs : TypeOf(d) \in Types /\ yt[TypeOf(d)] # None
    BY <1>1, <1>3, <1>6, DocumentTypes DEF RightInv, RightTypedef
  <2> QED
    BY <1>4, <1>7, <2>1 DEF TypeOf
<1>9. doc.leaves \in SUBSET Types /\ doc.leaves \subseteq R
  BY <1>1, <1>3, <1>4, DocumentTypes
<1>10. TypedefTypes \subseteq R
  BY <1>1, <1>5, <1>7, <1>8, TypesOfIsLeast DEF TypedefTypes
<1>11. LeafTypes \subseteq R
  BY <1>1, <1>5, <1>9, TypesOfIsLeast DEF LeafTypes
<1> QED
  BY <1>3, <1>4, <1>6, <1>10, <1>11

\* At the end the invariant says that errors are reported, and only those that are there.
LEMMA FaultSafe ==
    ASSUME StateInv, PathInv, FaultInv
    PROVE  FaultsReported
<1>1. SUFFICES ASSUME Done, calls = 1, ~ doc.ignore PROVE errs # {} <=> Wrong
  BY DEF FaultsReported, Wrong
<1>2. pc = "idle" /\ stack = <<>> /\ ret = {}
  BY <1>1 DEF Done, PathInv
<1>3. CASE errs # {}
  BY <1>1, <1>2, <1>3 DEF FaultInv, Erred
<1>4. CASE errs = {}
  <2>1. /\ RightInv /\ \A d \in Typedefs : yt[d] # None
        /\ \A t \in TypedefTypes \cup LeafTypes : t \in Types /\ yt[t] # None
    BY <1>1, <1>2, <1>4, EndResolved
  <2>2. \A d \in Typedefs : ~ FaultyTypedef(d)
    BY <2>1 DEF RightInv, RightTypedef
  <2>3. \A t \in TypedefTypes \cup LeafTypes : ~ Faulty(t)
    BY <2>1 DEF RightInv, Right
  <2> QED
    BY <1>4, <2>2, <2>3 DEF Wrong
<1> QED
  BY <1>3, <1>4

\* The first Process returns an error if a typedef, its type or the type of a leaf is wrong:
\* what Type.resolve and Typedef.resolve have appended reaches the errors of Process, and a
\* type that has been resolved is not passed over with its errors.  It returns none if all
\* types are right.
THEOREM FaultsReportedCorrect == Spec => []FaultsReported
<1>1. Init => StateInv /\ TypedInv /\ PathInv /\ FaultInv
  BY StateInit, FaultInit
<1>2. StateInv /\ TypedInv /\ PathInv /\ FaultInv /\ [Next]_vars
        => StateInv' /\ TypedInv' /\ PathInv' /\ FaultInv'
  BY StateNext, TypedNext, PathNext, FaultNext
<1>3. StateInv /\ TypedInv /\ PathInv /\ FaultInv => FaultsReported
  BY FaultSafe
<1> QED
  BY <1>1, <1>2, <1>3, PTL DEF Spec

-----------------------------------------------------------------------------
(* What is written into arrays *)

\* What the list s of the heap h holds.
Held(h, s) == {h[s.arr][i] : i \in 1 .. s.len}

\* The content of a list is what it holds.
LEMMA ContentIsHeld ==
    ASSUME NEW h \in Arrays, NEW s, Lies(h, s)
    PROVE  ToSet(Content(h, s)) = Held(h, s)
<1>1. s.len \in Nat
  BY DEF Lies
<1>2. CASE s.len = 0
  <2>1. Content(h, s) = <<>> /\ 1 .. s.len = {}
    BY <1>2 DEF Content
  <2>2. DOMAIN Content(h, s) = {}
    BY <2>1
  <2>3. ToSet(Content(h, s)) = {}
    BY <2>2 DEF ToSet
  <2> QED
    BY <2>1, <2>3 DEF Held
<1>3. CASE s.len # 0
  <2>1. h[s.arr] \in Seq(STRING \cup {None}) /\ s.len <= Len(h[s.arr])
    BY <1>3 DEF Lies, Arrays
  <2>2. PICK c, a : a = h[s.arr] /\ c = SubSeq(a, 1, s.len)
    OBVIOUS
  <2>3. DOMAIN c = 1 .. s.len /\ \A i \in 1 .. s.len : c[i] = a[i]
    BY <1>1, <2>1, <2>2
  <2>4. Content(h, s) = c
    BY <1>3, <2>2 DEF Content
  <2>5. ToSet(c) = {a[i] : i \in 1 .. s.len}
    BY <2>3 DEF ToSet
  <2> QED
    BY <2>2, <2>4, <2>5 DEF Held
<1> QED
  BY <1>2, <1>3

\* The changes from h to g are made beyond the end of a list s that has room.
Beyond(h, g, s) ==
    \A a \in DOMAIN h : \A i \in DOMAIN h[a] :
        g[a][i] = h[a][i] \/ (a = s.arr /\ i > s.len /\ ~ Full(h, s))

\* The array of a list stays, or is a new one.
Moves(h, s, r) == (r.arr = s.arr /\ ~ Full(h, s)) \/ r.arr > Len(h)

\* What a sequence holds when x and then f are appended to it.
LEMMA OneAfter ==
    ASSUME NEW P, NEW c \in Seq(P), NEW x \in P, NEW f \in Seq(P)
    PROVE  LET e == (c \o <<x>>) \o f IN
           (\A i \in 1 .. Len(c) : e[i] = c[i]) /\ e[Len(c) + 1] = x
<1>1. PICK v : v = Append(c, x)
  OBVIOUS
<1>2. c \o <<x>> = v
  BY <1>1
<1>3. v \in Seq(P) /\ Len(v) = Len(c) + 1 /\ (\A i \in 1 .. Len(c) : v[i] = c[i]) /\ v[Len(c) + 1] = x
  BY <1>1
<1>4. Len(c) \in Nat
  OBVIOUS
<1>5. PICK e : e = v \o f
  OBVIOUS
<1>6. \A i \in 1 .. Len(v) : e[i] = v[i]
  BY <1>3, <1>5
<1>7. (\A i \in 1 .. Len(c) : e[i] = c[i]) /\ e[Len(c) + 1] = x
  BY <1>3, <1>4, <1>6
<1> QED
  BY <1>2, <1>5, <1>7

\* Append writes into the array behind the list if there is room, and else into a new one.
LEMMA AppendWrites ==
    ASSUME NEW h \in Arrays, NEW s, Lies(h, s), NEW x \in STRING
    PROVE  LET m == AppendTo([heap |-> h, list |-> s], x) IN
           /\ Beyond(h, m.heap, s) /\ Moves(h, s, m.list)
           /\ Held(m.heap, m.list) = Held(h, s) \cup {x}
<1> DEFINE P == STRING \cup {None}
           m == AppendTo([heap |-> h, list |-> s], x)
           g == m.heap
           r == m.list
<1>1. h \in Seq(Seq(P)) /\ s.len \in Nat /\ s.arr \in Nat /\ x \in P
  BY DEF Lies, Arrays
<1>2. /\ r.len = s.len + 1 /\ g \in Arrays /\ Lies(g, r)
  BY AppendGrows DEF Grows
<1>3. SUFFICES ASSUME Beyond(h, g, s), Moves(h, s, r), g[r.arr][s.len + 1] = x,
                      \A i \in 1 .. s.len : g[r.arr][i] = h[s.arr][i]
               PROVE  Held(g, r) = Held(h, s) \cup {x}
  <2>1. /\ Beyond(h, g, s) /\ Moves(h, s, r) /\ g[r.arr][s.len + 1] = x
        /\ \A i \in 1 .. s.len : g[r.arr][i] = h[s.arr][i]
    <3>1. CASE Full(h, s)
      <4>1. PICK e : e = Grown(h, s, x)
        OBVIOUS
      <4>2. g = Append(h, e) /\ r = [arr |-> Len(h) + 1, len |-> s.len + 1]
        BY <3>1, <4>1 DEF AppendTo
      <4> HIDE DEF g, r, m
      <4>3. g[Len(h) + 1] = e /\ \A a \in DOMAIN h : g[a] = h[a]
        BY <1>1, <4>2
      <4>4. PICK c, f : c = Content(h, s)
              /\ f = [i \in 1 .. (IF s.len = 0 THEN 0 ELSE s.len - 1) |-> None]
        OBVIOUS
      <4>5. c \in Seq(P) /\ Len(c) = s.len /\ \A i \in 1 .. s.len : c[i] = h[s.arr][i]
        <5>1. CASE s.len = 0
          <6>1. c = <<>>
            BY <4>4, <5>1 DEF Content
          <6> QED
            BY <5>1, <6>1
        <5>2. CASE s.len # 0
          <6>1. h[s.arr] \in Seq(P) /\ s.len <= Len(h[s.arr])
            BY <1>1, <5>2 DEF Lies
          <6>2. c = SubSeq(h[s.arr], 1, s.len)
            BY <4>4, <5>2 DEF Content
          <6> HIDE DEF P
          <6> QED
            BY <1>1, <6>1, <6>2
        <5> QED
          BY <5>1, <5>2
      <4>6. e = (c \o <<x>>) \o f
        BY <4>1, <4>4 DEF Grown
      <4>7. f \in Seq(P)
        BY <1>1, <4>4
      <4>8. (\A i \in 1 .. s.len : e[i] = c[i]) /\ e[s.len + 1] = x
        <5> HIDE DEF P
        <5>1. c \in Seq(P) /\ x \in P /\ f \in Seq(P)
          BY <1>1, <4>5, <4>7
        <5>2. (\A i \in 1 .. Len(c) : e[i] = c[i]) /\ e[Len(c) + 1] = x
          BY <4>6, <5>1, OneAfter
        <5> QED
          BY <4>5, <5>2
      <4>9. r.arr = Len(h) + 1
        BY <4>2
      <4>10. Moves(h, s, r)
        <5>1. Len(h) \in Nat
          BY <1>1
        <5> QED
          BY <4>9, <5>1 DEF Moves
      <4>11. Beyond(h, g, s)
        BY <4>3 DEF Beyond
      <4>12. g[r.arr] = e
        BY <4>3, <4>9
      <4>13. g[r.arr][s.len + 1] = x /\ \A i \in 1 .. s.len : g[r.arr][i] = h[s.arr][i]
        BY <4>5, <4>8, <4>12
      <4> QED
        BY <4>10, <4>11, <4>13
    <3>2. CASE ~ Full(h, s)
      <4>1. g = [h EXCEPT ![s.arr][s.len + 1] = x] /\ r = [s EXCEPT !.len = s.len + 1]
        BY <3>2 DEF AppendTo
      <4> HIDE DEF g, r, m
      <4>2. s.arr \in DOMAIN h /\ s.len < Len(h[s.arr]) /\ h[s.arr] \in Seq(P)
        <5>1. s.arr # 0 /\ s.arr \in DOMAIN h /\ s.len <= Len(h[s.arr]) /\ s.len # Len(h[s.arr])
          BY <3>2 DEF Full, Lies
        <5> QED
          BY <1>1, <5>1
      <4>3. r.arr = s.arr
        <5>1. s = [arr |-> s.arr, len |-> s.len]
          BY DEF Lies
        <5> QED
          BY <4>1, <5>1
      <4>4. PICK c : c = [h[s.arr] EXCEPT ![s.len + 1] = x]
        OBVIOUS
      <4>5. g = [h EXCEPT ![s.arr] = c]
        BY <4>1, <4>4
      <4>6. s.len + 1 \in DOMAIN h[s.arr]
        BY <1>1, <4>2
      <4>7. /\ c[s.len + 1] = x /\ \A i \in DOMAIN h[s.arr] : i # s.len + 1 => c[i] = h[s.arr][i]
        BY <4>4, <4>6
      <4>8. g[s.arr] = c /\ \A a \in DOMAIN h : a # s.arr => g[a] = h[a]
        BY <4>2, <4>5
      <4>9. \A i \in 1 .. s.len : i \in DOMAIN h[s.arr] /\ i # s.len + 1
        BY <1>1, <4>2
      <4>10. Beyond(h, g, s)
        <5>1. ASSUME NEW a \in DOMAIN h, NEW i \in DOMAIN h[a], g[a][i] # h[a][i]
              PROVE  a = s.arr /\ i > s.len
          <6>1. a = s.arr
            BY <4>8, <5>1
          <6>2. i = s.len + 1
            BY <4>7, <4>8, <5>1, <6>1
          <6> QED
            BY <1>1, <6>1, <6>2
        <5> QED
          BY <3>2, <5>1 DEF Beyond
      <4> QED
        BY <3>2, <4>3, <4>7, <4>8, <4>9, <4>10 DEF Moves
    <3> QED
      BY <3>1, <3>2
  <2> QED
    BY <2>1
<1> HIDE DEF m
<1>4. 1 .. (s.len + 1) = (1 .. s.len) \cup {s.len + 1}
  BY <1>1
<1> QED
  BY <1>2, <1>3, <1>4 DEF Held

\* A full list stays full, one with room keeps it.
LEMMA RoomStays ==
    ASSUME NEW h \in Arrays, NEW g, Grows(h, g), NEW s, Lies(h, s)
    PROVE  Full(g, s) <=> Full(h, s)
<1>1. s.arr # 0 => s.arr \in DOMAIN h /\ Len(h[s.arr]) = Len(g[s.arr])
  BY DEF Lies, Grows
<1> QED
  BY <1>1 DEF Full

\* The list s holds each of its patterns once.
Counts(h, s) == IsFiniteSet(Held(h, s)) /\ s.len = Cardinality(Held(h, s))

\* What the first k patterns of q have made of the list s of the heap h.
Added(h, s, q, k, m) ==
    /\ m = [heap |-> m.heap, list |-> m.list]
    /\ Grows(h, m.heap) /\ Lies(m.heap, m.list)
    /\ Beyond(h, m.heap, s)
    /\ \/ m.heap = h /\ m.list = s
       \/ k # 0 /\ Moves(h, s, m.list) /\ m.list.len > s.len
    /\ Held(m.heap, m.list) = Held(h, s) \cup {q[i] : i \in 1 .. k}
    /\ Counts(h, s) => Counts(m.heap, m.list)

\* The patterns of a statement are written beyond the end of the list they are added to;
\* the list after them holds them and what it held before, each of them once.
LEMMA AddPatternsWrites ==
    ASSUME NEW h \in Arrays, NEW s, Lies(h, s), NEW q \in Seq(STRING)
    PROVE  LET m == AddPatterns(h, s, q) IN
           /\ Beyond(h, m.heap, s)
           /\ \/ m.heap = h /\ m.list = s
              \/ q # <<>> /\ Moves(h, s, m.list) /\ m.list.len > s.len
           /\ Held(m.heap, m.list) = Held(h, s) \cup ToSet(q)
           /\ Counts(h, s) => Counts(m.heap, m.list)
<1> DEFINE first == [heap |-> h, list |-> s]
           Fine(m, k) == Added(h, s, q, k, m)
<1>1. Len(q) \in Nat
  OBVIOUS
<1>2. PICK A : /\ A[0] = first
               /\ \A k \in 1 .. Len(q) : A[k] = AddPattern(A[k - 1], q[k])
               /\ AddPatterns(h, s, q) = A[Len(q)]
  BY AddPatternsIs
<1> DEFINE T == {k \in Nat : k <= Len(q) /\ ~ Fine(A[k], k)}
<1> HIDE DEF T, Fine
<1>3. Fine(first, 0)
  <2>1. first = [heap |-> first.heap, list |-> first.list] /\ first.heap = h /\ first.list = s
    OBVIOUS
  <2>2. Grows(h, h)
    BY DEF Grows, Arrays
  <2>3. Beyond(h, h, s)
    BY DEF Beyond
  <2>4. {q[i] : i \in 1 .. 0} = {}
    OBVIOUS
  <2> QED
    BY <2>1, <2>2, <2>3, <2>4 DEF Fine, Added
<1>4. ASSUME NEW k \in 1 .. Len(q), NEW m, Fine(m, k - 1)
      PROVE  Fine(AddPattern(m, q[k]), k)
  <2>1. PICK x : x = q[k] /\ x \in STRING
    OBVIOUS
  <2>2. k \in Nat /\ k # 0 /\ k - 1 \in Nat /\ 1 .. k = (1 .. k - 1) \cup {k}
    BY <1>1
  <2>3. {q[i] : i \in 1 .. k} = {q[i] : i \in 1 .. k - 1} \cup {x}
    BY <2>1, <2>2
  <2> DEFINE g == m.heap
             r == m.list
  <2>8. m = [heap |-> g, list |-> r] /\ Grows(h, g) /\ Lies(g, r)
    BY <1>4 DEF Fine, Added
  <2>9. Beyond(h, g, s) /\ Held(g, r) = Held(h, s) \cup {q[i] : i \in 1 .. k - 1}
    BY <1>4 DEF Fine, Added
  <2>10. (g = h /\ r = s) \/ (Moves(h, s, r) /\ r.len > s.len)
    BY <1>4 DEF Fine, Added
  <2>11. Counts(h, s) => Counts(g, r)
    BY <1>4 DEF Fine, Added
  <2> HIDE DEF g, r
  <2>4. g \in Arrays /\ Lies(g, r) /\ s.len \in Nat /\ r.len \in Nat
    BY <2>8 DEF Grows, Lies
  <2>5. ToSet(Content(g, r)) = Held(g, r)
    BY <2>4, ContentIsHeld
  <2>6. CASE x \in Held(g, r)
    <3>1. AddPattern(m, x) = m
      BY <2>5, <2>6, <2>8 DEF AddPattern
    <3>2. Held(g, r) = Held(h, s) \cup {q[i] : i \in 1 .. k}
      BY <2>3, <2>6, <2>9
    <3>3. (g = h /\ r = s) \/ (k # 0 /\ Moves(h, s, r) /\ r.len > s.len)
      BY <2>2, <2>10
    <3>4. Added(h, s, q, k, m)
      BY <2>8, <2>9, <2>11, <3>2, <3>3 DEF Added
    <3> QED
      BY <2>1, <3>1, <3>4 DEF Fine
  <2>7. CASE x \notin Held(g, r)
    <3>1. PICK e : e = AppendTo(m, x)
      OBVIOUS
    <3>2. AddPattern(m, x) = e
      BY <2>5, <2>7, <2>8, <3>1 DEF AddPattern
    <3>3. e = AppendTo([heap |-> g, list |-> r], x)
      BY <2>8, <3>1
    <3>4. /\ e = [heap |-> e.heap, list |-> e.list]
          /\ Grows(g, e.heap) /\ Lies(e.heap, e.list) /\ e.list.len = r.len + 1
      BY <2>1, <2>4, <3>3, AppendGrows
    <3>5. /\ Beyond(g, e.heap, r) /\ Moves(g, r, e.list)
          /\ Held(e.heap, e.list) = Held(g, r) \cup {x}
      BY <2>1, <2>4, <3>3, AppendWrites
    <3>6. Grows(h, e.heap)
      BY <2>8, <3>4, GrowsOn
    <3>7. /\ DOMAIN h = 1 .. Len(h) /\ DOMAIN g = 1 .. Len(g)
          /\ Len(h) \in Nat /\ Len(g) \in Nat /\ Len(h) <= Len(g)
          /\ \A a \in DOMAIN h : a \in DOMAIN g /\ DOMAIN h[a] = DOMAIN g[a]
      <4>1. h \in Seq(Seq(STRING \cup {None})) /\ g \in Seq(Seq(STRING \cup {None}))
        BY <2>4 DEF Arrays
      <4>2. Len(h) <= Len(g) /\ \A a \in DOMAIN h : Len(h[a]) = Len(g[a])
        BY <2>8 DEF Grows
      <4>3. \A a \in DOMAIN h : a \in DOMAIN g
        BY <4>1, <4>2
      <4>4. \A a \in DOMAIN h : DOMAIN h[a] = 1 .. Len(h[a]) /\ DOMAIN g[a] = 1 .. Len(g[a])
        BY <4>1, <4>3
      <4> QED
        BY <4>1, <4>2, <4>3, <4>4
    <3>8. r.arr \in Nat /\ e.list.arr \in Nat /\ s.arr \in Nat
      BY <2>4, <3>4 DEF Lies
    <3>9. \/ r.arr = s.arr /\ s.len <= r.len /\ (Full(h, s) => Full(g, r))
          \/ r.arr > Len(h)
      <4>1. CASE g = h /\ r = s
        BY <2>4, <4>1
      <4>2. CASE Moves(h, s, r) /\ r.len > s.len
        <5>1. (Full(h, s) => Full(g, r)) \/ r.arr > Len(h)
          BY <4>2 DEF Moves
        <5> QED
          BY <2>4, <4>2, <5>1 DEF Moves
      <4> QED
        BY <2>10, <4>1, <4>2
    <3>10. Beyond(h, e.heap, s)
      <4> SUFFICES ASSUME NEW a \in DOMAIN h, NEW i \in DOMAIN h[a], e.heap[a][i] # h[a][i]
                   PROVE  a = s.arr /\ i > s.len /\ ~ Full(h, s)
        BY DEF Beyond
      <4>1. CASE g[a][i] # h[a][i]
        BY <2>9, <4>1 DEF Beyond
      <4>2. CASE g[a][i] = h[a][i]
        <5>1. a = r.arr /\ i > r.len /\ ~ Full(g, r)
          BY <3>5, <3>7, <4>2 DEF Beyond
        <5>2. a \in Nat /\ a <= Len(h) /\ i \in Int
          <6>1. h[a] \in Seq(STRING \cup {None})
            BY DEF Arrays
          <6> QED
            BY <3>7, <6>1
        <5> QED
          BY <2>4, <3>7, <3>9, <5>1, <5>2
      <4> QED
        BY <4>1, <4>2
    <3>11. Moves(h, s, e.list)
      BY <3>5, <3>7, <3>8, <3>9 DEF Moves
    <3>12. e.list.len > s.len
      <4>1. s.len <= r.len
        BY <2>4, <2>10
      <4> QED
        BY <2>4, <3>4, <4>1
    <3>13. Held(e.heap, e.list) = Held(h, s) \cup {q[i] : i \in 1 .. k}
      BY <2>3, <2>9, <3>5
    <3>14. Counts(h, s) => Counts(e.heap, e.list)
      <4> SUFFICES ASSUME Counts(g, r) PROVE Counts(e.heap, e.list)
        BY <2>11
      <4>1. PICK S : S = Held(g, r)
        OBVIOUS
      <4>2. IsFiniteSet(S) /\ x \notin S /\ r.len = Cardinality(S)
        BY <2>7, <4>1 DEF Counts
      <4>3. IsFiniteSet(S \cup {x}) /\ Cardinality(S \cup {x}) = Cardinality(S) + 1
        BY <4>2, FS_AddElement
      <4> QED
        BY <3>4, <3>5, <4>1, <4>2, <4>3 DEF Counts
    <3>15. Added(h, s, q, k, e)
      BY <2>2, <3>4, <3>6, <3>10, <3>11, <3>12, <3>13, <3>14 DEF Added
    <3> QED
      BY <2>1, <3>2, <3>15 DEF Fine
  <2> QED
    BY <2>6, <2>7
<1>5. T = {}
  <2> SUFFICES ASSUME T # {} PROVE FALSE
    OBVIOUS
  <2> USE DEF T
  <2>1. PICK k \in T : \A n \in T : k <= n
    <3>1. T \subseteq Nat
      OBVIOUS
    <3> HIDE DEF T
    <3> QED
      BY <3>1, LeastNatural
  <2>2. k \in Nat /\ k <= Len(q) /\ ~ Fine(A[k], k)
    BY <2>1
  <2>3. k # 0
    BY <1>2, <1>3, <2>2
  <2>4. k - 1 \in Nat /\ k - 1 <= Len(q) /\ k \in 1 .. Len(q) /\ ~ (k <= k - 1)
    BY <1>1, <2>2, <2>3
  <2>5. Fine(A[k - 1], k - 1)
    <3>1. k - 1 \notin T
      BY <2>1, <2>4
    <3> QED
      BY <2>4, <3>1
  <2> QED
    BY <1>2, <1>4, <2>2, <2>4, <2>5
<1>6. Fine(A[Len(q)], Len(q))
  BY <1>1, <1>5 DEF T
<1>7. {q[i] : i \in 1 .. Len(q)} = ToSet(q) /\ (Len(q) # 0 => q # <<>>)
  BY DEF ToSet
<1>8. \A m : Added(h, s, q, Len(q), m) =>
         /\ Beyond(h, m.heap, s)
         /\ \/ m.heap = h /\ m.list = s
            \/ q # <<>> /\ Moves(h, s, m.list) /\ m.list.len > s.len
         /\ Held(m.heap, m.list) = Held(h, s) \cup ToSet(q)
         /\ Counts(h, s) => Counts(m.heap, m.list)
  BY <1>7 DEF Added
<1> QED
  BY <1>2, <1>6, <1>8 DEF Fine

-----------------------------------------------------------------------------
(* Lists that share an array *)

\* u has patterns of its own, which are appended to the list s; its array has room.
AddsTo(u, s) ==
    /\ u \in Types /\ ~ IsBuiltin(u) /\ doc.type[u].patterns # <<>>
    /\ Found(u) \in Typedefs /\ yt[Found(u)] # None
    /\ yt[Found(u)].patterns = s /\ ~ Full(heap, s)

\* Two types write into the same array, from the same place on.
Beside(u, v) == u # v /\ \E s : AddsTo(u, s) /\ AddsTo(v, s)

\* One of the chain of t has appended to the list of w.
Under(w, t) == \E u \in ChainOf(t) \cap Types : AddsTo(u, yt[w].patterns)

\* One of the chain of t writes where another type does.
Shared(t) == \E u \in ChainOf(t) \cap Types, v \in Types : Beside(u, v)

\* Why the lists of t and w are in the same array.
Related(t, w) ==
    \/ yt[t].patterns = yt[w].patterns \/ Under(t, w) \/ Under(w, t)
    \/ \E u \in ChainOf(t) \cap Types, v \in ChainOf(w) \cap Types : Beside(u, v)

\* The list of t holds the patterns of its chain, each of them once.
Holds(t) == Held(heap, yt[t].patterns) = PatternsOf(t) /\ Counts(heap, yt[t].patterns)

\* The list of a type is not shorter than those of its chain.
Longest(t) == \A p \in ChainOf(t) \cap Types : yt[p].patterns.len <= yt[t].patterns.len

\* The invariant of lists: a list is not what the chain says only where two types write into
\* the same array, and lists are in the same array only for a reason.
ListsInv ==
    /\ \A d \in Typedefs : yt[d] # None => yt[d].patterns = yt[TypeOf(d)].patterns
    /\ \A t \in Types : yt[t] # None => Longest(t) /\ (Holds(t) \/ Shared(t))
    /\ \A t, w \in Types :
          yt[t] # None /\ yt[w] # None
          /\ yt[t].patterns.arr = yt[w].patterns.arr /\ yt[t].patterns.arr # 0 => Related(t, w)

\* A step takes no YangType back, and changes no list of one.
ListsStay ==
    /\ doc' = doc /\ Grows(heap, heap')
    /\ \A p \in Holders : yt[p] # None => yt'[p] # None /\ yt'[p].patterns = yt[p].patterns

\* What is written beside each other stays so.
LEMMA BesideStays ==
    ASSUME StateInv, TypedInv, ListsStay
    PROVE  /\ \A u, s : AddsTo(u, s) => AddsTo(u, s)'
           /\ \A u, v : Beside(u, v) => Beside(u, v)'
<1>1. /\ doc' = doc /\ Types' = Types /\ Typedefs' = Typedefs
      /\ \A u : (IsBuiltin(u)' <=> IsBuiltin(u)) /\ Found(u)' = Found(u)
  BY SameDocument, SameFound DEF ListsStay
<1>2. ASSUME NEW u, NEW s, AddsTo(u, s) PROVE AddsTo(u, s)'
  <2>1. PICK d : d = Found(u) /\ d \in Typedefs /\ yt[d] # None /\ yt[d].patterns = s
    BY <1>2 DEF AddsTo
  <2>2. yt'[d] # None /\ yt'[d].patterns = s
    BY <2>1 DEF ListsStay, Holders
  <2>3. Lies(heap, s) /\ heap \in Arrays
    BY <2>1 DEF TypedInv
  <2>4. ~ Full(heap', s)
    BY <1>2, <2>3, RoomStays DEF ListsStay, AddsTo
  <2>5. Found(u)' = d /\ ~ IsBuiltin(u)' /\ u \in Types' /\ d \in Typedefs'
    BY <1>1, <1>2, <2>1 DEF AddsTo
  <2>6. doc'.type[u].patterns # <<>>
    BY <1>1, <1>2 DEF AddsTo
  <2> QED
    BY <2>2, <2>4, <2>5, <2>6 DEF AddsTo
<1>3. ASSUME NEW u, NEW v, Beside(u, v) PROVE Beside(u, v)'
  <2>1. PICK s : AddsTo(u, s) /\ AddsTo(v, s)
    BY <1>3 DEF Beside
  <2>2. AddsTo(u, s)' /\ AddsTo(v, s)'
    BY <1>2, <2>1
  <2> QED
    BY <1>3, <2>2 DEF Beside
<1> QED
  BY <1>2, <1>3

\* So do the relations of types that have been resolved.
LEMMA RelatedStays ==
    ASSUME StateInv, TypedInv, ListsStay
    PROVE  /\ \A t : Shared(t) => Shared(t)'
           /\ \A t, w \in Types : yt[w] # None /\ Under(w, t) => Under(w, t)'
           /\ \A t, w \in Types : yt[t] # None /\ yt[w] # None /\ Related(t, w) => Related(t, w)'
<1>1. /\ Types' = Types /\ \A t : ChainOf(t)' = ChainOf(t)
      /\ \A w \in Types : yt[w] # None => yt'[w] # None /\ yt'[w].patterns = yt[w].patterns
  BY SameDocument, SameChains DEF ListsStay, Holders
<1>2. ASSUME NEW t, Shared(t) PROVE Shared(t)'
  <2>1. PICK u \in ChainOf(t) \cap Types, v \in Types : Beside(u, v)
    BY <1>2 DEF Shared
  <2>2. Beside(u, v)'
    BY <2>1, BesideStays
  <2> QED
    BY <1>1, <2>2 DEF Shared
<1>3. ASSUME NEW t \in Types, NEW w \in Types, yt[w] # None, Under(w, t) PROVE Under(w, t)'
  <2>1. PICK u \in ChainOf(t) \cap Types : AddsTo(u, yt[w].patterns)
    BY <1>3 DEF Under
  <2>2. PICK s : s = yt[w].patterns
    OBVIOUS
  <2>3. AddsTo(u, s)'
    BY <2>1, <2>2, BesideStays
  <2>4. yt'[w].patterns = s
    BY <1>1, <1>3, <2>2
  <2>5. AddsTo(u, yt[w].patterns)'
    BY <2>3, <2>4 DEF AddsTo
  <2> QED
    BY <1>1, <2>5 DEF Under
<1>4. ASSUME NEW t \in Types, NEW w \in Types, yt[t] # None, yt[w] # None, Related(t, w)
      PROVE  Related(t, w)'
  <2>1. CASE yt[t].patterns = yt[w].patterns
    <3>1. yt'[t].patterns = yt'[w].patterns
      BY <1>1, <1>4, <2>1
    <3> QED
      BY <3>1 DEF Related
  <2>2. CASE Under(t, w) \/ Under(w, t)
    BY <1>3, <1>4, <2>2 DEF Related
  <2>3. CASE \E u \in ChainOf(t) \cap Types, v \in ChainOf(w) \cap Types : Beside(u, v)
    <3>1. PICK u \in ChainOf(t) \cap Types, v \in ChainOf(w) \cap Types : Beside(u, v)
      BY <2>3
    <3>2. Beside(u, v)'
      BY <3>1, BesideStays
    <3> QED
      BY <1>1, <3>2 DEF Related
  <2> QED
    BY <1>4, <2>1, <2>2, <2>3 DEF Related
<1> QED
  BY <1>2, <1>3, <1>4

\* The lists stay what they are in a step that resolves no type statement and does not
\* write into an array.
LEMMA ListsKept ==
    ASSUME StateInv, TypedInv, RightInv, ListsInv, ListsStay, heap' = heap,
           \A t \in Types : yt'[t] # None => yt[t] # None,
           \A d \in Typedefs : yt'[d] # None => yt'[d].patterns = yt'[TypeOf(d)].patterns
    PROVE  ListsInv'
<1>1. /\ doc' = doc /\ Types' = Types /\ Typedefs' = Typedefs /\ \A d : TypeOf(d)' = TypeOf(d)
      /\ \A t : ChainOf(t)' = ChainOf(t) /\ PatternsOf(t)' = PatternsOf(t)
      /\ \A t \in Types : yt'[t] # None => yt[t] # None /\ yt'[t].patterns = yt[t].patterns
  <2>1. doc' = doc
    BY DEF ListsStay
  <2>2. \A t : ChainOf(t)' = ChainOf(t) /\ Statements(t)' = Statements(t)
    BY <2>1, SameChains
  <2>3. \A t : PatternsOf(t)' = PatternsOf(t)
    BY <2>2 DEF PatternsOf
  <2>4. \A d : TypeOf(d)' = TypeOf(d)
    BY <2>1 DEF TypeOf
  <2>5. \A t \in Types : yt'[t] # None => yt[t] # None /\ yt'[t].patterns = yt[t].patterns
    BY DEF ListsStay, Holders
  <2> QED
    BY <2>1, <2>2, <2>3, <2>4, <2>5, SameDocument
<1>2. \A d \in Typedefs' : yt'[d] # None => yt'[d].patterns = yt'[TypeOf(d)'].patterns
  BY <1>1
<1>3. ASSUME NEW t \in Types, yt'[t] # None PROVE Longest(t)' /\ (Holds(t)' \/ Shared(t)')
  <2>1. yt[t] # None /\ yt'[t].patterns = yt[t].patterns
    BY <1>1, <1>3
  <2>2. Longest(t) /\ (Holds(t) \/ Shared(t)) /\ Right(t)
    BY <2>1 DEF ListsInv, RightInv
  <2>3. Longest(t)'
    <3>1. \A p \in ChainOf(t) \cap Types : yt[p] # None
      BY <2>2 DEF Right
    <3>2. \A p \in ChainOf(t) \cap Types : yt'[p].patterns = yt[p].patterns
      BY <3>1 DEF ListsStay, Holders
    <3>3. \A p \in ChainOf(t) \cap Types : yt'[p].patterns.len <= yt'[t].patterns.len
      BY <2>1, <2>2, <3>2 DEF Longest
    <3> QED
      BY <1>1, <3>3 DEF Longest
  <2>4. Holds(t) => Holds(t)'
    <3>1. PICK s : s = yt[t].patterns
      OBVIOUS
    <3>2. Held(heap', s) = Held(heap, s)
      OBVIOUS
    <3>3. (Held(heap', yt'[t].patterns) = Held(heap, yt[t].patterns))
          /\ (Counts(heap', yt'[t].patterns) <=> Counts(heap, yt[t].patterns))
      BY <2>1
    <3> QED
      BY <1>1, <3>3 DEF Holds
  <2> QED
    BY <2>2, <2>3, <2>4, RelatedStays
<1>4. ASSUME NEW t \in Types, NEW w \in Types, yt'[t] # None, yt'[w] # None,
             yt'[t].patterns.arr = yt'[w].patterns.arr, yt'[t].patterns.arr # 0
      PROVE  Related(t, w)'
  <2>1. yt[t] # None /\ yt[w] # None /\ yt[t].patterns.arr = yt[w].patterns.arr
          /\ yt[t].patterns.arr # 0
    BY <1>1, <1>4
  <2>2. Related(t, w)
    BY <2>1 DEF ListsInv
  <2> QED
    BY <2>1, <2>2, RelatedStays
<1> QED
  BY <1>1, <1>2, <1>3, <1>4 DEF ListsInv

\* Both are said of two types in either order.
LEMMA BesideTurns ==
    /\ \A u, v : Beside(u, v) => Beside(v, u)
    /\ \A t, w : Related(t, w) => Related(w, t)
<1>1. \A u, v : Beside(u, v) => Beside(v, u)
  BY DEF Beside
<1> QED
  BY <1>1 DEF Related

\* The patterns of a chain are those of its type, and those of what that is based on.
LEMMA PatternsDerived ==
    ASSUME doc \in Documents, NEW t \in Types
    PROVE  /\ IsBuiltin(t) => PatternsOf(t) = ToSet(doc.type[t].patterns)
           /\ ~ IsBuiltin(t) /\ Defining(t) # {} =>
                 PatternsOf(t) = ToSet(doc.type[t].patterns) \cup PatternsOf(TypeOf(Found(t)))
<1>1. ASSUME IsBuiltin(t) PROVE PatternsOf(t) = ToSet(doc.type[t].patterns)
  <2>1. Statements(t) = {doc.type[t]}
    BY <1>1, BaseOfBuiltin
  <2> QED
    BY <2>1 DEF PatternsOf
<1>2. ASSUME ~ IsBuiltin(t), Defining(t) # {}
      PROVE  PatternsOf(t) = ToSet(doc.type[t].patterns) \cup PatternsOf(TypeOf(Found(t)))
  <2>1. PICK u : u = TypeOf(Found(t))
    OBVIOUS
  <2>2. Statements(t) = {doc.type[t]} \cup Statements(u)
    BY <1>2, <2>1, BaseOfDerived
  <2>3. PatternsOf(t) = ToSet(doc.type[t].patterns) \cup PatternsOf(u)
    BY <2>2 DEF PatternsOf
  <2> QED
    BY <2>1, <2>3
<1> QED
  BY <1>1, <1>2

\* t is resolved in this step, from the list of b.
Resolves(t, b) ==
    /\ t \in Types /\ yt[t] = None /\ yt[b] # None
    /\ \/ IsBuiltin(t) /\ b = doc.type[t].name /\ b \in Builtin
       \/ ~ IsBuiltin(t) /\ b = Found(t) /\ b \in Typedefs /\ Defining(t) # {}
    /\ LET m == AddPatterns(heap, yt[b].patterns, doc.type[t].patterns) IN
       /\ heap' = m.heap
       /\ \E z : yt' = [yt EXCEPT ![t] = z] /\ z # None /\ z.patterns = m.list
    /\ doc' = doc

\* What has been written, and which list t has got.
LEMMA ListWritten ==
    ASSUME StateInv, TypedInv, NEW t, NEW b, Resolves(t, b)
    PROVE  LET s == yt[b].patterns
               q == doc.type[t].patterns
               r == yt'[t].patterns
           IN  /\ ListsStay /\ yt'[t] # None /\ \A p \in Holders : p # t => yt'[p] = yt[p]
               /\ Lies(heap, s) /\ Lies(heap', r) /\ heap \in Arrays
               /\ Beyond(heap, heap', s)
               /\ \/ heap' = heap /\ r = s
                  \/ q # <<>> /\ Moves(heap, s, r) /\ r.len > s.len
               /\ Held(heap', r) = Held(heap, s) \cup ToSet(q)
               /\ Counts(heap, s) => Counts(heap', r)
<1>1. PICK s, q, m : s = yt[b].patterns /\ q = doc.type[t].patterns /\ m = AddPatterns(heap, s, q)
  OBVIOUS
<1>2. PICK z : yt' = [yt EXCEPT ![t] = z] /\ z # None /\ z.patterns = m.list
  BY <1>1 DEF Resolves
<1>3. heap' = m.heap /\ doc' = doc /\ t \in Types /\ yt[t] = None /\ yt[b] # None
  BY <1>1 DEF Resolves
<1>4. b \in Builtin \cup Typedefs
  BY DEF Resolves
<1>5. Lies(heap, s) /\ heap \in Arrays
  BY <1>1, <1>3, <1>4 DEF TypedInv
<1>6. q \in Seq(STRING)
  BY <1>1, <1>3, DocumentsAssumption DEF StateInv, Types
<1>7. Grows(heap, m.heap) /\ Lies(m.heap, m.list)
  BY <1>1, <1>5, <1>6, AddPatternsGrow
<1>8. /\ Beyond(heap, m.heap, s)
      /\ \/ m.heap = heap /\ m.list = s
         \/ q # <<>> /\ Moves(heap, s, m.list) /\ m.list.len > s.len
      /\ Held(m.heap, m.list) = Held(heap, s) \cup ToSet(q)
      /\ Counts(heap, s) => Counts(m.heap, m.list)
  BY <1>1, <1>5, <1>6, AddPatternsWrites
<1>9. yt'[t] = z /\ \A p \in Holders : p # t => yt'[p] = yt[p]
  BY <1>2, <1>3, MadeStays
<1>10. ListsStay
  BY <1>3, <1>7, <1>9 DEF ListsStay
<1>11. yt'[t].patterns = m.list
  BY <1>2, <1>9
<1> QED
  BY <1>1, <1>2, <1>3, <1>5, <1>7, <1>8, <1>9, <1>10, <1>11

\* The list that t is made from is that of a type of its chain, or empty.
LEMMA ListFrom ==
    ASSUME StateInv, TypedInv, RightInv, ListsInv, NEW t, NEW b, Resolves(t, b)
    PROVE  /\ \A p \in ChainOf(t) : p # t => yt[p] # None
           /\ \A w \in Types : yt[w] # None => t \notin ChainOf(w)
           /\ IsBuiltin(t) => yt[b].patterns = NoPatterns /\ ChainOf(t) = {t}
           /\ ~ IsBuiltin(t) =>
                 LET u == TypeOf(b) IN
                 /\ u \in Types /\ u # t /\ yt[u] # None /\ yt[u].patterns = yt[b].patterns
                 /\ ChainOf(t) = {t, b} \cup ChainOf(u) /\ b \in Typedefs /\ b = Found(t)
<1>1. doc \in Documents /\ t \in Types /\ yt[t] = None /\ yt[b] # None
  BY DEF StateInv, Resolves
<1>2. \A p \in ChainOf(t) : p # t => yt[p] # None
  BY <1>1, DerivesFrom DEF Resolves
<1>3. \A w \in Types : yt[w] # None => t \notin ChainOf(w)
  BY <1>1 DEF RightInv, Right
<1>4. ASSUME IsBuiltin(t) PROVE yt[b].patterns = NoPatterns /\ ChainOf(t) = {t}
  <2>1. b \in Builtin
    BY <1>4 DEF Resolves
  <2>2. yt[b] = BuiltinType(b)
    BY <2>1 DEF TypedInv
  <2>3. yt[b].patterns = NoPatterns
    BY <2>2 DEF BuiltinType
  <2> QED
    BY <1>1, <1>4, <2>3, ChainEnds
<1>5. ASSUME ~ IsBuiltin(t)
      PROVE  LET u == TypeOf(b) IN
             /\ u \in Types /\ u # t /\ yt[u] # None /\ yt[u].patterns = yt[b].patterns
             /\ ChainOf(t) = {t, b} \cup ChainOf(u) /\ b \in Typedefs /\ b = Found(t)
  <2>1. b = Found(t) /\ b \in Typedefs /\ Defining(t) # {}
    BY <1>5 DEF Resolves
  <2>2. PICK u : u = TypeOf(b)
    OBVIOUS
  <2>3. u \in Types /\ ChainOf(t) = {t, b} \cup ChainOf(u)
    BY <1>1, <1>5, <2>1, <2>2, ChainGoesOn
  <2>4. yt[u] # None
    BY <1>1, <2>1, <2>2 DEF RightInv, RightTypedef
  <2>5. yt[b].patterns = yt[u].patterns
    BY <1>1, <2>1, <2>2 DEF ListsInv
  <2> QED
    BY <1>1, <2>1, <2>2, <2>3, <2>4, <2>5
<1> QED
  BY <1>2, <1>3, <1>4, <1>5

\* How the list that t is made from is related to those in its array.
LEMMA RelatedToBase ==
    ASSUME StateInv, TypedInv, RightInv, ListsInv, NEW t, NEW b, Resolves(t, b),
           NEW w \in Types, yt[w] # None, yt[w].patterns.arr = yt[b].patterns.arr,
           yt[w].patterns.arr # 0
    PROVE  /\ ~ IsBuiltin(t) /\ Related(TypeOf(b), w)
<1>1. ~ IsBuiltin(t)
  BY ListFrom DEF NoPatterns
<1>2. PICK u : u = TypeOf(b)
  OBVIOUS
<1>3. u \in Types /\ yt[u] # None /\ yt[u].patterns = yt[b].patterns
  BY <1>1, <1>2, ListFrom
<1>4. Related(u, w)
  BY <1>3 DEF ListsInv
<1> QED
  BY <1>1, <1>2, <1>4

\* t adds to the list it is made from, if that has room.
LEMMA AddsToBase ==
    ASSUME StateInv, TypedInv, NEW t, NEW b, Resolves(t, b), ~ IsBuiltin(t),
           doc.type[t].patterns # <<>>, ~ Full(heap, yt[b].patterns)
    PROVE  AddsTo(t, yt[b].patterns)'
<1>1. PICK s : s = yt[b].patterns
  OBVIOUS
<1>2. b = Found(t) /\ b \in Typedefs /\ yt[b] # None /\ t \in Types
  BY DEF Resolves
<1>3. AddsTo(t, s)
  BY <1>1, <1>2 DEF AddsTo
<1>4. AddsTo(t, s)' /\ yt'[b].patterns = s
  BY <1>1, <1>2, <1>3, ListWritten, BesideStays DEF ListsStay, Holders
<1> QED
  BY <1>4 DEF AddsTo

\* Whose list is written into shares the place that is written.
LEMMA Overwritten ==
    ASSUME StateInv, TypedInv, RightInv, ListsInv, NEW t, NEW b, Resolves(t, b),
           NEW p \in Types, yt[p] # None,
           Held(heap', yt[p].patterns) # Held(heap, yt[p].patterns)
    PROVE  Shared(p)'
<1>1. PICK s, r : s = yt[b].patterns /\ r = yt[p].patterns
  OBVIOUS
<1>2. doc \in Documents /\ ListsStay /\ Types' = Types /\ ChainOf(p)' = ChainOf(p) /\ t \in Types
  BY SameDocument, SameChains, ListWritten DEF StateInv, Resolves
<1>3. /\ Lies(heap, r) /\ r.len \in Nat /\ r.arr \in Nat
      /\ Lies(heap, s) /\ s.len \in Nat /\ Beyond(heap, heap', s)
  <2>1. Lies(heap, r)
    BY <1>1 DEF TypedInv
  <2> QED
    BY <1>1, <2>1, ListWritten DEF Lies
<1>4. PICK i \in 1 .. r.len : heap'[r.arr][i] # heap[r.arr][i]
  <2>1. Held(heap', r) # Held(heap, r)
    BY <1>1
  <2>2. (\A i \in 1 .. r.len : heap'[r.arr][i] = heap[r.arr][i]) => Held(heap', r) = Held(heap, r)
    BY DEF Held
  <2> QED
    BY <2>1, <2>2
<1>5. r.arr # 0 /\ r.arr \in DOMAIN heap /\ i \in DOMAIN heap[r.arr]
  <2>1. r.arr # 0 /\ r.arr \in DOMAIN heap /\ r.len <= Len(heap[r.arr])
    BY <1>3, <1>4 DEF Lies
  <2>2. heap[r.arr] \in Seq(STRING \cup {None})
    BY <2>1, ListWritten DEF Arrays
  <2>3. i \in 1 .. Len(heap[r.arr])
    BY <1>3, <1>4, <2>1, <2>2
  <2> QED
    BY <2>1, <2>2, <2>3
<1>6. r.arr = s.arr /\ i > s.len /\ ~ Full(heap, s)
  BY <1>3, <1>4, <1>5 DEF Beyond
<1>7. r.len > s.len
  BY <1>3, <1>4, <1>6
<1>8. doc.type[t].patterns # <<>>
  <2>1. heap' # heap
    BY <1>4
  <2> QED
    BY <2>1, ListWritten
<1>9. ~ IsBuiltin(t) /\ Related(TypeOf(b), p)
  BY <1>1, <1>5, <1>6, RelatedToBase
<1>10. PICK u : u = TypeOf(b)
  OBVIOUS
<1>11. u \in Types /\ yt[u] # None /\ yt[u].patterns = s
  BY <1>1, <1>9, <1>10, ListFrom
<1>12. AddsTo(t, s)'
  <2>1. AddsTo(t, yt[b].patterns)'
    BY <1>1, <1>6, <1>8, <1>9, AddsToBase
  <2>2. yt'[b].patterns = s
    BY <1>1, <1>2 DEF ListsStay, Holders, Resolves
  <2> QED
    BY <2>1, <2>2 DEF AddsTo
<1>13. CASE yt[u].patterns = yt[p].patterns
  BY <1>1, <1>3, <1>7, <1>11, <1>13
<1>14. CASE Under(u, p)
  <2>1. PICK v \in ChainOf(p) \cap Types : AddsTo(v, s)
    BY <1>11, <1>14 DEF Under
  <2>2. v # t
    BY <2>1, ListFrom
  <2>3. AddsTo(v, s)'
    BY <1>2, <2>1, BesideStays
  <2>4. Beside(v, t)'
    BY <1>12, <2>2, <2>3 DEF Beside
  <2> QED
    BY <1>2, <2>1, <2>4 DEF Shared
<1>15. CASE Under(p, u)
  <2>1. PICK v \in ChainOf(u) \cap Types : AddsTo(v, r)
    BY <1>1, <1>15 DEF Under
  <2>2. PICK d : d = Found(v) /\ d \in Typedefs /\ yt[d] # None /\ yt[d].patterns = r
    BY <2>1 DEF AddsTo
  <2>3. PICK w : w = TypeOf(d)
    OBVIOUS
  <2>4. yt[w].patterns = r
    BY <2>2, <2>3 DEF ListsInv
  <2>5. Defining(v) # {} /\ ~ IsBuiltin(v)
    <3>1. Found(v) # None
      BY <1>2, <2>2, DocumentsAssumption DEF Typedefs
    <3> QED
      BY <1>2, <2>1, <3>1, FoundNone DEF AddsTo
  <2>6. w \in ChainOf(u) \cap Types
    <3>1. w \in Types /\ ChainOf(w) \subseteq ChainOf(v)
      BY <1>2, <2>1, <2>2, <2>3, <2>5, ChainGoesOn
    <3>2. w \in ChainOf(w) /\ ChainOf(v) \subseteq ChainOf(u)
      BY <1>2, <1>11, <2>1, <3>1, ChainIsLeast, ChainWithin
    <3> QED
      BY <3>1, <3>2
  <2>7. Longest(u)
    BY <1>11 DEF ListsInv
  <2>8. r.len <= s.len
    BY <1>11, <2>4, <2>6, <2>7 DEF Longest
  <2> QED
    BY <1>3, <1>7, <2>8
<1>16. CASE \E v \in ChainOf(u) \cap Types, w \in ChainOf(p) \cap Types : Beside(v, w)
  <2>1. PICK v \in ChainOf(u) \cap Types, w \in ChainOf(p) \cap Types : Beside(v, w)
    BY <1>16
  <2>2. Shared(p)
    BY <2>1, BesideTurns DEF Shared
  <2> QED
    BY <1>2, <2>2, RelatedStays
<1> QED
  BY <1>9, <1>10, <1>13, <1>14, <1>15, <1>16 DEF Related

\* A type that has been resolved still holds its patterns, or shares a place.
LEMMA OldLists ==
    ASSUME StateInv, TypedInv, RightInv, ListsInv, NEW t, NEW b, Resolves(t, b),
           NEW p \in Types, yt[p] # None
    PROVE  Longest(p)' /\ (Holds(p)' \/ Shared(p)')
<1>1. /\ ListsStay /\ Types' = Types /\ ChainOf(p)' = ChainOf(p)
      /\ PatternsOf(p)' = PatternsOf(p)
  <2>1. doc' = doc
    BY DEF Resolves
  <2>2. ChainOf(p)' = ChainOf(p) /\ Statements(p)' = Statements(p)
    BY <2>1, SameChains
  <2> QED
    BY <2>1, <2>2, SameDocument, ListWritten DEF PatternsOf
<1>2. yt'[p].patterns = yt[p].patterns /\ Longest(p) /\ (Holds(p) \/ Shared(p)) /\ Right(p)
  BY <1>1 DEF ListsInv, ListsStay, Holders, RightInv
<1>3. Longest(p)'
  <2>1. \A q \in ChainOf(p) \cap Types : yt[q] # None
    BY <1>2 DEF Right
  <2>2. \A q \in ChainOf(p) \cap Types : yt'[q].patterns = yt[q].patterns
    BY <1>1, <2>1 DEF ListsStay, Holders
  <2>3. \A q \in ChainOf(p) \cap Types : yt'[q].patterns.len <= yt'[p].patterns.len
    BY <1>2, <2>2 DEF Longest
  <2> QED
    BY <1>1, <2>3 DEF Longest
<1>4. CASE Shared(p)
  BY <1>1, <1>3, <1>4, RelatedStays
<1>5. CASE Holds(p) /\ Held(heap', yt[p].patterns) = Held(heap, yt[p].patterns)
  <2>1. Held(heap', yt'[p].patterns) = Held(heap, yt[p].patterns)
    BY <1>2, <1>5
  <2>2. Counts(heap', yt'[p].patterns)
    BY <1>2, <1>5, <2>1 DEF Counts, Holds
  <2>3. Holds(p)'
    BY <1>1, <1>5, <2>1, <2>2 DEF Holds
  <2> QED
    BY <1>3, <2>3
<1>6. CASE Held(heap', yt[p].patterns) # Held(heap, yt[p].patterns)
  BY <1>3, <1>6, Overwritten
<1> QED
  BY <1>2, <1>4, <1>5, <1>6

\* So does the type that is resolved.
LEMMA NewList ==
    ASSUME StateInv, TypedInv, RightInv, ListsInv, NEW t, NEW b, Resolves(t, b)
    PROVE  Longest(t)' /\ (Holds(t)' \/ Shared(t)')
<1>1. PICK s, q, r : s = yt[b].patterns /\ q = doc.type[t].patterns /\ r = yt'[t].patterns
  OBVIOUS
<1>2. /\ ListsStay /\ doc \in Documents /\ t \in Types /\ Types' = Types
      /\ ChainOf(t)' = ChainOf(t) /\ PatternsOf(t)' = PatternsOf(t)
  <2>1. doc' = doc
    BY DEF Resolves
  <2>2. ChainOf(t)' = ChainOf(t) /\ Statements(t)' = Statements(t)
    BY <2>1, SameChains
  <2> QED
    BY <2>1, <2>2, SameDocument, ListWritten DEF PatternsOf, StateInv, Resolves
<1>3. /\ Held(heap', r) = Held(heap, s) \cup ToSet(q)
      /\ Counts(heap, s) => Counts(heap', r)
      /\ s.len \in Nat /\ r.len \in Nat /\ s.len <= r.len
  <2>1. Lies(heap, s) /\ Lies(heap', r) /\ (r = s \/ r.len > s.len)
    BY <1>1, ListWritten
  <2>2. s.len \in Nat /\ r.len \in Nat
    BY <2>1 DEF Lies
  <2> QED
    BY <1>1, <2>1, <2>2, ListWritten
<1>4. CASE IsBuiltin(t)
  <2>1. s = NoPatterns /\ ChainOf(t) = {t} /\ PatternsOf(t) = ToSet(q)
    BY <1>1, <1>2, <1>4, ListFrom, PatternsDerived
  <2>2. Held(heap, s) = {} /\ s.len = 0
    BY <2>1 DEF Held, NoPatterns
  <2>3. Counts(heap, s)
    BY <2>2, FS_EmptySet DEF Counts
  <2>4. Holds(t)'
    BY <1>1, <1>2, <1>3, <2>1, <2>2, <2>3 DEF Holds
  <2>5. Longest(t)'
    <3>1. yt'[t].patterns.len <= yt'[t].patterns.len
      BY <1>1, <1>3
    <3> QED
      BY <1>2, <2>1, <3>1 DEF Longest
  <2> QED
    BY <2>4, <2>5
<1>5. CASE ~ IsBuiltin(t)
  <2>1. PICK u : u = TypeOf(b)
    OBVIOUS
  <2>2. /\ u \in Types /\ yt[u] # None /\ yt[u].patterns = s
        /\ ChainOf(t) = {t, b} \cup ChainOf(u) /\ b \in Typedefs /\ b = Found(t)
        /\ \A p \in ChainOf(t) : p # t => yt[p] # None
    BY <1>1, <1>5, <2>1, ListFrom
  <2>3. Longest(u) /\ (Holds(u) \/ Shared(u))
    BY <2>2 DEF ListsInv
  <2>4. PatternsOf(t) = ToSet(q) \cup PatternsOf(u)
    <3>1. Defining(t) # {}
      BY <1>5 DEF Resolves
    <3> QED
      BY <1>1, <1>2, <1>5, <2>1, <2>2, <3>1, PatternsDerived
  <2>5. Longest(t)'
    <3>1. ASSUME NEW p \in ChainOf(t) \cap Types PROVE yt'[p].patterns.len <= yt'[t].patterns.len
      <4>1. CASE p = t
        BY <1>1, <1>3, <4>1
      <4>2. CASE p # t
        <5>1. p \in ChainOf(u) \cap Types
          BY <1>2, <2>2, <4>2, DocumentTypes
        <5>2. yt[p].patterns.len <= s.len
          BY <2>2, <2>3, <5>1 DEF Longest
        <5>3. yt'[p].patterns = yt[p].patterns
          BY <1>2, <2>2, <3>1, <4>2 DEF ListsStay, Holders
        <5>4. yt[p].patterns.len \in Nat
          <6>1. Lies(heap, yt[p].patterns)
            BY <2>2, <3>1, <4>2 DEF TypedInv
          <6> QED
            BY <6>1 DEF Lies
        <5> QED
          BY <1>1, <1>3, <5>2, <5>3, <5>4
      <4> QED
        BY <4>1, <4>2
    <3> QED
      BY <1>2, <3>1 DEF Longest
  <2>6. CASE Holds(u)
    <3>1. Held(heap, s) = PatternsOf(u) /\ Counts(heap, s)
      BY <2>2, <2>6 DEF Holds
    <3>2. Held(heap', r) = PatternsOf(t) /\ Counts(heap', r)
      BY <1>3, <2>4, <3>1
    <3>3. Holds(t)'
      BY <1>1, <1>2, <3>2 DEF Holds
    <3> QED
      BY <2>5, <3>3
  <2>7. CASE Shared(u)
    <3>1. Shared(t)
      BY <2>2, <2>7 DEF Shared
    <3> QED
      BY <1>2, <2>5, <3>1, RelatedStays
  <2> QED
    BY <2>3, <2>6, <2>7
<1> QED
  BY <1>4, <1>5

\* A list in the same array as the one that t gets is related to it.
LEMMA NewRelated ==
    ASSUME StateInv, TypedInv, RightInv, ListsInv, NEW t, NEW b, Resolves(t, b),
           NEW w \in Types, yt[w] # None,
           yt'[w].patterns.arr = yt'[t].patterns.arr, yt'[t].patterns.arr # 0
    PROVE  Related(t, w)'
<1>1. PICK s, q, r, k : /\ s = yt[b].patterns /\ q = doc.type[t].patterns
                        /\ r = yt'[t].patterns /\ k = yt[w].patterns
  OBVIOUS
<1>2. /\ ListsStay /\ doc \in Documents /\ t \in Types /\ Types' = Types
      /\ \A p : ChainOf(p)' = ChainOf(p)
      /\ yt'[w].patterns = k /\ k.arr = r.arr /\ r.arr # 0
  <2>1. doc' = doc
    BY DEF Resolves
  <2>2. ListsStay
    BY ListWritten
  <2> QED
    BY <1>1, <2>1, <2>2, SameChains, SameDocument DEF StateInv, Resolves, ListsStay, Holders
<1>3. k.arr \in Nat /\ k.arr <= Len(heap)
  <2>1. Lies(heap, k) /\ heap \in Arrays
    BY <1>1 DEF TypedInv
  <2>2. k.arr \in DOMAIN heap
    BY <1>2, <2>1 DEF Lies
  <2> QED
    BY <2>1, <2>2 DEF Arrays
<1>4. /\ r.arr = s.arr
      /\ r = s \/ (q # <<>> /\ ~ Full(heap, s))
  <2>1. r = s \/ (q # <<>> /\ Moves(heap, s, r))
    BY <1>1, ListWritten
  <2>2. ~ (r.arr > Len(heap))
    <3>1. Len(heap) \in Nat
      BY DEF TypedInv, Arrays
    <3> QED
      BY <1>2, <1>3, <3>1
  <2> QED
    BY <2>1, <2>2 DEF Moves
<1>5. ~ IsBuiltin(t) /\ Related(TypeOf(b), w)
  BY <1>1, <1>2, <1>4, RelatedToBase
<1>6. PICK u : u = TypeOf(b)
  OBVIOUS
<1>7. /\ u \in Types /\ yt[u] # None /\ yt[u].patterns = s /\ ChainOf(u) \subseteq ChainOf(t)
      /\ yt[b] # None /\ b \in Typedefs /\ t \in ChainOf(t) /\ t \notin ChainOf(w)
  BY <1>1, <1>2, <1>5, <1>6, ListFrom, ChainIsLeast DEF Resolves
<1>8. ASSUME q # <<>>, ~ Full(heap, s) PROVE AddsTo(t, s)'
  <2>1. AddsTo(t, yt[b].patterns)'
    BY <1>1, <1>5, <1>8, AddsToBase
  <2>2. yt'[b].patterns = s
    BY <1>1, <1>2, <1>7 DEF ListsStay, Holders
  <2> QED
    BY <2>1, <2>2 DEF AddsTo
<1>9. CASE yt[u].patterns = yt[w].patterns
  <2>1. CASE r = s
    <3>1. yt'[t].patterns = yt'[w].patterns
      BY <1>1, <1>2, <1>7, <1>9, <2>1
    <3> QED
      BY <3>1 DEF Related
  <2>2. CASE q # <<>> /\ ~ Full(heap, s)
    <3>1. yt'[w].patterns = s
      BY <1>1, <1>2, <1>7, <1>9
    <3>2. AddsTo(t, yt[w].patterns)'
      BY <1>8, <2>2, <3>1 DEF AddsTo
    <3>3. Under(w, t)'
      BY <1>2, <1>7, <3>2 DEF Under
    <3> QED
      BY <3>3 DEF Related
  <2> QED
    BY <1>4, <2>1, <2>2
<1>10. CASE Under(u, w)
  <2>1. PICK v \in ChainOf(w) \cap Types : AddsTo(v, s)
    BY <1>7, <1>10 DEF Under
  <2>2. AddsTo(v, s)'
    BY <1>2, <2>1, BesideStays
  <2>3. CASE r = s
    <3>1. AddsTo(v, yt[t].patterns)'
      BY <1>1, <2>2, <2>3 DEF AddsTo
    <3>2. Under(t, w)'
      BY <1>2, <2>1, <3>1 DEF Under
    <3> QED
      BY <3>2 DEF Related
  <2>4. CASE q # <<>> /\ ~ Full(heap, s)
    <3>1. Beside(t, v)'
      BY <1>7, <1>8, <2>1, <2>2, <2>4 DEF Beside
    <3> QED
      BY <1>2, <1>7, <2>1, <3>1 DEF Related
  <2> QED
    BY <1>4, <2>3, <2>4
<1>11. CASE Under(w, u)
  <2>1. Under(w, t)
    BY <1>7, <1>11 DEF Under
  <2>2. Under(w, t)'
    BY <1>2, <2>1, RelatedStays
  <2> QED
    BY <2>2 DEF Related
<1>12. CASE \E v \in ChainOf(u) \cap Types, x \in ChainOf(w) \cap Types : Beside(v, x)
  <2>1. PICK v \in ChainOf(u) \cap Types, x \in ChainOf(w) \cap Types : Beside(v, x)
    BY <1>12
  <2>2. Beside(v, x)'
    BY <1>2, <2>1, BesideStays
  <2> QED
    BY <1>2, <1>7, <2>1, <2>2 DEF Related
<1> QED
  BY <1>5, <1>6, <1>9, <1>10, <1>11, <1>12 DEF Related

\* The lists stay what they are when a type is resolved.
LEMMA ListsDerived ==
    ASSUME StateInv, TypedInv, RightInv, ListsInv, NEW t, NEW b, Resolves(t, b)
    PROVE  ListsInv'
<1>1. /\ ListsStay /\ doc \in Documents /\ t \in Types /\ t \notin Typedefs
      /\ Types' = Types /\ Typedefs' = Typedefs /\ \A d : TypeOf(d)' = TypeOf(d)
      /\ \A p \in Types \cup Typedefs : p # t /\ yt'[p] # None => yt[p] # None /\ yt'[p] = yt[p]
  <2>1. doc' = doc /\ t \in Types /\ doc \in Documents
    BY DEF Resolves, StateInv
  <2>2. ListsStay /\ \A p \in Holders : p # t => yt'[p] = yt[p]
    BY ListWritten
  <2>3. t \notin Typedefs
    BY <2>1, DocumentTypes
  <2>4. \A d : TypeOf(d)' = TypeOf(d)
    BY <2>1 DEF TypeOf
  <2> QED
    BY <2>1, <2>2, <2>3, <2>4, SameDocument DEF Holders
<1>2. ASSUME NEW d \in Typedefs, yt'[d] # None PROVE yt'[d].patterns = yt'[TypeOf(d)].patterns
  <2>1. yt[d] # None /\ yt'[d] = yt[d] /\ TypeOf(d) \in Types
    BY <1>1, <1>2, DocumentTypes
  <2>2. yt[TypeOf(d)] # None
    BY <2>1 DEF RightInv, RightTypedef
  <2>3. yt[d].patterns = yt[TypeOf(d)].patterns
    BY <2>1 DEF ListsInv
  <2>4. yt'[TypeOf(d)].patterns = yt[TypeOf(d)].patterns
    BY <1>1, <2>1, <2>2 DEF ListsStay, Holders
  <2> QED
    BY <2>1, <2>3, <2>4
<1>3. ASSUME NEW p \in Types, yt'[p] # None PROVE Longest(p)' /\ (Holds(p)' \/ Shared(p)')
  <2>1. CASE p = t
    BY <2>1, NewList
  <2>2. CASE p # t
    BY <1>1, <1>3, <2>2, OldLists
  <2> QED
    BY <2>1, <2>2
<1>4. ASSUME NEW p \in Types, NEW w \in Types, yt'[p] # None, yt'[w] # None,
             yt'[p].patterns.arr = yt'[w].patterns.arr, yt'[p].patterns.arr # 0
      PROVE  Related(p, w)'
  <2>1. CASE p = w
    <3>1. yt'[p].patterns = yt'[w].patterns
      BY <2>1
    <3> QED
      BY <3>1 DEF Related
  <2>2. CASE p = t /\ w # t
    BY <1>1, <1>4, <2>2, NewRelated
  <2>3. CASE p # t /\ w = t
    <3>1. Related(w, p)'
      BY <1>1, <1>4, <2>3, NewRelated
    <3>2. \A u, v : Beside(u, v)' => Beside(v, u)'
      BY DEF Beside
    <3> QED
      BY <3>1, <3>2 DEF Related
  <2>4. CASE p # t /\ w # t
    <3>1. /\ yt[p] # None /\ yt[w] # None /\ yt'[p] = yt[p] /\ yt'[w] = yt[w]
      BY <1>1, <1>4, <2>4
    <3>2. Related(p, w)
      BY <1>4, <3>1 DEF ListsInv
    <3> QED
      BY <1>1, <3>1, <3>2, RelatedStays
  <2> QED
    BY <2>1, <2>2, <2>3, <2>4
<1> QED
  BY <1>1, <1>2, <1>3, <1>4 DEF ListsInv

\* The first Process until now, without an error.
Healthy == calls = 1 /\ ~ doc.ignore /\ pc # "panic" /\ ~ Erred

\* The invariant of lists.
PatternInv == Healthy => ListsInv

\* The lists stay what they are while no YangType is made, and none gets another list.
LEMMA ListsSame ==
    ASSUME StateInv, TypedInv, RightInv, ListsInv, doc' = doc, heap' = heap,
           \/ yt' = yt
           \/ \E t \in Types : \E z : /\ yt[t] # None /\ yt' = [yt EXCEPT ![t] = z]
                                       /\ z # None /\ z.patterns = yt[t].patterns
    PROVE  ListsInv'
<1>1. \A p \in Holders : /\ yt[p] # None => yt'[p] # None /\ yt'[p].patterns = yt[p].patterns
                         /\ yt'[p] # None => yt[p] # None
  <2>1. CASE yt' = yt
    BY <2>1
  <2>2. ASSUME NEW t \in Types, NEW z, yt[t] # None, yt' = [yt EXCEPT ![t] = z],
               z # None, z.patterns = yt[t].patterns
        PROVE  \A p \in Holders : /\ yt[p] # None => yt'[p] # None /\ yt'[p].patterns = yt[p].patterns
                                  /\ yt'[p] # None => yt[p] # None
    <3>1. yt'[t] = z /\ \A p \in Holders : p # t => yt'[p] = yt[p]
      <4>1. t \in Typedefs \cup Types
        OBVIOUS
      <4> QED
        BY <2>2, <4>1, MadeStays
    <3>2. ASSUME NEW p \in Holders
          PROVE  /\ yt[p] # None => yt'[p] # None /\ yt'[p].patterns = yt[p].patterns
                 /\ yt'[p] # None => yt[p] # None
      <4>1. CASE p = t
        BY <2>2, <3>1, <4>1
      <4>2. CASE p # t
        BY <3>1, <4>2
      <4> QED
        BY <4>1, <4>2
    <3> QED
      BY <3>2
  <2> QED
    BY <2>1, <2>2
<1>2. ListsStay
  <2>1. Grows(heap, heap')
    BY DEF TypedInv, Grows, Arrays
  <2> QED
    BY <1>1, <2>1 DEF ListsStay
<1>3. \A t \in Types : yt'[t] # None => yt[t] # None
  BY <1>1 DEF Holders
<1>4. ASSUME NEW d \in Typedefs, yt'[d] # None PROVE yt'[d].patterns = yt'[TypeOf(d)].patterns
  <2>1. yt[d] # None /\ yt'[d].patterns = yt[d].patterns
    BY <1>1, <1>4 DEF Holders
  <2>2. yt[TypeOf(d)] # None /\ TypeOf(d) \in Types
    BY <2>1, DocumentTypes DEF RightInv, RightTypedef, StateInv
  <2>3. yt[d].patterns = yt[TypeOf(d)].patterns
    BY <2>1 DEF ListsInv
  <2> QED
    BY <1>1, <2>1, <2>2, <2>3 DEF Holders
<1> QED
  BY <1>2, <1>3, <1>4, ListsKept

\* A type is resolved.
LEMMA ListsDerive ==
    ASSUME Before, ListsInv, NEW rank, OrderInv(rank), EnterBuiltin \/ TypeFound, ~ Erred'
    PROVE  ListsInv'
<1>1. StateInv /\ TypedInv /\ PathInv /\ RightInv
  BY DEF Before, Good
<1>2. PICK t \in Types, b \in Builtin \cup Typedefs, frames \in {stack, Front(stack)} :
         /\ yt[b] # None /\ Derive(t, yt[b], frames)
         /\ \/ /\ EnterBuiltin /\ t = enter /\ frames = stack /\ IsBuiltin(t)
               /\ b = doc.type[t].name /\ b \in Builtin
            \/ /\ TypeFound /\ t = Top.of /\ frames = Front(stack) /\ stack # <<>>
               /\ b = Found(t) /\ b \in Typedefs /\ ~ IsBuiltin(t) /\ Defining(t) # {}
  BY <1>1, DeriveSteps
<1>3. yt[t] = None
  <2>1. CASE EnterBuiltin /\ t = enter
    BY <2>1 DEF EnterBuiltin
  <2>2. CASE TypeFound /\ t = Top.of /\ stack # <<>>
    <3>1. Top.n = 0
      BY <2>2 DEF TypeFound, Waiting
    <3>2. Len(stack) \in DOMAIN stack /\ Top = stack[Len(stack)]
      BY <1>1, <2>2, TopIs
    <3> QED
      BY <2>2, <3>1, <3>2 DEF OrderInv
  <2> QED
    BY <1>2, <2>1, <2>2
<1>4. doc' = doc
  BY DEF EnterBuiltin, TypeFound
<1>5. frames \in Seq(Frames)
  BY <1>1, <1>2, FrontIs DEF StateInv, CallsInv
<1>6. ~ Overrides(doc.type[t], yt[b])
  <2>1. ret' = {}
    BY DEF Erred
  <2> QED
    BY <1>1, <1>2, <1>5, <2>1, DerivesCalls
<1>7. PICK m : m = AddPatterns(heap, yt[b].patterns, doc.type[t].patterns)
  OBVIOUS
<1>8. PICK z : z = Restricted(doc.type[t], yt[b], m.list)
  OBVIOUS
<1>9. yt' = [yt EXCEPT ![t] = z] /\ heap' = m.heap
  BY <1>2, <1>6, <1>7, <1>8 DEF Derive
<1>10. z.patterns = m.list
  <2>1. HasFields(yt[b])
    BY <1>1, <1>2 DEF TypedInv, FieldsOf
  <2> QED
    BY <1>8, <2>1, RestrictedFields
<1>11. z # None
  <2>1. yt'[t] # None
    BY <1>1, <1>2, <1>4, DeriveTyped
  <2>2. yt'[t] = z
    BY <1>1, <1>9 DEF StateInv, TypesInv
  <2> QED
    BY <2>1, <2>2
<1>12. Resolves(t, b)
  BY <1>2, <1>3, <1>4, <1>7, <1>9, <1>10, <1>11 DEF Resolves
<1> QED
  BY <1>1, <1>12, ListsDerived

\* A typedef has the list of its type.
LEMMA ListsTypedef ==
    ASSUME Before, ListsInv, NEW rank, OrderInv(rank), TypedefResolved
    PROVE  ListsInv'
<1>1. StateInv /\ TypedInv /\ PathInv /\ RightInv
  BY DEF Before, Good
<1>2. /\ stack # <<>> /\ Top.of \in Typedefs /\ Top.n = 0 /\ doc' = doc /\ heap' = heap
      /\ doc \in Documents
  BY <1>1 DEF TypedefResolved, Waiting, StateInv
<1>3. PICK d : d = Top.of /\ d \in Typedefs
  BY <1>2
<1>4. yt[TypeOf(d)] # None /\ TypeOf(d) \in Types /\ d \notin Types
  BY <1>2, <1>3, DocumentTypes DEF TypedefResolved, TypeOf
<1>5. CASE yt' = yt
  BY <1>1, <1>2, <1>5, ListsSame
<1>6. CASE yt' # yt
  <2>1. PICK z : /\ z \in {TypedefType(d), [TypedefType(d) EXCEPT !.root = d]}
                 /\ yt' = [yt EXCEPT ![d] = z]
    BY <1>3, <1>6 DEF TypedefResolved
  <2>2. FieldsOf(z) /\ z.patterns = yt[TypeOf(d)].patterns
    <3>1. FieldsOf(yt[TypeOf(d)])
      BY <1>1, <1>4 DEF TypedInv
    <3> QED
      BY <1>2, <1>3, <2>1, <3>1, TypedefIsMade
  <2>3. z # None
    BY <1>2, <2>2, NotNone
  <2>4. yt'[d] = z /\ \A p \in Holders : p # d => yt'[p] = yt[p]
    <3>1. d \in Typedefs \cup Types
      BY <1>3
    <3>2. yt' = [yt EXCEPT ![d] = z]
      BY <2>1
    <3> QED
      BY <1>1, <2>3, <3>1, <3>2, MadeStays
  <2>5. yt[d] = None
    <3>1. Len(stack) \in DOMAIN stack /\ Top = stack[Len(stack)]
      BY <1>1, <1>2, TopIs
    <3> QED
      BY <1>2, <1>3, <3>1 DEF OrderInv
  <2>6. ListsStay
    <3>1. Grows(heap, heap')
      BY <1>1, <1>2 DEF TypedInv, Grows, Arrays
    <3> QED
      BY <1>2, <2>4, <2>5, <3>1 DEF ListsStay
  <2>7. \A t \in Types : yt'[t] = yt[t]
    BY <1>4, <2>4 DEF Holders
  <2>8. ASSUME NEW e \in Typedefs, yt'[e] # None PROVE yt'[e].patterns = yt'[TypeOf(e)].patterns
    <3>1. CASE e = d
      BY <1>4, <2>2, <2>4, <2>7, <3>1
    <3>2. CASE e # d
      <4>1. yt'[e] = yt[e] /\ TypeOf(e) \in Types
        BY <1>2, <2>4, <3>2, DocumentTypes DEF Holders
      <4>2. yt[e].patterns = yt[TypeOf(e)].patterns
        BY <2>8, <4>1 DEF ListsInv
      <4> QED
        BY <2>7, <4>1, <4>2
    <3> QED
      BY <3>1, <3>2
  <2> QED
    BY <1>1, <1>2, <2>6, <2>7, <2>8, ListsKept
<1> QED
  BY <1>5, <1>6

\* A union gets a member, or its root.
LEMMA ListsUnion ==
    ASSUME Before, ListsInv, MemberReturns \/ TypeResolved
    PROVE  ListsInv'
<1>1. StateInv /\ TypedInv /\ PathInv /\ RightInv
  BY DEF Before, Good
<1>2. doc' = doc /\ heap' = heap /\ stack # <<>> /\ Top.n > 0
  BY <1>1 DEF MemberReturns, TypeResolved, StateInv
<1>3. PICK t : t = Top.of /\ t \in Types /\ yt[t] # None
  BY <1>1, <1>2, TopIs
<1>4. HasFields(yt[t])
  BY <1>1, <1>3 DEF TypedInv, FieldsOf
<1>5. yt' = yt \/ \E x : yt' = [yt EXCEPT ![t].members = x] \/ yt' = [yt EXCEPT ![t].root = x]
  <2>1. CASE MemberReturns
    <3>1. yt' = yt \/ \E u : yt' = [yt EXCEPT ![t].members = Append(@, u)]
      BY <1>3, <2>1 DEF MemberReturns
    <3>2. \A u : [yt EXCEPT ![t].members = Append(@, u)]
                    = [yt EXCEPT ![t].members = Append(yt[t].members, u)]
      OBVIOUS
    <3> QED
      BY <3>1, <3>2
  <2>2. CASE TypeResolved
    <3>1. yt' = [yt EXCEPT ![t].root = IF Equal(yt, heap, yt[t], yt[@]) THEN @ ELSE t]
      BY <1>3, <2>2 DEF TypeResolved
    <3>2. PICK x : x = IF Equal(yt, heap, yt[t], yt[yt[t].root]) THEN yt[t].root ELSE t
      OBVIOUS
    <3>3. yt' = [yt EXCEPT ![t].root = x]
      BY <3>1, <3>2
    <3> QED
      BY <3>3
  <2> QED
    BY <2>1, <2>2
<1>6. ASSUME NEW x, yt' = [yt EXCEPT ![t].members = x] \/ yt' = [yt EXCEPT ![t].root = x]
      PROVE  \E z : yt' = [yt EXCEPT ![t] = z] /\ z # None /\ z.patterns = yt[t].patterns
  <2>1. PICK z : /\ yt' = [yt EXCEPT ![t] = z]
                 /\ z = [yt[t] EXCEPT !.members = x] \/ z = [yt[t] EXCEPT !.root = x]
    BY <1>6
  <2>2. z.patterns = yt[t].patterns
    BY <1>4, <2>1 DEF HasFields, Fields
  <2>3. yt'[t] = z
    BY <1>1, <1>3, <2>1 DEF StateInv, TypesInv
  <2>4. yt'[t] # None
    BY <1>1, <1>3, MemberReturnsTyped, TypeResolvedTyped DEF Holders
  <2> QED
    BY <2>1, <2>2, <2>3, <2>4
<1> QED
  BY <1>1, <1>2, <1>3, <1>5, <1>6, ListsSame

\* Every step keeps the invariant of lists, if no typedef is based on itself.
LEMMA ListsNext ==
    ASSUME StateInv, TypedInv, PathInv, FaultInv, PatternInv, NEW rank, OrderInv(rank), [Next]_vars
    PROVE  PatternInv'
<1>1. SUFFICES ASSUME Healthy' PROVE ListsInv'
  BY DEF PatternInv
<1>2. doc' = doc
  BY TypedNext
<1>3. calls' = 1 /\ ~ doc.ignore /\ pc' # "panic" /\ ~ Erred'
  BY <1>1, <1>2 DEF Healthy
<1>4. CASE Process
  <2>1. calls = 0 /\ yt' = yt /\ doc' = doc
    BY <1>3, <1>4 DEF Process, PathInv
  <2>2. \A p \in Typedefs \cup Types : yt'[p] = None
    BY <2>1 DEF PathInv
  <2> QED
    BY <2>1, <2>2, SameDocument DEF ListsInv
<1>5. CASE Step
  <2>1. calls' = calls /\ pc # "panic"
    BY <1>5 DEF Step, Resolve, EndTypedefs, EndLeaves, AlreadyResolved, EnterTypedef, EnterBuiltin,
       EnterType, UnknownType, Collect, Fail, TypedefResolved, TypeFound, Ignored, Member,
       MemberReturns, TypeResolved, Waiting
  <2>2. ~ Erred
    BY <1>3, <1>5, ErredStays
  <2>3. Before /\ ListsInv
    BY <1>3, <2>1, <2>2 DEF FaultInv, PatternInv, Healthy, Before
  <2>4. CASE EnterBuiltin \/ TypeFound
    BY <1>3, <2>3, <2>4, ListsDerive
  <2>5. CASE TypedefResolved
    BY <2>3, <2>5, ListsTypedef
  <2>6. CASE MemberReturns \/ TypeResolved
    BY <2>3, <2>6, ListsUnion
  <2>7. CASE \/ Resolve \/ EndTypedefs \/ EndLeaves \/ AlreadyResolved \/ EnterTypedef \/ EnterType
             \/ UnknownType \/ Collect \/ Fail \/ Ignored \/ Member
    <3>1. yt' = yt /\ heap' = heap
      BY <2>7 DEF Resolve, EndTypedefs, EndLeaves, AlreadyResolved, EnterTypedef, EnterType,
         UnknownType, Collect, Fail, Ignored, Member
    <3>2. RightInv
      BY <2>3 DEF Before, Good
    <3> QED
      BY <1>2, <2>3, <3>1, <3>2, ListsSame
  <2> QED
    BY <1>5, <2>4, <2>5, <2>6, <2>7 DEF Step
<1>6. CASE UNCHANGED vars
  <2>1. yt' = yt /\ heap' = heap /\ calls' = calls /\ pc' = pc /\ errs' = errs /\ ret' = ret
          /\ stack' = stack
    BY <1>6 DEF vars
  <2>2. ~ Erred
    BY <1>3, <2>1 DEF Erred, Kept
  <2>3. RightInv /\ ListsInv
    BY <1>3, <2>1, <2>2 DEF FaultInv, Good, PatternInv, Healthy
  <2> QED
    BY <1>2, <2>1, <2>3, ListsSame
<1> QED
  BY <1>4, <1>5, <1>6 DEF Next

\* A type that has been resolved holds its patterns, or shares the list of its typedef.
LEMMA PatternsAtEnd ==
    ASSUME StateInv, TypedInv, ListsInv, NEW t \in Types, yt[t] # None
    PROVE  HasItsPatterns(t) \/ Shares(t)
<1>1. doc \in Documents /\ (Holds(t) \/ Shared(t))
  BY DEF StateInv, ListsInv
<1>2. CASE Holds(t)
  <2>1. Lies(heap, yt[t].patterns) /\ heap \in Arrays
    BY DEF TypedInv
  <2>2. ToSet(Content(heap, yt[t].patterns)) = Held(heap, yt[t].patterns)
    BY <2>1, ContentIsHeld
  <2> QED
    BY <1>2, <2>2 DEF Holds, Counts, HasItsPatterns
<1>3. CASE Shared(t)
  <2>1. PICK u \in ChainOf(t) \cap Types, v \in Types : Beside(u, v)
    BY <1>3 DEF Shared
  <2>2. PICK s : u # v /\ AddsTo(u, s) /\ AddsTo(v, s)
    BY <2>1 DEF Beside
  <2>3. \A w \in Types : AddsTo(w, s) => Found(w) \in Meant(w)
    <3>1. ASSUME NEW w \in Types, AddsTo(w, s) PROVE Found(w) \in Meant(w)
      <4>1. Found(w) # None
        BY <1>1, <3>1, DocumentsAssumption DEF AddsTo, Typedefs
      <4>2. Defining(w) # {}
        BY <1>1, <4>1, FoundNone
      <4> QED
        BY <1>1, <4>2, MeantIsFound
    <3> QED
      BY <3>1
  <2>4. PICK d, e : d = Found(u) /\ e = Found(v)
    OBVIOUS
  <2>5. /\ d \in Meant(u) /\ e \in Meant(v)
        /\ doc.type[u].patterns # <<>> /\ doc.type[v].patterns # <<>>
        /\ yt[d].patterns = yt[e].patterns /\ ~ Full(heap, yt[d].patterns)
    BY <2>1, <2>2, <2>3, <2>4 DEF AddsTo
  <2> QED
    BY <2>1, <2>2, <2>5 DEF Shares
<1> QED
  BY <1>1, <1>2, <1>3

\* At the end all types are what their chains say.
LEMMA TypesSafe ==
    ASSUME StateInv, TypedInv, PathInv, FaultInv, PatternInv
    PROVE  TypesAsWritten
<1>1. SUFFICES ASSUME pc = "idle", calls = 1, errs = {}, ~ doc.ignore,
                      NEW t \in TypedefTypes \cup LeafTypes
               PROVE  /\ yt[t].kind = Base0(t)
                      /\ \A s \in Statements(t) :
                            /\ s.range # None => yt[t].range \subseteq s.range
                            /\ s.digits # 0 => yt[t].digits = s.digits
                      /\ yt[t].kind = "identityref" =>
                            yt[t].base \in {s.base : s \in Statements(t)} \ {None}
                      /\ yt[t].range \in {BuiltinRange[Base0(t)]} \cup {s.range : s \in Statements(t)}
                      /\ \A d \in ChainOf(t) \cap Typedefs :
                            doc.typedef[d].default # None => yt[t].default # None
                      /\ HasItsPatterns(t) \/ Shares(t)
  BY DEF TypesAsWritten, Done
<1>2. RightInv /\ t \in Types /\ yt[t] # None
  BY <1>1, EndResolved
<1>3. Fits(yt[t], t)
  BY <1>2 DEF RightInv, Right
<1>4. ListsInv
  <2>1. stack = <<>> /\ ret = {}
    BY <1>1 DEF PathInv
  <2>2. ~ Erred
    BY <1>1, <2>1 DEF Erred, Kept
  <2> QED
    BY <1>1, <2>2 DEF PatternInv, Healthy
<1>5. HasItsPatterns(t) \/ Shares(t)
  BY <1>2, <1>4, PatternsAtEnd
<1>6. /\ yt[t].kind = Base0(t)
      /\ \A s \in Statements(t) : s.digits # 0 => yt[t].digits = s.digits
      /\ yt[t].kind = "identityref" =>
            yt[t].base \in {s.base : s \in Statements(t)} \ {None}
      /\ \A d \in ChainOf(t) \cap Typedefs :
            doc.typedef[d].default # None => yt[t].default # None
  BY <1>3 DEF Fits
<1>7. yt[t].range \in {BuiltinRange[Base0(t)]} \cup {s.range : s \in Statements(t)}
  BY <1>3 DEF Fits, Ranges
<1>8. \A s \in Statements(t) : s.range # None => yt[t].range \subseteq s.range
  BY <1>3 DEF Fits, Ranges
<1> QED
  BY <1>5, <1>6, <1>7, <1>8

\* After a Process without errors every type has the kind of its base type, the narrowest
\* of the ranges, the digits and the base of its chain of typedefs, and all patterns,
\* unless one of the chain and another type have added patterns to the same list.  A step
\* of Type.resolve may write into the array of a type that has long been resolved.
THEOREM TypesAsWrittenCorrect == Spec => [](NoCircles => TypesAsWritten)
<1> DEFINE I == StateInv /\ TypedInv /\ PathInv /\ FaultInv
           J == NoCircles => PatternInv /\ \E rank : RootInv(rank)
<1>1. Init => I /\ J
  <2> SUFFICES ASSUME Init PROVE I /\ J
    OBVIOUS
  <2>1. I /\ calls = 0
    BY StateInit, FaultInit DEF Init
  <2>2. PatternInv
    BY <2>1 DEF PatternInv, Healthy
  <2> QED
    BY <2>1, <2>2, RootInit DEF NoCircles
<1>2. I /\ J /\ [Next]_vars => I' /\ J'
  <2> SUFFICES ASSUME I, J, [Next]_vars PROVE I' /\ J'
    OBVIOUS
  <2>1. I'
    BY StateNext, TypedNext, PathNext, FaultNext
  <2>2. ASSUME NoCircles' PROVE PatternInv' /\ \E rank : RootInv(rank)'
    <3>1. NoCircles
      BY <2>2, TypedNext, SameOrder
    <3>2. PICK rank : RootInv(rank)
      BY <3>1
    <3>3. PatternInv'
      BY <3>1, <3>2, ListsNext DEF RootInv
    <3>4. RootInv(rank)'
      BY <3>2, RootNext
    <3> QED
      BY <3>3, <3>4
  <2> QED
    BY <2>1, <2>2
<1>3. I /\ J => (NoCircles => TypesAsWritten)
  BY TypesSafe
<1> QED
  BY <1>1, <1>2, <1>3, PTL DEF Spec
=============================================================================
