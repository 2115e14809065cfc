---------------------------- MODULE RangesProofs ----------------------------
(***************************************************************************)
(* Proofs about Ranges, for every word size, base and statement: the       *)
(* types, that an accepted range is exactly the union of its parts and     *)
(* within its base, that ranges are only left adjacent at the largest      *)
(* number, and that nothing is rejected without a reason.                  *)
(***************************************************************************)
EXTENDS Ranges, SequenceTheorems, TLAPS

\* The range coalesced so far is that of the parts passed, in order.
CoalesceInv ==
    pc = "coalesce" =>
        /\ cr # <<>> /\ j >= 2
        /\ Sorted(r)
        /\ Val(Current.min) <= Val(r[j - 1].min)
        /\ \A v \in Int : Covers(cr, v) <=> \E k \in 1 .. j - 1 : In(v, r[k])

\* Before the loop, and after it.
CoalescedInv ==
    /\ pc = "parse" => cr = <<>> /\ s = 1
    /\ pc \in {"contain", "validate", "accepted"} =>
           \A v \in Int : Covers(cr, v) <=> Covers(r, v)

\* x is within one range of base.
Within(x) ==
    \E i \in 1 .. Len(base) :
        Val(base[i].min) <= Val(x.min) /\ Val(x.max) <= Val(base[i].max)

\* The ranges that Contains has passed are within base.
ContainsInv ==
    /\ pc = "contain" => \A k \in 1 .. s - 1 : Within(cr[k])
    /\ pc \in {"validate", "accepted"} /\ base # <<>> =>
           \A k \in 1 .. Len(cr) : Within(cr[k])

Inv == TypeOK /\ CoalesceInv /\ CoalescedInv /\ ContainsInv

\* Ranges are kept apart from the moment they are appended.
GapsInv ==
    \A k \in 1 .. Len(cr) - 1 :
        IsTop(cr[k].max) \/ Val(cr[k].max) + 1 < Val(cr[k + 1].min)

-----------------------------------------------------------------------------
(* Numbers *)

\* Number.Less is the order of the numbers, but for the two zeros.
LEMMA LessVal ==
    ASSUME NEW a \in Number, NEW b \in Number
    PROVE  /\ Val(a) \in Int
           /\ Val(a) < Val(b) => Less(a, b)
           /\ Less(a, b) => Val(a) <= Val(b)
           /\ Less(a, b) /\ ~ NegativeZero(a) => Val(a) < Val(b)
  BY TopAssumption DEF Number, Less, Val, NegativeZero

\* Adding one to a word.
LEMMA Wraps ==
    ASSUME NEW n \in 0 .. Top
    PROVE  (n + 1) % (Top + 1) = IF n = Top THEN 0 ELSE n + 1
  BY TopAssumption, Z3

\* addQuantum adds one except at the largest number, where it wraps around to zero,
\* and never returns a negative zero.
LEMMA AddQuantumVal ==
    ASSUME NEW a \in Number
    PROVE  /\ AddQuantum(a) \in Number
           /\ ~ NegativeZero(AddQuantum(a))
           /\ Val(AddQuantum(a)) <= Val(a) + 1
           /\ ~ IsTop(a) => Val(AddQuantum(a)) = Val(a) + 1
  <1>1. CASE a.negative
    BY <1>1, TopAssumption DEF Number, AddQuantum, Val, NegativeZero, IsTop
  <1>2. CASE ~ a.negative
    <2>1. AddQuantum(a) =
              [negative |-> FALSE, value |-> IF a.value = Top THEN 0 ELSE a.value + 1]
      BY <1>2, Wraps DEF Number, AddQuantum
    <2> QED BY <1>2, <2>1, TopAssumption DEF Number, Val, NegativeZero, IsTop
  <1> QED BY <1>1, <1>2

\* Sorting a statement's parts, in any of the orders sort.Sort may choose, does not
\* change what they cover.
LEMMA SortingsCover ==
    ASSUME NEW q \in Seq(YRange), NEW t \in Sortings(q)
    PROVE  /\ t \in Seq(YRange) /\ Len(t) = Len(q)
           /\ Sorted(t)
           /\ \A k \in 1 .. Len(t) : \E i \in 1 .. Len(q) : t[k] = q[i]
           /\ \A v \in Int : Covers(t, v) <=> Covers(q, v)
  <1> DEFINE D == 1 .. Len(q)
  <1>1. PICK f \in Bijection(D, D) : t = [k \in D |-> q[f[k]]] /\ Sorted(t)
    BY DEF Sortings
  <1>2. f \in [D -> D] /\ \A k \in D : \E i \in D : f[i] = k
    BY <1>1 DEF Bijection, Surjection, Injection
  <1>3. Len(q) \in Nat /\ \A k \in D : q[k] \in YRange
    OBVIOUS
  <1>4. t \in Seq(YRange) /\ Len(t) = Len(q) /\ \A k \in D : t[k] = q[f[k]]
    BY <1>1, <1>2, <1>3
  <1>5. ASSUME NEW v \in Int
        PROVE  Covers(t, v) <=> Covers(q, v)
    <2>1. ASSUME NEW k \in D, In(v, t[k])
          PROVE  Covers(q, v)
      <3>1. f[k] \in D /\ In(v, q[f[k]])
        BY <1>2, <1>4, <2>1
      <3> QED BY <3>1 DEF Covers
    <2>2. ASSUME NEW k \in D, In(v, q[k])
          PROVE  Covers(t, v)
      <3>1. PICK i \in D : f[i] = k
        BY <1>2
      <3>2. In(v, t[i])
        BY <1>4, <2>2, <3>1
      <3> QED BY <1>4, <3>2 DEF Covers
    <2> QED BY <1>4, <2>1, <2>2 DEF Covers
  <1>6. \A k \in 1 .. Len(t) : \E i \in D : t[k] = q[i]
    BY <1>2, <1>4
  <1> QED BY <1>1, <1>4, <1>5, <1>6

-----------------------------------------------------------------------------
(* Steps of coalesce *)

\* Appending a range to q adds its numbers.
LEMMA AppendCovers ==
    ASSUME NEW q \in Seq(YRange), NEW x \in YRange, NEW v \in Int
    PROVE  Covers(Append(q, x), v) <=> Covers(q, v) \/ In(v, x)
  <1>1. /\ Len(Append(q, x)) = Len(q) + 1 /\ Len(q) \in Nat
        /\ Append(q, x)[Len(q) + 1] = x
        /\ \A k \in 1 .. Len(q) : Append(q, x)[k] = q[k]
    OBVIOUS
  <1>2. Covers(q, v) => Covers(Append(q, x), v)
    <2>1. ASSUME NEW k \in 1 .. Len(q), In(v, q[k])
          PROVE  Covers(Append(q, x), v)
      <3>1. k \in 1 .. Len(Append(q, x)) /\ In(v, Append(q, x)[k])
        BY <1>1, <2>1
      <3> QED BY <3>1 DEF Covers
    <2> QED BY <2>1 DEF Covers
  <1>3. In(v, x) => Covers(Append(q, x), v)
    <2>1. Len(q) + 1 \in 1 .. Len(Append(q, x))
      BY <1>1
    <2> QED BY <1>1, <2>1 DEF Covers
  <1>4. Covers(Append(q, x), v) => Covers(q, v) \/ In(v, x)
    <2>1. ASSUME NEW k \in 1 .. Len(Append(q, x)), In(v, Append(q, x)[k])
          PROVE  Covers(q, v) \/ In(v, x)
      <3>1. CASE k = Len(q) + 1
        BY <1>1, <2>1, <3>1
      <3>2. CASE k # Len(q) + 1
        <4>1. k \in 1 .. Len(q) /\ In(v, q[k])
          BY <1>1, <2>1, <3>2
        <4> QED BY <4>1 DEF Covers
      <3> QED BY <3>1, <3>2
    <2> QED BY <2>1 DEF Covers
  <1> QED BY <1>2, <1>3, <1>4

\* The last range of q, extended.
Extended(q, m) == [q EXCEPT ![Len(q)].max = m]

LEMMA ExtendedSeq ==
    ASSUME NEW q \in Seq(YRange), q # <<>>, NEW m \in Number
    PROVE  /\ Extended(q, m) \in Seq(YRange) /\ Len(Extended(q, m)) = Len(q)
           /\ Len(q) \in Nat \ {0}
           /\ Extended(q, m)[Len(q)].min = q[Len(q)].min
           /\ Extended(q, m)[Len(q)].max = m
           /\ \A k \in 1 .. Len(q) : k # Len(q) => Extended(q, m)[k] = q[k]
  <1>1. Len(q) \in Nat \ {0} /\ q \in [1 .. Len(q) -> YRange]
    OBVIOUS
  <1>2. Extended(q, m) \in [1 .. Len(q) -> YRange]
    BY <1>1 DEF Extended, YRange
  <1>3. Extended(q, m) \in Seq(YRange) /\ Len(Extended(q, m)) = Len(q)
    BY <1>1, <1>2
  <1>4. /\ Extended(q, m)[Len(q)].min = q[Len(q)].min
        /\ Extended(q, m)[Len(q)].max = m
        /\ \A k \in 1 .. Len(q) : k # Len(q) => Extended(q, m)[k] = q[k]
    BY <1>1 DEF Extended, YRange
  <1> QED BY <1>1, <1>3, <1>4

\* Extending the last range to the end of x adds the numbers of x, if x does not
\* start before that range, nor beyond its end and a quantum.
LEMMA ExtendedCovers ==
    ASSUME NEW q \in Seq(YRange), q # <<>>, NEW x \in YRange, NEW v \in Int,
           Val(q[Len(q)].min) <= Val(x.min),
           Val(x.min) <= Val(q[Len(q)].max) + 1,
           Val(q[Len(q)].max) <= Val(x.max)
    PROVE  Covers(Extended(q, x.max), v) <=> Covers(q, v) \/ In(v, x)
  <1> DEFINE e == Extended(q, x.max)
             n == Len(q)
  <1>1. /\ n \in Nat \ {0} /\ Len(e) = n
        /\ e[n].min = q[n].min /\ e[n].max = x.max
        /\ \A k \in 1 .. n : k # n => e[k] = q[k]
        /\ q[n] \in YRange
    <2>1. x.max \in Number
      BY DEF YRange
    <2>2. n \in Nat \ {0} /\ q[n] \in YRange
      OBVIOUS
    <2> QED BY <2>1, <2>2, ExtendedSeq
  <1>2. In(v, e[n]) <=> In(v, q[n]) \/ In(v, x)
    <2>1. /\ Val(q[n].min) \in Int /\ Val(q[n].max) \in Int
          /\ Val(x.min) \in Int /\ Val(x.max) \in Int
      BY <1>1, LessVal DEF YRange
    <2> QED BY <1>1, <2>1 DEF In
  <1>3. \A k \in 1 .. n : k # n => (In(v, e[k]) <=> In(v, q[k]))
    BY <1>1
  <1>4. n \in 1 .. n
    BY <1>1
  <1> HIDE DEF e, n
  <1>5. (\E k \in 1 .. n : In(v, e[k])) <=> (\E k \in 1 .. n : In(v, q[k])) \/ In(v, x)
    BY <1>2, <1>3, <1>4
  <1>6. Covers(e, v) <=> \E k \in 1 .. n : In(v, e[k])
    BY <1>1 DEF Covers
  <1>7. Covers(q, v) <=> \E k \in 1 .. n : In(v, q[k])
    BY DEF Covers, n
  <1>8. Covers(e, v) <=> Covers(q, v) \/ In(v, x)
    BY <1>5, <1>6, <1>7
  <1> QED BY <1>8 DEF e

\* Consecutive parts of a sorted statement start in order.
LEMMA SortedMin ==
    ASSUME NEW q \in Seq(YRange), Sorted(q), NEW k \in 1 .. Len(q) - 1
    PROVE  Val(q[k].min) <= Val(q[k + 1].min)
  <1>1. q[k] \in YRange /\ q[k + 1] \in YRange
    OBVIOUS
  <1>2. q[k].min \in Number /\ q[k + 1].min \in Number
    BY <1>1 DEF YRange
  <1>3. ~ Less(q[k + 1].min, q[k].min)
    BY DEF Sorted, Before
  <1> QED BY <1>2, <1>3, LessVal

\* What coalesce's loop works on: r[j] does not start before the last range.
LEMMA CoalesceLoop ==
    ASSUME Inv, Coalesce
    PROVE  /\ cr \in Seq(YRange) /\ cr # <<>> /\ Len(cr) \in Nat \ {0}
           /\ Current \in YRange /\ Current.min \in Number /\ Current.max \in Number
           /\ r \in Seq(YRange) /\ j \in 2 .. Len(r)
           /\ r[j] \in YRange /\ r[j].min \in Number /\ r[j].max \in Number
           /\ Val(Current.min) <= Val(r[j].min)
  <1>1. /\ cr \in Seq(YRange) /\ cr # <<>> /\ Len(cr) \in Nat \ {0}
        /\ Current \in YRange /\ Current.min \in Number /\ Current.max \in Number
    <2>1. cr \in Seq(YRange) /\ cr # <<>>
      BY DEF Inv, TypeOK, CoalesceInv, Coalesce
    <2>2. Len(cr) \in Nat \ {0} /\ Current \in YRange
      BY <2>1 DEF Current
    <2> QED BY <2>1, <2>2 DEF YRange
  <1>2. /\ r \in Seq(YRange) /\ j \in 2 .. Len(r)
        /\ r[j] \in YRange /\ r[j].min \in Number /\ r[j].max \in Number
    <2>1. r \in Seq(YRange) /\ j \in 2 .. Len(r)
      BY DEF Inv, TypeOK, CoalesceInv, Coalesce
    <2>2. r[j] \in YRange
      BY <2>1
    <2> QED BY <2>1, <2>2 DEF YRange
  <1>3. Val(Current.min) <= Val(r[j].min)
    <2>1. Val(Current.min) <= Val(r[j - 1].min) /\ Sorted(r)
      BY DEF Inv, CoalesceInv, Coalesce
    <2>2. Val(r[j - 1].min) <= Val(r[j].min)
      <3>1. j - 1 \in 1 .. Len(r) - 1 /\ (j - 1) + 1 = j
        BY <1>2
      <3> QED BY <1>2, <2>1, <3>1, SortedMin
    <2>3. r[j - 1].min \in Number
      <3>1. r[j - 1] \in YRange
        BY <1>2
      <3> QED BY <3>1 DEF YRange
    <2> QED BY <1>1, <1>2, <2>1, <2>2, <2>3, LessVal
  <1> QED BY <1>1, <1>2, <1>3

\* What an iteration of coalesce's loop does to the ranges: they cover r[j] too, the
\* last one does not start after r[j], and a range is appended only after a gap.
LEMMA CoalesceEffect ==
    ASSUME Inv, Coalesce
    PROVE  /\ cr' \in Seq(YRange) /\ Len(cr') \in Nat \ {0} /\ Len(cr') >= Len(cr)
           /\ Val(cr'[Len(cr')].min) <= Val(r[j].min)
           /\ \A v \in Int : Covers(cr', v) <=> Covers(cr, v) \/ In(v, r[j])
           /\ GapsInv => GapsInv'
  <1>1. /\ cr \in Seq(YRange) /\ cr # <<>> /\ Len(cr) \in Nat \ {0}
        /\ Current \in YRange /\ Current.min \in Number /\ Current.max \in Number
    BY CoalesceLoop
  <1>2. /\ r \in Seq(YRange) /\ j \in 2 .. Len(r)
        /\ r[j] \in YRange /\ r[j].min \in Number /\ r[j].max \in Number
    BY CoalesceLoop
  <1>3. Val(Current.min) <= Val(r[j].min)
    BY CoalesceLoop
  <1>4. CASE StartsAfter /\ cr' = Append(cr, r[j])
    <2>1. /\ cr' \in Seq(YRange) /\ Len(cr') = Len(cr) + 1
          /\ cr'[Len(cr')] = r[j]
          /\ \A k \in 1 .. Len(cr) : cr'[k] = cr[k]
      BY <1>1, <1>2, <1>4
    <2>2. Val(r[j].min) \in Int
      BY <1>2, LessVal
    <2>3. \A v \in Int : Covers(cr', v) <=> Covers(cr, v) \/ In(v, r[j])
      BY <1>1, <1>2, <1>4, AppendCovers
    <2>4. IsTop(Current.max) \/ Val(Current.max) + 1 < Val(r[j].min)
      BY <1>1, <1>2, <1>4, AddQuantumVal, LessVal DEF StartsAfter
    <2>5. ASSUME GapsInv, NEW k \in 1 .. Len(cr') - 1
          PROVE  IsTop(cr'[k].max) \/ Val(cr'[k].max) + 1 < Val(cr'[k + 1].min)
      <3>1. CASE k = Len(cr)
        BY <1>1, <2>1, <2>4, <3>1 DEF Current
      <3>2. CASE k # Len(cr)
        <4>1. k \in 1 .. Len(cr) - 1 /\ cr'[k] = cr[k] /\ cr'[k + 1] = cr[k + 1]
          BY <1>1, <2>1, <3>2
        <4> QED BY <2>5, <4>1 DEF GapsInv
      <3> QED BY <3>1, <3>2
    <2>6. GapsInv => GapsInv'
      BY <2>5 DEF GapsInv
    <2> QED BY <1>1, <2>1, <2>2, <2>3, <2>6
  <1>5. CASE ~ StartsAfter /\ Extends /\ cr' = [cr EXCEPT ![Len(cr)].max = r[j].max]
    <2>1. cr' = Extended(cr, r[j].max)
      BY <1>5 DEF Extended
    <2>2. /\ cr' \in Seq(YRange) /\ Len(cr') = Len(cr)
          /\ cr'[Len(cr)].min = Current.min
          /\ \A k \in 1 .. Len(cr) : k # Len(cr) => cr'[k] = cr[k]
      BY <1>1, <1>2, <2>1, ExtendedSeq DEF Current
    <2>3. Val(r[j].min) <= Val(Current.max) + 1
      <3>1. /\ AddQuantum(Current.max) \in Number
            /\ Val(AddQuantum(Current.max)) <= Val(Current.max) + 1
        BY <1>1, AddQuantumVal
      <3>2. ~ (Val(AddQuantum(Current.max)) < Val(r[j].min))
        BY <1>2, <1>5, <3>1, LessVal DEF StartsAfter
      <3> QED BY <1>1, <1>2, <3>1, <3>2, LessVal
    <2>4. Val(Current.max) <= Val(r[j].max)
      BY <1>1, <1>2, <1>5, LessVal DEF Extends
    <2>5. \A v \in Int : Covers(cr', v) <=> Covers(cr, v) \/ In(v, r[j])
      BY <1>1, <1>2, <1>3, <2>1, <2>3, <2>4, ExtendedCovers DEF Current
    <2>6. ASSUME GapsInv, NEW k \in 1 .. Len(cr') - 1
          PROVE  IsTop(cr'[k].max) \/ Val(cr'[k].max) + 1 < Val(cr'[k + 1].min)
      <3>1. /\ k \in 1 .. Len(cr) - 1 /\ cr'[k] = cr[k]
            /\ cr'[k + 1].min = cr[k + 1].min
        <4>1. k \in 1 .. Len(cr) - 1 /\ cr'[k] = cr[k]
          BY <1>1, <2>2
        <4>2. cr'[k + 1].min = cr[k + 1].min
          BY <1>1, <2>2 DEF Current
        <4> QED BY <4>1, <4>2
      <3> QED BY <2>6, <3>1 DEF GapsInv
    <2>7. GapsInv => GapsInv'
      BY <2>6 DEF GapsInv
    <2> QED BY <1>1, <1>3, <2>2, <2>5, <2>7
  <1>6. CASE ~ StartsAfter /\ ~ Extends /\ cr' = cr
    <2>1. Val(r[j].max) <= Val(Current.max)
      BY <1>1, <1>2, <1>6, LessVal DEF Extends
    <2>2. ASSUME NEW v \in Int, In(v, r[j])
          PROVE  Covers(cr, v)
      <3>1. In(v, Current)
        BY <1>1, <1>2, <1>3, <2>1, <2>2, LessVal DEF In
      <3>2. Len(cr) \in 1 .. Len(cr)
        BY <1>1
      <3> QED BY <3>1, <3>2 DEF Covers, Current
    <2>3. GapsInv => GapsInv'
      BY <1>6 DEF GapsInv
    <2> QED BY <1>1, <1>3, <1>6, <2>2, <2>3 DEF Current
  <1> QED BY <1>4, <1>5, <1>6 DEF Coalesce

-----------------------------------------------------------------------------
(* The inductive invariant *)

LEMMA InitInv == Init => Inv
  <1> SUFFICES ASSUME Init PROVE Inv
    OBVIOUS
  <1>1. base \in Seq(YRange) /\ r = <<>> /\ cr = <<>> /\ Len(<<>>) = 0
    BY BasesAssumption DEF Init
  <1>2. TypeOK
    BY <1>1 DEF Init, TypeOK
  <1>3. CoalesceInv /\ CoalescedInv /\ ContainsInv
    BY DEF Init, CoalesceInv, CoalescedInv, ContainsInv
  <1> QED BY <1>2, <1>3 DEF Inv

\* The numbers a statement may hold are numbers.
LEMMA ReadableNumbers ==
    ASSUME TypeOK
    PROVE  Readable \subseteq Number
  <1>1. CASE base = <<>>
    BY <1>1, WrittenAssumption DEF Readable
  <1>2. CASE base # <<>>
    <2>1. base[1] \in YRange /\ base[Len(base)] \in YRange
      BY <1>2 DEF TypeOK
    <2> QED BY <1>2, <2>1, WrittenAssumption DEF Readable, YRange
  <1> QED BY <1>1, <1>2

LEMMA NextType ==
    ASSUME Inv, [Next]_vars
    PROVE  TypeOK'
  <1> USE DEF Inv, TypeOK
  <1>1. CASE ParsePart
    <2>1. CASE pc' = "rejected" /\ UNCHANGED r
      BY <1>1, <2>1 DEF ParsePart
    <2>2. ASSUME NEW min \in Readable, NEW max \in Readable,
                 r' = Append(r, [min |-> min, max |-> max]), UNCHANGED pc
          PROVE  TypeOK'
      <3>1. [min |-> min, max |-> max] \in YRange
        BY ReadableNumbers DEF YRange
      <3>2. r' \in Seq(YRange) /\ Len(r') = Len(r) + 1
        BY <2>2, <3>1
      <3> QED BY <1>1, <2>2, <3>2 DEF ParsePart
    <2> QED BY <1>1, <2>1, <2>2 DEF ParsePart
  <1>2. CASE ParseFails
    BY <1>2 DEF ParseFails
  <1>3. CASE Sort
    <2>1. r' \in Seq(YRange) /\ Len(r') = Len(r) /\ Len(r) >= 1
      BY <1>3, SortingsCover DEF Sort
    <2>2. cr' \in Seq(YRange) /\ Len(cr') = 1
      BY <1>3, <2>1 DEF Sort
    <2>3. j' \in 1 .. Len(r') + 1 /\ s' \in 1 .. Len(cr') + 1
      BY <1>3, <2>1, <2>2 DEF Sort, FirstNext, CoalescedInv
    <2> QED BY <1>3, <2>1, <2>2, <2>3 DEF Sort
  <1>4. CASE Coalesce
    <2>1. cr' \in Seq(YRange) /\ Len(cr') \in Nat /\ Len(cr') >= Len(cr)
      BY <1>4, CoalesceEffect
    <2>2. /\ s' \in 1 .. Len(cr') + 1 /\ j' \in 1 .. Len(r') + 1
          /\ UNCHANGED <<base, r, ri, pc, depth>>
      BY <1>4, <2>1 DEF Coalesce
    <2> QED BY <1>4, <2>1, <2>2 DEF Coalesce
  <1>5. CASE Coalesced
    BY <1>5 DEF Coalesced
  <1>6. CASE Contains
    <2>1. CASE ri' = ri + 1 /\ (pc' = IF ri = Len(base) THEN "rejected" ELSE pc) /\ UNCHANGED s
      BY <1>6, <2>1 DEF Contains
    <2>2. CASE pc' = "rejected" /\ UNCHANGED <<s, ri>>
      BY <1>6, <2>2 DEF Contains
    <2>3. CASE s' = s + 1 /\ UNCHANGED <<ri, pc>>
      BY <1>6, <2>3 DEF Contains
    <2> QED BY <1>6, <2>1, <2>2, <2>3 DEF Contains
  <1>7. CASE Contained
    BY <1>7 DEF Contained
  <1>8. CASE Validate
    BY <1>8 DEF Validate
  <1>9. CASE Derive
    BY <1>9 DEF Derive
  <1>10. CASE UNCHANGED vars
    BY <1>10 DEF vars
  <1> QED BY <1>1, <1>2, <1>3, <1>4, <1>5, <1>6, <1>7, <1>8, <1>9, <1>10 DEF Next

\* The loop of coalesce.
LEMMA NextCoalesce ==
    ASSUME Inv, [Next]_vars
    PROVE  CoalesceInv' /\ CoalescedInv'
  <1> USE DEF CoalesceInv, CoalescedInv
  <1>1. CASE ParsePart \/ ParseFails
    BY <1>1 DEF ParsePart, ParseFails, Inv
  <1>2. CASE Sort
    <2>1. /\ r' \in Seq(YRange) /\ Len(r') \in Nat \ {0} /\ Sorted(r')
          /\ r'[1] \in YRange
      <3>1. r' \in Seq(YRange) /\ Len(r') = Len(r) /\ Sorted(r') /\ Len(r) \in Nat \ {0}
        BY <1>2, SortingsCover DEF Sort, Inv, TypeOK
      <3> QED BY <3>1
    <2>2. cr' = <<r'[1]>> /\ cr' # <<>> /\ Len(cr') = 1 /\ cr'[1] = r'[1]
      BY <1>2 DEF Sort
    <2>3. j' = 2 /\ pc' = "coalesce"
      BY <1>2 DEF Sort, FirstNext
    <2>4. Val(Current'.min) <= Val(r'[j' - 1].min)
      BY <2>1, <2>2, <2>3, LessVal DEF Current, YRange
    <2>5. \A v \in Int : Covers(cr', v) <=> \E k \in 1 .. j' - 1 : In(v, r'[k])
      BY <2>2, <2>3 DEF Covers
    <2> QED BY <2>1, <2>2, <2>3, <2>4, <2>5 DEF Sorted
  <1>3. CASE Coalesce
    <2>1. /\ pc = "coalesce" /\ pc' = "coalesce" /\ r' = r
          /\ j' = j + 1 /\ j \in 2 .. Len(r) /\ Sorted(r')
      BY <1>3 DEF Coalesce, Inv, TypeOK, Sorted
    <2>2. cr' # <<>> /\ Val(Current'.min) <= Val(r'[j' - 1].min)
      BY <1>3, <2>1, CoalesceEffect DEF Current
    <2>3. ASSUME NEW v \in Int
          PROVE  Covers(cr', v) <=> \E k \in 1 .. j' - 1 : In(v, r'[k])
      <3>1. Covers(cr', v) <=> Covers(cr, v) \/ In(v, r[j])
        BY <1>3, CoalesceEffect
      <3>2. Covers(cr, v) <=> \E k \in 1 .. j - 1 : In(v, r[k])
        BY <2>1 DEF Inv
      <3>3. (\E k \in 1 .. j : In(v, r[k])) <=> (\E k \in 1 .. j - 1 : In(v, r[k])) \/ In(v, r[j])
        <4>1. j \in 1 .. j /\ \A k \in 1 .. j : k = j \/ k \in 1 .. j - 1
          BY <2>1
        <4>2. \A k \in 1 .. j - 1 : k \in 1 .. j
          BY <2>1
        <4> QED BY <4>1, <4>2
      <3>4. j' - 1 = j
        BY <2>1
      <3> QED BY <2>1, <3>1, <3>2, <3>3, <3>4
    <2> QED BY <2>1, <2>2, <2>3
  <1>4. CASE Coalesced
    <2>1. pc = "coalesce" /\ j = Len(r) + 1 /\ UNCHANGED <<r, cr>>
      BY <1>4 DEF Coalesced, Inv, TypeOK
    <2>2. \A v \in Int : Covers(cr, v) <=> Covers(r, v)
      <3>1. j - 1 = Len(r)
        BY <2>1 DEF Inv, TypeOK
      <3> QED BY <2>1, <3>1 DEF Inv, Covers
    <2>3. \A v \in Int : Covers(cr', v) <=> Covers(r', v)
      BY <2>1, <2>2 DEF Covers
    <2> QED BY <1>4, <2>3 DEF Coalesced
  <1>5. CASE Contains \/ Contained \/ Validate
    <2>1. /\ pc \in {"contain", "validate"} /\ pc' \in {"contain", "validate", "accepted", "rejected"}
          /\ UNCHANGED <<r, cr>>
      BY <1>5 DEF Contains, Contained, Validate
    <2>2. \A v \in Int : Covers(cr', v) <=> Covers(r', v)
      BY <2>1 DEF Inv, Covers
    <2> QED BY <2>1, <2>2
  <1>6. CASE Derive
    BY <1>6 DEF Derive
  <1>7. CASE UNCHANGED vars
    BY <1>7 DEF vars, Inv, Current, Sorted, Covers
  <1> QED BY <1>1, <1>2, <1>3, <1>4, <1>5, <1>6, <1>7 DEF Next

\* The loops of Contains.
LEMMA NextContains ==
    ASSUME Inv, [Next]_vars
    PROVE  ContainsInv'
  <1> USE DEF ContainsInv
  <1>1. CASE ParsePart \/ ParseFails \/ Sort \/ Coalesce
    BY <1>1 DEF ParsePart, ParseFails, Sort, Coalesce
  <1>2. CASE Coalesced
    BY <1>2 DEF Coalesced
  <1>3. CASE Contains
    <2>1. UNCHANGED <<base, cr>> /\ pc = "contain"
      BY <1>3 DEF Contains
    <2>2. \A k \in 1 .. s - 1 : Within(cr[k])
      BY <2>1 DEF Inv
    <2>3. CASE pc' = "rejected"
      BY <2>3
    <2>4. CASE pc' = pc /\ UNCHANGED s
      BY <2>1, <2>2, <2>4 DEF Within
    <2>5. CASE /\ ~ Less(cr[s].min, base[ri].min) /\ ~ Less(base[ri].max, cr[s].max)
               /\ s' = s + 1 /\ UNCHANGED <<ri, pc>>
      <3>1. cr[s] \in YRange /\ base[ri] \in YRange /\ ri \in 1 .. Len(base) /\ s \in Nat
        BY <1>3, <2>1 DEF Contains, Inv, TypeOK
      <3>2. /\ Val(base[ri].min) <= Val(cr[s].min)
            /\ Val(cr[s].max) <= Val(base[ri].max)
        BY <2>5, <3>1, LessVal DEF YRange
      <3>3. Within(cr[s])
        BY <3>1, <3>2 DEF Within
      <3>4. \A k \in 1 .. s' - 1 : Within(cr[k])
        BY <2>2, <2>5, <3>1, <3>3
      <3> QED BY <2>1, <2>5, <3>4 DEF Within
    <2> QED BY <1>3, <2>3, <2>4, <2>5 DEF Contains
  <1>4. CASE Contained
    <2>1. UNCHANGED <<base, cr>> /\ pc = "contain" /\ pc' = "validate" /\ s = Len(cr) + 1
      BY <1>4 DEF Contained, Inv, TypeOK
    <2>2. \A k \in 1 .. Len(cr) : Within(cr[k])
      <3>1. s - 1 = Len(cr)
        BY <2>1 DEF Inv, TypeOK
      <3> QED BY <2>1, <3>1 DEF Inv
    <2> QED BY <2>1, <2>2 DEF Within
  <1>5. CASE Validate
    <2>1. UNCHANGED <<base, cr>> /\ pc = "validate" /\ pc' # "contain"
      BY <1>5 DEF Validate
    <2> QED BY <2>1 DEF Inv, Within
  <1>6. CASE Derive
    BY <1>6 DEF Derive
  <1>7. CASE UNCHANGED vars
    BY <1>7 DEF vars, Inv, Within
  <1> QED BY <1>1, <1>2, <1>3, <1>4, <1>5, <1>6, <1>7 DEF Next

THEOREM InvCorrect == Spec => []Inv
  <1>1. Inv /\ [Next]_vars => Inv'
    BY NextType, NextCoalesce, NextContains DEF Inv
  <1> QED BY InitInv, <1>1, PTL DEF Spec

\* Ranges and indexes keep their types: coalesce and Contains stay within their slices.
THEOREM TypeCorrect == Spec => []TypeOK
  <1>1. Inv => TypeOK
    BY DEF Inv
  <1> QED BY InvCorrect, <1>1, PTL

\* An accepted statement allows what its parts allow, and nothing that the range it
\* restricts does not.
THEOREM DenotesCorrect == Spec => []Denotes
  <1>1. Inv => Denotes
    <2> SUFFICES ASSUME Inv, pc = "accepted", NEW v \in - Top .. Top
                 PROVE  /\ Covers(cr, v) <=> Covers(r, v)
                        /\ base # <<>> /\ Covers(cr, v) => Covers(base, v)
      BY DEF Denotes
    <2>1. v \in Int
      BY TopAssumption
    <2>2. Covers(cr, v) <=> Covers(r, v)
      BY <2>1 DEF Inv, CoalescedInv
    <2>3. ASSUME base # <<>>, NEW k \in 1 .. Len(cr), In(v, cr[k])
          PROVE  Covers(base, v)
      <3>1. PICK i \in 1 .. Len(base) :
                /\ Val(base[i].min) <= Val(cr[k].min)
                /\ Val(cr[k].max) <= Val(base[i].max)
        BY <2>3 DEF Inv, ContainsInv, Within
      <3>2. cr[k] \in YRange /\ base[i] \in YRange
        BY DEF Inv, TypeOK
      <3>3. In(v, base[i])
        BY <2>1, <2>3, <3>1, <3>2, LessVal DEF In, YRange
      <3> QED BY <3>3 DEF Covers
    <2> QED BY <2>2, <2>3 DEF Covers
  <1> QED BY InvCorrect, <1>1, PTL

\* The ranges that result have gaps in between, except at the largest number.
THEOREM GapsBelowTopCorrect == Spec => []GapsBelowTop
  <1>1. Init => GapsInv
    BY DEF Init, GapsInv
  <1>2. Inv /\ GapsInv /\ [Next]_vars => GapsInv'
    <2> SUFFICES ASSUME Inv, GapsInv, [Next]_vars PROVE GapsInv'
      OBVIOUS
    <2>1. CASE Coalesce
      BY <2>1, CoalesceEffect
    <2>2. CASE Sort
      <3>1. Len(cr') = 1
        BY <2>2 DEF Sort
      <3> QED BY <3>1 DEF GapsInv
    <2>3. CASE Derive
      <3>1. cr' = <<>> /\ Len(<<>>) = 0
        BY <2>3 DEF Derive
      <3> QED BY <3>1 DEF GapsInv
    <2>4. CASE UNCHANGED cr
      BY <2>4 DEF GapsInv
    <2> QED BY <2>1, <2>2, <2>3, <2>4
            DEF Next, vars, ParsePart, ParseFails, Coalesced, Contains, Contained, Validate
  <1>3. GapsInv => GapsBelowTop
    BY DEF GapsInv, GapsBelowTop
  <1> QED BY InvCorrect, <1>1, <1>2, <1>3, PTL DEF Spec

-----------------------------------------------------------------------------
(* Rejections *)

\* Each part has its bounds in order.
PartsInv == \A k \in 1 .. Len(r) : Val(r[k].min) <= Val(r[k].max)

\* The bounds of the coalesced ranges are bounds of parts.
BoundsInv ==
    \A k \in 1 .. Len(cr) :
        /\ \E i \in 1 .. Len(r) : cr[k].min = r[i].min
        /\ \E i \in 1 .. Len(r) : cr[k].max = r[i].max

\* The ranges of base that Contains has passed end before the ranges it still has to
\* look at.
PassedInv ==
    pc = "contain" =>
        \A i \in 1 .. ri - 1, k \in s .. Len(cr) :
            NegativeZero(base[i].max) \/ Val(base[i].max) < Val(cr[k].min)

RightInv ==
    /\ PartsInv /\ BoundsInv
    /\ Separate(base) /\ Separate(cr)
    /\ PassedInv
    /\ RejectedRightly

LEMMA NextParts ==
    ASSUME Inv, PartsInv, [Next]_vars
    PROVE  PartsInv'
  <1> USE DEF PartsInv
  <1>1. CASE ParsePart
    <2>1. CASE UNCHANGED r
      BY <2>1
    <2>2. ASSUME NEW min \in Readable, NEW max \in Readable, ~ OutOfOrder(min, max),
                 r' = Append(r, [min |-> min, max |-> max])
          PROVE  PartsInv'
      <3>1. min \in Number /\ max \in Number
        BY ReadableNumbers DEF Inv
      <3>2. Val(min) <= Val(max)
        BY <2>2, <3>1, LessVal DEF OutOfOrder
      <3>3. /\ Len(r') = Len(r) + 1 /\ Len(r) \in Nat
            /\ r'[Len(r) + 1] = [min |-> min, max |-> max]
            /\ \A k \in 1 .. Len(r) : r'[k] = r[k]
        BY <2>2 DEF Inv, TypeOK
      <3>4. \A k \in 1 .. Len(r') : k = Len(r) + 1 \/ k \in 1 .. Len(r)
        BY <3>3
      <3> QED BY <3>2, <3>3, <3>4
    <2> QED BY <1>1, <2>1, <2>2 DEF ParsePart
  <1>2. CASE Sort
    <2>1. \A k \in 1 .. Len(r') : \E i \in 1 .. Len(r) : r'[k] = r[i]
      BY <1>2, SortingsCover DEF Sort, Inv, TypeOK
    <2> QED BY <2>1
  <1>3. CASE Derive
    <2>1. r' = <<>> /\ Len(<<>>) = 0
      BY <1>3 DEF Derive
    <2> QED BY <2>1
  <1>4. CASE UNCHANGED r
    BY <1>4
  <1> QED BY <1>1, <1>2, <1>3, <1>4
          DEF Next, vars, ParseFails, Coalesce, Coalesced, Contains, Contained, Validate

\* An iteration of coalesce keeps the ranges apart, with bounds of the parts.
LEMMA CoalesceSeparate ==
    ASSUME Inv, PartsInv, BoundsInv, Separate(cr), Coalesce
    PROVE  BoundsInv' /\ Separate(cr')
  <1>1. /\ cr \in Seq(YRange) /\ cr # <<>> /\ Len(cr) \in Nat \ {0}
        /\ Current \in YRange /\ Current.min \in Number /\ Current.max \in Number
        /\ r \in Seq(YRange) /\ j \in 2 .. Len(r)
        /\ r[j] \in YRange /\ r[j].min \in Number /\ r[j].max \in Number
        /\ Val(Current.min) <= Val(r[j].min)
    BY CoalesceLoop
  <1>2. Val(r[j].min) <= Val(r[j].max) /\ j \in 1 .. Len(r)
    BY <1>1 DEF PartsInv
  <1>3. r' = r
    BY DEF Coalesce
  <1>4. PICK n \in Nat \ {0} : n = Len(cr)
    BY <1>1
  <1>5. \A k \in 1 .. n : Val(cr[k].min) \in Int /\ Val(cr[k].max) \in Int
    <2>1. \A k \in 1 .. n : cr[k] \in YRange
      BY <1>1, <1>4
    <2> QED BY <2>1, LessVal DEF YRange
  <1>6. Val(r[j].min) \in Int /\ Val(r[j].max) \in Int
    BY <1>1, LessVal
  <1>7. /\ \A k \in 1 .. n : Val(cr[k].min) <= Val(cr[k].max)
        /\ \A i, k \in 1 .. n : i < k =>
              /\ Val(cr[i].min) <= Val(cr[k].min)
              /\ IsTop(cr[i].max) \/ Val(cr[i].max) + 1 < Val(cr[k].min)
    BY <1>4 DEF Separate
  <1>8. /\ n \in 1 .. n /\ Val(cr[n].min) <= Val(r[j].min)
    BY <1>1, <1>4 DEF Current
  <1>9. CASE StartsAfter /\ cr' = Append(cr, r[j])
    <2>1. /\ Len(cr') = n + 1 /\ cr'[n + 1] = r[j]
          /\ \A k \in 1 .. n : cr'[k] = cr[k]
      BY <1>1, <1>4, <1>9
    <2>2. IsTop(cr[n].max) \/ Val(cr[n].max) + 1 < Val(r[j].min)
      BY <1>1, <1>4, <1>9, AddQuantumVal, LessVal DEF StartsAfter, Current
    <2>3. BoundsInv'
      <3>1. \A k \in 1 .. n + 1 : k = n + 1 \/ k \in 1 .. n
        OBVIOUS
      <3> QED BY <1>2, <1>3, <1>4, <2>1, <3>1 DEF BoundsInv
    <2>4. ASSUME NEW k \in 1 .. n + 1 PROVE Val(cr'[k].min) <= Val(cr'[k].max)
      <3>1. CASE k = n + 1
        BY <1>2, <2>1, <3>1
      <3>2. CASE k \in 1 .. n
        BY <1>7, <2>1, <3>2
      <3> QED BY <3>1, <3>2
    <2>5. ASSUME NEW i \in 1 .. n
          PROVE  /\ Val(cr[i].min) <= Val(r[j].min)
                 /\ IsTop(cr[i].max) \/ Val(cr[i].max) + 1 < Val(r[j].min)
      <3>1. CASE i = n
        BY <1>8, <2>2, <3>1
      <3>2. CASE i < n
        BY <1>5, <1>6, <1>7, <1>8, <3>2
      <3> QED BY <3>1, <3>2
    <2>6. ASSUME NEW i \in 1 .. n + 1, NEW k \in 1 .. n + 1, i < k
          PROVE  /\ Val(cr'[i].min) <= Val(cr'[k].min)
                 /\ IsTop(cr'[i].max) \/ Val(cr'[i].max) + 1 < Val(cr'[k].min)
      <3>1. i \in 1 .. n /\ (k = n + 1 \/ k \in 1 .. n)
        BY <2>6
      <3>2. CASE k = n + 1
        BY <2>1, <2>5, <3>1, <3>2
      <3>3. CASE k \in 1 .. n
        BY <1>7, <2>1, <2>6, <3>1, <3>3
      <3> QED BY <3>1, <3>2, <3>3
    <2> QED BY <2>1, <2>3, <2>4, <2>6 DEF Separate
  <1>10. CASE ~ StartsAfter /\ Extends /\ cr' = [cr EXCEPT ![Len(cr)].max = r[j].max]
    <2>1. /\ Len(cr') = n /\ cr'[n].min = cr[n].min /\ cr'[n].max = r[j].max
          /\ \A k \in 1 .. n : k # n => cr'[k] = cr[k]
      BY <1>1, <1>4, <1>10, ExtendedSeq DEF Extended
    <2>2. Val(cr[n].max) <= Val(r[j].max)
      BY <1>1, <1>4, <1>10, LessVal DEF Extends, Current
    <2>3. BoundsInv'
      <3>1. \A k \in 1 .. n : \E i \in 1 .. Len(r) : cr'[k].min = r[i].min
        BY <1>4, <2>1 DEF BoundsInv
      <3>2. \A k \in 1 .. n : \E i \in 1 .. Len(r) : cr'[k].max = r[i].max
        BY <1>2, <1>4, <2>1 DEF BoundsInv
      <3> QED BY <1>3, <2>1, <3>1, <3>2 DEF BoundsInv
    <2>4. ASSUME NEW k \in 1 .. n PROVE Val(cr'[k].min) <= Val(cr'[k].max)
      <3>1. CASE k = n
        BY <1>5, <1>6, <1>7, <1>8, <2>1, <2>2, <3>1
      <3>2. CASE k # n
        BY <1>7, <2>1, <3>2
      <3> QED BY <3>1, <3>2
    <2>5. \A k \in 1 .. n : cr'[k].min = cr[k].min
      BY <2>1
    <2>6. ASSUME NEW i \in 1 .. n, NEW k \in 1 .. n, i < k
          PROVE  /\ Val(cr'[i].min) <= Val(cr'[k].min)
                 /\ IsTop(cr'[i].max) \/ Val(cr'[i].max) + 1 < Val(cr'[k].min)
      <3>1. cr'[i] = cr[i] /\ cr'[k].min = cr[k].min
        BY <2>1, <2>5, <2>6
      <3> QED BY <1>7, <2>6, <3>1
    <2> QED BY <2>1, <2>3, <2>4, <2>6 DEF Separate
  <1>11. CASE cr' = cr
    BY <1>3, <1>11 DEF BoundsInv, Separate
  <1> QED BY <1>9, <1>10, <1>11 DEF Coalesce

\* The base of the next restriction is in order too.
LEMMA NextSeparate ==
    ASSUME Inv, PartsInv, BoundsInv, Separate(base), Separate(cr), [Next]_vars
    PROVE  BoundsInv' /\ Separate(base') /\ Separate(cr')
  <1>1. CASE ParsePart
    <2>1. cr = <<>> /\ cr' = cr /\ base' = base /\ Len(<<>>) = 0
      BY <1>1 DEF ParsePart, Inv, CoalescedInv
    <2> QED BY <2>1 DEF BoundsInv, Separate
  <1>2. CASE Sort
    <2>1. r' \in Seq(YRange) /\ Len(r') \in Nat \ {0}
      BY <1>2, SortingsCover DEF Sort, Inv, TypeOK
    <2>2. Val(r'[1].min) <= Val(r'[1].max)
      BY <2>1, NextParts DEF PartsInv
    <2>3. Len(cr') = 1 /\ cr'[1] = r'[1] /\ base' = base
      BY <1>2 DEF Sort
    <2>4. \A k \in 1 .. 1 : k = 1
      OBVIOUS
    <2>5. 1 \in 1 .. Len(r')
      BY <2>1
    <2>6. BoundsInv'
      BY <2>3, <2>4, <2>5 DEF BoundsInv
    <2>7. Separate(cr')
      <3>1. \A i, k \in 1 .. 1 : ~ (i < k)
        OBVIOUS
      <3> QED BY <2>2, <2>3, <2>4, <3>1 DEF Separate
    <2> QED BY <2>3, <2>6, <2>7 DEF Separate
  <1>3. CASE Coalesce
    BY <1>3, CoalesceSeparate DEF Coalesce, Separate
  <1>4. CASE Derive
    <2>1. cr' = <<>> /\ Len(<<>>) = 0 /\ (base' = cr \/ base' = base)
      BY <1>4 DEF Derive
    <2> QED BY <2>1 DEF BoundsInv, Separate
  <1>5. CASE UNCHANGED <<r, cr, base>>
    BY <1>5 DEF BoundsInv, Separate
  <1> QED BY <1>1, <1>2, <1>3, <1>4, <1>5
          DEF Next, vars, ParseFails, Coalesced, Contains, Contained, Validate

LEMMA NextPassed ==
    ASSUME Inv, Separate(cr), PassedInv, [Next]_vars
    PROVE  PassedInv'
  <1> USE DEF PassedInv
  <1>1. CASE Coalesced
    BY <1>1 DEF Coalesced
  <1>2. CASE Contains
    <2>1. /\ pc = "contain" /\ UNCHANGED <<base, cr>>
          /\ base \in Seq(YRange) /\ cr \in Seq(YRange)
          /\ s \in 1 .. Len(cr) /\ ri \in 1 .. Len(base)
      BY <1>2 DEF Contains, Inv, TypeOK
    <2>2. PICK n \in Nat : n = Len(cr)
      BY <2>1
    <2>3. CASE Passed /\ ri' = ri + 1 /\ UNCHANGED s
      <3>1. ASSUME NEW i \in 1 .. ri, NEW k \in s .. n
            PROVE  NegativeZero(base[i].max) \/ Val(base[i].max) < Val(cr[k].min)
        <4>1. CASE i # ri
          <5>1. i \in 1 .. ri - 1
            BY <2>1, <4>1
          <5> QED BY <2>1, <2>2, <5>1
        <4>2. CASE i = ri
          <5>1. /\ base[ri].max \in Number /\ cr[s].min \in Number /\ cr[k].min \in Number
            <6>1. base[ri] \in YRange /\ cr[s] \in YRange /\ cr[k] \in YRange
              BY <2>1, <2>2
            <6> QED BY <6>1 DEF YRange
          <5>2. NegativeZero(base[ri].max) \/ Val(base[ri].max) < Val(cr[s].min)
            BY <2>3, <5>1, LessVal DEF Passed
          <5>3. Val(cr[s].min) <= Val(cr[k].min)
            <6>1. CASE k = s
              BY <5>1, <6>1, LessVal
            <6>2. CASE k # s
              <7>1. s \in 1 .. Len(cr) /\ k \in 1 .. Len(cr) /\ s < k
                BY <2>1, <2>2, <6>2
              <7> QED BY <7>1 DEF Separate
            <6> QED BY <6>1, <6>2
          <5> QED BY <4>2, <5>1, <5>2, <5>3, LessVal
        <4> QED BY <4>1, <4>2
      <3>2. ri' - 1 = ri /\ ri' - 1 \in Int
        BY <2>1, <2>3
      <3> QED BY <2>1, <2>2, <2>3, <3>1, <3>2
    <2>4. CASE pc' = "rejected"
      BY <2>4
    <2>5. CASE s' = s + 1 /\ UNCHANGED <<ri, pc>>
      <3>1. \A k \in s' .. Len(cr) : k \in s .. Len(cr)
        BY <2>1, <2>2, <2>5
      <3> QED BY <2>1, <2>5, <3>1
    <2> QED BY <1>2, <2>3, <2>4, <2>5 DEF Contains
  <1>3. CASE ParsePart \/ ParseFails \/ Sort \/ Coalesce \/ Contained \/ Validate \/ Derive
    <2>1. pc' # "contain"
      BY <1>3 DEF ParsePart, ParseFails, Sort, Coalesce, Contained, Validate, Derive
    <2> QED BY <2>1
  <1>4. CASE UNCHANGED vars
    BY <1>4 DEF vars
  <1> QED BY <1>1, <1>2, <1>3, <1>4 DEF Next

\* No part, and no range of base, has a bound that is a negative zero.
NoNegativeZeros ==
    /\ \A k \in 1 .. Len(r) : ~ NegativeZero(r[k].min) /\ ~ NegativeZero(r[k].max)
    /\ \A k \in 1 .. Len(base) : ~ NegativeZero(base[k].min) /\ ~ NegativeZero(base[k].max)

\* Contains only returns false when it has found a number that base does not allow.
LEMMA ContainsRejects ==
    ASSUME Inv, RightInv, NoNegativeZeros, Contains, pc' = "rejected"
    PROVE  base # <<>> /\ \E v \in - Top .. Top : Covers(cr, v) /\ ~ Covers(base, v)
  <1> DEFINE x == cr[s]
             y == base[ri]
  <1>1. /\ s \in 1 .. Len(cr) /\ ri \in 1 .. Len(base) /\ pc = "contain"
        /\ base \in Seq(YRange) /\ cr \in Seq(YRange)
    BY DEF Contains, Inv, TypeOK
  <1>2. /\ x.min \in Number /\ x.max \in Number /\ y.min \in Number /\ y.max \in Number
    <2>1. x \in YRange /\ y \in YRange
      BY <1>1
    <2> QED BY <2>1 DEF YRange
  <1>3. /\ ~ NegativeZero(x.min) /\ ~ NegativeZero(x.max)
        /\ ~ NegativeZero(y.min) /\ ~ NegativeZero(y.max)
    BY <1>1 DEF RightInv, BoundsInv, NoNegativeZeros
  <1>4. Val(x.min) <= Val(x.max)
    BY <1>1 DEF RightInv, Separate
  <1>5. /\ - Top <= Val(x.min) /\ Val(x.max) <= Top /\ Val(y.max) <= Top
        /\ Val(y.max) = Top => IsTop(y.max)
        /\ IsTop(y.max) => Val(y.max) = Top
    BY <1>2, TopAssumption DEF Number, Val, IsTop
  <1>6. /\ Val(x.min) \in Int /\ Val(x.max) \in Int /\ Val(y.min) \in Int /\ Val(y.max) \in Int
    BY <1>2, LessVal
  <1>7. \A i \in 1 .. ri - 1 : Val(base[i].max) < Val(x.min)
    <2>1. \A i \in 1 .. ri - 1 : i \in 1 .. Len(base)
      BY <1>1
    <2>2. s \in s .. Len(cr)
      BY <1>1
    <2> QED BY <1>1, <2>1, <2>2 DEF RightInv, PassedInv, NoNegativeZeros
  <1>8. \A i \in 1 .. Len(base) :
            Val(base[i].min) \in Int /\ Val(base[i].max) \in Int
    <2>1. \A i \in 1 .. Len(base) : base[i] \in YRange
      BY <1>1
    <2> QED BY <2>1, LessVal DEF YRange
  <1>9. \A i \in 1 .. Len(base) : i = ri \/ i \in 1 .. ri - 1 \/ ri < i
    BY <1>1
  <1>10. \A i \in 1 .. Len(base) : ri < i =>
             Val(y.min) <= Val(base[i].min) /\ (IsTop(y.max) \/ Val(y.max) + 1 < Val(base[i].min))
    BY <1>1 DEF RightInv, Separate
  <1>11. base # <<>>
    BY <1>1
  <1>12. ASSUME NEW v \in Int, Val(x.min) <= v, v <= Val(x.max)
         PROVE  v \in - Top .. Top /\ Covers(cr, v)
    <2>1. v \in - Top .. Top
      BY <1>5, <1>6, <1>12, TopAssumption
    <2> QED BY <1>1, <1>12, <2>1 DEF Covers, In
  <1>13. CASE Passed /\ ri = Len(base)
    <2>1. Val(y.max) < Val(x.min)
      BY <1>2, <1>3, <1>13, LessVal DEF Passed
    <2>2. ASSUME NEW i \in 1 .. Len(base) PROVE Val(base[i].max) < Val(x.min)
      <3>1. i = ri \/ i \in 1 .. ri - 1
        BY <1>1, <1>13
      <3> QED BY <1>7, <2>1, <3>1
    <2>3. ~ Covers(base, Val(x.min))
      BY <1>6, <1>8, <2>2 DEF Covers, In
    <2> QED BY <1>4, <1>6, <1>11, <1>12, <2>3
  <1>14. CASE Less(x.min, y.min)
    <2>1. Val(x.min) < Val(y.min)
      BY <1>2, <1>3, <1>14, LessVal
    <2>2. ASSUME NEW i \in 1 .. Len(base)
          PROVE  Val(base[i].max) < Val(x.min) \/ Val(x.min) < Val(base[i].min)
      <3>1. CASE i \in 1 .. ri - 1
        BY <1>7, <3>1
      <3>2. CASE i = ri
        BY <2>1, <3>2
      <3>3. CASE ri < i
        BY <1>6, <1>8, <1>10, <2>1, <3>3
      <3> QED BY <1>9, <3>1, <3>2, <3>3
    <2>3. ~ Covers(base, Val(x.min))
      BY <1>6, <1>8, <2>2 DEF Covers, In
    <2> QED BY <1>4, <1>6, <1>11, <1>12, <2>3
  <1>15. CASE ~ Passed /\ Less(y.max, x.max)
    <2> DEFINE v == Val(y.max) + 1
    <2>1. Val(y.max) < Val(x.max) /\ Val(x.min) <= Val(y.max)
      BY <1>2, <1>3, <1>15, LessVal DEF Passed
    <2>2. ~ IsTop(y.max)
      BY <1>5, <1>6, <2>1, TopAssumption
    <2>3. v \in Int /\ Val(x.min) <= v /\ v <= Val(x.max)
      BY <1>6, <2>1
    <2>4. ASSUME NEW i \in 1 .. Len(base)
          PROVE  Val(base[i].max) < v \/ v < Val(base[i].min)
      <3>1. CASE i \in 1 .. ri - 1
        BY <1>6, <1>7, <1>8, <2>1, <3>1
      <3>2. CASE i = ri
        BY <1>6, <3>2
      <3>3. CASE ri < i
        BY <1>10, <2>2, <3>3
      <3> QED BY <1>9, <3>1, <3>2, <3>3
    <2> HIDE DEF v
    <2>5. ~ Covers(base, v)
      BY <1>8, <2>3, <2>4 DEF Covers, In
    <2> QED BY <1>11, <1>12, <2>3, <2>5
  <1> QED BY <1>13, <1>14, <1>15 DEF Contains

\* Ranges that are apart are valid.
LEMMA SeparateValid ==
    ASSUME Inv, RightInv, NoNegativeZeros, cr # <<>>,
           \A k \in 1 .. Len(cr) - 1 : ~ IsTop(cr[k].max)
    PROVE  Valid
  <1>1. cr \in Seq(YRange)
    BY DEF Inv, TypeOK
  <1>2. PICK n \in Nat \ {0} : n = Len(cr)
    BY <1>1
  <1>3. \A k \in 1 .. n : cr[k].min \in Number /\ cr[k].max \in Number
    <2>1. \A k \in 1 .. n : cr[k] \in YRange
      BY <1>1, <1>2
    <2> QED BY <2>1 DEF YRange
  <1>4. \A k \in 1 .. n : ~ NegativeZero(cr[k].min) /\ ~ NegativeZero(cr[k].max)
    BY <1>2 DEF RightInv, BoundsInv, NoNegativeZeros
  <1>5. \A k \in 1 .. n : Val(cr[k].min) <= Val(cr[k].max)
    BY <1>2 DEF RightInv, Separate
  <1>6. \A i, k \in 1 .. n : i < k => IsTop(cr[i].max) \/ Val(cr[i].max) + 1 < Val(cr[k].min)
    BY <1>2 DEF RightInv, Separate
  <1>7. \A i, k \in 1 .. n : i < k => Val(cr[i].max) + 1 < Val(cr[k].min)
    <2>1. \A i, k \in 1 .. n : i < k => i \in 1 .. n - 1
      BY <1>2
    <2>2. \A i \in 1 .. n - 1 : ~ IsTop(cr[i].max)
      BY <1>2
    <2> QED BY <1>6, <2>1, <2>2
  <1>8. \A k \in 1 .. n : Val(cr[k].min) \in Int /\ Val(cr[k].max) \in Int
    BY <1>3, LessVal
  <1>9. ASSUME NEW k \in 1 .. n - 1 PROVE ~ Before(cr[k + 1], cr[k])
    <2>1. k \in 1 .. n /\ k + 1 \in 1 .. n /\ k < k + 1
      BY <1>2
    <2>2. Val(cr[k].min) < Val(cr[k + 1].min)
      BY <1>5, <1>7, <1>8, <2>1
    <2>3. Less(cr[k].min, cr[k + 1].min) /\ ~ Less(cr[k + 1].min, cr[k].min)
      BY <1>3, <1>4, <1>8, <2>1, <2>2, LessVal
    <2> QED BY <2>3 DEF Before
  <1>10. 1 \in 1 .. n /\ ~ Less(cr[1].max, cr[1].min)
    <2>1. 1 \in 1 .. n
      BY <1>2
    <2> QED BY <1>3, <1>4, <1>5, <1>8, <2>1, LessVal
  <1>11. ASSUME NEW k \in 2 .. n PROVE ~ Less(cr[k].min, cr[1].max)
    <2>1. k \in 1 .. n /\ 1 \in 1 .. n /\ 1 < k
      BY <1>2
    <2>2. Val(cr[1].max) < Val(cr[k].min)
      BY <1>7, <1>8, <2>1
    <2> QED BY <1>3, <1>4, <1>8, <2>1, <2>2, LessVal
  <1> QED BY <1>2, <1>9, <1>10, <1>11 DEF Valid, Sorted

LEMMA NextRejected ==
    ASSUME Inv, RightInv, [Next]_vars
    PROVE  RejectedRightly'
  <1> USE DEF RejectedRightly
  <1>1. CASE Contains
    <2>1. UNCHANGED <<base, r, cr>>
      BY <1>1 DEF Contains
    <2>2. CASE pc' = "rejected"
      <3>1. CASE NoNegativeZeros
        <4>1. base # <<>> /\ \E v \in - Top .. Top : Covers(cr, v) /\ ~ Covers(base, v)
          BY <1>1, <2>2, <3>1, ContainsRejects
        <4> QED BY <2>1, <4>1 DEF Covers
      <3>2. CASE ~ NoNegativeZeros
        BY <2>1, <3>2 DEF NoNegativeZeros
      <3> QED BY <3>1, <3>2
    <2> QED BY <2>2
  <1>2. CASE Validate
    <2>1. UNCHANGED <<base, r, cr>> /\ (pc' = "rejected" => ~ Valid)
      BY <1>2 DEF Validate
    <2>2. ASSUME pc' = "rejected"
          PROVE  \/ cr = <<>>
                 \/ \E k \in 1 .. Len(cr) - 1 : IsTop(cr[k].max)
                 \/ ~ NoNegativeZeros
      BY <2>1, <2>2, SeparateValid
    <2> QED BY <2>1, <2>2 DEF NoNegativeZeros
  <1>3. CASE ParsePart \/ ParseFails
    <2>1. cr' = <<>>
      BY <1>3 DEF ParsePart, ParseFails, Inv, CoalescedInv
    <2> QED BY <2>1
  <1>4. CASE Sort \/ Coalesce \/ Coalesced \/ Contained \/ Derive
    <2>1. pc' # "rejected"
      BY <1>4 DEF Sort, Coalesce, Coalesced, Contained, Derive
    <2> QED BY <2>1
  <1>5. CASE UNCHANGED vars
    BY <1>5 DEF vars, RightInv, Covers
  <1> QED BY <1>1, <1>2, <1>3, <1>4, <1>5 DEF Next

\* A statement that was parsed is rejected only for a number that its base does not
\* allow, for a part that starts after the largest number, or for a "-0".
THEOREM RejectedRightlyCorrect == Spec => []RejectedRightly
  <1>1. Init => RightInv
    <2> SUFFICES ASSUME Init PROVE RightInv
      OBVIOUS
    <2>1. Separate(base) /\ r = <<>> /\ cr = <<>> /\ Len(<<>>) = 0 /\ pc = "parse"
      BY BasesAssumption DEF Init
    <2> QED BY <2>1 DEF RightInv, PartsInv, BoundsInv, PassedInv, Separate, RejectedRightly
  <1>2. Inv /\ RightInv /\ [Next]_vars => RightInv'
    BY NextParts, NextSeparate, NextPassed, NextRejected DEF RightInv
  <1>3. RightInv => RejectedRightly
    BY DEF RightInv
  <1> QED BY InvCorrect, <1>1, <1>2, <1>3, PTL DEF Spec
=============================================================================
