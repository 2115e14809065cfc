------------------------------- MODULE Ranges -------------------------------
(***************************************************************************)
(* Ranges of numbers: YangRange of pkg/yang/types_builtin.go.  A range or  *)
(* length statement restricts the range of the type it is based on; a type *)
(* derived from that one may restrict it further (Type.resolve, types.go). *)
(*                                                                         *)
(* A Number is a sign and an absolute value in a word, whose arithmetic    *)
(* wraps around; zero has two signs.  Numbers of one restriction have the  *)
(* same number of fraction digits, so that decimals compare like integers. *)
(***************************************************************************)
EXTENDS Integers, Sequences, Functions

CONSTANTS
    Top,        \* the largest word, 2^64 - 1 in the code
    Written,    \* the numbers that range statements may hold
    Bases,      \* the ranges restrictions start from; <<>> is that of ParseRangesInt
    MaxParts,   \* bound on the parts of a restriction ...
    MaxDepth    \* ... and on how often a restricted type is restricted again

Number == [negative : BOOLEAN, value : 0 .. Top]
YRange == [min : Number, max : Number]

ASSUME TopAssumption == Top \in Nat \ {0}
ASSUME WrittenAssumption == Written \subseteq Number

Val(a) == IF a.negative THEN - a.value ELSE a.value
IsTop(a) == ~ a.negative /\ a.value = Top

\* Every range of q has its bounds in order, and starts beyond the ranges before it
\* with a gap, except after one that ends at the largest number.
Separate(q) ==
    /\ \A k \in 1 .. Len(q) : Val(q[k].min) <= Val(q[k].max)
    /\ \A i, k \in 1 .. Len(q) : i < k =>
          /\ Val(q[i].min) <= Val(q[k].min)
          /\ IsTop(q[i].max) \/ Val(q[i].max) + 1 < Val(q[k].min)

\* The code's have one range: that of a built-in type.
ASSUME BasesAssumption ==
    /\ Bases \subseteq Seq(YRange)
    /\ \A b \in Bases : Separate(b)

VARIABLES
    base,       \* the range of the type that is restricted
    r,          \* the parts written
    cr,         \* the ranges coalesced so far
    j,          \* index of coalesce's loop over r
    s,          \* index of Contains' loop over cr
    ri,         \* Contains' position in base
    pc,         \* the function that runs, or how it ended
    depth       \* restrictions made before this one

vars == <<base, r, cr, j, s, ri, pc, depth>>

-----------------------------------------------------------------------------
(* Numbers *)

\* Number.Less.  Two numbers of one sign compare by their absolute values.
Less(a, b) ==
    \/ a.negative /\ ~ b.negative
    \/ ~ a.negative /\ ~ b.negative /\ a.value < b.value
    \/ a.negative /\ b.negative /\ b.value < a.value

\* addQuantum(1), "without checking overflow".
AddQuantum(a) ==
    IF a.negative
    THEN IF a.value <= 1
         THEN [negative |-> FALSE, value |-> 1 - a.value]
         ELSE [negative |-> TRUE, value |-> a.value - 1]
    ELSE [negative |-> FALSE, value |-> (a.value + 1) % (Top + 1)]

\* YangRange.Less.
Before(x, y) ==
    \/ Less(x.min, y.min)
    \/ ~ Less(y.min, x.min) /\ Less(x.max, y.max)

Sorted(q) == \A k \in 1 .. Len(q) - 1 : ~ Before(q[k + 1], q[k])

\* What sort.Sort may make of q.
Sortings(q) ==
    {t \in {[k \in 1 .. Len(q) |-> q[f[k]]] : f \in Bijection(1 .. Len(q), 1 .. Len(q))} :
        Sorted(t)}

-----------------------------------------------------------------------------
Init ==
    /\ base \in Bases
    /\ r = <<>> /\ cr = <<>>
    /\ j = 1 /\ s = 1 /\ ri = 1
    /\ pc = "parse"
    /\ depth = 0

\* The bounds of a part are out of order.
OutOfOrder(min, max) == Less(max, min)

\* What parseNumber may return: "min" and "max" are the bounds of base.
Readable ==
    Written \cup IF base = <<>> THEN {} ELSE {base[1].min, base[Len(base)].max}

\* The next part of the statement, whose bounds are numbers.
ParsePart ==
    /\ pc = "parse" /\ Len(r) < MaxParts - depth
    /\ \E min, max \in Readable :
          IF OutOfOrder(min, max)
          THEN pc' = "rejected" /\ UNCHANGED r
          ELSE r' = Append(r, [min |-> min, max |-> max]) /\ UNCHANGED pc
    /\ UNCHANGED <<base, cr, j, s, ri, depth>>

\* A part is no number, or "min" or "max" without a base.
ParseFails ==
    /\ pc = "parse"
    /\ pc' = "rejected"
    /\ UNCHANGED <<base, r, cr, j, s, ri, depth>>

\* Where coalesce's loop starts.
FirstNext == 2

Sort ==
    /\ pc = "parse" /\ r # <<>>
    /\ r' \in Sortings(r)
    /\ cr' = <<r'[1]>>
    /\ j' = FirstNext
    /\ pc' = "coalesce"
    /\ UNCHANGED <<base, s, ri, depth>>

\* r[j] starts after the last range of cr and its quantum.
Current == cr[Len(cr)]
StartsAfter == Less(AddQuantum(Current.max), r[j].min)

\* r[j] reaches beyond the last range of cr.  Mutant: it is taken to.
AlwaysExtends == TRUE
Extends == Less(Current.max, r[j].max)

Coalesce ==
    /\ pc = "coalesce" /\ j <= Len(r)
    /\ \/ /\ StartsAfter
          /\ cr' = Append(cr, r[j])
       \/ /\ ~ StartsAfter /\ Extends
          /\ cr' = [cr EXCEPT ![Len(cr)].max = r[j].max]
       \/ /\ ~ StartsAfter /\ ~ Extends
          /\ UNCHANGED cr
    /\ j' = j + 1
    /\ UNCHANGED <<base, r, s, ri, pc, depth>>

\* coalesce returns.  Contains is true at once when there is no base.
Coalesced ==
    /\ pc = "coalesce" /\ j > Len(r)
    /\ pc' = IF base = <<>> THEN "validate" ELSE "contain"
    /\ s' = 1 /\ ri' = 1
    /\ UNCHANGED <<base, r, cr, j, depth>>

\* base[ri] ends before cr[s] starts.  Mutant: or where it starts.
PassedOrMet == ~ Less(cr[s].min, base[ri].max)
Passed == Less(base[ri].max, cr[s].min)

Contains ==
    /\ pc = "contain" /\ s <= Len(cr)
    /\ \/ /\ Passed
          /\ ri' = ri + 1
          /\ pc' = IF ri = Len(base) THEN "rejected" ELSE pc
          /\ UNCHANGED s
       \/ /\ ~ Passed
          /\ Less(cr[s].min, base[ri].min) \/ Less(base[ri].max, cr[s].max)
          /\ pc' = "rejected"
          /\ UNCHANGED <<s, ri>>
       \/ /\ ~ Passed
          /\ ~ Less(cr[s].min, base[ri].min) /\ ~ Less(base[ri].max, cr[s].max)
          /\ s' = s + 1
          /\ UNCHANGED <<ri, pc>>
    /\ UNCHANGED <<base, r, cr, j, depth>>

Contained ==
    /\ pc = "contain" /\ s > Len(cr)
    /\ pc' = "validate"
    /\ UNCHANGED <<base, r, cr, j, s, ri, depth>>

\* Every range is compared with the first one.
Valid ==
    /\ Sorted(cr)
    /\ ~ Less(cr[1].max, cr[1].min)
    /\ \A k \in 2 .. Len(cr) : ~ Less(cr[k].min, cr[1].max)

Validate ==
    /\ pc = "validate"
    /\ pc' = IF Valid THEN "accepted" ELSE "rejected"
    /\ UNCHANGED <<base, r, cr, j, s, ri, depth>>

\* A type derived from this one is restricted: from what was accepted, or from the
\* same range again when it was not.
Derive ==
    /\ pc \in {"accepted", "rejected"} /\ depth < MaxDepth
    /\ base' = IF pc = "accepted" THEN cr ELSE base
    /\ r' = <<>> /\ cr' = <<>>
    /\ j' = 1 /\ s' = 1 /\ ri' = 1
    /\ pc' = "parse"
    /\ depth' = depth + 1

Next ==
    \/ ParsePart \/ ParseFails \/ Sort \/ Coalesce \/ Coalesced
    \/ Contains \/ Contained \/ Validate \/ Derive

Spec == Init /\ [][Next]_vars

-----------------------------------------------------------------------------
(* Properties *)

\* Every variable holds values of its type, and no index of coalesce and Contains
\* leaves its slice.
TypeOK ==
    /\ base \in Seq(YRange)
    /\ r \in Seq(YRange) /\ cr \in Seq(YRange)
    /\ j \in 1 .. Len(r) + 1
    /\ s \in 1 .. Len(cr) + 1
    /\ ri \in 1 .. Len(base) + 1
    /\ pc = "contain" => ri <= Len(base)
    /\ pc \in {"parse", "coalesce", "contain", "validate", "accepted", "rejected"}
    /\ depth \in Nat

In(v, x) == Val(x.min) <= v /\ v <= Val(x.max)
Covers(q, v) == \E k \in 1 .. Len(q) : In(v, q[k])

\* parseChildRanges, when it accepts a statement: the result allows the numbers of its
\* parts however they overlap (Sort has put them in order), and none that the base
\* does not allow.
Denotes ==
    pc = "accepted" =>
        \A v \in - Top .. Top :
            /\ Covers(cr, v) <=> Covers(r, v)
            /\ base # <<>> /\ Covers(cr, v) => Covers(base, v)

\* The ranges that parseChildRanges returns are in order with gaps in between, except
\* after one that ends at the largest number, where coalesce's quantum wraps around.
GapsBelowTop ==
    pc = "accepted" =>
        \A k \in 1 .. Len(cr) - 1 :
            IsTop(cr[k].max) \/ Val(cr[k].max) + 1 < Val(cr[k + 1].min)

NegativeZero(a) == a.negative /\ a.value = 0

\* Once parsed, a statement is only rejected for a reason: it allows a number that
\* the base does not, goes on after a part that reaches the largest number, or it or
\* its base holds "-0", which Less puts before "0".
RejectedRightly ==
    pc = "rejected" =>
        \/ cr = <<>>
        \/ base # <<>> /\ \E v \in - Top .. Top : Covers(cr, v) /\ ~ Covers(base, v)
        \/ \E k \in 1 .. Len(cr) - 1 : IsTop(cr[k].max)
        \/ \E q \in {r, base} : \E k \in 1 .. Len(q) :
              NegativeZero(q[k].min) \/ NegativeZero(q[k].max)

\* parseChildRanges' doc: "The output range is sorted and coalesced."
Normalized ==
    pc = "accepted" =>
        \A k \in 1 .. Len(cr) - 1 : Val(cr[k].max) + 1 < Val(cr[k + 1].min)
=============================================================================
