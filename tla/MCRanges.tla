------------------------------ MODULE MCRanges ------------------------------
(***************************************************************************)
(* Words of two bits: unsigned numbers of 0..3, signed ones of -2..1, and  *)
(* ranges without a base.                                                  *)
(***************************************************************************)
EXTENDS Ranges

Nonneg(n) == [negative |-> FALSE, value |-> n]
Neg(n) == [negative |-> TRUE, value |-> n]

MCWritten == {Neg(2), Neg(1), Neg(0), Nonneg(0), Nonneg(1), Nonneg(2), Nonneg(3)}

MCBases ==
    {<<>>, <<[min |-> Nonneg(0), max |-> Nonneg(3)]>>, <<[min |-> Neg(2), max |-> Nonneg(1)]>>}
=============================================================================
