------------------------------ MODULE MCIndent ------------------------------
(* Two writers, one above the other, with prefixes of two lengths. *)
EXTENDS Indent

MCPrefix == <<<<"-">>, <<"+", "+">>>>

MCBuffers == UNION {[1 .. n -> {"x", NL}] : n \in 1 .. 3}
=============================================================================
