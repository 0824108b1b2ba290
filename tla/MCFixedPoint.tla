---------------------------- MODULE MCFixedPoint ----------------------------
(***************************************************************************)
(* The instance for signed char, with four integer and three fraction      *)
(* bits: pi is 25/8, 2 pi 50/8.                                            *)
(***************************************************************************)
EXTENDS FixedPoint

MCPower2 == [n \in 0 .. 2 * I |-> 2 ^ n]
=============================================================================
