----------------------------- MODULE MCBitwise ------------------------------
(* The bitwise operators of C, for the models that take them as parameters. *)
EXTENDS Bitwise

MCBitAnd(a, b) == a & b
MCBitOr(a, b) == a | b
MCBitXor(a, b) == a ^^ b
=============================================================================
