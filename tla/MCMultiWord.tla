----------------------------- MODULE MCMultiWord ----------------------------
(* MultiWord over small words.                                             *)
EXTENDS MultiWord, MCBitwise

(* Wrap is C's reduction modulo 2^32 on every value it is applied to. *)
ASSUME WrapReduces ==
  \A n \in -WORD_MODULUS .. 2 * WORD_MODULUS - 1 : Wrap(n) = n % WORD_MODULUS
=============================================================================
