------------------------------- MODULE MCAlu --------------------------------
(* Alu over four-bit words.                                                *)
EXTENDS Alu, MCBitwise

(* 0, 1, the largest positive, the smallest negative number and -1. *)
MCOperands == {0, 1, SIGN_BIT - 1, SIGN_BIT, WORD_MODULUS - 1}

(* BitNot is the complement of every bit. *)
ASSUME BitNotComplements ==
  \A a \in Word : BitXor(a, BitNot(a)) = WORD_MODULUS - 1
=============================================================================
