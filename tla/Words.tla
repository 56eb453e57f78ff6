------------------------------- MODULE Words -------------------------------
(***************************************************************************)
(* word_t, the unsigned machine word of the simulator (src/memory.h), and  *)
(* the C arithmetic done on it.  The width is a parameter: SIGN_BIT is the *)
(* weight of the most significant bit, 2^31 in the code (the masks         *)
(* 0x80000000u of src/cpu/cpsr.h).                                         *)
(***************************************************************************)
EXTENDS Integers

CONSTANT SIGN_BIT   \* weight of the top bit of a word

ASSUME SignBitAssumption == SIGN_BIT \in Nat \ {0}

WORD_MODULUS == 2 * SIGN_BIT

Word == 0 .. WORD_MODULUS - 1

(* Seeded fault: a sum wider than a word. *)
NoWrap(x) == x

(* Conversion to word_t of the exact sum or difference of two words, and   *)
(* of a word and an int32_t: x % WORD_MODULUS, written without % because   *)
(* such an x lies less than one modulus outside the range of a word.       *)
Wrap(x) ==
  IF x >= WORD_MODULUS THEN x - WORD_MODULUS
  ELSE IF x < 0 THEN x + WORD_MODULUS
  ELSE x

(* (a & 0x80000000u) != 0. *)
SignSet(a) == a >= SIGN_BIT

(* The two's complement reading of a word, for the statements about signed *)
(* arithmetic; the code itself never converts a word to int32_t.           *)
Signed(a) == IF SignSet(a) THEN a - WORD_MODULUS ELSE a

SignedRange == -SIGN_BIT .. SIGN_BIT - 1
=============================================================================
