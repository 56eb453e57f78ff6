-------------------------------- MODULE Cpsr --------------------------------
(***************************************************************************)
(* The status register (src/cpu/cpsr.h).  The 32-bit value of a Cpsr is    *)
(* the set of the flags whose bit is 1: "value |= FLAG" adds a flag and    *)
(* "value &= ~FLAG" removes it.                                            *)
(***************************************************************************)
EXTENDS Words

Flags == {"N", "Z", "C", "V", "T"}

construct_cpsr == {}

(* if (cond) cpsr_set_<flag>(cpsr); else cpsr_clear_<flag>(cpsr); *)
SetOrClear(flags, flag, cond) ==
  IF cond THEN flags \cup {flag} ELSE flags \ {flag}

cpsr_extract_negative(flags, value) == SetOrClear(flags, "N", SignSet(value))

cpsr_extract_zero(flags, value) == SetOrClear(flags, "Z", value = 0)

(* The sign of operand1 ^ x is set exactly when the signs differ. *)
cpsr_extract_overflow_add(flags, operand1, operand2, result) ==
  SetOrClear(flags, "V", /\ SignSet(operand1) = SignSet(operand2)
                         /\ SignSet(operand1) # SignSet(result))

cpsr_extract_overflow_sub(flags, operand1, operand2, result) ==
  SetOrClear(flags, "V", /\ SignSet(operand1) # SignSet(operand2)
                         /\ SignSet(operand1) # SignSet(result))

(* The sum is taken in 64 bits, so it does not wrap. *)
cpsr_extract_carry_add(flags, operand1, operand2) ==
  SetOrClear(flags, "C", operand1 + operand2 >= WORD_MODULUS)

cpsr_extract_carry_sub(flags, operand1, operand2) ==
  SetOrClear(flags, "C", operand1 >= operand2)
=============================================================================
