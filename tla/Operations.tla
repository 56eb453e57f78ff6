----------------------------- MODULE Operations -----------------------------
(***************************************************************************)
(* The instruction bodies of src/instructions/data_processing/operations.h *)
(* and src/instructions/multiplication/mul.h, one action per function.     *)
(* Operands arrive as values, the destination as a register index, and     *)
(* rises_cpsr is the S bit.  The bitwise operators of C are parameters;    *)
(* the model-checking modules give them their definition.                  *)
(***************************************************************************)
EXTENDS Cpu

CONSTANTS
  BitAnd(_, _),   \* C's a & b on words
  BitOr(_, _),    \* C's a | b on words
  BitXor(_, _)    \* C's a ^ b on words

ASSUME BitwiseAssumption ==
  \A a, b \in Word :
    /\ {BitAnd(a, b), BitOr(a, b), BitXor(a, b)} \subseteq Word
    /\ BitXor(a, b) = 0 <=> a = b
    /\ BitAnd(a, a) = a

(* C's ~a. *)
BitNot(a) == WORD_MODULUS - 1 - a

(* The carry-in, cpsr_get_carry(&cpu->cpsr) ? 1 : 0. *)
CarryIn == IF "C" \in cpsr THEN 1 ELSE 0

(* The pair of flag updates nearly every operation ends with. *)
ExtractZN(value) ==
  cpsr_extract_negative(cpsr_extract_zero(cpsr, value), value)

(* All four flags of a subtraction and of an addition. *)
SubFlags(operand1, operand2, result) ==
  cpsr_extract_overflow_sub(
    cpsr_extract_carry_sub(ExtractZN(result), operand1, operand2),
    operand1, operand2, result)

AddFlags(operand1, operand2, result) ==
  cpsr_extract_overflow_add(
    cpsr_extract_carry_add(ExtractZN(result), operand1, operand2),
    operand1, operand2, result)

(* The result is stored; if (!rises_cpsr) return; then come the flags. *)
Store(reg, result, rises_cpsr, flags) ==
  /\ cpu_set_reg(reg, result)
  /\ cpsr' = IF rises_cpsr THEN flags ELSE cpsr

(* The bodies the subtractions and the additions share. *)
Difference(reg, x, y, rises_cpsr) ==
  LET result == Wrap(x - y)
  IN  Store(reg, result, rises_cpsr, SubFlags(x, y, result))

Sum(reg, x, y, rises_cpsr) ==
  LET result == Wrap(x + y)
  IN  Store(reg, result, rises_cpsr, AddFlags(x, y, result))

(* A test updates N and Z, whatever the S bit says, and stores nothing. *)
Test(result) == cpsr' = ExtractZN(result) /\ UNCHANGED regs

-----------------------------------------------------------------------------
(* Moves and logic.  ORR and BIC take no S bit and MVN ignores it. *)

mov_op(reg, value, rises_cpsr) ==
  Store(reg, value, rises_cpsr, ExtractZN(value))

and_op(reg, operand1, operand2, rises_cpsr) ==
  LET result == BitAnd(operand1, operand2)
  IN  Store(reg, result, rises_cpsr, ExtractZN(result))

eor_op(reg, operand1, operand2, rises_cpsr) ==
  LET result == BitXor(operand1, operand2)
  IN  Store(reg, result, rises_cpsr, ExtractZN(result))

orr_op(reg, operand1, operand2) ==
  Store(reg, BitOr(operand1, operand2), FALSE, cpsr)

bic_op(reg, operand1, operand2) ==
  Store(reg, BitAnd(operand1, BitNot(operand2)), FALSE, cpsr)

mvn_op(reg, operand2, rises_cpsr) ==
  Store(reg, BitNot(operand2), FALSE, cpsr)

-----------------------------------------------------------------------------
(* Addition and subtraction.  The three operations with carry fold it into *)
(* an operand first, in word arithmetic, and take every flag from the      *)
(* folded operand.                                                         *)

sub_op(reg, operand1, operand2, rises_cpsr) ==
  Difference(reg, operand1, operand2, rises_cpsr)

rsb_op(reg, operand1, operand2, rises_cpsr) ==
  Difference(reg, operand2, operand1, rises_cpsr)

add_op(reg, operand1, operand2, rises_cpsr) ==
  Sum(reg, operand1, operand2, rises_cpsr)

adc_op(reg, operand1, operand2, rises_cpsr) ==
  Sum(reg, operand1, Wrap(operand2 + CarryIn), rises_cpsr)

sbc_op(reg, operand1, operand2, rises_cpsr) ==
  Difference(reg, operand1, Wrap(operand2 - CarryIn), rises_cpsr)

rsc_op(reg, operand1, operand2, rises_cpsr) ==
  Difference(reg, operand2, Wrap(operand1 + CarryIn), rises_cpsr)

-----------------------------------------------------------------------------
(* Tests and comparisons. *)

tst_op(operand1, operand2) == Test(BitAnd(operand1, operand2))

teq_op(operand1, operand2) == Test(BitXor(operand1, operand2))

cmp_op(operand1, operand2) == Test(Wrap(operand1 - operand2))

cmn_op(operand1, operand2) == Test(Wrap(operand1 + operand2))

(* Multiplication: the low word of the product; N and Z always follow. *)
mul_op(rd, a, b) ==
  LET r == (a * b) % WORD_MODULUS
  IN  Store(rd, r, TRUE, ExtractZN(r))
=============================================================================
