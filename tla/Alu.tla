-------------------------------- MODULE Alu ---------------------------------
(***************************************************************************)
(* The arithmetic unit under every sequence of operation calls.  A step is *)
(* one call of one function of operations.h or mul.h, on any operands and  *)
(* any destination; `last' remembers the call, so that the invariants can  *)
(* compare the flags and the register it left with exact integer           *)
(* arithmetic on its operands.                                             *)
(***************************************************************************)
EXTENDS Operations, Cond

CONSTANTS
  Operands,      \* the operand values a caller may pass
  Destinations   \* the destination registers a caller may pass

ASSUME OperandsAssumption == Operands \subseteq Word

ASSUME DestinationsAssumption == Destinations \subseteq RegisterIndex

VARIABLE last       \* the call made by the last step (history)

vars == <<regs, cpsr, last>>

(* The operations that take the S bit, and those that do not. *)
SettableOps == {"mov", "and", "eor", "mvn", "add", "sub", "rsb",
                "adc", "sbc", "rsc"}
FixedOps == {"orr", "bic", "tst", "teq", "cmp", "cmn", "mul"}

Call == [op : SettableOps \cup FixedOps \cup {"none"}, reg : RegisterIndex,
         a : Word, b : Word, carry : BOOLEAN, s : BOOLEAN]

Record(op, reg, a, b, s) ==
  last' = [op |-> op, reg |-> reg, a |-> a, b |-> b,
           carry |-> "C" \in cpsr, s |-> s]

Init ==
  /\ construct_cpu_state
  /\ last = [op |-> "none", reg |-> 0, a |-> 0, b |-> 0,
             carry |-> FALSE, s |-> FALSE]

Settable(reg, a, b, s) ==
  \/ mov_op(reg, b, s) /\ Record("mov", reg, a, b, s)
  \/ and_op(reg, a, b, s) /\ Record("and", reg, a, b, s)
  \/ eor_op(reg, a, b, s) /\ Record("eor", reg, a, b, s)
  \/ mvn_op(reg, b, s) /\ Record("mvn", reg, a, b, s)
  \/ add_op(reg, a, b, s) /\ Record("add", reg, a, b, s)
  \/ sub_op(reg, a, b, s) /\ Record("sub", reg, a, b, s)
  \/ rsb_op(reg, a, b, s) /\ Record("rsb", reg, a, b, s)
  \/ adc_op(reg, a, b, s) /\ Record("adc", reg, a, b, s)
  \/ sbc_op(reg, a, b, s) /\ Record("sbc", reg, a, b, s)
  \/ rsc_op(reg, a, b, s) /\ Record("rsc", reg, a, b, s)

Fixed(reg, a, b) ==
  \/ orr_op(reg, a, b) /\ Record("orr", reg, a, b, FALSE)
  \/ bic_op(reg, a, b) /\ Record("bic", reg, a, b, FALSE)
  \/ tst_op(a, b) /\ Record("tst", reg, a, b, TRUE)
  \/ teq_op(a, b) /\ Record("teq", reg, a, b, TRUE)
  \/ cmp_op(a, b) /\ Record("cmp", reg, a, b, TRUE)
  \/ cmn_op(a, b) /\ Record("cmn", reg, a, b, TRUE)
  \/ mul_op(reg, a, b) /\ Record("mul", reg, a, b, TRUE)

Next ==
  \E reg \in Destinations, a, b \in Operands :
    \/ \E s \in BOOLEAN : Settable(reg, a, b, s)
    \/ Fixed(reg, a, b)

Spec == Init /\ [][Next]_vars

-----------------------------------------------------------------------------
(* Registers and recorded operands stay words and the CPSR holds flags     *)
(* only: no operation leaks a carry, a borrow or a product past word_t.    *)
TypeOK ==
  /\ CpuTypeOK
  /\ last \in Call

Result == regs[last.reg]

(* x and y are the same word modulo one wrap. *)
SameWord(x, y) == x - y \in {-WORD_MODULUS, 0, WORD_MODULUS}

(* The four flags are what cpsr.h promises of an operation with this result, *)
(* this unsigned carry and this exact signed value.                          *)
FlagsReflect(result, carry, exact) ==
  /\ "N" \in cpsr <=> Signed(result) < 0
  /\ "Z" \in cpsr <=> result = 0
  /\ "C" \in cpsr <=> carry
  /\ "V" \in cpsr <=> exact \notin SignedRange

(* After ADD the destination holds the sum, and with S the flags tell the  *)
(* exact carry and the exact signed overflow, although add_op derives      *)
(* overflow from sign bits only and passes its operands swapped to the     *)
(* carry helper.                                                           *)
AdditionExact ==
  last.op = "add" =>
    /\ SameWord(Result, last.a + last.b)
    /\ last.s => FlagsReflect(Result, last.a + last.b >= WORD_MODULUS,
                              Signed(last.a) + Signed(last.b))

(* The minuend and the subtrahend of SUB and SBC, and of RSB and RSC,      *)
(* which swap them.                                                        *)
Minuend == IF last.op \in {"rsb", "rsc"} THEN last.b ELSE last.a
Subtrahend == IF last.op \in {"rsb", "rsc"} THEN last.a ELSE last.b

(* After SUB and RSB the destination holds the difference, C says that no  *)
(* borrow occurred and V is the exact signed overflow.                     *)
SubtractionExact ==
  last.op \in {"sub", "rsb"} =>
    /\ SameWord(Result, Minuend - Subtrahend)
    /\ last.s => FlagsReflect(Result, Minuend >= Subtrahend,
                              Signed(Minuend) - Signed(Subtrahend))

(* After a flag-setting subtraction every condition code of cond.h decides *)
(* the comparison its comment names, unsigned or signed: four flags set by *)
(* four helpers and read back by cond_passed have to agree.                *)
SubtractionOrders ==
  (last.op \in {"sub", "rsb"} /\ last.s) =>
    LET x == Minuend
        y == Subtrahend
        Passed(cond) == cond_passed(cond, cpsr)
    IN  /\ Passed(EQ) <=> x = y
        /\ Passed(NE) <=> x # y
        /\ Passed(CS) <=> x >= y
        /\ Passed(CC) <=> x < y
        /\ Passed(HI) <=> x > y
        /\ Passed(LS) <=> x <= y
        /\ Passed(GE) <=> Signed(x) >= Signed(y)
        /\ Passed(LT) <=> Signed(x) < Signed(y)
        /\ Passed(GT) <=> Signed(x) > Signed(y)
        /\ Passed(LE) <=> Signed(x) <= Signed(y)

(* CMP and TEQ decide equality whatever the flags were before them. *)
ComparisonDecidesEquality ==
  last.op \in {"cmp", "teq"} =>
    /\ cond_passed(EQ, cpsr) <=> last.a = last.b
    /\ cond_passed(NE, cpsr) <=> last.a # last.b

(* adc_op adds the carry-in to operand2 first.  Its flags are those of the *)
(* three-term sum except where that first addition itself leaves the       *)
(* unsigned or the signed range; the destination is right everywhere.      *)
CarryInFits ==
  last.carry => last.b \notin {SIGN_BIT - 1, WORD_MODULUS - 1}

AddWithCarryExact ==
  last.op = "adc" =>
    LET c == IF last.carry THEN 1 ELSE 0
    IN  /\ SameWord(Result, last.a + last.b + c)
        /\ (last.s /\ CarryInFits) =>
             FlagsReflect(Result, last.a + last.b + c >= WORD_MODULUS,
                          Signed(last.a) + Signed(last.b) + c)

(* opcodes.h: CMP is flags := Rn - Op2; cond.h: CC means lower, LT less    *)
(* than.  Together: after CMP the two conditions order its operands.       *)
ComparisonOrders ==
  last.op = "cmp" =>
    /\ cond_passed(CC, cpsr) <=> last.a < last.b
    /\ cond_passed(LT, cpsr) <=> Signed(last.a) < Signed(last.b)
=============================================================================
