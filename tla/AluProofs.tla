----------------------------- MODULE AluProofs ------------------------------
(***************************************************************************)
(* Proofs about the arithmetic unit, for every word width, every set of    *)
(* operands and every number of registers.                                 *)
(***************************************************************************)
EXTENDS Alu, InstructionProofs

-----------------------------------------------------------------------------
(* Type correctness. *)

(* A step is a call of the operation it records, on typed arguments. *)
LEMMA StepIsCall ==
  ASSUME Next
  PROVE  \E op \in SettableOps \cup FixedOps, reg \in RegisterIndex,
            a \in Word, b \in Word, s \in BOOLEAN :
           /\ Record(op, reg, a, b, s)
           /\ op = "add" => add_op(reg, a, b, s)
           /\ op = "sub" => sub_op(reg, a, b, s)
           /\ op = "rsb" => rsb_op(reg, a, b, s)
           /\ op = "adc" => adc_op(reg, a, b, s)
           /\ op = "cmp" => cmp_op(a, b)
           /\ op = "teq" => teq_op(a, b)
<1>1. PICK reg \in Destinations, a \in Operands, b \in Operands :
        \/ \E s \in BOOLEAN : Settable(reg, a, b, s)
        \/ Fixed(reg, a, b)
  BY DEF Next
<1>2. reg \in RegisterIndex /\ a \in Word /\ b \in Word
  BY <1>1, OperandsAssumption, DestinationsAssumption
<1>3. CASE \E s \in BOOLEAN : Settable(reg, a, b, s)
  <2>1. PICK s \in BOOLEAN : Settable(reg, a, b, s)
    BY <1>3
  <2>2. QED
    BY <1>2, <2>1 DEF Settable, SettableOps
<1>4. CASE Fixed(reg, a, b)
  <2>1. PICK op \in FixedOps, s \in BOOLEAN :
          /\ Record(op, reg, a, b, s)
          /\ op = "cmp" => cmp_op(a, b)
          /\ op = "teq" => teq_op(a, b)
    BY <1>4 DEF Fixed, FixedOps
  <2>2. op \notin SettableOps
    BY <2>1 DEF FixedOps, SettableOps
  <2>3. QED
    BY <1>2, <2>1, <2>2 DEF SettableOps
<1>5. QED
  BY <1>1, <1>3, <1>4

(* No call of an operation disturbs the types of registers and flags.      *)
LEMMA CallKeepsTypes ==
  ASSUME CpuTypeOK, NEW reg \in RegisterIndex, NEW a \in Word, NEW b \in Word,
         NEW s \in BOOLEAN, Settable(reg, a, b, s) \/ Fixed(reg, a, b)
  PROVE  CpuTypeOK'
<1>1. CASE Settable(reg, a, b, s)
  BY <1>1, OperationsKeepTypes DEF Settable
<1>2. CASE Fixed(reg, a, b)
  <2>1. \/ orr_op(reg, a, b) \/ bic_op(reg, a, b) \/ mul_op(reg, a, b)
        \/ tst_op(a, b) \/ teq_op(a, b) \/ cmp_op(a, b) \/ cmn_op(a, b)
    BY <1>2 DEF Fixed
  <2>2. QED
    BY <2>1, OperationsKeepTypes, TestsKeepTypes
<1>3. QED
  BY <1>1, <1>2

(* Registers always hold words and the status register only its five flags, *)
(* whatever operations of operations.h and mul.h run on whatever operands.   *)
THEOREM TypeCorrect == Spec => []TypeOK
<1>1. Init => TypeOK
  <2>1. 0 \in Word /\ 0 \in RegisterIndex
    BY SignBitAssumption, RegisterCountAssumption
       DEF Word, WORD_MODULUS, RegisterIndex
  <2>2. QED
    BY <2>1 DEF Init, TypeOK, CpuTypeOK, Call, construct_cpu_state,
                construct_registers, construct_cpsr
<1>2. TypeOK /\ [Next]_vars => TypeOK'
  <2> SUFFICES ASSUME TypeOK, [Next]_vars
               PROVE  TypeOK'
    OBVIOUS
  <2>1. CASE Next
    <3>1. CpuTypeOK'
      <4>1. PICK reg \in Destinations, a \in Operands, b \in Operands :
              \/ \E s \in BOOLEAN : Settable(reg, a, b, s)
              \/ Fixed(reg, a, b)
        BY <2>1 DEF Next
      <4>2. reg \in RegisterIndex /\ a \in Word /\ b \in Word
        BY <4>1, OperandsAssumption, DestinationsAssumption
      <4>3. QED
        BY <4>1, <4>2, CallKeepsTypes DEF TypeOK
    <3>2. last' \in Call
      <4>1. PICK op \in SettableOps \cup FixedOps, reg \in RegisterIndex,
                 a \in Word, b \in Word, s \in BOOLEAN : Record(op, reg, a, b, s)
        BY <2>1, StepIsCall
      <4>2. ("C" \in cpsr) \in BOOLEAN
        OBVIOUS
      <4>3. QED
        BY <4>1, <4>2 DEF Record, Call
    <3>3. QED
      BY <3>1, <3>2 DEF TypeOK
  <2>2. CASE UNCHANGED vars
    BY <2>2 DEF TypeOK, CpuTypeOK, vars
  <2>3. QED
    BY <2>1, <2>2
<1>3. QED
  BY <1>1, <1>2, PTL DEF Spec

-----------------------------------------------------------------------------
(* What an operation leaves behind.  Each invariant below speaks of the last *)
(* call only, so any step establishes it: what it needs of the state before  *)
(* the step is its type.                                                     *)

(* The state after a step, in terms of the call that made it. *)
LEMMA Step ==
  ASSUME TypeOK, Next
  PROVE  \E op \in SettableOps \cup FixedOps, reg \in RegisterIndex,
            a \in Word, b \in Word, s \in BOOLEAN :
           /\ last' = [op |-> op, reg |-> reg, a |-> a, b |-> b,
                       carry |-> "C" \in cpsr, s |-> s]
           /\ op = "add" =>
                /\ regs'[reg] = Wrap(a + b)
                /\ s => cpsr' = AddFlags(a, b, Wrap(a + b))
           /\ op = "sub" =>
                /\ regs'[reg] = Wrap(a - b)
                /\ s => cpsr' = SubFlags(a, b, Wrap(a - b))
           /\ op = "rsb" =>
                /\ regs'[reg] = Wrap(b - a)
                /\ s => cpsr' = SubFlags(b, a, Wrap(b - a))
           /\ op = "adc" =>
                LET b2 == Wrap(b + CarryIn)
                IN  /\ regs'[reg] = Wrap(a + b2)
                    /\ s => cpsr' = AddFlags(a, b2, Wrap(a + b2))
           /\ op = "cmp" => cpsr' = ExtractZN(Wrap(a - b))
           /\ op = "teq" => cpsr' = ExtractZN(BitXor(a, b))
<1>1. PICK op \in SettableOps \cup FixedOps, reg \in RegisterIndex,
           a \in Word, b \in Word, s \in BOOLEAN :
        /\ Record(op, reg, a, b, s)
        /\ op = "add" => add_op(reg, a, b, s)
        /\ op = "sub" => sub_op(reg, a, b, s)
        /\ op = "rsb" => rsb_op(reg, a, b, s)
        /\ op = "adc" => adc_op(reg, a, b, s)
        /\ op = "cmp" => cmp_op(a, b)
        /\ op = "teq" => teq_op(a, b)
  BY StepIsCall
<1>2. ASSUME NEW value, cpu_set_reg(reg, value)
      PROVE  regs'[reg] = value
  BY <1>2 DEF cpu_set_reg, TypeOK, CpuTypeOK
<1>3. op = "add" =>
        /\ regs'[reg] = Wrap(a + b)
        /\ s => cpsr' = AddFlags(a, b, Wrap(a + b))
  BY <1>1, <1>2 DEF add_op, Sum, Store
<1>4. op = "sub" =>
        /\ regs'[reg] = Wrap(a - b)
        /\ s => cpsr' = SubFlags(a, b, Wrap(a - b))
  BY <1>1, <1>2 DEF sub_op, Difference, Store
<1>5. op = "rsb" =>
        /\ regs'[reg] = Wrap(b - a)
        /\ s => cpsr' = SubFlags(b, a, Wrap(b - a))
  BY <1>1, <1>2 DEF rsb_op, Difference, Store
<1>6. /\ op = "cmp" => cpsr' = ExtractZN(Wrap(a - b))
      /\ op = "teq" => cpsr' = ExtractZN(BitXor(a, b))
  BY <1>1 DEF cmp_op, teq_op, Test
<1>7. op = "adc" =>
        LET b2 == Wrap(b + CarryIn)
        IN  /\ regs'[reg] = Wrap(a + b2)
            /\ s => cpsr' = AddFlags(a, b2, Wrap(a + b2))
  BY <1>1, <1>2 DEF adc_op, Sum, Store
<1>8. QED
  BY <1>1, <1>3, <1>4, <1>5, <1>6, <1>7 DEF Record

(* The wrapped result of an operation on words is the exact one, modulo a    *)
(* wrap.                                                                     *)
LEMMA WrapExact ==
  ASSUME NEW a \in Word, NEW b \in Word
  PROVE  /\ SameWord(Wrap(a + b), a + b)
         /\ SameWord(Wrap(a - b), a - b)
BY SignBitAssumption DEF SameWord, Wrap, Word, WORD_MODULUS

(* SUB and RSB: the difference of minuend and subtrahend, and its flags. *)
LEMMA SubtractionStep ==
  ASSUME TypeOK, Next, last'.op \in {"sub", "rsb"}
  PROVE  /\ Minuend' \in Word
         /\ Subtrahend' \in Word
         /\ Result' = Wrap(Minuend' - Subtrahend')
         /\ last'.s =>
              /\ "N" \in cpsr' <=> Signed(Result') < 0
              /\ "Z" \in cpsr' <=> Result' = 0
              /\ "C" \in cpsr' <=> Minuend' >= Subtrahend'
              /\ "V" \in cpsr' <=> Signed(Minuend') - Signed(Subtrahend')
                                     \notin SignedRange
<1>1. PICK op \in {"sub", "rsb"}, reg \in RegisterIndex,
           a \in Word, b \in Word, s \in BOOLEAN :
        /\ last' = [op |-> op, reg |-> reg, a |-> a, b |-> b,
                    carry |-> "C" \in cpsr, s |-> s]
        /\ op = "sub" =>
             /\ regs'[reg] = Wrap(a - b)
             /\ s => cpsr' = SubFlags(a, b, Wrap(a - b))
        /\ op = "rsb" =>
             /\ regs'[reg] = Wrap(b - a)
             /\ s => cpsr' = SubFlags(b, a, Wrap(b - a))
  BY Step
<1> DEFINE x == IF op = "rsb" THEN b ELSE a
           y == IF op = "rsb" THEN a ELSE b
<1>2. /\ Minuend' = x
      /\ Subtrahend' = y
      /\ last'.s = s
      /\ Result' = Wrap(x - y)
      /\ s => cpsr' = SubFlags(x, y, Wrap(x - y))
  BY <1>1 DEF Minuend, Subtrahend, Result
<1>3. x \in Word /\ y \in Word
  OBVIOUS
<1> HIDE DEF x, y
<1>4. QED
  BY <1>2, <1>3, SubFlagsMeaning

(* After SUB and RSB the destination holds the difference and, with the S  *)
(* bit, the flags are exact: for every word width, not only TLC's.         *)
THEOREM SubtractionExactAlways == Spec => []SubtractionExact
<1>1. Init => SubtractionExact
  BY DEF Init, SubtractionExact
<1>2. TypeOK /\ SubtractionExact /\ [Next]_vars => SubtractionExact'
  <2> SUFFICES ASSUME TypeOK, SubtractionExact, [Next]_vars
               PROVE  SubtractionExact'
    OBVIOUS
  <2>1. CASE Next
    BY <2>1, SubtractionStep, WrapExact DEF SubtractionExact, FlagsReflect
  <2>2. CASE UNCHANGED vars
    BY <2>2 DEF SubtractionExact, FlagsReflect, Minuend, Subtrahend, Result, vars
  <2>3. QED
    BY <2>1, <2>2
<1>3. QED
  BY <1>1, <1>2, TypeCorrect, PTL DEF Spec

(* Reading the four flags of a difference back through a condition code    *)
(* decides the comparison of the two words.                                *)
LEMMA FlagsOrder ==
  ASSUME NEW x \in Word, NEW y \in Word, NEW flags,
         "N" \in flags <=> Signed(Wrap(x - y)) < 0,
         "Z" \in flags <=> Wrap(x - y) = 0,
         "C" \in flags <=> x >= y,
         "V" \in flags <=> Signed(x) - Signed(y) \notin SignedRange
  PROVE  /\ "Z" \in flags <=> x = y
         /\ ("N" \in flags) = ("V" \in flags) <=> Signed(x) >= Signed(y)
         /\ x = y <=> Signed(x) = Signed(y)
<1>1. Wrap(x - y) = 0 <=> x = y
  BY SignBitAssumption DEF Wrap, Word, WORD_MODULUS
<1>2. x = y <=> Signed(x) = Signed(y)
  BY SignBitAssumption DEF Signed, SignSet, Word, WORD_MODULUS
<1>3. (Signed(Wrap(x - y)) < 0) = (Signed(x) - Signed(y) \notin SignedRange)
        <=> Signed(x) >= Signed(y)
  BY SignBitAssumption DEF Signed, SignSet, SignedRange, Wrap, Word, WORD_MODULUS
<1>4. QED
  BY <1>1, <1>2, <1>3

(* Any condition code tested after a flag-setting SUB or RSB decides its     *)
(* comparison of the operands, for every word width.                         *)
THEOREM SubtractionOrdersAlways == Spec => []SubtractionOrders
<1>1. Init => SubtractionOrders
  BY DEF Init, SubtractionOrders
<1>2. TypeOK /\ SubtractionOrders /\ [Next]_vars => SubtractionOrders'
  <2> SUFFICES ASSUME TypeOK, SubtractionOrders, [Next]_vars
               PROVE  SubtractionOrders'
    OBVIOUS
  <2>1. CASE Next
    <3> SUFFICES ASSUME last'.op \in {"sub", "rsb"}, last'.s
                 PROVE  SubtractionOrders'
      BY DEF SubtractionOrders
    <3> DEFINE x == Minuend'
               y == Subtrahend'
               flags == cpsr'
    <3>1. /\ x \in Word
          /\ y \in Word
          /\ "N" \in flags <=> Signed(Wrap(x - y)) < 0
          /\ "Z" \in flags <=> Wrap(x - y) = 0
          /\ "C" \in flags <=> x >= y
          /\ "V" \in flags <=> Signed(x) - Signed(y) \notin SignedRange
      BY <2>1, SubtractionStep
    <3> HIDE DEF x, y, flags
    <3>2. /\ "Z" \in flags <=> x = y
          /\ ("N" \in flags) = ("V" \in flags) <=> Signed(x) >= Signed(y)
          /\ x = y <=> Signed(x) = Signed(y)
      BY <3>1, FlagsOrder
    <3>3. /\ x \in Int /\ y \in Int
          /\ Signed(x) \in Int /\ Signed(y) \in Int
      BY <3>1, SignBitAssumption DEF Word, WORD_MODULUS, Signed
    <3>4. /\ cond_passed(EQ, flags) <=> x = y
          /\ cond_passed(NE, flags) <=> x # y
          /\ cond_passed(CS, flags) <=> x >= y
          /\ cond_passed(CC, flags) <=> x < y
          /\ cond_passed(HI, flags) <=> x > y
          /\ cond_passed(LS, flags) <=> x <= y
      BY <3>1, <3>2, <3>3, ConditionReads
    <3>5. /\ cond_passed(GE, flags) <=> Signed(x) >= Signed(y)
          /\ cond_passed(LT, flags) <=> Signed(x) < Signed(y)
          /\ cond_passed(GT, flags) <=> Signed(x) > Signed(y)
          /\ cond_passed(LE, flags) <=> Signed(x) <= Signed(y)
      BY <3>2, <3>3, ConditionReads
    <3>6. QED
      BY <3>4, <3>5 DEF SubtractionOrders, x, y, flags
  <2>2. CASE UNCHANGED vars
    BY <2>2 DEF SubtractionOrders, Minuend, Subtrahend, vars
  <2>3. QED
    BY <2>1, <2>2
<1>3. QED
  BY <1>1, <1>2, TypeCorrect, PTL DEF Spec

(* After ADD the destination holds the sum and, with S, the flags are exact. *)
THEOREM AdditionExactAlways == Spec => []AdditionExact
<1>1. Init => AdditionExact
  BY DEF Init, AdditionExact
<1>2. TypeOK /\ AdditionExact /\ [Next]_vars => AdditionExact'
  <2> SUFFICES ASSUME TypeOK, AdditionExact, [Next]_vars
               PROVE  AdditionExact'
    OBVIOUS
  <2>1. CASE Next
    <3> SUFFICES ASSUME last'.op = "add"
                 PROVE  AdditionExact'
      BY DEF AdditionExact
    <3>1. PICK reg \in RegisterIndex, a \in Word, b \in Word, s \in BOOLEAN :
            /\ last' = [op |-> "add", reg |-> reg, a |-> a, b |-> b,
                        carry |-> "C" \in cpsr, s |-> s]
            /\ regs'[reg] = Wrap(a + b)
            /\ s => cpsr' = AddFlags(a, b, Wrap(a + b))
      BY <2>1, Step
    <3>2. SameWord(Wrap(a + b), a + b)
      BY WrapExact
    <3>3. s => /\ "N" \in cpsr' <=> Signed(Wrap(a + b)) < 0
               /\ "Z" \in cpsr' <=> Wrap(a + b) = 0
               /\ "C" \in cpsr' <=> a + b >= WORD_MODULUS
               /\ "V" \in cpsr' <=> Signed(a) + Signed(b) \notin SignedRange
      BY <3>1, AddFlagsMeaning
    <3>4. QED
      BY <3>1, <3>2, <3>3 DEF AdditionExact, FlagsReflect, Result
  <2>2. CASE UNCHANGED vars
    BY <2>2 DEF AdditionExact, FlagsReflect, Result, vars
  <2>3. QED
    BY <2>1, <2>2
<1>3. QED
  BY <1>1, <1>2, TypeCorrect, PTL DEF Spec

(* Folding the carry into operand2 first loses at most the carry of that    *)
(* addition, never the result; and where it stays in range, it loses       *)
(* nothing.                                                                *)
LEMMA FoldedCarry ==
  ASSUME NEW a \in Word, NEW b \in Word, NEW c \in {0, 1}
  PROVE  /\ Wrap(b + c) \in Word
         /\ SameWord(Wrap(a + Wrap(b + c)), a + b + c)
         /\ (c = 1 => b \notin {SIGN_BIT - 1, WORD_MODULUS - 1}) =>
              /\ Wrap(b + c) = b + c
              /\ Signed(Wrap(b + c)) = Signed(b) + c
<1>1. CASE c = 0
  <2>1. Wrap(b + c) = b
    BY <1>1, SignBitAssumption DEF Wrap, Word, WORD_MODULUS
  <2>2. a + b + c = a + b /\ b + c = b
    BY <1>1, SignBitAssumption DEF Word, WORD_MODULUS
  <2>3. Signed(b) + c = Signed(b)
    BY <1>1, SignBitAssumption DEF Signed, SignSet, Word, WORD_MODULUS
  <2>4. QED
    BY <2>1, <2>2, <2>3, WrapExact
<1>2. CASE c = 1
  BY <1>2, SignBitAssumption
     DEF Wrap, Word, WORD_MODULUS, SameWord, Signed, SignSet
<1>3. QED
  BY <1>1, <1>2

(* The result of ADC is exact, and so are its flags unless operand2 is the *)
(* largest word or the largest signed number and a carry comes in.         *)
THEOREM AddWithCarryExactAlways == Spec => []AddWithCarryExact
<1>1. Init => AddWithCarryExact
  BY DEF Init, AddWithCarryExact
<1>2. TypeOK /\ AddWithCarryExact /\ [Next]_vars => AddWithCarryExact'
  <2> SUFFICES ASSUME TypeOK, AddWithCarryExact, [Next]_vars
               PROVE  AddWithCarryExact'
    OBVIOUS
  <2>1. CASE Next
    <3> SUFFICES ASSUME last'.op = "adc"
                 PROVE  AddWithCarryExact'
      BY DEF AddWithCarryExact
    <3> DEFINE c == CarryIn
    <3>1. PICK reg \in RegisterIndex, a \in Word, b \in Word, s \in BOOLEAN :
            /\ last' = [op |-> "adc", reg |-> reg, a |-> a, b |-> b,
                        carry |-> "C" \in cpsr, s |-> s]
            /\ regs'[reg] = Wrap(a + Wrap(b + c))
            /\ s => cpsr' = AddFlags(a, Wrap(b + c), Wrap(a + Wrap(b + c)))
      BY <2>1, Step
    <3>2. /\ c \in {0, 1}
          /\ c = IF last'.carry THEN 1 ELSE 0
          /\ CarryInFits' => (c = 1 => b \notin {SIGN_BIT - 1, WORD_MODULUS - 1})
      <4>1. /\ last'.carry <=> "C" \in cpsr
            /\ last'.b = b
        BY <3>1
      <4>2. /\ c \in {0, 1}
            /\ c = 1 <=> "C" \in cpsr
        BY DEF CarryIn
      <4>3. CarryInFits' = (last'.carry => last'.b \notin {SIGN_BIT - 1, WORD_MODULUS - 1})
        BY DEF CarryInFits
      <4> HIDE DEF c
      <4>4. QED
        BY <4>1, <4>2, <4>3
    <3> HIDE DEF c
    <3>3. /\ Wrap(b + c) \in Word
          /\ SameWord(Wrap(a + Wrap(b + c)), a + b + c)
          /\ CarryInFits' => /\ Wrap(b + c) = b + c
                             /\ Signed(Wrap(b + c)) = Signed(b) + c
      BY <3>2, FoldedCarry
    <3>4. s => LET b2 == Wrap(b + c)
                   r == Wrap(a + b2)
               IN  /\ "N" \in cpsr' <=> Signed(r) < 0
                   /\ "Z" \in cpsr' <=> r = 0
                   /\ "C" \in cpsr' <=> a + b2 >= WORD_MODULUS
                   /\ "V" \in cpsr' <=> Signed(a) + Signed(b2) \notin SignedRange
      BY <3>1, <3>3, AddFlagsMeaning
    <3>5. /\ a + (b + c) = a + b + c
          /\ Signed(a) + (Signed(b) + c) = Signed(a) + Signed(b) + c
      BY <3>2, SignBitAssumption DEF Signed, SignSet, Word, WORD_MODULUS
    <3>6. Result' = Wrap(a + Wrap(b + c)) /\ last'.a = a /\ last'.b = b /\ last'.s = s
      BY <3>1 DEF Result
    <3>7. (s /\ CarryInFits') =>
            /\ "N" \in cpsr' <=> Signed(Result') < 0
            /\ "Z" \in cpsr' <=> Result' = 0
            /\ "C" \in cpsr' <=> a + b + c >= WORD_MODULUS
            /\ "V" \in cpsr' <=> Signed(a) + Signed(b) + c \notin SignedRange
      BY <3>3, <3>4, <3>5, <3>6
    <3>8. QED
      BY <3>2, <3>3, <3>6, <3>7 DEF AddWithCarryExact, FlagsReflect
  <2>2. CASE UNCHANGED vars
    BY <2>2 DEF AddWithCarryExact, FlagsReflect, CarryInFits, Result, vars
  <2>3. QED
    BY <2>1, <2>2
<1>3. QED
  BY <1>1, <1>2, TypeCorrect, PTL DEF Spec

(* CMP and TEQ decide equality. *)
THEOREM ComparisonDecidesEqualityAlways == Spec => []ComparisonDecidesEquality
<1>1. Init => ComparisonDecidesEquality
  BY DEF Init, ComparisonDecidesEquality
<1>2. TypeOK /\ ComparisonDecidesEquality /\ [Next]_vars
        => ComparisonDecidesEquality'
  <2> SUFFICES ASSUME TypeOK, ComparisonDecidesEquality, [Next]_vars
               PROVE  ComparisonDecidesEquality'
    OBVIOUS
  <2>1. CASE Next
    <3> SUFFICES ASSUME last'.op \in {"cmp", "teq"}
                 PROVE  ComparisonDecidesEquality'
      BY DEF ComparisonDecidesEquality
    <3>1. PICK op \in {"cmp", "teq"}, reg \in RegisterIndex,
               a \in Word, b \in Word, s \in BOOLEAN :
            /\ last' = [op |-> op, reg |-> reg, a |-> a, b |-> b,
                        carry |-> "C" \in cpsr, s |-> s]
            /\ op = "cmp" => cpsr' = ExtractZN(Wrap(a - b))
            /\ op = "teq" => cpsr' = ExtractZN(BitXor(a, b))
      BY <2>1, Step
    <3>2. /\ Wrap(a - b) \in Word
          /\ Wrap(a - b) = 0 <=> a = b
      BY SignBitAssumption DEF Wrap, Word, WORD_MODULUS
    <3>3. /\ BitXor(a, b) \in Word
          /\ BitXor(a, b) = 0 <=> a = b
      BY BitwiseAssumption
    <3>4. "Z" \in cpsr' <=> a = b
      BY <3>1, <3>2, <3>3, ExtractZNMeaning
    <3>5. QED
      BY <3>1, <3>4, ConditionReads DEF ComparisonDecidesEquality
  <2>2. CASE UNCHANGED vars
    BY <2>2 DEF ComparisonDecidesEquality, vars
  <2>3. QED
    BY <2>1, <2>2
<1>3. QED
  BY <1>1, <1>2, TypeCorrect, PTL DEF Spec
=============================================================================
