--------------------------- MODULE MultiWordProofs --------------------------
(***************************************************************************)
(* The sum of two numbers of two words, for every width of a word.  Of     *)
(* three words it does not hold (the code loses a carry).                  *)
(***************************************************************************)
EXTENDS MultiWord, InstructionProofs

-----------------------------------------------------------------------------
(* Numbers of two words. *)

(* The weights of two words. *)
LEMMA Weights ==
  ASSUME LIMBS = 2
  PROVE  /\ Weight[0] = 1 /\ Weight[1] = WORD_MODULUS
         /\ Weight[2] = WORD_MODULUS * WORD_MODULUS
<1> DEFINE F(f) == [i \in 0 .. LIMBS |-> IF i = 0 THEN 1 ELSE WORD_MODULUS * f[i - 1]]
           g == [i \in 0 .. LIMBS |-> IF i = 0 THEN 1
                                      ELSE IF i = 1 THEN WORD_MODULUS
                                      ELSE WORD_MODULUS * WORD_MODULUS]
<1>1. WORD_MODULUS \in Nat
  BY SignBitAssumption DEF WORD_MODULUS
<1>2. g = F(g)
  BY <1>1
<1>3. Weight = CHOOSE f : f = F(f)
  BY DEF Weight
<1>4. Weight = F(Weight)
  <2> HIDE DEF F, g
  <2> QED
    BY <1>2, <1>3
<1>5. /\ Weight[0] = 1 /\ Weight[1] = WORD_MODULUS * Weight[0]
      /\ Weight[2] = WORD_MODULUS * Weight[1]
  BY <1>4
<1>6. QED
  BY <1>1, <1>5

(* The value of a number of two words. *)
LEMMA ValueOfTwo ==
  ASSUME LIMBS = 2, NEW number \in [0 .. 1 -> Word]
  PROVE  Value(number, 2) = number[0] + number[1] * WORD_MODULUS
<1> DEFINE F(f) == [i \in 0 .. 2 |-> IF i = 0 THEN 0
                                     ELSE f[i - 1] + number[i - 1] * Weight[i - 1]]
           g == [i \in 0 .. 2 |-> IF i = 0 THEN 0
                                  ELSE IF i = 1 THEN number[0]
                                  ELSE number[0] + number[1] * WORD_MODULUS]
           v == CHOOSE f : f = F(f)
<1>1. /\ WORD_MODULUS \in Nat /\ number[0] \in Nat /\ number[1] \in Nat
      /\ Weight[0] = 1 /\ Weight[1] = WORD_MODULUS
  BY Weights, SignBitAssumption DEF WORD_MODULUS, Word
<1>2. g = F(g)
  BY <1>1
<1>3. v = F(v)
  <2> HIDE DEF F, g
  <2> QED
    BY <1>2
<1>4. Value(number, 2) = v[2]
  BY DEF Value
<1>5. v[0] = 0 /\ v[1] = v[0] + number[0] * 1 /\ v[2] = v[1] + number[1] * WORD_MODULUS
  <2> HIDE DEF v
  <2> QED
    BY <1>1, <1>3
<1> HIDE DEF v
<1>6. QED
  BY <1>1, <1>4, <1>5

-----------------------------------------------------------------------------
(* The two additions. *)

Carry(a, b) == IF a + b >= WORD_MODULUS THEN 1 ELSE 0

(* Adding the low words and then the high words with the carry gives the   *)
(* sum of the numbers, less a multiple of their range: the carry the code  *)
(* loses when it folds the carry-in is worth exactly one range.            *)
LEMMA TwoAdditions ==
  ASSUME NEW x0 \in Word, NEW x1 \in Word, NEW y0 \in Word, NEW y1 \in Word
  PROVE  Wrap(x0 + y0) + Wrap(x1 + Wrap(y1 + Carry(x0, y0))) * WORD_MODULUS
           = ((x0 + x1 * WORD_MODULUS) + (y0 + y1 * WORD_MODULUS))
               % (WORD_MODULUS * WORD_MODULUS)
<1> DEFINE m == WORD_MODULUS
           c == Carry(x0, y0)
           low == Wrap(x0 + y0)
           high == Wrap(x1 + Wrap(y1 + c))
<1>1. m \in Nat \ {0} /\ Word = 0 .. m - 1 /\ c \in {0, 1}
  BY SignBitAssumption DEF WORD_MODULUS, Word, Carry
<1>2. low \in 0 .. m - 1 /\ low = x0 + y0 - c * m
  BY <1>1 DEF Wrap, Carry
<1>3. PICK j \in {0, 1, 2} : high \in 0 .. m - 1 /\ high = x1 + y1 + c - j * m
  <2>1. \E i \in {0, 1} : Wrap(y1 + c) \in 0 .. m - 1 /\ Wrap(y1 + c) = y1 + c - i * m
    BY <1>1 DEF Wrap
  <2>2. PICK i \in {0, 1} : Wrap(y1 + c) \in 0 .. m - 1 /\ Wrap(y1 + c) = y1 + c - i * m
    BY <2>1
  <2> DEFINE t == Wrap(y1 + c)
  <2> HIDE DEF t, c
  <2>3. t \in 0 .. m - 1 /\ t = y1 + c - i * m
    BY <2>2 DEF t
  <2>4. \E k \in {0, 1} : Wrap(x1 + t) \in 0 .. m - 1 /\ Wrap(x1 + t) = x1 + t - k * m
    BY <1>1, <2>3 DEF Wrap
  <2>5. PICK k \in {0, 1} : Wrap(x1 + t) \in 0 .. m - 1 /\ Wrap(x1 + t) = x1 + t - k * m
    BY <2>4
  <2>6. high = Wrap(x1 + t)
    BY DEF t
  <2> HIDE DEF high
  <2>7. i + k \in {0, 1, 2} /\ high = x1 + y1 + c - (i + k) * m
    BY <1>1, <2>3, <2>5, <2>6
  <2>8. QED
    BY <2>5, <2>6, <2>7
<1> DEFINE r == low + high * m
           s == (x0 + x1 * m) + (y0 + y1 * m)
<1> HIDE DEF m, c, low, high
<1>4. m * m \in Nat \ {0} /\ j \in Int
  BY <1>1
<1>5. s = r + j * (m * m)
  BY <1>1, <1>2, <1>3
<1>6. r \in 0 .. m * m - 1
  <2>1. high * m <= (m - 1) * m /\ high * m \in Nat
    BY <1>1, <1>3
  <2>2. QED
    BY <1>1, <1>2, <2>1
<1>7. s % (m * m) = r
  <2> HIDE DEF r, s
  <2> DEFINE w == m * m
  <2>1. w \in Nat \ {0} /\ r \in 0 .. w - 1 /\ j \in Int /\ s = r + j * w
    BY <1>4, <1>5, <1>6
  <2> HIDE DEF w
  <2>2. s % w = r
    BY <2>1, Residue
  <2>3. QED
    BY <2>2 DEF w
<1>8. QED
  BY <1>7 DEF m, c, low, high, r, s

-----------------------------------------------------------------------------
(* The invariant: the registers not yet added still hold the numbers, and  *)
(* between the two additions the carry flag holds the carry of the first.  *)
Stage ==
  \/ limb = 0 /\ regs[0] = x[0] /\ regs[1] = x[1]
  \/ /\ limb = 1 /\ regs[0] = Wrap(x[0] + y[0]) /\ regs[1] = x[1]
     /\ CarryIn = Carry(x[0], y[0])
  \/ /\ limb = 2 /\ regs[0] = Wrap(x[0] + y[0])
     /\ regs[1] = Wrap(x[1] + Wrap(y[1] + Carry(x[0], y[0])))

CarryInv ==
  /\ CpuTypeOK /\ x \in Number /\ y \in Number
  /\ regs[2] = y[0] /\ regs[3] = y[1]
  /\ Stage

(* The registers of two numbers of two words and the scratch register.     *)
LEMMA Layout ==
  ASSUME LIMBS = 2
  PROVE  /\ 0 \in RegisterIndex /\ 1 \in RegisterIndex /\ 2 \in RegisterIndex
         /\ 3 \in RegisterIndex /\ Scratch \in RegisterIndex /\ Scratch = 4
         /\ Limb = 0 .. 1 /\ 0 \in Limb /\ 1 \in Limb
BY LimbsAssumption, RegisterCountAssumption DEF RegisterIndex, Scratch, Limb

(* The two numbers are in the registers at the start. *)
LEMMA InitInv == LIMBS = 2 /\ Init => CarryInv
<1> SUFFICES ASSUME LIMBS = 2, Init
             PROVE  CarryInv
  OBVIOUS
<1>1. /\ x \in [0 .. 1 -> Word] /\ y \in [0 .. 1 -> Word]
      /\ regs = [index \in RegisterIndex |->
                   IF index < 2 THEN x[index]
                   ELSE IF index < 4 THEN y[index - 2] ELSE 0]
      /\ limb = 0 /\ cpsr \subseteq Flags
  BY Layout DEF Init, Number, Flags
<1>2. RegisterIndex \subseteq Nat /\ 0 \in Word
  BY SignBitAssumption, RegisterCountAssumption DEF RegisterIndex, Word, WORD_MODULUS
<1>3. /\ regs[0] = x[0] /\ regs[1] = x[1] /\ regs[2] = y[0] /\ regs[3] = y[1]
  BY <1>1, Layout
<1>4. regs \in [RegisterIndex -> Word]
  BY <1>1, <1>2
<1>5. QED
  BY <1>1, <1>3, <1>4, Layout DEF CarryInv, Stage, CpuTypeOK, Number

(* ADDS on the low words leaves their sum and their carry. *)
LEMMA AddLowestInv ==
  ASSUME LIMBS = 2, CarryInv, AddLowest
  PROVE  CarryInv'
<1>1. /\ limb = 0 /\ limb' = 1 /\ UNCHANGED <<x, y>>
      /\ regs[0] = x[0] /\ regs[1] = x[1] /\ regs[2] = y[0] /\ regs[3] = y[1]
      /\ CpuTypeOK
  BY DEF AddLowest, CarryInv, Stage
<1>2. x[0] \in Word /\ y[0] \in Word
  BY Layout DEF CarryInv, Number
<1>3. add_op(0, x[0], y[0], TRUE) /\ TRUE \in BOOLEAN
  BY <1>1 DEF AddLowest, cpu_get_reg
<1>4. CpuTypeOK' /\ \A other \in RegisterIndex \ {0} : regs'[other] = regs[other]
  BY <1>1, <1>2, <1>3, Layout, OperationsKeepTypes
<1>5. /\ regs' = [regs EXCEPT ![0] = Wrap(x[0] + y[0])]
      /\ cpsr' = AddFlags(x[0], y[0], Wrap(x[0] + y[0]))
  BY <1>3 DEF add_op, Sum, Store, cpu_set_reg
<1>6. "C" \in cpsr' <=> x[0] + y[0] >= WORD_MODULUS
  BY <1>5 DEF AddFlags, cpsr_extract_overflow_add, cpsr_extract_carry_add, SetOrClear
<1>7. CarryIn' = Carry(x[0], y[0])
  BY <1>6 DEF CarryIn, Carry
<1>8. regs'[0] = Wrap(x[0] + y[0])
  BY <1>1, <1>5, Layout DEF CpuTypeOK
<1>9. QED
  BY <1>1, <1>4, <1>7, <1>8, Layout DEF CarryInv, Stage

(* ADCS on the high words takes it in. *)
LEMMA AddNextInv ==
  ASSUME LIMBS = 2, CarryInv, AddNext
  PROVE  CarryInv'
<1>1. limb = 1
  BY DEF AddNext, CarryInv, Stage
<1>2. /\ limb' = 2 /\ UNCHANGED <<x, y>>
      /\ regs[0] = Wrap(x[0] + y[0]) /\ regs[1] = x[1]
      /\ CarryIn = Carry(x[0], y[0])
      /\ regs[2] = y[0] /\ regs[3] = y[1] /\ CpuTypeOK
  BY <1>1 DEF AddNext, CarryInv, Stage
<1>3. x[1] \in Word /\ y[1] \in Word
  BY Layout DEF CarryInv, Number
<1>4. adc_op(1, x[1], y[1], TRUE) /\ TRUE \in BOOLEAN
  <2>1. LIMBS + limb = 3
    BY <1>1
  <2>2. adc_op(limb, cpu_get_reg(limb), cpu_get_reg(3), TRUE)
    BY <2>1 DEF AddNext
  <2>3. QED
    BY <1>1, <1>2, <2>2 DEF cpu_get_reg
<1>5. CpuTypeOK' /\ \A other \in RegisterIndex \ {1} : regs'[other] = regs[other]
  BY <1>2, <1>3, <1>4, Layout, OperationsKeepTypes
<1>6. regs' = [regs EXCEPT ![1] = Wrap(x[1] + Wrap(y[1] + CarryIn))]
  BY <1>4 DEF adc_op, Sum, Store, cpu_set_reg
<1>7. regs'[1] = Wrap(x[1] + Wrap(y[1] + Carry(x[0], y[0])))
  BY <1>2, <1>6, Layout DEF CpuTypeOK
<1>8. UNCHANGED Carry(x[0], y[0])
  BY <1>2 DEF Carry
<1>9. QED
  BY <1>2, <1>3, <1>5, <1>7, <1>8, Layout DEF CarryInv, Stage

(* Moves, logical operations and tests leave C and the numbers alone. *)
LEMMA InterleaveInv ==
  ASSUME LIMBS = 2, CarryInv, Interleave
  PROVE  CarryInv'
<1> DEFINE scratch == cpu_get_reg(Scratch)
<1>1. CpuTypeOK /\ scratch \in Word /\ Scratch \in RegisterIndex
  BY Layout DEF CarryInv, CpuTypeOK, cpu_get_reg
<1> HIDE DEF scratch
<1>2. PICK w \in Word, s \in BOOLEAN :
        \/ mov_op(Scratch, w, s) \/ mvn_op(Scratch, w, s)
        \/ and_op(Scratch, scratch, w, s) \/ eor_op(Scratch, scratch, w, s)
        \/ orr_op(Scratch, scratch, w) \/ bic_op(Scratch, scratch, w)
        \/ tst_op(scratch, w) \/ teq_op(scratch, w)
  BY DEF Interleave, scratch
<1>3. CpuTypeOK' /\ \A other \in RegisterIndex \ {Scratch} : regs'[other] = regs[other]
  BY <1>1, <1>2, OperationsKeepTypes, TestsKeepTypes
<1>4. \A value : "C" \in ExtractZN(value) <=> "C" \in cpsr
  BY DEF ExtractZN, cpsr_extract_negative, cpsr_extract_zero, SetOrClear
<1>5. CarryIn' = CarryIn
  <2>1. "C" \in cpsr' <=> "C" \in cpsr
    BY <1>2, <1>4 DEF mov_op, mvn_op, and_op, eor_op, orr_op, bic_op, tst_op, teq_op,
                      Store, Test
  <2>2. QED
    BY <2>1 DEF CarryIn
<1>6. /\ regs'[0] = regs[0] /\ regs'[1] = regs[1]
      /\ regs'[2] = regs[2] /\ regs'[3] = regs[3]
  BY <1>3, Layout
<1>7. UNCHANGED <<limb, x, y>>
  BY DEF Interleave
<1>8. Stage'
  BY <1>5, <1>6, <1>7 DEF CarryInv, Stage, Carry
<1>9. QED
  BY <1>3, <1>6, <1>7, <1>8 DEF CarryInv

(* The sum of two numbers of two words is right, whatever the width of a   *)
(* word and whatever moves, logic and tests run between the two additions. *)
THEOREM DoubleWordSum ==
  ASSUME LIMBS = 2
  PROVE  Spec => []WideSum
<1>1. Init => CarryInv
  BY InitInv
<1>2. CarryInv /\ [Next]_vars => CarryInv'
  <2>1. CarryInv /\ UNCHANGED vars => CarryInv'
    BY DEF vars, CarryInv, Stage, CpuTypeOK, CarryIn, Carry
  <2>2. QED
    BY <2>1, AddLowestInv, AddNextInv, InterleaveInv DEF Next
<1>3. CarryInv => WideSum
  <2> SUFFICES ASSUME CarryInv, limb = 2
               PROVE  Value([i \in Limb |-> regs[i]], 2)
                        = (Value(x, 2) + Value(y, 2)) % Weight[2]
    BY DEF WideSum
  <2>1. /\ x \in [0 .. 1 -> Word] /\ y \in [0 .. 1 -> Word]
        /\ regs \in [RegisterIndex -> Word]
    BY Layout DEF CarryInv, CpuTypeOK, Number
  <2> DEFINE sum == [i \in Limb |-> regs[i]]
  <2>2. sum \in [0 .. 1 -> Word] /\ sum[0] = regs[0] /\ sum[1] = regs[1]
    <3>1. 0 .. 1 \subseteq RegisterIndex
      BY LimbsAssumption, RegisterCountAssumption DEF RegisterIndex
    <3>2. QED
      BY <2>1, <3>1, Layout
  <2> HIDE DEF sum
  <2>3. /\ Value(sum, 2) = regs[0] + regs[1] * WORD_MODULUS
        /\ Value(x, 2) = x[0] + x[1] * WORD_MODULUS
        /\ Value(y, 2) = y[0] + y[1] * WORD_MODULUS
    BY <2>1, <2>2, ValueOfTwo
  <2>4. /\ regs[0] = Wrap(x[0] + y[0])
        /\ regs[1] = Wrap(x[1] + Wrap(y[1] + Carry(x[0], y[0])))
    BY DEF CarryInv, Stage
  <2>5. x[0] \in Word /\ x[1] \in Word /\ y[0] \in Word /\ y[1] \in Word
    BY <2>1
  <2>6. Value(sum, 2)
          = ((x[0] + x[1] * WORD_MODULUS) + (y[0] + y[1] * WORD_MODULUS))
              % (WORD_MODULUS * WORD_MODULUS)
    BY <2>3, <2>4, <2>5, TwoAdditions
  <2>7. QED
    BY <2>3, <2>6, Weights DEF sum
<1>4. QED
  BY <1>1, <1>2, <1>3, PTL DEF Spec
=============================================================================
