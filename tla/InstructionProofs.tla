------------------------- MODULE InstructionProofs --------------------------
(***************************************************************************)
(* What the proofs about the arithmetic unit, the handlers and the         *)
(* simulator share, for every word width: remainders, words, flags,        *)
(* conditions, and what each operation and each branch writes.             *)
(***************************************************************************)
EXTENDS Operations, BranchInstructions, TLAPS

-----------------------------------------------------------------------------
(* Remainders. *)

(* Only zero is a multiple of m that lies within one m of zero. *)
LEMMA OnlyZero ==
  ASSUME NEW m \in Nat \ {0}, NEW q \in Int, -m < q * m, q * m < m
  PROVE  q = 0
<1>1. CASE q >= 1
  <2>1. q * m >= m
    BY <1>1
  <2>2. QED
    BY <2>1
<1>2. CASE q <= -1
  <2>1. q * m <= -m
    BY <1>2
  <2>2. QED
    BY <2>1
<1>3. QED
  BY <1>1, <1>2

(* The remainder of a number written as a multiple and a residue. *)
LEMMA Residue ==
  ASSUME NEW m \in Nat \ {0}, NEW r \in 0 .. m - 1, NEW k \in Int
  PROVE  (r + k * m) % m = r
<1> DEFINE a == r + k * m
           q == a \div m
<1>1. \A n \in Nat \ {0}, z \in Int :
        /\ z % n \in 0 .. n - 1
        /\ z \div n \in Int
        /\ z = n * (z \div n) + (z % n)
  OBVIOUS
<1>2. a % m \in 0 .. m - 1 /\ q \in Int /\ a = m * q + (a % m)
  BY <1>1
<1> HIDE DEF q
<1>3. (q - k) * m = r - (a % m)
  BY <1>2
<1>4. -m < (q - k) * m /\ (q - k) * m < m
  BY <1>2, <1>3
<1>5. q - k = 0
  BY <1>2, <1>4, OnlyZero
<1>6. QED
  BY <1>2, <1>3, <1>5

-----------------------------------------------------------------------------
(* Words. *)

(* A single wrap brings the sum and the difference of words back to Word. *)
LEMMA WrapType ==
  ASSUME NEW x \in -WORD_MODULUS .. 2 * WORD_MODULUS - 1
  PROVE  Wrap(x) \in Word
BY SignBitAssumption DEF Wrap, Word, WORD_MODULUS

(* The sums and differences operations.h forms of words are words again.   *)
LEMMA WordArithmetic ==
  ASSUME NEW a \in Word, NEW b \in Word
  PROVE  /\ Wrap(a + b) \in Word
         /\ Wrap(a - b) \in Word
         /\ BitNot(a) \in Word
         /\ (a * b) % WORD_MODULUS \in Word
<1>1. a + b \in -WORD_MODULUS .. 2 * WORD_MODULUS - 1
  BY SignBitAssumption DEF Word, WORD_MODULUS
<1>2. a - b \in -WORD_MODULUS .. 2 * WORD_MODULUS - 1
  BY SignBitAssumption DEF Word, WORD_MODULUS
<1>3. BitNot(a) \in Word
  BY SignBitAssumption DEF Word, WORD_MODULUS, BitNot
<1>4. (a * b) % WORD_MODULUS \in Word
  <2>1. a * b \in Int /\ WORD_MODULUS \in Nat \ {0}
    BY SignBitAssumption DEF Word, WORD_MODULUS
  <2>2. \A p \in Int, m \in Nat \ {0} : p % m \in 0 .. m - 1
    OBVIOUS
  <2>3. QED
    BY <2>1, <2>2 DEF Word
<1>5. QED
  BY <1>1, <1>2, <1>3, <1>4, WrapType

(* The carry-in is 0 or 1. *)
LEMMA CarryInType ==
  CarryIn \in {0, 1}
BY DEF CarryIn

(* A word has room for the carry-in. *)
LEMMA CarryInIsWord ==
  CarryIn \in Word
BY CarryInType, SignBitAssumption DEF Word, WORD_MODULUS

-----------------------------------------------------------------------------
(* The status register. *)

(* Setting or clearing a flag leaves a set of flags. *)
LEMMA SetOrClearType ==
  ASSUME NEW flags \in SUBSET Flags, NEW flag \in Flags, NEW cond
  PROVE  SetOrClear(flags, flag, cond) \in SUBSET Flags
BY DEF SetOrClear

(* So do the two updates of ExtractZN. *)
LEMMA ExtractZNType ==
  ASSUME cpsr \subseteq Flags, NEW value
  PROVE  ExtractZN(value) \in SUBSET Flags
<1>1. {"N", "Z"} \subseteq Flags
  BY DEF Flags
<1>2. cpsr_extract_zero(cpsr, value) \in SUBSET Flags
  BY <1>1, SetOrClearType DEF cpsr_extract_zero
<1>3. QED
  BY <1>1, <1>2, SetOrClearType DEF ExtractZN, cpsr_extract_negative

(* And the four updates of an addition and of a subtraction. *)
LEMMA AddSubFlagsType ==
  ASSUME cpsr \subseteq Flags, NEW a, NEW b, NEW r
  PROVE  /\ AddFlags(a, b, r) \in SUBSET Flags
         /\ SubFlags(a, b, r) \in SUBSET Flags
<1>1. {"C", "V"} \subseteq Flags
  BY DEF Flags
<1>2. ExtractZN(r) \in SUBSET Flags
  BY ExtractZNType
<1>3. cpsr_extract_carry_add(ExtractZN(r), a, b) \in SUBSET Flags
  BY <1>1, <1>2, SetOrClearType DEF cpsr_extract_carry_add
<1>4. cpsr_extract_carry_sub(ExtractZN(r), a, b) \in SUBSET Flags
  BY <1>1, <1>2, SetOrClearType DEF cpsr_extract_carry_sub
<1>5. QED
  BY <1>1, <1>3, <1>4, SetOrClearType
     DEF AddFlags, SubFlags, cpsr_extract_overflow_add, cpsr_extract_overflow_sub

(* What the flags of an operation mean: N and Z describe the result.       *)
LEMMA ExtractZNMeaning ==
  ASSUME NEW value \in Word
  PROVE  /\ "N" \in ExtractZN(value) <=> Signed(value) < 0
         /\ "Z" \in ExtractZN(value) <=> value = 0
<1>1. SignSet(value) <=> Signed(value) < 0
  BY SignBitAssumption DEF SignSet, Signed, Word, WORD_MODULUS
<1>2. "Z" \in cpsr_extract_zero(cpsr, value) <=> value = 0
  BY DEF cpsr_extract_zero, SetOrClear
<1>3. "Z" \in ExtractZN(value) <=> "Z" \in cpsr_extract_zero(cpsr, value)
  BY DEF ExtractZN, cpsr_extract_negative, SetOrClear
<1>4. "N" \in ExtractZN(value) <=> SignSet(value)
  BY DEF ExtractZN, cpsr_extract_negative, SetOrClear
<1>5. QED
  BY <1>1, <1>2, <1>3, <1>4

(* The sign-bit test of cpsr_extract_overflow_add is exact: the operands   *)
(* agree and the result differs just when the signed sum leaves the range. *)
LEMMA AddOverflowExact ==
  ASSUME NEW a \in Word, NEW b \in Word
  PROVE  (SignSet(a) = SignSet(b) /\ SignSet(a) # SignSet(Wrap(a + b)))
           <=> Signed(a) + Signed(b) \notin SignedRange
BY SignBitAssumption
   DEF SignSet, Signed, SignedRange, Wrap, Word, WORD_MODULUS

(* The same of cpsr_extract_overflow_sub, for the signed difference. *)
LEMMA SubOverflowExact ==
  ASSUME NEW a \in Word, NEW b \in Word
  PROVE  (SignSet(a) # SignSet(b) /\ SignSet(a) # SignSet(Wrap(a - b)))
           <=> Signed(a) - Signed(b) \notin SignedRange
BY SignBitAssumption
   DEF SignSet, Signed, SignedRange, Wrap, Word, WORD_MODULUS

(* What add_op leaves in the CPSR, one flag at a time. *)
LEMMA AddFlagsMeaning ==
  ASSUME NEW a \in Word, NEW b \in Word, NEW r, r = Wrap(a + b)
  PROVE  /\ "N" \in AddFlags(a, b, r) <=> Signed(r) < 0
         /\ "Z" \in AddFlags(a, b, r) <=> r = 0
         /\ "C" \in AddFlags(a, b, r) <=> a + b >= WORD_MODULUS
         /\ "V" \in AddFlags(a, b, r) <=> Signed(a) + Signed(b) \notin SignedRange
<1>1. r \in Word
  BY WordArithmetic
<1> DEFINE zn == ExtractZN(r)
           znc == cpsr_extract_carry_add(zn, a, b)
<1>2. /\ "N" \in zn <=> Signed(r) < 0
      /\ "Z" \in zn <=> r = 0
  BY <1>1, ExtractZNMeaning
<1>3. /\ \A f \in {"N", "Z"} : f \in znc <=> f \in zn
      /\ "C" \in znc <=> a + b >= WORD_MODULUS
  BY DEF SetOrClear, cpsr_extract_carry_add
<1>4. /\ \A f \in {"N", "Z", "C"} : f \in AddFlags(a, b, r) <=> f \in znc
      /\ "V" \in AddFlags(a, b, r) <=> (/\ SignSet(a) = SignSet(b)
                                      /\ SignSet(a) # SignSet(r))
  BY DEF SetOrClear, AddFlags, cpsr_extract_overflow_add
<1>5. QED
  BY <1>2, <1>3, <1>4, AddOverflowExact

(* What sub_op and rsb_op leave in it. *)
LEMMA SubFlagsMeaning ==
  ASSUME NEW a \in Word, NEW b \in Word, NEW r, r = Wrap(a - b)
  PROVE  /\ "N" \in SubFlags(a, b, r) <=> Signed(r) < 0
         /\ "Z" \in SubFlags(a, b, r) <=> r = 0
         /\ "C" \in SubFlags(a, b, r) <=> a >= b
         /\ "V" \in SubFlags(a, b, r) <=> Signed(a) - Signed(b) \notin SignedRange
<1>1. r \in Word
  BY WordArithmetic
<1> DEFINE zn == ExtractZN(r)
           znc == cpsr_extract_carry_sub(zn, a, b)
<1>2. /\ "N" \in zn <=> Signed(r) < 0
      /\ "Z" \in zn <=> r = 0
  BY <1>1, ExtractZNMeaning
<1>3. /\ \A f \in {"N", "Z"} : f \in znc <=> f \in zn
      /\ "C" \in znc <=> a >= b
  BY DEF SetOrClear, cpsr_extract_carry_sub
<1>4. /\ \A f \in {"N", "Z", "C"} : f \in SubFlags(a, b, r) <=> f \in znc
      /\ "V" \in SubFlags(a, b, r) <=> (/\ SignSet(a) # SignSet(b)
                                      /\ SignSet(a) # SignSet(r))
  BY DEF SetOrClear, SubFlags, cpsr_extract_overflow_sub
<1>5. QED
  BY <1>2, <1>3, <1>4, SubOverflowExact

-----------------------------------------------------------------------------
(* What the operations do to the processor. *)

(* A store of a word and of flags: one register changes, and types stay.   *)
LEMMA StoreKeepsTypes ==
  ASSUME CpuTypeOK, NEW reg \in RegisterIndex, NEW value \in Word,
         NEW s, NEW flags \in SUBSET Flags, Store(reg, value, s, flags)
  PROVE  /\ CpuTypeOK'
         /\ regs'[reg] = value
         /\ \A other \in RegisterIndex \ {reg} : regs'[other] = regs[other]
<1>1. /\ regs \in [RegisterIndex -> Word]
      /\ regs' = [regs EXCEPT ![reg] = value]
  BY DEF CpuTypeOK, Store, cpu_set_reg
<1>2. cpsr' \in SUBSET Flags
  BY DEF CpuTypeOK, Store
<1>3. QED
  BY <1>1, <1>2 DEF CpuTypeOK

(* The flag updates of every operation are made of flags.                  *)
LEMMA FlagUpdates ==
  ASSUME CpuTypeOK
  PROVE  /\ \A value : ExtractZN(value) \in SUBSET Flags
         /\ \A x, y, r : AddFlags(x, y, r) \in SUBSET Flags
         /\ \A x, y, r : SubFlags(x, y, r) \in SUBSET Flags
  BY ExtractZNType, AddSubFlagsType DEF CpuTypeOK

(* Every operation with a destination is a store of some word and of some  *)
(* flags there; a comparison is a test.                                    *)
LEMMA OperationsStore ==
  ASSUME CpuTypeOK, NEW reg, NEW a \in Word, NEW b \in Word, NEW s \in BOOLEAN,
         \/ mov_op(reg, b, s) \/ mvn_op(reg, b, s)
         \/ and_op(reg, a, b, s) \/ eor_op(reg, a, b, s)
         \/ orr_op(reg, a, b) \/ bic_op(reg, a, b)
         \/ add_op(reg, a, b, s) \/ adc_op(reg, a, b, s)
         \/ sub_op(reg, a, b, s) \/ sbc_op(reg, a, b, s)
         \/ rsb_op(reg, a, b, s) \/ rsc_op(reg, a, b, s)
         \/ mul_op(reg, a, b)
  PROVE  \E value \in Word, rises \in BOOLEAN, flags \in SUBSET Flags :
           Store(reg, value, rises, flags)
<1>1. /\ cpsr \in SUBSET Flags
      /\ \A value : ExtractZN(value) \in SUBSET Flags
      /\ \A x, y, r : AddFlags(x, y, r) \in SUBSET Flags
      /\ \A x, y, r : SubFlags(x, y, r) \in SUBSET Flags
  BY FlagUpdates DEF CpuTypeOK
<1> DEFINE Stored == \E v \in Word, r \in BOOLEAN, f \in SUBSET Flags : Store(reg, v, r, f)
<1> SUFFICES Stored
  OBVIOUS
<1> HIDE DEF Stored
<1>2. /\ \A x, y \in Word : Wrap(x + y) \in Word /\ Wrap(x - y) \in Word
      /\ \A x, y \in Word : (x * y) % WORD_MODULUS \in Word
      /\ \A x \in Word : BitNot(x) \in Word
      /\ \A x, y \in Word : /\ BitAnd(x, y) \in Word
                            /\ BitOr(x, y) \in Word
                            /\ BitXor(x, y) \in Word
  BY WordArithmetic, BitwiseAssumption
<1>3. ASSUME NEW value \in Word, NEW rises \in BOOLEAN, NEW flags \in SUBSET Flags,
             Store(reg, value, rises, flags)
      PROVE  Stored
  BY <1>3 DEF Stored
<1>4. ASSUME NEW x \in Word, NEW y \in Word, Sum(reg, x, y, s) \/ Difference(reg, x, y, s)
      PROVE  Stored
  <2>1. CASE Sum(reg, x, y, s)
    BY <1>1, <1>2, <1>3, <2>1 DEF Sum
  <2>2. CASE Difference(reg, x, y, s)
    BY <1>1, <1>2, <1>3, <2>2 DEF Difference
  <2>3. QED
    BY <1>4, <2>1, <2>2
<1>5. CASE mov_op(reg, b, s)
  BY <1>1, <1>3, <1>5 DEF mov_op
<1>6. CASE and_op(reg, a, b, s)
  BY <1>1, <1>2, <1>3, <1>6 DEF and_op
<1>7. CASE eor_op(reg, a, b, s)
  BY <1>1, <1>2, <1>3, <1>7 DEF eor_op
<1>8. CASE mvn_op(reg, b, s)
  BY <1>1, <1>2, <1>3, <1>8 DEF mvn_op
<1>9. CASE orr_op(reg, a, b)
  BY <1>1, <1>2, <1>3, <1>9 DEF orr_op
<1>10. CASE bic_op(reg, a, b)
  BY <1>1, <1>2, <1>3, <1>10 DEF bic_op
<1>11. CASE add_op(reg, a, b, s) \/ sub_op(reg, a, b, s) \/ rsb_op(reg, a, b, s)
  BY <1>4, <1>11 DEF add_op, sub_op, rsb_op
<1>12. CASE adc_op(reg, a, b, s) \/ sbc_op(reg, a, b, s) \/ rsc_op(reg, a, b, s)
  <2>1. /\ Wrap(b + CarryIn) \in Word
        /\ Wrap(b - CarryIn) \in Word
        /\ Wrap(a + CarryIn) \in Word
    BY <1>2, CarryInIsWord
  <2>2. QED
    BY <1>4, <1>12, <2>1 DEF adc_op, sbc_op, rsc_op
<1>13. CASE mul_op(reg, a, b)
  BY <1>1, <1>2, <1>3, <1>13 DEF mul_op
<1>14. QED
  BY <1>5, <1>6, <1>7, <1>8, <1>9, <1>10, <1>11, <1>12, <1>13

(* So no operation with a destination leaks more than a word there.        *)
LEMMA OperationsKeepTypes ==
  ASSUME CpuTypeOK, NEW reg \in RegisterIndex, NEW a \in Word, NEW b \in Word, NEW s \in BOOLEAN,
         \/ mov_op(reg, b, s) \/ mvn_op(reg, b, s)
         \/ and_op(reg, a, b, s) \/ eor_op(reg, a, b, s)
         \/ orr_op(reg, a, b) \/ bic_op(reg, a, b)
         \/ add_op(reg, a, b, s) \/ adc_op(reg, a, b, s)
         \/ sub_op(reg, a, b, s) \/ sbc_op(reg, a, b, s)
         \/ rsb_op(reg, a, b, s) \/ rsc_op(reg, a, b, s)
         \/ mul_op(reg, a, b)
  PROVE  /\ CpuTypeOK'
         /\ \A other \in RegisterIndex \ {reg} : regs'[other] = regs[other]
<1>1. PICK value \in Word, rises \in BOOLEAN, flags \in SUBSET Flags :
        Store(reg, value, rises, flags)
  BY OperationsStore
<1>2. QED
  BY <1>1, StoreKeepsTypes

(* A test writes no register. *)
LEMMA TestsKeepTypes ==
  ASSUME CpuTypeOK, NEW a, NEW b,
         tst_op(a, b) \/ teq_op(a, b) \/ cmp_op(a, b) \/ cmn_op(a, b)
  PROVE  CpuTypeOK' /\ regs' = regs
<1>1. \E result : Test(result)
  BY DEF tst_op, teq_op, cmp_op, cmn_op
<1>2. QED
  BY <1>1, FlagUpdates DEF Test, CpuTypeOK

(* CMP followed by EQ or NE decides equality, whatever the flags were.     *)
LEMMA CompareDecidesEquality ==
  ASSUME NEW a \in Word, NEW b \in Word, cmp_op(a, b)
  PROVE  "Z" \in cpsr' <=> a = b
<1>1. /\ Wrap(a - b) \in Word
      /\ Wrap(a - b) = 0 <=> a = b
  BY SignBitAssumption DEF Wrap, Word, WORD_MODULUS
<1>2. cpsr' = ExtractZN(Wrap(a - b))
  BY DEF cmp_op, Test
<1>3. QED
  BY <1>1, <1>2, ExtractZNMeaning

(* What cond_passed reads, one condition code at a time. *)
LEMMA ConditionReads ==
  ASSUME NEW flags
  PROVE  /\ cond_passed(EQ, flags) <=> "Z" \in flags
         /\ cond_passed(NE, flags) <=> "Z" \notin flags
         /\ cond_passed(CS, flags) <=> "C" \in flags
         /\ cond_passed(CC, flags) <=> "C" \notin flags
         /\ cond_passed(HI, flags) <=> "C" \in flags /\ "Z" \notin flags
         /\ cond_passed(LS, flags) <=> "C" \notin flags \/ "Z" \in flags
         /\ cond_passed(GE, flags) <=> ("N" \in flags) = ("V" \in flags)
         /\ cond_passed(LT, flags) <=> ("N" \in flags) # ("V" \in flags)
         /\ cond_passed(GT, flags) <=> /\ "Z" \notin flags
                                       /\ ("N" \in flags) = ("V" \in flags)
         /\ cond_passed(LE, flags) <=> \/ "Z" \in flags
                                       \/ ("N" \in flags) # ("V" \in flags)
BY DEF cond_passed, EQ, NE, CS, CC, MI, PL, VS, VC, HI, LS, GE, LT, GT, LE, AL

-----------------------------------------------------------------------------
(* Address arithmetic. *)

(* The words are more than eight, and an offset is at most one word wide. *)
LEMMA Widths ==
  ASSUME AddressWidths
  PROVE  /\ WORD_MODULUS \in Nat /\ WORD_MODULUS % 4 = 0
         /\ WORD_MODULUS > 8
         /\ IMM24_SIGN \in Nat /\ 4 * IMM24_SIGN <= WORD_MODULUS
         /\ Word = 0 .. WORD_MODULUS - 1
BY SignBitAssumption DEF AddressWidths, WORD_MODULUS, PC_BIAS, Word

(* A multiple of four stays one when it is wrapped. *)
LEMMA WrapAligned ==
  ASSUME AddressWidths,
         NEW x \in -WORD_MODULUS .. 2 * WORD_MODULUS - 1, x % 4 = 0
  PROVE  Wrap(x) % 4 = 0
BY Widths DEF Wrap

(* Clearing the two low bits leaves an aligned word. *)
LEMMA ClearLowBitsWord ==
  ASSUME AddressWidths,
         NEW x \in Word
  PROVE  /\ ClearLowBits(x) \in Word
         /\ ClearLowBits(x) % 4 = 0
         /\ x % 4 = 0 => ClearLowBits(x) = x
<1>1. WORD_MODULUS \in Nat /\ x \in 0 .. WORD_MODULUS - 1
  BY Widths
<1>2. QED
  BY <1>1 DEF ClearLowBits, Word

(* One instruction back from two ahead is one ahead: the address b_op      *)
(* stores in LR is that of the instruction after the branch.               *)
LEMMA ReturnAddress ==
  ASSUME AddressWidths,
         NEW a \in Word, a % 4 = 0
  PROVE  /\ Wrap(Wrap(a + PC_BIAS) - WORD_SIZE_BYTES) = Wrap(a + WORD_SIZE_BYTES)
         /\ Wrap(a + WORD_SIZE_BYTES) \in Word
         /\ Wrap(a + WORD_SIZE_BYTES) % 4 = 0
         /\ Wrap(a + PC_BIAS) \in Word
         /\ Wrap(a + PC_BIAS) % 4 = 0
<1>1. a + 4 \in -WORD_MODULUS .. 2 * WORD_MODULUS - 1 /\ (a + 4) % 4 = 0
  BY Widths
<1>2. a + 8 \in -WORD_MODULUS .. 2 * WORD_MODULUS - 1 /\ (a + 8) % 4 = 0
  BY Widths
<1>3. Wrap(Wrap(a + 8) - 4) = Wrap(a + 4)
  BY Widths DEF Wrap
<1>4. QED
  BY <1>1, <1>2, <1>3, WrapType, WrapAligned DEF PC_BIAS, WORD_SIZE_BYTES

(* From an aligned R15 an offset of whole words leads to an aligned one.   *)
LEMMA TargetAligned ==
  ASSUME AddressWidths,
         NEW a \in Word, a % 4 = 0,
         NEW d \in -4 * IMM24_SIGN .. 4 * IMM24_SIGN, d % 4 = 0
  PROVE  Wrap(a + d) \in Word /\ Wrap(a + d) % 4 = 0
<1>1. /\ WORD_MODULUS \in Nat /\ a \in 0 .. WORD_MODULUS - 1
      /\ d \in -WORD_MODULUS .. WORD_MODULUS
  BY Widths
<1>2. a + d \in -WORD_MODULUS .. 2 * WORD_MODULUS - 1 /\ (a + d) % 4 = 0
  BY <1>1
<1>3. QED
  BY <1>2, WrapType, WrapAligned

(* LR and R15 are two registers of the file. *)
LEMMA Registers ==
  /\ LINK_REGISTER_INDEX \in RegisterIndex
  /\ PC_REGISTER_INDEX \in RegisterIndex
  /\ LINK_REGISTER_INDEX # PC_REGISTER_INDEX
BY RegisterCountAssumption
   DEF RegisterIndex, LINK_REGISTER_INDEX, PC_REGISTER_INDEX

(* The number a field of the width of imm24 encodes is at most as large.   *)
LEMMA SignExtendRange ==
  ASSUME AddressWidths,
         NEW imm24 \in 0 .. 2 * IMM24_SIGN - 1
  PROVE  /\ SignExtend(imm24) \in -IMM24_SIGN .. IMM24_SIGN - 1
         /\ SignExtend(imm24) * WORD_SIZE_BYTES \in -4 * IMM24_SIGN .. 4 * IMM24_SIGN
         /\ (SignExtend(imm24) * WORD_SIZE_BYTES) % 4 = 0
<1>1. SignExtend(imm24) \in -IMM24_SIGN .. IMM24_SIGN - 1
  BY DEF SignExtend, AddressWidths
<1> DEFINE signed == SignExtend(imm24)
<1> HIDE DEF signed
<1>2. signed \in -IMM24_SIGN .. IMM24_SIGN - 1
  BY <1>1 DEF signed
<1>3. signed * 4 \in -4 * IMM24_SIGN .. 4 * IMM24_SIGN /\ (signed * 4) % 4 = 0
  BY <1>2, Widths
<1>4. QED
  BY <1>2, <1>3 DEF signed, WORD_SIZE_BYTES

(* A branch that is not taken writes nothing; one that is writes R15, and  *)
(* LR with the link bit.                                                   *)
LEMMA BranchWrites ==
  ASSUME NEW b, b_op(b)
  PROVE  \/ status' \in {"done", "aborted"} /\ ~Passed(b.cond) /\ UNCHANGED <<regs, cpsr>>
         \/ /\ status' = "taken" /\ Passed(b.cond)
            /\ regs' = [regs EXCEPT
                         ![LINK_REGISTER_INDEX] =
                            IF b.link THEN StoredAddress(regs[PC_REGISTER_INDEX]) ELSE @,
                         ![PC_REGISTER_INDEX] = Wrap(regs[PC_REGISTER_INDEX] + b.offset)]
            /\ UNCHANGED cpsr
BY DEF b_op, NotPassed, Passed, Abort, Done, cpu_get_reg

(* The same of BX, which takes its target from a register.                 *)
LEMMA ExchangeWrites ==
  ASSUME NEW bx, bx_op(bx)
  PROVE  \/ status' \in {"done", "aborted"} /\ UNCHANGED <<regs, cpsr>>
         \/ /\ status' = "taken" /\ Passed(bx.cond)
            /\ regs' = [regs EXCEPT ![PC_REGISTER_INDEX] = ClearLowBits(regs[bx.rn])]
            /\ UNCHANGED cpsr
BY DEF bx_op, NotPassed, Passed, Abort, Done, cpu_get_reg, cpu_set_reg

(* Whatever its offset, a branch leaves words in the registers.            *)
LEMMA BranchKeepsTypes ==
  ASSUME AddressWidths, CpuTypeOK,
         NEW b, b.offset \in -4 * IMM24_SIGN .. 4 * IMM24_SIGN, b_op(b)
  PROVE  CpuTypeOK' /\ status' \in Outcome
<1> DEFINE pc == regs[PC_REGISTER_INDEX]
<1>1. pc \in Word
  BY Registers DEF CpuTypeOK
<1> HIDE DEF pc
<1>2. Wrap(pc + b.offset) \in Word
  <2>1. pc + b.offset \in -WORD_MODULUS .. 2 * WORD_MODULUS - 1
    BY <1>1, Widths
  <2>2. QED
    BY <2>1, WrapType
<1>3. StoredAddress(pc) \in Word
  <2>1. pc - WORD_SIZE_BYTES \in -WORD_MODULUS .. 2 * WORD_MODULUS - 1
    BY <1>1, Widths DEF WORD_SIZE_BYTES
  <2>2. QED
    BY <2>1, WrapType, ClearLowBitsWord DEF StoredAddress
<1>4. CASE UNCHANGED <<regs, cpsr>> /\ status' \in {"done", "aborted"}
  BY <1>4 DEF CpuTypeOK, Outcome
<1>5. CASE /\ status' = "taken"
           /\ regs' = [regs EXCEPT
                        ![LINK_REGISTER_INDEX] = IF b.link THEN StoredAddress(pc) ELSE @,
                        ![PC_REGISTER_INDEX] = Wrap(pc + b.offset)]
           /\ UNCHANGED cpsr
  BY <1>2, <1>3, <1>5, Registers DEF CpuTypeOK, Outcome
<1>6. QED
  BY <1>4, <1>5, BranchWrites DEF pc

(* So does BX.                                                             *)
LEMMA ExchangeKeepsTypes ==
  ASSUME AddressWidths, CpuTypeOK,
         NEW bx, bx.rn \in RegisterIndex, bx_op(bx)
  PROVE  CpuTypeOK' /\ status' \in Outcome
<1>1. ClearLowBits(regs[bx.rn]) \in Word
  BY ClearLowBitsWord DEF CpuTypeOK
<1>2. QED
  BY <1>1, ExchangeWrites, Registers DEF CpuTypeOK, Outcome
=============================================================================
