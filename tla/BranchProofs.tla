---------------------------- MODULE BranchProofs ----------------------------
(***************************************************************************)
(* Proofs about B, BL and BX for every width of a word and of the offset   *)
(* field, every number of registers and every program, those included     *)
(* whose data processing instructions write R15.                           *)
(***************************************************************************)
EXTENDS Branch, InstructionProofs

-----------------------------------------------------------------------------
(* The kinds of instruction, and the fields each has. *)
LEMMA Kinds ==
  ASSUME inst \in Instruction
  PROVE  /\ inst.raw.kind \in {"b", "bx", "other"}
         /\ inst.raw.kind = "b" => inst.link \in BOOLEAN /\ inst.offset \in Int
         /\ inst.raw.kind = "bx" => inst.rn \in RegisterIndex
BY DEF Instruction, RawB, RawBx

-----------------------------------------------------------------------------
(* The invariant, one action at a time. *)

(* The reset state satisfies the invariant. *)
LEMMA InitInv == Init => ReturnInv
<1> SUFFICES ASSUME Init
             PROVE  ReturnInv
  OBVIOUS
<1>1. 0 \in Word /\ PC_BIAS \in Word /\ PC_BIAS % 4 = 0
  BY BranchAssumption, Widths DEF PC_BIAS
<1>2. /\ regs \in [RegisterIndex -> Word]
      /\ regs[PC_REGISTER_INDEX] = PC_BIAS
  BY <1>1, Registers DEF Init, construct_registers
<1>3. TypeOK
  BY <1>1, <1>2 DEF Init, TypeOK, CpuTypeOK, construct_cpsr, Instruction
<1>4. Wrap(0 + PC_BIAS) = PC_BIAS
  BY BranchAssumption, Widths DEF Wrap, PC_BIAS
<1>5. QED
  BY <1>1, <1>2, <1>3, <1>4
     DEF Init, ReturnInv, MisalignedOnlyByWrite, ReadsAhead, OffsetFits, LinkHeld

(* Decoding keeps it: the decoded offset fits. *)
LEMMA DecodeInv ==
  ASSUME ReturnInv, Decode
  PROVE  ReturnInv'
<1> USE DEF ReturnInv
<1>1. inst' \in Instruction /\ OffsetFits'
  <2>1. CASE \E raw \in RawB : inst' = decode_b(raw)
    <3>1. PICK raw \in RawB : inst' = decode_b(raw)
      BY <2>1
    <3>2. raw.imm24 \in 0 .. 2 * IMM24_SIGN - 1
      BY FieldAssumption DEF RawB
    <3>3. inst' = [raw |-> raw, cond |-> raw.cond, link |-> raw.link,
                   offset |-> SignExtend(raw.imm24) * WORD_SIZE_BYTES]
      BY <3>1 DEF decode_b
    <3>4. QED
      BY <3>2, <3>3, BranchAssumption, SignExtendRange, Widths
         DEF Instruction, OffsetFits, RawB
  <2>2. CASE \E raw \in RawBx : inst' = decode_bx(raw)
    BY <2>2 DEF decode_bx, Instruction, OffsetFits, RawBx
  <2>3. CASE inst' = [raw |-> [kind |-> "other"]]
    BY <2>3 DEF Instruction, OffsetFits
  <2>4. QED
    BY <2>1, <2>2, <2>3 DEF Decode
<1>2. QED
  BY <1>1 DEF Decode, TypeOK, CpuTypeOK, MisalignedOnlyByWrite, ReadsAhead,
              LinkHeld, WORD_SIZE_BYTES

(* So does refusing to fetch: an address between words was written.        *)
LEMMA RefuseInv ==
  ASSUME ReturnInv, Refuse
  PROVE  ReturnInv'
BY DEF ReturnInv, Refuse, TypeOK, CpuTypeOK, MisalignedOnlyByWrite, ReadsAhead,
       OffsetFits, LinkHeld

(* Moving on keeps it: R15 reads ahead again, and after a branch, taken or *)
(* not, the next address is a word boundary.                               *)
LEMMA AdvanceInv ==
  ASSUME ReturnInv, Advance
  PROVE  ReturnInv'
<1> USE DEF ReturnInv
<1>1. /\ status \in {"taken", "done"} /\ at' \in NextAddresses
      /\ regs' = [regs EXCEPT ![PC_REGISTER_INDEX] = Wrap(at' + PC_BIAS)]
      /\ status' = "decode"
      /\ UNCHANGED <<cpsr, inst, linked>>
  BY DEF Advance, cpu_set_reg
<1>2. /\ at \in Word /\ at % 4 = 0 /\ regs[PC_REGISTER_INDEX] \in Word
      /\ Wrap(at + WORD_SIZE_BYTES) \in Word /\ Wrap(at + WORD_SIZE_BYTES) % 4 = 0
  <2>1. at \in Word /\ at % 4 = 0 /\ regs[PC_REGISTER_INDEX] \in Word
    BY <1>1, Registers DEF TypeOK, CpuTypeOK, MisalignedOnlyByWrite
  <2>2. QED
    BY <2>1, BranchAssumption, ReturnAddress
<1>3. at' \in Word /\ (at' % 4 = 0 \/ inst.raw.kind = "other")
  <2>1. CASE status = "taken"
    BY <1>1, <1>2, <2>1 DEF NextAddresses, MisalignedOnlyByWrite
  <2>2. CASE status = "done" /\ at' = Wrap(at + WORD_SIZE_BYTES)
    BY <1>2, <2>2
  <2>3. CASE /\ status = "done"
             /\ at' = regs[PC_REGISTER_INDEX]
             /\ regs[PC_REGISTER_INDEX] # Wrap(at + PC_BIAS)
    BY <1>2, <2>3 DEF ReadsAhead
  <2>4. QED
    BY <1>1, <2>1, <2>2, <2>3 DEF NextAddresses
<1>4. Wrap(at' + PC_BIAS) \in Word
  BY <1>3, BranchAssumption, Widths DEF Wrap, PC_BIAS
<1>5. /\ regs' \in [RegisterIndex -> Word]
      /\ regs'[PC_REGISTER_INDEX] = Wrap(at' + PC_BIAS)
      /\ regs'[LINK_REGISTER_INDEX] = regs[LINK_REGISTER_INDEX]
  BY <1>1, <1>4, Registers DEF TypeOK, CpuTypeOK
<1>6. QED
  BY <1>1, <1>3, <1>5
     DEF TypeOK, CpuTypeOK, MisalignedOnlyByWrite, ReadsAhead, OffsetFits, LinkHeld

(* An instruction executes at a word boundary, with R15 reading ahead.     *)
LEMMA Executing ==
  ASSUME ReturnInv, status = "execute"
  PROVE  /\ at \in Word /\ at % 4 = 0
         /\ regs \in [RegisterIndex -> Word]
         /\ regs[PC_REGISTER_INDEX] = Wrap(at + PC_BIAS)
         /\ regs[PC_REGISTER_INDEX] \in Word /\ regs[PC_REGISTER_INDEX] % 4 = 0
<1>1. /\ at \in Word /\ at % 4 = 0 /\ regs \in [RegisterIndex -> Word]
      /\ regs[PC_REGISTER_INDEX] = Wrap(at + PC_BIAS)
  BY DEF ReturnInv, TypeOK, CpuTypeOK, MisalignedOnlyByWrite, ReadsAhead
<1>2. QED
  BY <1>1, BranchAssumption, ReturnAddress

(* What the states after an instruction ask of it: a taken branch has its  *)
(* target on a word boundary, one not taken leaves R15 alone.              *)
LEMMA OutcomeInv ==
  ASSUME ReturnInv, status = "execute",
         status' \in Outcome,
         UNCHANGED <<at, inst>>, cpsr' \subseteq Flags,
         regs' \in [RegisterIndex -> Word],
         status' = "taken" => regs'[PC_REGISTER_INDEX] % 4 = 0,
         status' = "done" /\ inst.raw.kind # "other" => UNCHANGED regs,
         linked' \in Word \cup {NoAddress}, LinkHeld'
  PROVE  ReturnInv'
<1>1. at % 4 = 0 /\ regs[PC_REGISTER_INDEX] = Wrap(at + PC_BIAS)
  BY Executing
<1>2. TypeOK'
  BY DEF ReturnInv, TypeOK, CpuTypeOK
<1>3. MisalignedOnlyByWrite'
  BY <1>1 DEF MisalignedOnlyByWrite
<1>4. ReadsAhead'
  BY <1>1 DEF ReadsAhead, Outcome
<1>5. OffsetFits'
  BY DEF ReturnInv, OffsetFits
<1>6. QED
  BY <1>2, <1>3, <1>4, <1>5 DEF ReturnInv

(* A branch that is not taken, or aborts, keeps it; so does an assert that *)
(* fails in another instruction.                                           *)
LEMMA UntakenInv ==
  ASSUME ReturnInv, status = "execute", status' \in {"done", "aborted"},
         UNCHANGED <<at, inst, regs, cpsr>>, Remember
  PROVE  ReturnInv'
<1>1. linked' = linked
  BY DEF Remember, Calls
<1>2. LinkHeld'
  BY <1>1 DEF ReturnInv, LinkHeld
<1>3. QED
  BY <1>1, <1>2, OutcomeInv DEF ReturnInv, TypeOK, CpuTypeOK, Outcome

(* What a taken B or BL writes. *)
LEMMA BranchTaken ==
  ASSUME ReturnInv, status = "execute", inst.raw.kind = "b",
         b_op(inst), status' = "taken"
  PROVE  /\ regs' \in [RegisterIndex -> Word]
         /\ regs'[PC_REGISTER_INDEX]
              = Wrap(Wrap(at + PC_BIAS) + inst.offset)
         /\ regs'[PC_REGISTER_INDEX] % 4 = 0
         /\ regs'[LINK_REGISTER_INDEX]
              = IF inst.link THEN Wrap(at + WORD_SIZE_BYTES)
                ELSE regs[LINK_REGISTER_INDEX]
         /\ UNCHANGED cpsr
<1> DEFINE pc == regs[PC_REGISTER_INDEX]
<1>1. /\ at \in Word /\ at % 4 = 0
      /\ pc = Wrap(at + PC_BIAS)
      /\ inst.offset \in -4 * IMM24_SIGN .. 4 * IMM24_SIGN
      /\ inst.offset % 4 = 0
      /\ regs \in [RegisterIndex -> Word]
  BY Executing DEF ReturnInv, OffsetFits
<1>2. pc \in Word /\ pc % 4 = 0
  BY Executing
<1>3. StoredAddress(pc) = Wrap(at + WORD_SIZE_BYTES)
  BY <1>1, BranchAssumption, ReturnAddress, ClearLowBitsWord
     DEF StoredAddress
<1>4. Wrap(pc + inst.offset) \in Word /\ Wrap(pc + inst.offset) % 4 = 0
  BY <1>1, <1>2, BranchAssumption, TargetAligned
<1>5. Wrap(at + WORD_SIZE_BYTES) \in Word
  BY <1>1, BranchAssumption, ReturnAddress
<1>6. /\ regs' = [regs EXCEPT
                   ![LINK_REGISTER_INDEX] = IF inst.link THEN StoredAddress(pc) ELSE @,
                   ![PC_REGISTER_INDEX] = Wrap(pc + inst.offset)]
      /\ UNCHANGED cpsr
  BY BranchWrites
<1> HIDE DEF pc
<1>7. QED
  BY <1>1, <1>3, <1>4, <1>5, <1>6, Registers

(* What a taken BX writes. *)
LEMMA ExchangeTaken ==
  ASSUME ReturnInv, status = "execute", inst.raw.kind = "bx",
         bx_op(inst), status' = "taken"
  PROVE  /\ regs' \in [RegisterIndex -> Word]
         /\ regs'[PC_REGISTER_INDEX] = ClearLowBits(regs[inst.rn])
         /\ regs'[PC_REGISTER_INDEX] % 4 = 0
         /\ regs'[LINK_REGISTER_INDEX] = regs[LINK_REGISTER_INDEX]
         /\ UNCHANGED cpsr
<1>1. inst.rn \in RegisterIndex /\ regs \in [RegisterIndex -> Word]
  BY Kinds DEF ReturnInv, TypeOK, CpuTypeOK
<1>2. /\ ClearLowBits(regs[inst.rn]) \in Word
      /\ ClearLowBits(regs[inst.rn]) % 4 = 0
  BY <1>1, BranchAssumption, ClearLowBitsWord
<1>3. /\ regs' = [regs EXCEPT ![PC_REGISTER_INDEX] = ClearLowBits(regs[inst.rn])]
      /\ UNCHANGED cpsr
  BY ExchangeWrites
<1>4. QED
  BY <1>1, <1>2, <1>3, Registers

(* LR holds what is remembered of it, whatever has run.                    *)
LEMMA RememberInv ==
  ASSUME ReturnInv, status = "execute", Remember,
         Calls => regs'[LINK_REGISTER_INDEX] = Wrap(at + WORD_SIZE_BYTES)
  PROVE  linked' \in Word \cup {NoAddress} /\ LinkHeld'
<1>1. /\ at \in Word /\ at % 4 = 0
      /\ linked \in Word \cup {NoAddress} /\ LinkHeld
  BY Executing DEF ReturnInv, TypeOK
<1>2. Wrap(at + WORD_SIZE_BYTES) \in Word /\ Wrap(at + WORD_SIZE_BYTES) % 4 = 0
  BY <1>1, BranchAssumption, ReturnAddress
<1>3. CASE Calls
  BY <1>2, <1>3 DEF Remember, LinkHeld
<1>4. CASE ~Calls
  BY <1>1, <1>4 DEF Remember, LinkHeld
<1>5. QED
  BY <1>3, <1>4

(* Executing keeps it, whatever the instruction. *)
LEMMA ExecuteInv ==
  ASSUME ReturnInv, Execute
  PROVE  ReturnInv'
<1>1. status = "execute" /\ Remember /\ UNCHANGED <<at, inst>>
  BY DEF Execute
<1>2. CASE inst.raw.kind = "b" /\ b_op(inst)
  <2>1. CASE status' = "taken"
    <3>1. linked' \in Word \cup {NoAddress} /\ LinkHeld'
      BY <1>1, <1>2, <2>1, BranchTaken, RememberInv DEF Calls
    <3>2. QED
      BY <1>1, <1>2, <2>1, <3>1, BranchTaken, OutcomeInv
         DEF ReturnInv, TypeOK, CpuTypeOK, Outcome
  <2>2. CASE status' # "taken"
    BY <1>1, <1>2, <2>2, UntakenInv, BranchWrites
  <2>3. QED
    BY <2>1, <2>2
<1>3. CASE inst.raw.kind = "bx" /\ bx_op(inst)
  <2>1. CASE status' = "taken"
    <3>1. linked' \in Word \cup {NoAddress} /\ LinkHeld'
      BY <1>1, <1>3, <2>1, ExchangeTaken, RememberInv DEF Calls
    <3>2. QED
      BY <1>1, <1>3, <2>1, <3>1, ExchangeTaken, OutcomeInv
         DEF ReturnInv, TypeOK, CpuTypeOK, Outcome
  <2>2. CASE status' # "taken"
    BY <1>1, <1>3, <2>2, UntakenInv, ExchangeWrites
  <2>3. QED
    BY <2>1, <2>2
<1>4. CASE inst.raw.kind = "other" /\ Other
  <2>1. CASE Abort
    BY <1>1, <2>1, UntakenInv DEF Abort
  <2>2. CASE /\ \/ UNCHANGED regs
                \/ \E reg \in RegisterIndex, value \in Scratch : cpu_set_reg(reg, value)
             /\ cpsr' \in {{}, {"Z"}}
             /\ Done
    <3>1. regs' \in [RegisterIndex -> Word]
      BY <2>2, FieldAssumption DEF ReturnInv, TypeOK, CpuTypeOK, cpu_set_reg
    <3>2. linked' \in Word \cup {NoAddress} /\ LinkHeld'
      BY <1>1, <1>4, RememberInv DEF Calls
    <3>3. cpsr' \subseteq Flags /\ status' = "done"
      BY <2>2 DEF Flags, Done
    <3>4. QED
      BY <1>1, <1>4, <3>1, <3>2, <3>3, OutcomeInv DEF Outcome
  <2>3. QED
    BY <1>4, <2>1, <2>2 DEF Other
<1>5. QED
  BY <1>2, <1>3, <1>4 DEF Execute

(* The inductive invariant holds of every program.                         *)
THEOREM ReturnInvAlways == Spec => []ReturnInv
<1>1. Init => ReturnInv
  BY InitInv
<1>2. ReturnInv /\ [Next]_vars => ReturnInv'
  <2> SUFFICES ASSUME ReturnInv, [Next]_vars
               PROVE  ReturnInv'
    OBVIOUS
  <2>1. CASE Decode
    BY <2>1, DecodeInv
  <2>2. CASE Execute
    BY <2>2, ExecuteInv
  <2>3. CASE Advance
    BY <2>3, AdvanceInv
  <2>4. CASE Refuse
    BY <2>4, RefuseInv
  <2>5. CASE UNCHANGED vars
    BY <2>5 DEF vars, ReturnInv, TypeOK, CpuTypeOK, MisalignedOnlyByWrite, ReadsAhead,
                OffsetFits, LinkHeld
  <2>6. QED
    BY <2>1, <2>2, <2>3, <2>4, <2>5 DEF Next
<1>3. QED
  BY <1>1, <1>2, PTL DEF Spec

(* Registers, R15 included, stay words across branches and the end of the  *)
(* address space.                                                          *)
THEOREM TypeCorrect == Spec => []TypeOK
<1>1. ReturnInv => TypeOK
  BY DEF ReturnInv
<1>2. QED
  BY <1>1, ReturnInvAlways, PTL

(* A branch always lands on a word boundary, and an instruction is decoded *)
(* on none but those: only a data processing instruction that writes R15   *)
(* leads elsewhere, into the fault of the fetch.                           *)
THEOREM MisalignedOnlyByWriteAlways == Spec => []MisalignedOnlyByWrite
<1>1. ReturnInv => MisalignedOnlyByWrite
  BY DEF ReturnInv
<1>2. QED
  BY <1>1, ReturnInvAlways, PTL

(* BX LR after a BL resumes behind the BL, as long as LR was not written.  *)
THEOREM ReturnResumesAlways == Spec => ReturnResumes
<1> DEFINE Returning == /\ status = "execute" /\ inst.raw.kind = "bx"
                        /\ inst.rn = LINK_REGISTER_INDEX
                        /\ linked # NoAddress
                        /\ Passed(inst.cond)
           Resumed == /\ status' = "taken"
                      /\ regs'[PC_REGISTER_INDEX] = linked
<1>1. ReturnInv /\ [Next]_vars => [Returning => Resumed]_vars
  <2> SUFFICES ASSUME ReturnInv, Next, Returning
               PROVE  Resumed
    OBVIOUS
  <2>1. /\ regs[LINK_REGISTER_INDEX] = linked
        /\ linked \in Word /\ linked % 4 = 0
    BY DEF ReturnInv, TypeOK, LinkHeld
  <2>2. linked % 2 = 0 /\ ClearLowBits(linked) = linked
    BY <2>1, BranchAssumption, Widths, ClearLowBitsWord
  <2>3. bx_op(inst)
    BY DEF Next, Decode, Refuse, Execute, Advance
  <2>4. status' = "taken"
    BY <2>1, <2>2, <2>3, Registers DEF bx_op, NotPassed, Passed, cpu_get_reg
  <2>5. QED
    BY <2>1, <2>2, <2>3, <2>4, ExchangeTaken
<1>2. QED
  BY <1>1, ReturnInvAlways, PTL DEF Spec, ReturnResumes

(* A call writes LR and goes, or nothing is written, whatever the reason.  *)
THEOREM CallAllOrNothingAlways == Spec => CallAllOrNothing
<1> DEFINE Branching == status = "execute" /\ inst.raw.kind # "other"
           Called == IF status' = "taken"
                     THEN (inst.raw.kind = "b" /\ inst.link) =>
                            regs'[LINK_REGISTER_INDEX] = Wrap(at + WORD_SIZE_BYTES)
                     ELSE UNCHANGED regs
<1>1. ReturnInv /\ [Next]_vars => [Branching => Called]_vars
  <2> SUFFICES ASSUME ReturnInv, Next, Branching
               PROVE  Called
    OBVIOUS
  <2>1. Execute
    BY DEF Next, Decode, Refuse, Advance
  <2>2. CASE inst.raw.kind = "b" /\ b_op(inst)
    <3>1. CASE status' = "taken"
      BY <2>2, <3>1, BranchTaken
    <3>2. CASE status' # "taken"
      BY <2>2, <3>2, BranchWrites
    <3>3. QED
      BY <3>1, <3>2
  <2>3. CASE inst.raw.kind = "bx" /\ bx_op(inst)
    BY <2>3, ExchangeWrites
  <2>4. QED
    BY <2>1, <2>2, <2>3 DEF Execute
<1>2. QED
  BY <1>1, ReturnInvAlways, PTL DEF Spec, CallAllOrNothing

-----------------------------------------------------------------------------
(* The target of a branch. *)

(* A decoded branch offset is four times the signed value of its field.    *)
OffsetDecoded ==
  inst.raw.kind = "b" =>
    /\ inst.raw.imm24 \in 0 .. 2 * IMM24_SIGN - 1
    /\ inst.offset = 4 * SignExtend(inst.raw.imm24)

(* Wrapping is reduction: it changes a number by a multiple of the modulus. *)
LEMMA WrapShifts ==
  ASSUME NEW x \in Int
  PROVE  \E k \in Int : x = Wrap(x) + k * WORD_MODULUS
<1>1. WORD_MODULUS \in Int
  BY BranchAssumption, Widths
<1>2. \/ x = Wrap(x) + 1 * WORD_MODULUS
      \/ x = Wrap(x) + (-1) * WORD_MODULUS
      \/ x = Wrap(x) + 0 * WORD_MODULUS
  BY <1>1 DEF Wrap
<1>3. QED
  BY <1>2

(* Every decoded branch carries its offset. *)
THEOREM OffsetDecodedAlways == Spec => []OffsetDecoded
<1>1. Init => OffsetDecoded
  BY DEF Init, OffsetDecoded
<1>2. OffsetDecoded /\ [Next]_vars => OffsetDecoded'
  <2> SUFFICES ASSUME OffsetDecoded, [Next]_vars
               PROVE  OffsetDecoded'
    OBVIOUS
  <2>1. CASE Decode
    <3>1. CASE \E raw \in RawB : inst' = decode_b(raw)
      <4>1. PICK raw \in RawB : inst' = decode_b(raw)
        BY <3>1
      <4>2. raw.imm24 \in 0 .. 2 * IMM24_SIGN - 1
        BY <4>1, FieldAssumption DEF RawB
      <4>3. /\ inst'.raw = raw
            /\ inst'.offset = SignExtend(raw.imm24) * 4
        BY <4>1 DEF decode_b, WORD_SIZE_BYTES
      <4>4. SignExtend(raw.imm24) \in Int
        BY <4>2, BranchAssumption, Widths DEF SignExtend
      <4>5. QED
        BY <4>2, <4>3, <4>4 DEF OffsetDecoded
    <3>2. CASE \E raw \in RawBx : inst' = decode_bx(raw)
      BY <3>2 DEF RawBx, decode_bx, OffsetDecoded
    <3>3. CASE inst' = [raw |-> [kind |-> "other"]]
      BY <3>3 DEF OffsetDecoded
    <3>4. QED
      BY <2>1, <3>1, <3>2, <3>3 DEF Decode
  <2>2. CASE UNCHANGED inst
    BY <2>2 DEF OffsetDecoded
  <2>3. QED
    BY <2>1, <2>2 DEF Next, Refuse, Execute, Advance, vars
<1>3. QED
  BY <1>1, <1>2, PTL DEF Spec

(* A taken branch lands where instructions_enums.h says, backwards and     *)
(* across the end of the address space too, for every width.               *)
THEOREM BranchLandsOnTargetAlways == Spec => BranchLandsOnTarget
<1> DEFINE Branching == status = "execute" /\ status' = "taken" /\ inst.raw.kind = "b"
           Landed == \E signed \in -IMM24_SIGN .. IMM24_SIGN - 1 :
                       /\ (signed - inst.raw.imm24) % (2 * IMM24_SIGN) = 0
                       /\ regs'[PC_REGISTER_INDEX]
                            = (at + 8 + 4 * signed) % WORD_MODULUS
<1>1. ReturnInv /\ OffsetDecoded /\ [Next]_vars => [Branching => Landed]_vars
  <2> SUFFICES ASSUME ReturnInv, OffsetDecoded, Next, Branching
               PROVE  Landed
    OBVIOUS
  <2> DEFINE signed == SignExtend(inst.raw.imm24)
             target == regs'[PC_REGISTER_INDEX]
  <2>1. /\ inst.raw.imm24 \in 0 .. 2 * IMM24_SIGN - 1
        /\ inst.offset = 4 * signed
    BY DEF OffsetDecoded
  <2>2. IMM24_SIGN \in Nat \ {0} /\ WORD_MODULUS \in Nat \ {0}
    BY BranchAssumption, Widths DEF AddressWidths
  <2>3. signed \in -IMM24_SIGN .. IMM24_SIGN - 1
    BY <2>1, <2>2 DEF SignExtend
  <2>4. (signed - inst.raw.imm24) % (2 * IMM24_SIGN) = 0
    <3> DEFINE m == 2 * IMM24_SIGN
    <3>1. m \in Nat \ {0}
      BY <2>2
    <3>2. signed - inst.raw.imm24 \in {0 + 0 * m, 0 + (-1) * m}
      BY <2>1, <2>2 DEF SignExtend
    <3>3. (0 + 0 * m) % m = 0 /\ (0 + (-1) * m) % m = 0
      <4> HIDE DEF m
      <4>1. 0 \in 0 .. m - 1 /\ 0 \in Int /\ -1 \in Int
        BY <3>1
      <4>2. QED
        BY <3>1, <4>1, Residue
    <3>4. QED
      BY <3>2, <3>3
  <2>5. b_op(inst)
    BY DEF Next, Decode, Refuse, Execute, Advance
  <2>6. at \in Word
    BY DEF ReturnInv, TypeOK
  <2>7. /\ target = Wrap(Wrap(at + 8) + 4 * signed)
        /\ regs' \in [RegisterIndex -> Word]
    BY <2>1, <2>5, BranchTaken DEF PC_BIAS
  <2>8. target \in 0 .. WORD_MODULUS - 1
    BY <2>7, Registers, BranchAssumption, Widths
  <2>9. at \in Int /\ signed \in Int /\ Wrap(at + 8) \in Int
    BY <2>2, <2>3, <2>6, BranchAssumption, Widths DEF Wrap
  <2> HIDE DEF signed
  <2>10. PICK j \in Int : at + 8 = Wrap(at + 8) + j * WORD_MODULUS
    BY <2>9, WrapShifts
  <2>11. PICK k \in Int :
           Wrap(at + 8) + 4 * signed = target + k * WORD_MODULUS
    BY <2>7, <2>9, WrapShifts
  <2>12. at + 8 + 4 * signed = target + (j + k) * WORD_MODULUS
    BY <2>2, <2>8, <2>9, <2>10, <2>11
  <2>13. (target + (j + k) * WORD_MODULUS) % WORD_MODULUS = target
    <3> HIDE DEF target
    <3>1. \A n \in Int : (target + n * WORD_MODULUS) % WORD_MODULUS = target
      BY <2>2, <2>8, Residue
    <3>2. j + k \in Int
      OBVIOUS
    <3>3. QED
      BY <3>1, <3>2
  <2>14. QED
    BY <2>3, <2>4, <2>12, <2>13
<1>2. QED
  BY <1>1, ReturnInvAlways, OffsetDecodedAlways, PTL DEF Spec, BranchLandsOnTarget
=============================================================================
