--------------------------- MODULE SimulatorProofs --------------------------
(***************************************************************************)
(* Proofs about the whole simulator, for every width of a word, every      *)
(* number of registers and every program.                                  *)
(***************************************************************************)
EXTENDS Simulator, InstructionProofs

-----------------------------------------------------------------------------
(* Instruction words. *)

(* The class of a word fixes its fields. *)
LEMMA Classes ==
  ASSUME NEW raw \in Instructions
  PROVE  /\ raw.kind \in {"data", "mul", "b", "bx", "nop", "halt"}
         /\ raw.kind = "data" => /\ raw \in RawData
                                 /\ raw.i \/ raw.low \in RegisterIndex
         /\ raw.kind = "mul" => raw \in RawMul
         /\ raw.kind = "b" => raw \in RawB
         /\ raw.kind = "bx" => raw \in RawBx
BY ProgramAssumption DEF RawData, RawMul, RawB, RawBx, RawPlain

(* Operands of a data-processing instruction are words. *)
LEMMA Operands ==
  ASSUME CpuTypeOK, NEW raw \in Instructions, raw.kind = "data",
         NEW d, d = decode(raw)
  PROVE  Operand1(d) \in Word /\ Operand2(d) \in Word /\ d.low \in Nat
<1>1. /\ raw.rn \in RegisterIndex /\ raw.low \in Word /\ raw.i \in BOOLEAN
      /\ raw.i \/ raw.low \in RegisterIndex
  BY Classes DEF RawData
<1>2. d.rn = raw.rn /\ d.low = raw.low /\ d.immediate_mode = raw.i
  BY DEF decode
<1>3. \A reg \in RegisterIndex : cpu_get_reg(reg) \in Word
  BY DEF CpuTypeOK, cpu_get_reg
<1>4. QED
  BY <1>1, <1>2, <1>3 DEF Operand1, Operand2, Word

-----------------------------------------------------------------------------
(* What the handlers of the classes leave behind. *)

(* A data-processing instruction keeps the types. *)
LEMMA DataKeepsTypes ==
  ASSUME CpuTypeOK, NEW raw \in Instructions, raw.kind = "data",
         NEW d, d = decode(raw), data_proc_op(d)
  PROVE  /\ CpuTypeOK' /\ status' \in {"done", "aborted"}
         /\ fault_out' \in {fault_out, WARNING_PC_USED_AS_OPERAND}
<1> DEFINE a == Operand1(d)
           b == Operand2(d)
<1>1. a \in Word /\ b \in Word /\ d.low \in Nat
  BY Operands
<1>2. fault_out' \in {fault_out, WARNING_PC_USED_AS_OPERAND}
  BY DEF data_proc_op
<1>3. \/ Abort
      \/ Writable(d) /\ Dispatch(d, a, b) /\ Done
  BY DEF data_proc_op
<1> HIDE DEF a, b
<1>4. CASE Abort
  BY <1>2, <1>4 DEF Abort, CpuTypeOK
<1>5. CASE Writable(d) /\ Dispatch(d, a, b) /\ Done
  <2>1. CASE d.op = "CMP" /\ cmp_op(a, b)
    BY <1>2, <1>5, <2>1, TestsKeepTypes DEF Done
  <2>2. CASE d.op # "CMP"
    <3>1. d.low \in RegisterIndex
      BY <1>1, <1>5, <2>2, RegisterCountAssumption DEF Writable, RegisterIndex
    <3>2. \E x \in Word, y \in Word, s \in BOOLEAN :
            \/ mov_op(d.low, y, s) \/ orr_op(d.low, x, y) \/ add_op(d.low, x, y, s)
            \/ sub_op(d.low, x, y, s) \/ and_op(d.low, x, y, s)
      <4>1. (b # 0) \in BOOLEAN /\ TRUE \in BOOLEAN
        OBVIOUS
      <4>2. QED
        BY <1>1, <1>5, <2>2, <4>1 DEF Dispatch
    <3>3. CpuTypeOK'
      BY <3>1, <3>2, OperationsKeepTypes
    <3>4. QED
      BY <1>2, <1>5, <3>3 DEF Done
  <2>3. QED
    BY <1>5, <2>1, <2>2 DEF Dispatch
<1>6. QED
  BY <1>3, <1>4, <1>5

(* Every handler keeps the types. *)
LEMMA HandleKeepsTypes ==
  ASSUME CpuTypeOK, NEW raw \in Instructions, Handle(raw)
  PROVE  /\ CpuTypeOK' /\ status' \in Outcome
         /\ fault_out' \in {fault_out, WARNING_PC_USED_AS_OPERAND}
<1>1. CASE raw.kind = "data" /\ data_proc_op(decode(raw))
  BY <1>1, DataKeepsTypes DEF Outcome
<1>2. CASE /\ UNCHANGED fault_out /\ raw.kind = "mul"
           /\ mul_op(raw.rd, cpu_get_reg(raw.ra), cpu_get_reg(raw.rb)) /\ Done
  <2>1. /\ raw.rd \in RegisterIndex
        /\ cpu_get_reg(raw.ra) \in Word /\ cpu_get_reg(raw.rb) \in Word
    BY <1>2, Classes DEF RawMul, CpuTypeOK, cpu_get_reg
  <2>2. TRUE \in BOOLEAN
    OBVIOUS
  <2>3. CpuTypeOK'
    BY <1>2, <2>1, <2>2, OperationsKeepTypes
  <2>4. QED
    BY <1>2, <2>3 DEF Done, Outcome
<1>3. CASE UNCHANGED fault_out /\ raw.kind = "b" /\ b_op(decode_b(raw))
  <2> DEFINE b == decode_b(raw)
  <2>1. raw.imm24 \in 0 .. 2 * IMM24_SIGN - 1
    BY <1>3, Classes DEF RawB
  <2>2. b.offset \in -4 * IMM24_SIGN .. 4 * IMM24_SIGN
    BY <2>1, BranchAssumption, SignExtendRange DEF decode_b
  <2>3. b_op(b)
    BY <1>3
  <2> HIDE DEF b
  <2>4. QED
    BY <1>3, <2>2, <2>3, BranchAssumption, BranchKeepsTypes
<1>4. CASE UNCHANGED fault_out /\ raw.kind = "bx" /\ bx_op(decode_bx(raw))
  <2> DEFINE bx == decode_bx(raw)
  <2>1. bx.rn \in RegisterIndex
    BY <1>4, Classes DEF RawBx, decode_bx
  <2>2. bx_op(bx)
    BY <1>4
  <2> HIDE DEF bx
  <2>3. QED
    BY <1>4, <2>1, <2>2, BranchAssumption, ExchangeKeepsTypes
<1>5. CASE UNCHANGED fault_out /\ nop_op
  BY <1>5 DEF nop_op, Done, Outcome, CpuTypeOK
<1>6. QED
  BY <1>1, <1>2, <1>3, <1>4, <1>5 DEF Handle

(* The next address is a word, and so is R15 once it reads ahead of it.    *)
LEMMA NextPcsWords ==
  ASSUME CpuTypeOK, pc \in Word
  PROVE  /\ NextPcs \subseteq Word
         /\ \A a \in Word : Wrap(a + PC_BIAS) \in Word
<1>1. \A a \in Word : Wrap(a + PC_BIAS) \in Word /\ Wrap(a + WORD_SIZE_BYTES) \in Word
  <2> SUFFICES ASSUME NEW a \in Word
               PROVE  Wrap(a + PC_BIAS) \in Word /\ Wrap(a + WORD_SIZE_BYTES) \in Word
    OBVIOUS
  <2>1. /\ a + PC_BIAS \in -WORD_MODULUS .. 2 * WORD_MODULUS - 1
        /\ a + WORD_SIZE_BYTES \in -WORD_MODULUS .. 2 * WORD_MODULUS - 1
    BY BranchAssumption, Widths DEF PC_BIAS, WORD_SIZE_BYTES
  <2>2. QED
    BY <2>1, WrapType
<1>2. R15 \in Word
  BY Registers DEF CpuTypeOK, R15, cpu_get_reg
<1>3. QED
  BY <1>1, <1>2 DEF NextPcs

-----------------------------------------------------------------------------
(* The inductive invariant. *)

(* The loop and the handlers take turns with R15: it is the loop's when    *)
(* the next word is fetched, it still is the address of that word when the *)
(* executor is entered, and it is a handler's from then on.                *)
Turns ==
  /\ phase = "fetch" => status = "ready"
  /\ phase = "execute" /\ status = "ready" => R15 = pc
  /\ status = "aborted" => phase = "aborted"

(* A recorded fault means that the word 0 is executed in place of one.     *)
FaultMeansZero ==
  /\ phase = "fetch" => fetch_fault = FAULT_NONE
  /\ phase = "execute" /\ fetch_fault # FAULT_NONE => raw_inst = ZeroWord

(* While the flags of a CMP stand, Z tells whether its operands were equal. *)
ComparedInZ == compared # "none" => (compared = "equal" <=> "Z" \in cpsr)

(* The loop and the handlers mean the same error codes. *)
LEMMA SameCodes ==
  M!ErrorCode = ErrorCode /\ M!ERROR_NONE = ERROR_NONE
BY DEF M!ErrorCode, ErrorCode, M!ERROR_NONE, ERROR_NONE, M!ERROR_UNKNOWN_OPCODE,
       ERROR_UNKNOWN_OPCODE, M!ERROR_INVALID_REGISTER_INDEX,
       ERROR_INVALID_REGISTER_INDEX, M!WARNING_PC_USED_AS_OPERAND,
       WARNING_PC_USED_AS_OPERAND

SimulatorInv == TypeOK /\ Turns /\ FaultMeansZero /\ ComparedInZ

(* What Main calls the program counter is a word.                          *)
LEMMA LoopPcWord == CpuTypeOK /\ pc \in Word => LoopPc \in Word
BY Registers DEF LoopPc, R15, cpu_get_reg, CpuTypeOK

(* The power-on state satisfies it. *)
LEMMA InitInv == Init => SimulatorInv
<1> SUFFICES ASSUME Init
             PROVE  SimulatorInv
  OBVIOUS
<1>1. /\ words \in [0 .. WORD_COUNT - 1 -> Instructions] /\ pc = 0
      /\ fetch_fault = FAULT_NONE /\ phase = "fetch" /\ raw_inst = ZeroWord
      /\ halted = FALSE /\ exit_code = 0 /\ faulted = 0
  BY DEF Init, M!INITIAL_PC
<1>2. 0 \in Word
  BY BranchAssumption, Widths
<1>3. CpuTypeOK
  BY <1>2, Registers
     DEF Init, M!INITIAL_PC, construct_registers, construct_cpsr, CpuTypeOK
<1>4. M!TypeOK
  BY <1>1, <1>2, <1>3, LoopPcWord, ProgramAssumption DEF M!TypeOK, ErrorCode, ERROR_NONE
<1>5. QED
  BY <1>1, <1>2, <1>3, <1>4
     DEF Init, SimulatorInv, TypeOK, Turns, FaultMeansZero, ComparedInZ

(* So does the state after a fetch. *)
LEMMA FetchInv ==
  ASSUME SimulatorInv, Fetch
  PROVE  SimulatorInv'
<1>1. /\ fetch_fault = FAULT_NONE /\ phase = "fetch" /\ phase' = "execute"
      /\ status = "ready" /\ M!fetch /\ pc' = R15
      /\ UNCHANGED <<words, halted, exit_code, faulted>>
      /\ UNCHANGED <<regs, cpsr, status, fault_out, compared>>
  BY DEF Fetch, SimulatorInv, FaultMeansZero, Turns
<1>2. \/ /\ fetch_fault' \in {M!FAULT_ALIGNMENT, M!FAULT_OUT_OF_BOUNDS}
         /\ raw_inst' = ZeroWord
      \/ /\ M!index < WORD_COUNT
         /\ raw_inst' = words[M!index] /\ UNCHANGED fetch_fault
  BY <1>1 DEF M!fetch, M!Fail
<1>3. /\ CpuTypeOK /\ LoopPc \in Word
      /\ words \in [0 .. WORD_COUNT - 1 -> Instructions]
  BY LoopPcWord DEF SimulatorInv, TypeOK, M!TypeOK
<1>4. raw_inst' \in Instructions
  <2>1. ZeroWord \in Instructions /\ WORD_COUNT \in Nat
    BY ProgramAssumption
  <2>2. M!index \in Nat
    BY <1>3, BranchAssumption, Widths DEF M!index
  <2>3. QED
    BY <1>2, <1>3, <2>1, <2>2
<1>5. pc' \in Word /\ R15' = pc' /\ LoopPc' = LoopPc
  BY <1>1, <1>3 DEF LoopPc, R15, cpu_get_reg
<1>6. M!TypeOK'
  BY <1>1, <1>2, <1>4, <1>5 DEF SimulatorInv, TypeOK, M!TypeOK
<1>7. TypeOK'
  BY <1>1, <1>5, <1>6 DEF SimulatorInv, TypeOK, CpuTypeOK
<1>8. Turns' /\ ComparedInZ'
  BY <1>1, <1>5 DEF SimulatorInv, Turns, ComparedInZ
<1>9. FaultMeansZero'
  BY <1>1, <1>2 DEF FaultMeansZero
<1>10. QED
  BY <1>7, <1>8, <1>9 DEF SimulatorInv

(* Entering the executor keeps it, and hands R15 to the handler: what is   *)
(* left of the loop's program counter is its local.                        *)
LEMMA EnterInv ==
  ASSUME SimulatorInv, Enter
  PROVE  /\ SimulatorInv' /\ LoopPc' = LoopPc
         /\ R15' = Wrap(pc' + PC_BIAS)
<1>1. /\ phase = "execute" /\ status = "ready" /\ status' = "ahead"
      /\ regs' = [regs EXCEPT ![PC_REGISTER_INDEX] = Wrap(R15 + PC_BIAS)]
      /\ fault_out' = FAULT_NONE /\ UNCHANGED <<cpsr, compared, loop>>
  BY DEF Enter, cpu_set_reg
<1>2. /\ R15 = pc /\ pc \in Word /\ CpuTypeOK
      /\ Wrap(R15 + PC_BIAS) \in Word
  BY <1>1, NextPcsWords DEF SimulatorInv, TypeOK, Turns
<1>3. CpuTypeOK' /\ R15' = Wrap(R15 + PC_BIAS)
  BY <1>1, <1>2, Registers DEF CpuTypeOK, R15, cpu_get_reg
<1>4. LoopPc' = LoopPc
  BY <1>1, <1>2 DEF LoopPc, loop
<1>5. M!TypeOK'
  BY <1>1, <1>4 DEF SimulatorInv, TypeOK, M!TypeOK, loop
<1>6. TypeOK'
  BY <1>1, <1>3, <1>5 DEF SimulatorInv, TypeOK, loop
<1>7. Turns' /\ FaultMeansZero' /\ ComparedInZ'
  BY <1>1 DEF SimulatorInv, Turns, FaultMeansZero, ComparedInZ, loop
<1>8. QED
  BY <1>1, <1>2, <1>3, <1>4, <1>6, <1>7 DEF SimulatorInv, loop

(* An instruction that may not set flags leaves them as they are. *)
LEMMA FlagsStand ==
  ASSUME NEW raw \in Instructions, Handle(raw), ~MaySetFlags(raw)
  PROVE  UNCHANGED cpsr
<1>1. CASE raw.kind = "data" /\ data_proc_op(decode(raw))
  <2>1. decode(raw).op = "ORR"
    BY <1>1 DEF MaySetFlags
  <2> DEFINE d == decode(raw)
  <2>2. Abort \/ orr_op(d.low, Operand1(d), Operand2(d))
    BY <1>1, <2>1 DEF data_proc_op, Dispatch
  <2>3. QED
    BY <2>2 DEF Abort, orr_op, Store
<1>2. CASE raw.kind = "b" /\ b_op(decode_b(raw))
  BY <1>2, BranchWrites
<1>3. CASE raw.kind = "bx" /\ bx_op(decode_bx(raw))
  BY <1>3, ExchangeWrites
<1>4. CASE nop_op
  BY <1>4 DEF nop_op
<1>5. QED
  BY <1>1, <1>2, <1>3, <1>4 DEF Handle, MaySetFlags

(* What is remembered of a comparison is what Z says of it. *)
LEMMA RememberInv ==
  ASSUME CpuTypeOK, ComparedInZ, NEW raw \in Instructions, Handle(raw), Remember(raw)
  PROVE  /\ ComparedInZ'
         /\ compared' \in {compared, "none", "equal", "different"}
<1> DEFINE d == decode(raw)
<1>1. CASE ~MaySetFlags(raw)
  BY <1>1, FlagsStand DEF Remember, ComparedInZ
<1>2. CASE MaySetFlags(raw) /\ (raw.kind = "mul" \/ d.op # "CMP")
  BY <1>2 DEF Remember, ComparedInZ
<1>3. CASE MaySetFlags(raw) /\ raw.kind # "mul" /\ d.op = "CMP"
  <2>1. raw.kind = "data" /\ data_proc_op(d)
    BY <1>3 DEF MaySetFlags, Handle
  <2>2. cmp_op(Operand1(d), Operand2(d))
    BY <1>3, <2>1 DEF data_proc_op, Dispatch, HandledOps, Writable
  <2>3. Operand1(d) \in Word /\ Operand2(d) \in Word
    BY <2>1, Operands
  <2>4. "Z" \in cpsr' <=> Operand1(d) = Operand2(d)
    BY <2>2, <2>3, CompareDecidesEquality
  <2>5. compared' = IF Operand1(d) = Operand2(d) THEN "equal" ELSE "different"
    BY <1>3 DEF Remember
  <2> HIDE DEF d
  <2>6. QED
    BY <2>4, <2>5 DEF ComparedInZ
<1>4. QED
  BY <1>1, <1>2, <1>3

(* Running a handler keeps the invariant, and takes nothing from the loop. *)
LEMMA RunInv ==
  ASSUME SimulatorInv, Run
  PROVE  SimulatorInv' /\ LoopPc' = LoopPc
<1>1. /\ raw_inst \in Instructions /\ CpuTypeOK /\ ComparedInZ /\ M!TypeOK
      /\ phase = "execute" /\ status = "ahead"
      /\ Handle(raw_inst) /\ Remember(raw_inst)
  BY DEF Run, SimulatorInv, TypeOK, M!TypeOK
<1>2. /\ CpuTypeOK' /\ status' \in Outcome
      /\ fault_out' \in {fault_out, WARNING_PC_USED_AS_OPERAND}
  BY <1>1, HandleKeepsTypes
<1>3. ComparedInZ' /\ compared' \in {compared, "none", "equal", "different"}
  BY <1>1, RememberInv
<1>4. /\ UNCHANGED <<words, pc, fetch_fault, raw_inst, halted, exit_code>>
      /\ faulted' \in {faulted, faulted + 1}
      /\ phase' = IF status' = "aborted" THEN "aborted" ELSE "execute"
  BY <1>1 DEF Run, CountFaulted
<1>5. LoopPc' = LoopPc
  BY <1>1, <1>2, <1>4 DEF LoopPc, Outcome
<1>6. M!TypeOK'
  BY <1>1, <1>4, <1>5 DEF M!TypeOK
<1>7. TypeOK'
  BY <1>2, <1>3, <1>4, <1>6 DEF SimulatorInv, TypeOK, Outcome
<1>8. Turns' /\ FaultMeansZero'
  BY <1>1, <1>2, <1>4 DEF SimulatorInv, Turns, FaultMeansZero, Outcome
<1>9. QED
  BY <1>3, <1>5, <1>7, <1>8 DEF SimulatorInv

(* What the executor answers, main takes: an address, a flag and a code.   *)
(* On the ways out that return, R15 is no longer the loop's; on the one    *)
(* that goes on, it is again.                                              *)
LEMMA FinishAnswers ==
  ASSUME SimulatorInv, Finish
  PROVE  \E next_pc \in Word, should_halt \in BOOLEAN, code \in Codes :
           M!Finish(next_pc, should_halt, code)
<1>1. CpuTypeOK /\ pc \in Word
  BY DEF SimulatorInv, TypeOK
<1>2. NextPcs \subseteq Word
  BY <1>1, NextPcsWords
<1>3. halt_op(raw_inst) \in BOOLEAN
  BY DEF halt_op
<1>4. ErrorCodes(raw_inst) \subseteq Codes
  BY ProgramAssumption DEF ErrorCodes, ErrorCode
<1>5. PICK next_pc \in NextPcs, code \in ErrorCodes(raw_inst) :
        Tests(next_pc, halt_op(raw_inst), code)
  BY DEF Finish
<1>6. /\ status \in {"done", "taken"} /\ phase = "execute"
      /\ halted' = halt_op(raw_inst) /\ CountFaulted
      /\ UNCHANGED <<words, pc, fetch_fault, raw_inst>>
  BY DEF Finish
<1>7. M!Executed
  BY <1>6 DEF M!Executed, CountFaulted
<1>8. M!ERROR_NONE = ERROR_NONE
  BY SameCodes
<1>9. CASE \/ code # ERROR_NONE /\ Leave(code)
           \/ code = ERROR_NONE /\ halt_op(raw_inst) /\ Leave(0)
  <2>1. LoopPc' = LoopPc
    BY <1>6, <1>9 DEF Leave, LoopPc
  <2>2. M!Finish(next_pc, halt_op(raw_inst), code)
    BY <1>6, <1>7, <1>8, <1>9, <2>1 DEF M!Finish, M!Return, Leave
  <2>3. QED
    BY <1>2, <1>3, <1>4, <2>2
<1>10. CASE /\ code = ERROR_NONE /\ ~halt_op(raw_inst)
            /\ cpu_set_reg(PC_REGISTER_INDEX, next_pc)
            /\ status' = "ready"
            /\ IF LoopsAgain THEN phase' = "fetch" /\ UNCHANGED exit_code
               ELSE phase' = "returned" /\ exit_code' = 0
  <2>1. LoopPc' = next_pc
    BY <1>1, <1>10, Registers DEF LoopPc, R15, cpu_get_reg, cpu_set_reg, CpuTypeOK
  <2>2. M!Finish(next_pc, halt_op(raw_inst), code)
    BY <1>6, <1>7, <1>8, <1>10, <2>1
       DEF M!Finish, M!Return, M!LoopsAgain, LoopsAgain
  <2>3. QED
    BY <1>2, <1>3, <1>4, <2>2
<1>11. QED
  BY <1>5, <1>9, <1>10 DEF Tests

(* The answer of the executor keeps the invariant. *)
LEMMA FinishInv ==
  ASSUME SimulatorInv, Finish
  PROVE  SimulatorInv'
<1>1. PICK next_pc \in NextPcs, code \in ErrorCodes(raw_inst) :
        Tests(next_pc, halt_op(raw_inst), code)
  BY DEF Finish
<1>2. /\ M!TypeOK /\ pc \in Word /\ CpuTypeOK /\ next_pc \in Word
      /\ code \in Codes /\ 0 \in Codes
  BY NextPcsWords, ProgramAssumption
     DEF SimulatorInv, TypeOK, ErrorCodes, ErrorCode, ERROR_NONE
<1>3. /\ status \in {"done", "taken"} /\ halted' = halt_op(raw_inst)
      /\ faulted' \in {faulted, faulted + 1}
      /\ UNCHANGED <<cpsr, fault_out, compared, words, pc, fetch_fault, raw_inst>>
  BY DEF Finish, CountFaulted
<1>4. \/ phase' = "fetch" /\ fetch_fault = FAULT_NONE /\ exit_code' = exit_code
         /\ status' = "ready"
      \/ phase' = "returned" /\ exit_code' \in Codes /\ status' \in {"ready", status}
  BY <1>1, <1>2 DEF Tests, Leave, LoopsAgain
<1>5. regs' \in [RegisterIndex -> Word]
  BY <1>1, <1>2 DEF Tests, Leave, cpu_set_reg, CpuTypeOK
<1>6. CpuTypeOK' /\ pc' \in Word
  BY <1>2, <1>3, <1>5 DEF CpuTypeOK
<1>7. LoopPc' \in Word
  BY <1>6, Registers DEF LoopPc, R15, cpu_get_reg, CpuTypeOK
<1>8. M!TypeOK'
  BY <1>2, <1>3, <1>4, <1>7 DEF M!TypeOK, halt_op
<1>9. TypeOK'
  BY <1>3, <1>4, <1>6, <1>8 DEF SimulatorInv, TypeOK
<1>10. Turns' /\ FaultMeansZero' /\ ComparedInZ'
  BY <1>3, <1>4 DEF SimulatorInv, Turns, FaultMeansZero, ComparedInZ
<1>11. QED
  BY <1>9, <1>10 DEF SimulatorInv

(* The invariant holds of every program. *)
THEOREM SimulatorInvAlways == Spec => []SimulatorInv
<1>1. Init => SimulatorInv
  BY InitInv
<1>2. SimulatorInv /\ UNCHANGED vars => SimulatorInv'
  BY DEF vars, loop, SimulatorInv, TypeOK, M!TypeOK, CpuTypeOK, Turns,
         FaultMeansZero, ComparedInZ, LoopPc, R15, cpu_get_reg
<1>3. SimulatorInv /\ [Next]_vars => SimulatorInv'
  BY <1>2, FetchInv, EnterInv, RunInv, FinishInv DEF Next
<1>4. QED
  BY <1>1, <1>3, PTL DEF Spec

-----------------------------------------------------------------------------
(* What follows from it. *)

(* Whatever the handlers leave in R15, it and the address the loop fetches *)
(* from stay words, and the exit code is one the executor may give.        *)
THEOREM TypeCorrect == Spec => []TypeOK
<1>1. SimulatorInv => TypeOK
  BY DEF SimulatorInv
<1>2. QED
  BY <1>1, SimulatorInvAlways, PTL

(* A step of the simulator is a step of Main or leaves its state alone.    *)
LEMMA MainStep ==
  ASSUME SimulatorInv, [Next]_vars
  PROVE  M!Next \/ UNCHANGED M!vars
<1>1. CASE Fetch
  <2>1. /\ phase = "fetch" /\ fetch_fault = FAULT_NONE /\ M!fetch
        /\ phase' = "execute" /\ LoopPc' = LoopPc
        /\ UNCHANGED <<words, halted, exit_code, faulted>>
    BY <1>1 DEF Fetch, SimulatorInv, FaultMeansZero, Turns, LoopPc, R15, cpu_get_reg
  <2>2. QED
    BY <2>1 DEF M!Next, M!Fetch
<1>2. CASE Enter
  BY <1>2, EnterInv DEF Enter, loop, M!vars
<1>3. CASE Run
  <2>1. LoopPc' = LoopPc
    BY <1>3, RunInv
  <2>2. /\ phase = "execute"
        /\ UNCHANGED <<words, fetch_fault, raw_inst, halted, exit_code>>
        /\ IF status' = "aborted" THEN CountFaulted /\ phase' = "aborted"
           ELSE UNCHANGED <<faulted, phase>>
    BY <1>3 DEF Run
  <2>3. CASE status' = "aborted"
    <3>1. M!Abort
      BY <2>1, <2>2, <2>3 DEF M!Abort, M!Executed, CountFaulted
    <3>2. QED
      BY <3>1 DEF M!Next, M!Execute
  <2>4. CASE status' # "aborted"
    BY <2>1, <2>2, <2>4 DEF M!vars
  <2>5. QED
    BY <2>3, <2>4
<1>4. CASE Finish
  BY <1>4, FinishAnswers DEF M!Next, M!Execute
<1>5. CASE UNCHANGED vars
  BY <1>5 DEF vars, loop, M!vars, LoopPc, R15, cpu_get_reg
<1>6. QED
  BY <1>1, <1>2, <1>3, <1>4, <1>5 DEF Next

(* The simulator implements the loop of Main: a fetch is a fetch, entering *)
(* the executor and a handler that returns change nothing of the loop, one *)
(* that aborts ends it, and what main does with the answer is what Main    *)
(* allows, although R15 was the handlers' in between.                      *)
THEOREM ImplementsMain == Spec => RefinesMain
<1>1. Init => M!Init
  <2> SUFFICES ASSUME Init
               PROVE  M!Init
    OBVIOUS
  <2>1. LoopPc = M!INITIAL_PC
    BY Registers DEF Init, LoopPc, R15, cpu_get_reg, construct_registers
  <2>2. QED
    BY <2>1 DEF Init, M!Init
<1>2. SimulatorInv /\ [Next]_vars => [M!Next]_(M!vars)
  BY MainStep
<1>3. QED
  BY <1>1, <1>2, SimulatorInvAlways, PTL DEF Spec, RefinesMain

(* The word 0 that main.c executes after a failed fetch changes no register *)
(* and trips no assert.                                                    *)
THEOREM BogusHarmlessAlways == Spec => BogusHarmless
<1> DEFINE Bogus == phase = "execute" /\ status = "ahead" /\ fetch_fault # FAULT_NONE
           Harmless == status' = "done" /\ UNCHANGED regs
<1>1. SimulatorInv /\ [Next]_vars => [Bogus => Harmless]_vars
  <2> SUFFICES ASSUME SimulatorInv, Next, Bogus
               PROVE  Harmless
    OBVIOUS
  <2> DEFINE d == decode(ZeroWord)
  <2>1. Handle(ZeroWord)
    BY DEF Next, Fetch, Enter, Run, Finish, SimulatorInv, FaultMeansZero
  <2>2. data_proc_op(d)
    BY <2>1 DEF Handle, ZeroWord
  <2>3. d.op = "AND" /\ d.low = 0 /\ d.rn = 0 /\ d.immediate_mode = FALSE
    BY DEF decode, ZeroWord, OpCode
  <2> HIDE DEF d
  <2>4. 0 \in RegisterIndex /\ regs \in [RegisterIndex -> Word]
    BY RegisterCountAssumption DEF RegisterIndex, SimulatorInv, TypeOK, CpuTypeOK
  <2>5. Operand1(d) = regs[0] /\ Operand2(d) = regs[0]
    BY <2>3 DEF Operand1, Operand2, cpu_get_reg
  <2>6. Writable(d) /\ d.op \in HandledOps
    BY <2>3, RegisterCountAssumption DEF Writable, HandledOps
  <2>7. PICK s \in BOOLEAN : and_op(0, regs[0], regs[0], s) /\ Done
    BY <2>2, <2>3, <2>5, <2>6 DEF data_proc_op, Dispatch
  <2>8. BitAnd(regs[0], regs[0]) = regs[0]
    BY <2>4, BitwiseAssumption
  <2>9. regs' = [regs EXCEPT ![0] = regs[0]]
    BY <2>7, <2>8 DEF and_op, Store, cpu_set_reg
  <2>10. QED
    BY <2>4, <2>7, <2>9 DEF Done
<1>2. QED
  BY <1>1, SimulatorInvAlways, PTL DEF Spec, BogusHarmless

(* BEQ and BNE obey the last CMP across whatever leaves the flags alone.   *)
THEOREM BranchesOnComparisonAlways == Spec => BranchesOnComparison
<1> DEFINE Deciding == /\ phase = "execute" /\ status = "ahead" /\ compared # "none"
                       /\ raw_inst.kind = "b" /\ raw_inst.cond \in {EQ, NE}
           Decided == status' = "taken" <=> (compared = "equal" <=> raw_inst.cond = EQ)
<1>1. SimulatorInv /\ [Next]_vars => [Deciding => Decided]_vars
  <2> SUFFICES ASSUME SimulatorInv, Next, Deciding
               PROVE  Decided
    OBVIOUS
  <2>1. Handle(raw_inst)
    BY DEF Next, Fetch, Enter, Run, Finish
  <2>2. b_op(decode_b(raw_inst)) /\ decode_b(raw_inst).cond = raw_inst.cond
    BY <2>1 DEF Handle, decode_b
  <2>3. status' = "taken" <=> Passed(raw_inst.cond)
    <3> DEFINE b == decode_b(raw_inst)
    <3>1. b_op(b) /\ b.cond = raw_inst.cond
      BY <2>2
    <3> HIDE DEF b
    <3>2. QED
      BY <3>1, BranchWrites
  <2>4. compared = "equal" <=> "Z" \in cpsr
    BY DEF SimulatorInv, ComparedInZ
  <2>5. CASE raw_inst.cond = EQ
    BY <2>3, <2>4, <2>5, ConditionReads DEF Passed, CondSupported, CondCode
  <2>6. CASE raw_inst.cond = NE
    <3>1. NE # EQ
      BY DEF NE, EQ
    <3>2. QED
      BY <2>3, <2>4, <2>6, <3>1, ConditionReads DEF Passed, CondSupported, CondCode
  <2>7. QED
    BY <2>5, <2>6
<1>2. QED
  BY <1>1, SimulatorInvAlways, PTL DEF Spec, BranchesOnComparison
-----------------------------------------------------------------------------
(* What the loop of Main keeps, kept around the real handlers. *)

LoopKept ==
  /\ phase # "fetch_aborted"
  /\ phase \in {"fetch", "execute"} => faulted = 0
  /\ M!OneBogusInstruction
  /\ M!ReturnExplained

(* Every step of Main keeps it, and so every step of the simulator.        *)
LEMMA LoopKeptInv ==
  ASSUME SimulatorInv, LoopKept, [Next]_vars
  PROVE  LoopKept'
<1>1. CASE M!Fetch
  <2>1. /\ M!fetch /\ phase' = "execute" /\ phase = "fetch"
        /\ UNCHANGED <<words, faulted>> /\ LoopPc' = LoopPc
        /\ fetch_fault = FAULT_NONE
    BY <1>1 DEF M!Fetch, SimulatorInv, FaultMeansZero
  <2>2. {M!FAULT_ALIGNMENT, M!FAULT_OUT_OF_BOUNDS} \subseteq Int \ {FAULT_NONE}
    BY FaultAssumption, SameCodes
       DEF M!FAULT_ALIGNMENT, M!FAULT_OUT_OF_BOUNDS, M!ErrorCode, M!ERROR_NONE
  <2>3. \/ fetch_fault' # FAULT_NONE /\ raw_inst' = ZeroWord
        \/ LoopPc % 4 = 0 /\ M!index < WORD_COUNT /\ raw_inst' = words[M!index]
    BY <2>1, <2>2 DEF M!fetch, M!Fail
  <2>4. QED
    BY <2>1, <2>3 DEF LoopKept, M!OneBogusInstruction, M!ReturnExplained, M!index
<1>2. CASE M!Abort
  BY <1>2 DEF M!Abort, M!Executed, LoopKept, M!OneBogusInstruction, M!ReturnExplained
<1>3. ASSUME NEW next_pc \in Word, NEW should_halt \in BOOLEAN, NEW code \in Codes,
             M!Finish(next_pc, should_halt, code)
      PROVE  LoopKept'
  <2>1. /\ phase = "execute" /\ faulted = 0 /\ UNCHANGED <<words, fetch_fault, raw_inst>>
        /\ faulted' = IF fetch_fault = FAULT_NONE THEN 0 ELSE 1
        /\ halted' = should_halt
    BY <1>3 DEF M!Finish, M!Executed, LoopKept
  <2>2. \/ phase' = "fetch" /\ fetch_fault = FAULT_NONE
        \/ /\ phase' = "returned"
           /\ exit_code' # 0 \/ halted' \/ fetch_fault # FAULT_NONE
    BY <1>3, <2>1, SameCodes DEF M!Finish, M!LoopsAgain, M!Return, M!ERROR_NONE
  <2>3. QED
    BY <2>1, <2>2 DEF LoopKept, M!OneBogusInstruction, M!ReturnExplained
<1>4. CASE UNCHANGED M!vars
  BY <1>4 DEF M!vars, LoopKept, M!OneBogusInstruction, M!ReturnExplained, M!index
<1>5. QED
  BY <1>1, <1>2, <1>3, <1>4, MainStep DEF M!Next, M!Execute

(* Whatever the handlers do to the registers, the simulator executes no    *)
(* word but those its addresses name, except the word 0 once after a       *)
(* failed fetch, and it returns for one of the reasons main has.           *)
THEOREM LoopKeptAlways == Spec => [](M!OneBogusInstruction /\ M!ReturnExplained)
<1>1. Init => LoopKept
  BY DEF Init, LoopKept, M!OneBogusInstruction, M!ReturnExplained
<1>2. SimulatorInv /\ LoopKept /\ [Next]_vars => LoopKept'
  BY LoopKeptInv
<1>3. LoopKept => M!OneBogusInstruction /\ M!ReturnExplained
  BY DEF LoopKept
<1>4. QED
  BY <1>1, <1>2, <1>3, SimulatorInvAlways, PTL DEF Spec
-----------------------------------------------------------------------------
(* Straight-line programs. *)

(* The handler of a straight-line instruction returns and leaves R15 alone. *)
LEMMA StraightHandles ==
  ASSUME CpuTypeOK, NEW raw \in Instructions, StraightLine(raw), Handle(raw)
  PROVE  status' = "done" /\ regs'[PC_REGISTER_INDEX] = regs[PC_REGISTER_INDEX]
<1>1. CASE raw.kind \in {"nop", "halt"}
  BY <1>1 DEF Handle, nop_op, Done
<1>2. CASE raw.kind = "mul"
  <2>1. /\ mul_op(raw.rd, cpu_get_reg(raw.ra), cpu_get_reg(raw.rb)) /\ Done
        /\ raw.rd # PC_REGISTER_INDEX
    BY <1>2 DEF Handle, StraightLine, RawPlain
  <2>2. /\ raw.rd \in RegisterIndex
        /\ cpu_get_reg(raw.ra) \in Word /\ cpu_get_reg(raw.rb) \in Word
    BY <1>2, Classes DEF RawMul, CpuTypeOK, cpu_get_reg
  <2>3. TRUE \in BOOLEAN
    OBVIOUS
  <2>4. \A other \in RegisterIndex \ {raw.rd} : regs'[other] = regs[other]
    BY <2>1, <2>2, <2>3, OperationsKeepTypes
  <2>5. QED
    BY <2>1, <2>4, Registers DEF Done
<1>3. CASE raw.kind = "data"
  <2> DEFINE d == decode(raw)
             a == Operand1(d)
             b == Operand2(d)
  <2>1. data_proc_op(d) /\ d.low = raw.low
    BY <1>3 DEF Handle, decode
  <2>2. d.op \in HandledOps /\ (d.op = "CMP" \/ raw.low < PC_REGISTER_INDEX)
    BY <1>3 DEF StraightLine, RawPlain
  <2>3. a \in Word /\ b \in Word /\ d.low \in Nat
    BY <1>3, Operands
  <2> HIDE DEF d
  <2>4. Writable(d)
    BY <2>1, <2>2, <2>3, RegisterCountAssumption DEF Writable, PC_REGISTER_INDEX
  <2>5. Dispatch(d, a, b) /\ Done
    BY <2>1, <2>2, <2>4 DEF data_proc_op
  <2> HIDE DEF a, b
  <2>6. CASE d.op = "CMP"
    <3>1. cmp_op(a, b)
      BY <2>5, <2>6 DEF Dispatch
    <3>2. QED
      BY <2>3, <2>5, <3>1, TestsKeepTypes DEF Done
  <2>7. CASE d.op # "CMP"
    <3>1. d.low \in RegisterIndex /\ d.low # PC_REGISTER_INDEX
      BY <2>1, <2>2, <2>3, <2>7, RegisterCountAssumption
         DEF PC_REGISTER_INDEX, RegisterIndex
    <3>2. \E x \in Word, y \in Word, s \in BOOLEAN :
            \/ mov_op(d.low, y, s) \/ orr_op(d.low, x, y) \/ add_op(d.low, x, y, s)
            \/ sub_op(d.low, x, y, s) \/ and_op(d.low, x, y, s)
      <4>1. (b # 0) \in BOOLEAN /\ TRUE \in BOOLEAN
        OBVIOUS
      <4>2. QED
        BY <2>3, <2>5, <2>7, <4>1 DEF Dispatch
    <3>3. \A other \in RegisterIndex \ {d.low} : regs'[other] = regs[other]
      BY <3>1, <3>2, OperationsKeepTypes
    <3>4. QED
      BY <2>5, <3>1, <3>3, Registers DEF Done
  <2>8. QED
    BY <2>6, <2>7
<1>4. QED
  BY <1>1, <1>2, <1>3 DEF StraightLine, RawPlain

(* While a straight-line program runs, its instructions are straight-line  *)
(* ones, no assert fails, and R15 reads ahead of the address from the      *)
(* executor's entry until the loop moves on.                               *)
OnCourse ==
  /\ phase \notin {"aborted", "fetch_aborted"}
  /\ phase = "execute" =>
       /\ StraightLine(raw_inst)
       /\ status \in {"ready", "ahead", "done"}
       /\ status # "ready" => R15 = Wrap(pc + PC_BIAS)

StraightInv == StraightProgram => OnCourse

(* The word 0 a failed fetch returns is one of them. *)
LEMMA ZeroWordStraight == StraightLine(ZeroWord)
<1>1. ZeroWord.kind = "data" /\ decode(ZeroWord).op = "AND" /\ ZeroWord.low = 0
  BY DEF ZeroWord, decode, OpCode
<1>2. 0 < PC_REGISTER_INDEX
  BY RegisterCountAssumption DEF PC_REGISTER_INDEX
<1>3. QED
  BY <1>1, <1>2 DEF StraightLine, HandledOps

(* A step of the loop keeps a straight-line program on course. *)
LEMMA StraightStep ==
  ASSUME SimulatorInv, StraightInv, [Next]_vars
  PROVE  /\ StraightInv'
         /\ StraightProgram /\ phase = "execute" /\ phase' = "fetch"
              => R15' = Wrap(pc + WORD_SIZE_BYTES)
<1>1. words' = words
  BY DEF Next, Fetch, Enter, Run, Finish, vars, loop
<1>2. CASE ~StraightProgram
  BY <1>1, <1>2 DEF StraightInv, StraightProgram
<1>3. CASE StraightProgram
  <2>1. OnCourse
    BY <1>3 DEF StraightInv
  <2>2. CASE Fetch
    <3>1. /\ phase = "fetch" /\ phase' = "execute" /\ M!fetch
          /\ status = "ready" /\ status' = "ready"
      BY <2>2 DEF Fetch, SimulatorInv, FaultMeansZero, Turns
    <3>2. words \in [0 .. WORD_COUNT - 1 -> Instructions] /\ LoopPc \in Word
      BY DEF SimulatorInv, TypeOK, M!TypeOK
    <3>3. M!index < WORD_COUNT => M!index \in 0 .. WORD_COUNT - 1
      BY <3>2, ProgramAssumption, BranchAssumption, Widths DEF M!index
    <3>4. StraightLine(raw_inst')
      BY <1>3, <3>1, <3>2, <3>3, ZeroWordStraight DEF M!fetch, M!Fail, StraightProgram
    <3>5. OnCourse'
      <4>1. StraightLine(raw_inst)'
        BY <3>4 DEF StraightLine, RawPlain, decode, PC_REGISTER_INDEX, HandledOps, OpCode
      <4>2. QED
        BY <2>1, <3>1, <4>1 DEF OnCourse
    <3>6. QED
      BY <3>1, <3>5 DEF StraightInv
  <2>3. CASE Enter
    <3>1. /\ R15' = Wrap(pc' + PC_BIAS) /\ status' = "ahead"
          /\ phase = "execute" /\ UNCHANGED loop
      BY <2>3, EnterInv DEF Enter
    <3>2. QED
      BY <2>1, <3>1 DEF loop, StraightInv, OnCourse, StraightLine, decode
  <2>4. CASE Run
    <3>1. /\ raw_inst \in Instructions /\ CpuTypeOK /\ StraightLine(raw_inst)
          /\ Handle(raw_inst) /\ phase = "execute" /\ status = "ahead"
      BY <2>1, <2>4 DEF Run, OnCourse, SimulatorInv, TypeOK, M!TypeOK
    <3>2. status' = "done" /\ R15' = R15
      BY <3>1, StraightHandles DEF R15, cpu_get_reg
    <3>3. UNCHANGED <<pc, phase, raw_inst>>
      BY <2>4, <3>2 DEF Run
    <3>4. QED
      BY <2>1, <3>1, <3>2, <3>3 DEF StraightInv, OnCourse, StraightLine, decode
  <2>5. CASE Finish
    <3>1. status = "done" /\ NextPcs = {Wrap(pc + WORD_SIZE_BYTES)}
      BY <2>1, <2>5 DEF Finish, OnCourse, NextPcs
    <3>2. PICK code \in ErrorCodes(raw_inst) :
            Tests(Wrap(pc + WORD_SIZE_BYTES), halt_op(raw_inst), code)
      BY <2>5, <3>1 DEF Finish
    <3>3. \/ phase' = "returned"
          \/ /\ phase' = "fetch"
             /\ cpu_set_reg(PC_REGISTER_INDEX, Wrap(pc + WORD_SIZE_BYTES))
      BY <3>2 DEF Tests, Leave
    <3>4. phase' = "fetch" => R15' = Wrap(pc + WORD_SIZE_BYTES)
      BY <3>3, Registers DEF R15, cpu_get_reg, cpu_set_reg, SimulatorInv, TypeOK, CpuTypeOK
    <3>5. QED
      BY <3>3, <3>4 DEF StraightInv, OnCourse
  <2>6. CASE UNCHANGED vars
    BY <2>1, <2>6 DEF vars, loop, StraightInv, OnCourse, StraightLine, decode, R15, cpu_get_reg
  <2>7. QED
    BY <2>2, <2>3, <2>4, <2>5, <2>6 DEF Next
<1>4. QED
  BY <1>2, <1>3

(* A straight-line program holds its course from the start. *)
LEMMA StraightInvAlways == Spec => []StraightInv
<1>1. Init => StraightInv
  BY DEF Init, StraightInv, OnCourse
<1>2. SimulatorInv /\ StraightInv /\ [Next]_vars => StraightInv'
  BY StraightStep
<1>3. QED
  BY <1>1, <1>2, SimulatorInvAlways, PTL DEF Spec

(* No assert fails in a straight-line program, and with every step of the  *)
(* loop that does not return it moves to the next word, whatever its       *)
(* instructions leave in the other registers.                              *)
THEOREM StraightLineAdvancesAlways == Spec => StraightLineAdvances
<1> DEFINE Advances ==
             StraightProgram =>
               /\ phase' \notin {"aborted", "fetch_aborted"}
               /\ phase = "execute" /\ phase' = "fetch" => R15' = Wrap(pc + WORD_SIZE_BYTES)
<1>1. SimulatorInv /\ StraightInv /\ [Next]_vars => [Advances]_vars
  <2> SUFFICES ASSUME SimulatorInv, StraightInv, Next, StraightProgram
               PROVE  Advances
    OBVIOUS
  <2>1. words' = words
    BY DEF Next, Fetch, Enter, Run, Finish, loop
  <2>2. OnCourse'
    BY <2>1, StraightStep DEF StraightInv, StraightProgram, StraightLine
  <2>3. QED
    BY <2>2, StraightStep DEF OnCourse
<1>2. QED
  BY <1>1, SimulatorInvAlways, StraightInvAlways, PTL DEF Spec, StraightLineAdvances
=============================================================================
