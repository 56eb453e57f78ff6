--------------------------- MODULE DataProcProofs ---------------------------
(***************************************************************************)
(* Proofs about the data-processing class, for every width of a word,      *)
(* every number of registers and every choice of instruction fields.       *)
(***************************************************************************)
EXTENDS DataProc, InstructionProofs

(* The fields of a decoded instruction, and its operands, are words.       *)
LEMMA DecodedFields ==
  ASSUME CpuTypeOK, NEW raw \in Raw, WellFormed(raw), NEW d, d = decode(raw)
  PROVE  /\ d.low \in Nat
         /\ d.rn \in RegisterIndex /\ d.rd \in RegisterIndex
         /\ d.immediate_mode \in BOOLEAN
         /\ ~d.immediate_mode => d.low \in RegisterIndex
         /\ Operand1(d) \in Word /\ Operand2(d) \in Word
<1>1. /\ d.low = raw.low /\ d.rn = raw.rn /\ d.rd = raw.rd
      /\ d.immediate_mode = raw.i
  BY DEF decode
<1>2. /\ raw.low \in IF raw.i THEN Immediates ELSE RegisterIndex
      /\ raw.rn \in RegisterIndex /\ raw.rd \in RegisterIndex /\ raw.i \in BOOLEAN
  BY DEF Raw, WellFormed
<1>3. Word \subseteq Nat /\ RegisterIndex \subseteq Nat /\ Immediates \subseteq Word
  BY DataProcAssumption DEF Word, RegisterIndex
<1>4. \A reg \in RegisterIndex : cpu_get_reg(reg) \in Word
  BY DEF CpuTypeOK, cpu_get_reg
<1>5. Operand1(d) \in Word /\ Operand2(d) \in Word
  BY <1>1, <1>2, <1>3, <1>4 DEF Operand1, Operand2
<1>6. QED
  BY <1>1, <1>2, <1>3, <1>5

(* The destination is the register in the low field, and only a comparison *)
(* goes without one.                                                       *)
LEMMA DispatchWrites ==
  ASSUME CpuTypeOK, NEW d, NEW a \in Word, NEW b \in Word,
         d.low \in RegisterIndex \/ d.op = "CMP",
         Dispatch(d, a, b)
  PROVE  /\ CpuTypeOK'
         /\ \A reg \in RegisterIndex :
              regs'[reg] # regs[reg] => reg = d.low /\ d.op # "CMP"
<1>1. CASE d.op = "CMP"
  <2>1. cmp_op(a, b)
    BY <1>1 DEF Dispatch
  <2>2. QED
    BY <2>1, TestsKeepTypes
<1>2. CASE d.op # "CMP"
  <2>1. d.low \in RegisterIndex
    BY <1>2
  <2>2. CASE d.op = "MOV" /\ mov_op(d.low, a, b # 0)
    <3>1. (b # 0) \in BOOLEAN
      OBVIOUS
    <3>2. QED
      BY <1>2, <2>1, <2>2, <3>1, OperationsKeepTypes
  <2>3. CASE d.op = "ORR" /\ orr_op(d.low, a, b)
    <3>1. TRUE \in BOOLEAN
      OBVIOUS
    <3>2. QED
      BY <1>2, <2>1, <2>3, <3>1, OperationsKeepTypes
  <2>4. CASE \E s \in BOOLEAN :
               add_op(d.low, a, b, s) \/ sub_op(d.low, a, b, s) \/ and_op(d.low, a, b, s)
    BY <1>2, <2>1, <2>4, OperationsKeepTypes
  <2>5. QED
    BY <1>2, <2>2, <2>3, <2>4 DEF Dispatch
<1>3. QED
  BY <1>1, <1>2

(* data_proc_op as a whole: what a call leaves behind.                     *)
LEMMA DataProcWrites ==
  ASSUME CpuTypeOK, NEW raw \in Raw, WellFormed(raw), NEW d, d = decode(raw),
         data_proc_op(d)
  PROVE  /\ CpuTypeOK' /\ status' \in {"done", "aborted"}
         /\ \A reg \in RegisterIndex :
              regs'[reg] # regs[reg] => reg = d.low /\ d.op # "CMP"
<1>1. /\ d.low \in Nat /\ Operand1(d) \in Word /\ Operand2(d) \in Word
  BY DecodedFields
<1>2. CASE Abort
  BY <1>2 DEF Abort, CpuTypeOK
<1>3. CASE /\ Writable(d) /\ Dispatch(d, Operand1(d), Operand2(d)) /\ Done
  <2>1. d.low \in RegisterIndex \/ d.op = "CMP"
    BY <1>1, <1>3, RegisterCountAssumption DEF Writable, RegisterIndex
  <2>2. QED
    BY <1>1, <1>3, <2>1, DispatchWrites DEF Done
<1>4. QED
  BY <1>2, <1>3 DEF data_proc_op

(* A step decodes some instruction and runs it.                            *)
LEMMA StepRuns ==
  ASSUME Next
  PROVE  \E raw \in Raw :
           WellFormed(raw) /\ inst' = decode(raw) /\ data_proc_op(inst')
BY DEF Next

-----------------------------------------------------------------------------
(* Registers stay words and flags flags, whatever instructions follow one  *)
(* another.                                                                *)
THEOREM TypeCorrect == Spec => []TypeOK
<1>1. Init => TypeOK
  <2> SUFFICES ASSUME Init
               PROVE  TypeOK
    OBVIOUS
  <2>1. CpuTypeOK
    BY SignBitAssumption
       DEF Init, construct_cpu_state, construct_registers, construct_cpsr,
           CpuTypeOK, Word, WORD_MODULUS
  <2>2. QED
    BY <2>1 DEF Init, TypeOK
<1>2. TypeOK /\ [Next]_vars => TypeOK'
  <2> SUFFICES ASSUME TypeOK, [Next]_vars
               PROVE  TypeOK'
    OBVIOUS
  <2>1. CASE Next
    <3>1. PICK raw \in Raw :
            WellFormed(raw) /\ inst' = decode(raw) /\ data_proc_op(inst')
      BY <2>1, StepRuns
    <3>2. CpuTypeOK' /\ status' \in {"done", "aborted"}
      BY <3>1, DataProcWrites DEF TypeOK
    <3>3. fault_out' \in {FAULT_NONE, WARNING_PC_USED_AS_OPERAND}
      BY <3>1 DEF data_proc_op, TypeOK
    <3>4. QED
      BY <3>1, <3>2, <3>3 DEF TypeOK, WellFormed, Raw
  <2>2. CASE UNCHANGED vars
    BY <2>2 DEF vars, TypeOK, CpuTypeOK, Raw, WellFormed, decode
  <2>3. QED
    BY <2>1, <2>2
<1>3. QED
  BY <1>1, <1>2, PTL DEF Spec

(* No instruction writes two registers, and CMP writes none.               *)
THEOREM AtMostOneRegisterAlways == Spec => AtMostOneRegister
<1> DEFINE One == \A reg \in RegisterIndex :
                    regs'[reg] # regs[reg] => reg = inst'.low /\ inst'.op # "CMP"
<1>1. TypeOK /\ [Next]_vars => [One]_vars
  <2> SUFFICES ASSUME TypeOK, Next
               PROVE  One
    OBVIOUS
  <2>1. QED
    BY StepRuns, DataProcWrites DEF TypeOK
<1>2. QED
  BY <1>1, TypeCorrect, PTL DEF Spec, AtMostOneRegister

(* In register form a write of R15 is never silent: the warning about the  *)
(* operand fields covers the register that is really written.              *)
THEOREM RegisterFormWarnsAlways == Spec => RegisterFormWarns
<1> DEFINE Written == /\ ~inst'.immediate_mode
                      /\ regs'[PC_REGISTER_INDEX] # regs[PC_REGISTER_INDEX]
<1>1. TypeOK /\ [Next]_vars =>
        [Written => fault_out' = WARNING_PC_USED_AS_OPERAND]_vars
  <2> SUFFICES ASSUME TypeOK, Next, Written
               PROVE  fault_out' = WARNING_PC_USED_AS_OPERAND
    OBVIOUS
  <2>1. PICK raw \in Raw :
          WellFormed(raw) /\ inst' = decode(raw) /\ data_proc_op(inst')
    BY StepRuns
  <2>2. PC_REGISTER_INDEX \in RegisterIndex
    BY RegisterCountAssumption DEF RegisterIndex, PC_REGISTER_INDEX
  <2>3. inst'.low = PC_REGISTER_INDEX
    BY <2>1, <2>2, DataProcWrites DEF TypeOK
  <2>4. UsesPc(inst')
    BY <2>3 DEF UsesPc
  <2>5. QED
    BY <2>1, <2>4 DEF data_proc_op
<1>2. QED
  BY <1>1, TypeCorrect, PTL DEF Spec, RegisterFormWarns

(* CMP and EQ decide equality of the operands through the real dispatch,   *)
(* decoder and operand choice, for words of every width.                   *)
THEOREM CompareDecidesAlways == Spec => CompareDecides
<1> DEFINE Decided == cond_passed(EQ, cpsr') <=> Operand1(inst') = Operand2(inst')
<1>1. TypeOK /\ [Next]_vars => [Executed("CMP") => Decided]_vars
  <2> SUFFICES ASSUME TypeOK, Next, Executed("CMP")
               PROVE  Decided
    OBVIOUS
  <2>1. PICK raw \in Raw :
          WellFormed(raw) /\ inst' = decode(raw) /\ data_proc_op(inst')
    BY StepRuns
  <2> DEFINE a == Operand1(inst')
             b == Operand2(inst')
  <2>2. a \in Word /\ b \in Word
    BY <2>1, DecodedFields DEF TypeOK
  <2>3. cmp_op(a, b)
    BY <2>1 DEF Executed, data_proc_op, Abort, Dispatch
  <2> HIDE DEF a, b
  <2>4. "Z" \in cpsr' <=> a = b
    BY <2>2, <2>3, CompareDecidesEquality
  <2>5. cond_passed(EQ, cpsr') <=> "Z" \in cpsr'
    BY ConditionReads
  <2>6. QED
    BY <2>4, <2>5 DEF a, b
<1>2. QED
  BY <1>1, TypeCorrect, PTL DEF Spec, CompareDecides
=============================================================================
