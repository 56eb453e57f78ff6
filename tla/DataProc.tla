------------------------------ MODULE DataProc ------------------------------
(***************************************************************************)
(* The data-processing class, one instruction per step, any instruction    *)
(* after any other.  Whether a recorded warning stops the program is up to *)
(* the executor, which is not in the repository; here it goes on, with the *)
(* warning still recorded.                                                 *)
(***************************************************************************)
EXTENDS DataProcInstructions

CONSTANTS
  ConditionFields,   \* condition fields an instruction may carry
  OpFields,          \* operation fields an instruction may carry
  Immediates,        \* 8-bit immediates an instruction may carry
  HighFields,        \* shift or rotate fields an instruction may carry
  SFields            \* values of the S bit an instruction may carry

ASSUME DataProcAssumption ==
  /\ ConditionFields \subseteq 0 .. 15
  /\ OpFields \subseteq 0 .. 15
  /\ Immediates \subseteq Word
  /\ HighFields \subseteq 0 .. 255
  /\ SFields \subseteq BOOLEAN

VARIABLE inst   \* the last instruction decoded

vars == <<regs, cpsr, fault_out, status, inst>>

(* The fields of an instruction word.  Register fields have four bits, so  *)
(* they name every register and nothing else.                              *)
Raw ==
  [cond : ConditionFields, i : BOOLEAN, op : OpFields, s : SFields,
   rn : RegisterIndex, rd : RegisterIndex,
   low : RegisterIndex \cup Immediates, high : HighFields]

WellFormed(raw) == raw.low \in IF raw.i THEN Immediates ELSE RegisterIndex

NoInstruction == [raw |-> "none"]

Init ==
  /\ construct_cpu_state
  /\ fault_out = FAULT_NONE
  /\ status = "done"
  /\ inst = NoInstruction

(* Decode and execute until an assert fails. *)
Next ==
  /\ status = "done"
  /\ \E raw \in Raw :
       /\ WellFormed(raw)
       /\ inst' = decode(raw)
       /\ data_proc_op(decode(raw))

Spec == Init /\ [][Next]_vars

-----------------------------------------------------------------------------
(* Registers stay words, flags flags, and an assert is the only other end. *)
TypeOK ==
  /\ CpuTypeOK
  /\ fault_out \in {FAULT_NONE, WARNING_PC_USED_AS_OPERAND}
  /\ status \in {"done", "aborted"}
  /\ inst = NoInstruction \/ \E raw \in Raw : WellFormed(raw) /\ inst = decode(raw)

(* An instruction writes one register at most, CMP none. *)
AtMostOneRegister ==
  [][ \A reg \in RegisterIndex :
        regs'[reg] # regs[reg] => reg = inst'.low /\ inst'.op # "CMP" ]_vars

(* In register form R15 is never overwritten silently: the result register *)
(* is the one the second check looked at.                                  *)
RegisterFormWarns ==
  [][ (~inst'.immediate_mode
         /\ regs'[PC_REGISTER_INDEX] # regs[PC_REGISTER_INDEX]) =>
        fault_out' = WARNING_PC_USED_AS_OPERAND ]_vars

Executed(op) == status' = "done" /\ inst'.op = op

(* CMP followed by EQ decides equality of the operands, in either form and *)
(* from any flags.                                                         *)
CompareDecides ==
  [][ Executed("CMP") =>
        (cond_passed(EQ, cpsr') <=> Operand1(inst') = Operand2(inst')) ]_vars

(* instructions_enums.h: if (writes_result) Rd := result.  In either form   *)
(* of operand 2 an ADD puts its result there, and no assert is in the way. *)
ResultInRd ==
  [][ inst'.op = "ADD" =>
        /\ status' = "done"
        /\ regs'[inst'.rd] = (Operand1(inst') + Operand2(inst')) % WORD_MODULUS ]_vars
=============================================================================
