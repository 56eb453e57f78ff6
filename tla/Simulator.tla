----------------------------- MODULE Simulator ------------------------------
(***************************************************************************)
(* The whole simulator: the loop of src/main.c around the handlers of all  *)
(* instruction classes, on one processor.  The executor between the two is *)
(* not in the repository.  It is modelled as what the two sides demand of  *)
(* it: it makes R15, which the loop keeps at the address it fetches from,  *)
(* read ahead for the handler, dispatches on the class, and answers with   *)
(* an ExecResult.                                                          *)
(***************************************************************************)
EXTENDS DataProcInstructions, BranchInstructions

CONSTANTS
  WORD_COUNT,     \* mem->word_count
  Instructions,   \* the instruction words a program is made of
  Codes           \* the values an ExecResult.error_code may hold

(* The fields of a word, by class; those of mul_op are its DecodedInst.    *)
RawData == [kind : {"data"}, cond : 0 .. 15, i : BOOLEAN, op : 0 .. 15,
            s : BOOLEAN, rn : RegisterIndex, rd : RegisterIndex,
            low : Word, high : 0 .. 255]
RawMul == [kind : {"mul"}, rd : RegisterIndex, ra : RegisterIndex, rb : RegisterIndex]
RawB == [kind : {"b"}, cond : 0 .. 15, link : BOOLEAN, imm24 : 0 .. 2 * IMM24_SIGN - 1]
RawBx == [kind : {"bx"}, cond : 0 .. 15, rn : RegisterIndex]
RawPlain == [kind : {"nop", "halt"}]

(* What the word 0 decodes to: AND of R0 with itself. *)
ZeroWord ==
  [kind |-> "data", cond |-> 0, i |-> FALSE, op |-> 0, s |-> FALSE,
   rn |-> 0, rd |-> 0, low |-> 0, high |-> 0]

ASSUME BranchAssumption == AddressWidths

ASSUME ProgramAssumption ==
  /\ WORD_COUNT \in Nat \ {0}
  /\ ZeroWord \in Instructions
  /\ Instructions \subseteq RawData \cup RawMul \cup RawB \cup RawBx \cup RawPlain
  /\ \A raw \in Instructions \cap RawData : raw.i \/ raw.low \in RegisterIndex
  /\ ErrorCode \subseteq Codes /\ Codes \subseteq Int

VARIABLES
  words, pc, fetch_fault, phase, raw_inst, halted, exit_code, faulted,
  compared   \* what the last CMP compared, while its flags stand (history)

loop == <<words, pc, fetch_fault, phase, raw_inst, halted, exit_code, faulted>>
vars == <<regs, cpsr, status, fault_out, compared, loop>>

R15 == cpu_get_reg(PC_REGISTER_INDEX)

(* What Main calls the program counter.  Between two executions, status    *)
(* "ready", that is R15; from the executor's entry on the handlers have    *)
(* R15, and what is left of it is pc, the constant local to the loop's     *)
(* body.  fetch_fault is the fault_out of main; that of the handlers is    *)
(* another, in the executor.                                               *)
LoopPc == IF status = "ready" THEN R15 ELSE pc

M == INSTANCE Main WITH
       pc <- LoopPc, fault_out <- fetch_fault,
       Addresses <- Word, Words <- Instructions, Zero <- ZeroWord

Init ==
  /\ words \in [0 .. WORD_COUNT - 1 -> Instructions]
  /\ regs = [construct_registers EXCEPT ![PC_REGISTER_INDEX] = M!INITIAL_PC]
  /\ cpsr = construct_cpsr
  /\ pc = M!INITIAL_PC
  /\ fetch_fault = FAULT_NONE
  /\ phase = "fetch"
  /\ raw_inst = ZeroWord
  /\ halted = FALSE
  /\ exit_code = 0
  /\ faulted = 0
  /\ status = "ready"
  /\ fault_out = FAULT_NONE
  /\ compared = "none"

(* The loop reads R15 and fetches from there; fetch asserts first.         *)
Fetch ==
  /\ phase = "fetch"
  /\ pc' = R15
  /\ IF fetch_fault = FAULT_NONE
     THEN M!fetch /\ phase' = "execute"
     ELSE phase' = "fetch_aborted" /\ UNCHANGED <<fetch_fault, raw_inst>>
  /\ UNCHANGED <<regs, cpsr, status, fault_out, compared,
                 words, halted, exit_code, faulted>>

(* The executor starts: R15 reads ahead for the handler, and no fault of   *)
(* an instruction is recorded yet.                                         *)
Enter ==
  /\ phase = "execute" /\ status = "ready"
  /\ cpu_set_reg(PC_REGISTER_INDEX, Wrap(R15 + PC_BIAS))
  /\ status' = "ahead"
  /\ fault_out' = FAULT_NONE
  /\ UNCHANGED <<cpsr, compared, loop>>

nop_op == Done /\ UNCHANGED <<regs, cpsr>>

(* halt_op leaves the processor alone; all it does is in the result.       *)
halt_op(raw) == raw.kind = "halt"

Handle(raw) ==
  \/ raw.kind = "data" /\ data_proc_op(decode(raw))
  \/ /\ UNCHANGED fault_out
     /\ \/ raw.kind = "mul" /\ mul_op(raw.rd, cpu_get_reg(raw.ra), cpu_get_reg(raw.rb)) /\ Done
        \/ raw.kind = "b" /\ b_op(decode_b(raw))
        \/ raw.kind = "bx" /\ bx_op(decode_bx(raw))
        \/ raw.kind \in {"nop", "halt"} /\ nop_op

(* ORR has no S bit; every other operation may set flags.                  *)
MaySetFlags(raw) == raw.kind = "mul" \/ (raw.kind = "data" /\ decode(raw).op # "ORR")

Remember(raw) ==
  LET d == decode(raw)
  IN  compared' = IF ~MaySetFlags(raw) THEN compared
                  ELSE IF raw.kind = "mul" \/ d.op # "CMP" THEN "none"
                  ELSE IF Operand1(d) = Operand2(d) THEN "equal" ELSE "different"

(* Whatever ends an instruction executed after a failed fetch counts it.   *)
CountFaulted == faulted' = IF fetch_fault = FAULT_NONE THEN faulted ELSE faulted + 1

(* The handler runs; if it fails an assert the loop ends here.             *)
Run ==
  /\ phase = "execute" /\ status = "ahead"
  /\ Handle(raw_inst)
  /\ Remember(raw_inst)
  /\ IF status' = "aborted" THEN CountFaulted /\ phase' = "aborted"
     ELSE UNCHANGED <<faulted, phase>>
  /\ UNCHANGED <<words, pc, fetch_fault, raw_inst, halted, exit_code>>

(* A taken branch names the next instruction in R15.  Whether another      *)
(* write of R15 is a jump is the executor's choice.                        *)
NextPcs ==
  IF status = "taken" THEN {R15}
  ELSE {Wrap(pc + WORD_SIZE_BYTES)} \cup ({R15} \ {Wrap(pc + PC_BIAS)})

(* data_proc_op returns no value, so that its caller reads an              *)
(* indeterminate one and may make any code of it; the handlers of the      *)
(* other classes are void.                                                 *)
ErrorCodes(raw) == IF raw.kind = "data" THEN Codes ELSE {ERROR_NONE}

(* main returns, and leaves the registers as the handler left them.        *)
Leave(code) ==
  /\ phase' = "returned" /\ exit_code' = code
  /\ UNCHANGED <<regs, status>>

(* Seeded fault: the loop has no condition. *)
Always == TRUE

LoopsAgain == fetch_fault = FAULT_NONE

(* Seeded fault: R15 is set before the result is looked at. *)
PcSetFirst(next_pc, should_halt, error_code) ==
  /\ cpu_set_reg(PC_REGISTER_INDEX, next_pc) /\ status' = "ready"
  /\ IF error_code # ERROR_NONE \/ should_halt \/ ~LoopsAgain
     THEN phase' = "returned" /\ exit_code' = error_code
     ELSE phase' = "fetch" /\ UNCHANGED exit_code

(* The tests of the loop in their order: the error code, the halt request  *)
(* and, once R15 is set, the fault the fetch left behind.                  *)
Tests(next_pc, should_halt, error_code) ==
  \/ error_code # ERROR_NONE /\ Leave(error_code)
  \/ error_code = ERROR_NONE /\ should_halt /\ Leave(0)
  \/ /\ error_code = ERROR_NONE /\ ~should_halt
     /\ cpu_set_reg(PC_REGISTER_INDEX, next_pc)
     /\ status' = "ready"
     /\ IF LoopsAgain THEN phase' = "fetch" /\ UNCHANGED exit_code
        ELSE phase' = "returned" /\ exit_code' = 0

(* The executor answers.                                                   *)
Finish ==
  /\ phase = "execute" /\ status \in {"done", "taken"}
  /\ \E next_pc \in NextPcs, code \in ErrorCodes(raw_inst) :
       Tests(next_pc, halt_op(raw_inst), code)
  /\ halted' = halt_op(raw_inst)
  /\ CountFaulted
  /\ UNCHANGED <<cpsr, fault_out, compared, words, pc, fetch_fault, raw_inst>>

Next == Fetch \/ Enter \/ Run \/ Finish

(* One thread, as in Main.                                                 *)
Spec == Init /\ [][Next]_vars /\ WF_vars(Next)

-----------------------------------------------------------------------------
(* Whatever the handlers leave in R15, it stays a word, and so does the    *)
(* address the loop fetches from.                                          *)
TypeOK ==
  /\ M!TypeOK
  /\ CpuTypeOK
  /\ pc \in Word
  /\ status \in Outcome \cup {"ready", "ahead"}
  /\ fault_out \in {FAULT_NONE, WARNING_PC_USED_AS_OPERAND}
  /\ compared \in {"none", "equal", "different"}

(* The loop shares R15 with the handlers, which read it two instructions   *)
(* ahead and write what they like to it, and takes whatever code comes of  *)
(* them; it is still the loop of Main, around an arbitrary executor, with  *)
(* a program counter of its own.                                           *)
RefinesMain == M!Init /\ [][M!Next]_(M!vars)

(* main.c executes the word 0 once after a failed fetch, before it looks   *)
(* at the fault: that instruction is AND R0, R0, R0, and it changes no     *)
(* register and trips no assert, whatever R0 holds.                        *)
BogusHarmless ==
  [][ (phase = "execute" /\ status = "ahead" /\ fetch_fault # FAULT_NONE) =>
        status' = "done" /\ UNCHANGED regs ]_vars

(* A fault ends the simulator by a return: neither the instruction that is *)
(* executed in its place nor the next fetch ends it by an assert.          *)
FaultReturns == (fetch_fault # FAULT_NONE) ~> (phase = "returned")

(* A BEQ or BNE is decided by the last CMP, whatever branches, ORs and     *)
(* NOPs ran in between: the flags set by one handler reach another.        *)
BranchesOnComparison ==
  [][ (/\ phase = "execute" /\ status = "ahead" /\ compared # "none"
       /\ raw_inst.kind = "b" /\ raw_inst.cond \in {EQ, NE}) =>
        (status' = "taken" <=> (compared = "equal" <=> raw_inst.cond = EQ)) ]_vars

(* No branch, no write of R15, and no operand a handler asserts against.   *)
StraightLine(raw) ==
  \/ raw \in RawPlain
  \/ raw.kind = "mul" /\ raw.rd # PC_REGISTER_INDEX
  \/ /\ raw.kind = "data" /\ decode(raw).op \in HandledOps
     /\ decode(raw).op = "CMP" \/ raw.low < PC_REGISTER_INDEX

StraightProgram == \A i \in DOMAIN words : StraightLine(words[i])

(* In such a program no assert fails, and after an instruction that does   *)
(* not end it the loop goes on with the next word: no operation writes R15 *)
(* on the side, a CMP with an immediate that names it included.            *)
StraightLineAdvances ==
  [][ StraightProgram =>
        /\ phase' \notin {"aborted", "fetch_aborted"}
        /\ phase = "execute" /\ phase' = "fetch" => R15' = Wrap(pc + WORD_SIZE_BYTES) ]_vars

(* It ends by returning from main: it halts, reports an error or runs off  *)
(* its end into the fetch fault.                                           *)
StraightLineReturns == StraightProgram ~> phase = "returned"
=============================================================================
