-------------------------------- MODULE Main --------------------------------
(***************************************************************************)
(* The fetch, decode and execute loop of src/main.c.  The executor it      *)
(* calls is not in the repository: an instruction may name any next        *)
(* address, ask for a halt or report an error, as ExecResult               *)
(* (src/executor/executor.h) lets it, or fail an assert.  The error code   *)
(* is an enumeration in C, so it may hold numbers that name no error too.  *)
(***************************************************************************)
EXTENDS Faults

CONSTANTS
  WORD_COUNT,   \* mem->word_count
  Addresses,    \* the values an instruction may leave in the program counter
  Words,        \* the instruction words a program is made of
  Zero,         \* the word 0
  Codes         \* the values an ExecResult.error_code may hold

INITIAL_PC == 0

ASSUME MainAssumption ==
  /\ WORD_COUNT \in Nat \ {0}
  /\ INITIAL_PC \in Addresses /\ Addresses \subseteq Nat
  /\ Zero \in Words
  /\ ErrorCode \subseteq Codes /\ Codes \subseteq Int

VARIABLES
  words,       \* the program, mem->words
  pc,          \* register 15, as the loop reads and writes it
  fault_out,   \* the local of main
  phase,       \* "fetch", "execute", or how the program ended
  raw_inst,    \* the local of main
  halted,      \* the last result asked for a halt
  exit_code,   \* what main returned
  faulted      \* instructions executed since a fetch failed (history)

vars == <<words, pc, fault_out, phase, raw_inst, halted, exit_code, faulted>>

Init ==
  /\ words \in [0 .. WORD_COUNT - 1 -> Words]
  /\ pc = INITIAL_PC
  /\ fault_out = FAULT_NONE
  /\ phase = "fetch"
  /\ raw_inst = Zero
  /\ halted = FALSE
  /\ exit_code = 0
  /\ faulted = 0

(* Seeded faults: the error code for a word; the word of the last fetch. *)
CodeForWord(code) == fault_out' = code /\ raw_inst' = ERROR_UNKNOWN_OPCODE
StaleWord(code) == fault_out' = code /\ UNCHANGED raw_inst

Fail(code) == fault_out' = code /\ raw_inst' = Zero

index == pc \div 4

(* Alignment is tested before bounds; a failing fetch returns word 0. *)
fetch ==
  \/ pc % 4 # 0 /\ Fail(FAULT_ALIGNMENT)
  \/ pc % 4 = 0 /\ index >= WORD_COUNT /\ Fail(FAULT_OUT_OF_BOUNDS)
  \/ /\ pc % 4 = 0 /\ index < WORD_COUNT
     /\ raw_inst' = words[index] /\ UNCHANGED fault_out

(* The assert at the top of fetch comes before everything else. *)
Fetch ==
  /\ phase = "fetch"
  /\ IF fault_out = FAULT_NONE
     THEN fetch /\ phase' = "execute"
     ELSE phase' = "fetch_aborted" /\ UNCHANGED <<fault_out, raw_inst>>
  /\ UNCHANGED <<words, pc, halted, exit_code, faulted>>

(* Seeded faults: every return is return 0; the loop has no condition. *)
ReturnZero(code) == phase' = "returned" /\ exit_code' = 0
Always == TRUE

Return(code) == phase' = "returned" /\ exit_code' = code

LoopsAgain == fault_out = FAULT_NONE

(* What every way out of an instruction does besides. *)
Executed ==
  /\ phase = "execute"
  /\ faulted' = IF fault_out = FAULT_NONE THEN faulted ELSE faulted + 1
  /\ UNCHANGED <<words, fault_out, raw_inst>>

(* The executor returned, and the tests follow in their order: the error   *)
(* code, the halt request, and, once the program counter is set, the fault *)
(* the fetch left behind.                                                  *)
Finish(next_pc, should_halt, error_code) ==
  /\ Executed
  /\ halted' = should_halt
  /\ \/ error_code # ERROR_NONE /\ Return(error_code) /\ UNCHANGED pc
     \/ error_code = ERROR_NONE /\ should_halt /\ Return(0) /\ UNCHANGED pc
     \/ /\ error_code = ERROR_NONE /\ ~should_halt
        /\ pc' = next_pc
        /\ IF LoopsAgain THEN phase' = "fetch" /\ UNCHANGED exit_code ELSE Return(0)

(* An assert failed in the executor. *)
Abort ==
  /\ Executed
  /\ phase' = "aborted"
  /\ UNCHANGED <<pc, halted, exit_code>>

Execute ==
  \/ \E next_pc \in Addresses, should_halt \in BOOLEAN, error_code \in Codes :
       Finish(next_pc, should_halt, error_code)
  \/ Abort

Next == Fetch \/ Execute

(* The loop is single-threaded: nothing keeps its next step from running.  *)
Spec == Init /\ [][Next]_vars /\ WF_vars(Next)

-----------------------------------------------------------------------------
(* The locals of main, and the word a fetch returned, stay in their types.  *)
TypeOK ==
  /\ words \in [0 .. WORD_COUNT - 1 -> Words]
  /\ pc \in Addresses
  /\ fault_out \in {FAULT_NONE, FAULT_ALIGNMENT, FAULT_OUT_OF_BOUNDS}
  /\ phase \in {"fetch", "execute", "returned", "aborted", "fetch_aborted"}
  /\ raw_inst \in Words
  /\ halted \in BOOLEAN
  /\ exit_code \in Codes
  /\ faulted \in Nat

(* The loop never executes a word other than the one the program counter   *)
(* names, with one exception: after a failed fetch it executes the word 0  *)
(* once, and then fetches nothing any more.                                *)
OneBogusInstruction ==
  /\ faulted <= 1
  /\ phase = "execute" =>
       \/ pc % 4 = 0 /\ index < WORD_COUNT /\ raw_inst = words[index]
       \/ fault_out # FAULT_NONE /\ raw_inst = Zero

(* main returns for one of its three reasons, and tells an error from the  *)
(* other two by its exit code.                                             *)
ReturnExplained ==
  phase = "returned" => exit_code # 0 \/ halted \/ faulted = 1

(* A fault ends the program within the instruction at hand: no instruction *)
(* clears the fault code, and the assert at the top of fetch, which would  *)
(* abort instead, is never reached with a fault recorded.                  *)
FaultEnds ==
  (fault_out # FAULT_NONE) ~> (phase \in {"returned", "aborted"})
=============================================================================
