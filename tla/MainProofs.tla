----------------------------- MODULE MainProofs -----------------------------
(***************************************************************************)
(* Proofs about the loop of main.c, for every program, every memory size   *)
(* and every executor.                                                     *)
(***************************************************************************)
EXTENDS Main, TLAPS

(* The loop comes back to fetch only without a fault, so that the assert   *)
(* there holds, and what it executes is the word fetched or the word 0 of  *)
(* the one fetch that failed.                                              *)
NoFaultCarriedOver ==
  /\ phase # "fetch_aborted"
  /\ phase = "fetch" => fault_out = FAULT_NONE
  /\ phase \in {"fetch", "execute"} => faulted = 0

LoopInv == TypeOK /\ NoFaultCarriedOver /\ OneBogusInstruction /\ ReturnExplained

(* The word index of a program counter that passes the bounds test.        *)
LEMMA WordIndex ==
  ASSUME pc \in Nat, index < WORD_COUNT
  PROVE  index \in 0 .. WORD_COUNT - 1
BY MainAssumption DEF index

(* A fetch leaves the word named by the program counter, or a fault and 0. *)
LEMMA FetchInv == LoopInv /\ Fetch => LoopInv'
<1> SUFFICES ASSUME LoopInv, Fetch
             PROVE  LoopInv'
  OBVIOUS
<1> USE DEF LoopInv
<1>1. /\ fetch /\ phase' = "execute" /\ phase = "fetch"
      /\ UNCHANGED <<words, pc, halted, exit_code, faulted>>
      /\ fault_out = FAULT_NONE /\ faulted = 0
  BY DEF Fetch, NoFaultCarriedOver
<1>2. pc \in Nat /\ Zero \in Words
  BY MainAssumption DEF TypeOK
<1>3. \/ /\ fault_out' \in {FAULT_ALIGNMENT, FAULT_OUT_OF_BOUNDS}
         /\ raw_inst' = Zero
      \/ /\ pc % 4 = 0 /\ index < WORD_COUNT
         /\ raw_inst' = words[index] /\ UNCHANGED fault_out
  BY <1>1 DEF fetch, Fail
<1>4. TypeOK'
  <2>1. raw_inst' \in Words
    BY <1>2, <1>3, WordIndex DEF TypeOK
  <2>2. QED
    BY <1>1, <1>3, <2>1 DEF TypeOK
<1>5. NoFaultCarriedOver'
  BY <1>1 DEF NoFaultCarriedOver
<1>6. OneBogusInstruction'
  <2>1. FAULT_ALIGNMENT # FAULT_NONE /\ FAULT_OUT_OF_BOUNDS # FAULT_NONE
    BY FaultAssumption
       DEF FAULT_ALIGNMENT, FAULT_OUT_OF_BOUNDS, ErrorCode, ERROR_NONE
  <2>2. faulted' = 0 /\ pc' = pc /\ words' = words /\ index' = index
    BY <1>1 DEF index
  <2>3. QED
    BY <1>3, <2>1, <2>2 DEF OneBogusInstruction
<1>7. ReturnExplained'
  BY <1>1 DEF ReturnExplained
<1>8. QED
  BY <1>4, <1>5, <1>6, <1>7

(* An executor that returns ends the loop, or the fault was not there.     *)
LEMMA FinishInv ==
  ASSUME LoopInv, NEW next_pc \in Addresses, NEW should_halt \in BOOLEAN,
         NEW error_code \in Codes, Finish(next_pc, should_halt, error_code)
  PROVE  LoopInv'
<1> USE DEF LoopInv
<1>1. /\ phase = "execute" /\ faulted = 0
      /\ faulted' = IF fault_out = FAULT_NONE THEN 0 ELSE 1
      /\ UNCHANGED <<words, fault_out, raw_inst>>
  BY DEF Finish, Executed, NoFaultCarriedOver
<1>2. pc' \in Addresses /\ halted' = should_halt
  BY DEF Finish, TypeOK
<1>3. \/ phase' = "fetch" /\ UNCHANGED exit_code /\ fault_out = FAULT_NONE
      \/ /\ phase' = "returned" /\ exit_code' \in Codes
         /\ exit_code' # 0 \/ halted' \/ fault_out # FAULT_NONE
  BY MainAssumption DEF Finish, LoopsAgain, Return, ErrorCode, ERROR_NONE
<1>4. TypeOK'
  BY <1>1, <1>2, <1>3 DEF TypeOK
<1>5. NoFaultCarriedOver'
  BY <1>1, <1>3 DEF NoFaultCarriedOver
<1>6. OneBogusInstruction'
  BY <1>1, <1>3 DEF OneBogusInstruction
<1>7. ReturnExplained'
  BY <1>1, <1>3 DEF ReturnExplained
<1>8. QED
  BY <1>4, <1>5, <1>6, <1>7

(* An executor that fails an assert ends the loop.                         *)
LEMMA AbortInv == LoopInv /\ Abort => LoopInv'
<1> SUFFICES ASSUME LoopInv, Abort
             PROVE  LoopInv'
  OBVIOUS
<1> USE DEF LoopInv
<1>1. /\ faulted = 0 /\ faulted' \in {0, 1} /\ phase' = "aborted"
      /\ UNCHANGED <<words, fault_out, raw_inst, pc, halted, exit_code>>
  BY DEF Abort, Executed, NoFaultCarriedOver
<1>2. QED
  BY <1>1 DEF TypeOK, NoFaultCarriedOver, OneBogusInstruction, ReturnExplained

(* The invariant holds of every run of main. *)
THEOREM LoopInvAlways == Spec => []LoopInv
<1>1. Init => LoopInv
  <2> SUFFICES ASSUME Init
               PROVE  LoopInv
    OBVIOUS
  <2>1. TypeOK
    BY MainAssumption DEF Init, TypeOK, ErrorCode, ERROR_NONE
  <2>2. NoFaultCarriedOver
    BY DEF Init, NoFaultCarriedOver
  <2>3. OneBogusInstruction /\ ReturnExplained
    BY DEF Init, OneBogusInstruction, ReturnExplained
  <2>4. QED
    BY <2>1, <2>2, <2>3 DEF LoopInv
<1>2. LoopInv /\ UNCHANGED vars => LoopInv'
  BY DEF vars, LoopInv, TypeOK, NoFaultCarriedOver, OneBogusInstruction,
         ReturnExplained, index
<1>3. LoopInv /\ [Next]_vars => LoopInv'
  BY <1>2, FetchInv, FinishInv, AbortInv DEF Next, Execute
<1>4. QED
  BY <1>1, <1>3, PTL DEF Spec

(* The locals of main stay in their types.                                 *)
THEOREM TypeCorrect == Spec => []TypeOK
<1>1. LoopInv => TypeOK
  BY DEF LoopInv
<1>2. QED
  BY <1>1, LoopInvAlways, PTL

(* main executes no word but those the program counter names, except the   *)
(* word 0 once, after the fetch that failed.                               *)
THEOREM OneBogusInstructionAlways == Spec => []OneBogusInstruction
<1>1. LoopInv => OneBogusInstruction
  BY DEF LoopInv
<1>2. QED
  BY <1>1, LoopInvAlways, PTL

(* main returns for an error, a halt request or a fault, and only an error *)
(* gives an exit code other than 0.                                        *)
THEOREM ReturnExplainedAlways == Spec => []ReturnExplained
<1>1. LoopInv => ReturnExplained
  BY DEF LoopInv
<1>2. QED
  BY <1>1, LoopInvAlways, PTL
(* A fault ends the program within the instruction at hand: the step that  *)
(* follows a failed fetch is the last one, main returns or an assert fails *)
(* in the executor, and the assert at the top of fetch is not what fails.  *)
(* This is what FaultEnds needs besides fairness.                          *)
FaultEndsAtOnce ==
  [][fault_out # FAULT_NONE => phase' \in {"returned", "aborted"}]_vars

THEOREM FaultEndsAtOnceAlways == Spec => FaultEndsAtOnce
<1> DEFINE Ends == fault_out # FAULT_NONE => phase' \in {"returned", "aborted"}
<1>1. LoopInv /\ [Next]_vars => [Ends]_vars
  <2> SUFFICES ASSUME LoopInv, Next, fault_out # FAULT_NONE
               PROVE  phase' \in {"returned", "aborted"}
    OBVIOUS
  <2>1. CASE Fetch
    BY <2>1 DEF Fetch, LoopInv, NoFaultCarriedOver
  <2>2. CASE Abort
    BY <2>2 DEF Abort
  <2>3. ASSUME NEW next_pc \in Addresses, NEW should_halt \in BOOLEAN,
               NEW error_code \in Codes,
               Finish(next_pc, should_halt, error_code)
        PROVE  phase' = "returned"
    BY <2>3 DEF Finish, LoopsAgain, Return
  <2>4. QED
    BY <2>1, <2>2, <2>3 DEF Next, Execute
<1>2. QED
  BY <1>1, LoopInvAlways, PTL DEF Spec, FaultEndsAtOnce
=============================================================================
