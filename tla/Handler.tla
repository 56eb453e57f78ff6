------------------------------ MODULE Handler -------------------------------
(***************************************************************************)
(* What the handlers of all instruction classes share: the processor they  *)
(* change, the condition they test, and the three ways they end.           *)
(***************************************************************************)
EXTENDS Cpu, Cond

VARIABLE status   \* how the handler ended; other values belong to its caller

(* "taken" is a handler that named the next instruction in R15.  A failed  *)
(* assert ends the program; nothing has been written before it.            *)
Outcome == {"done", "taken", "aborted"}

Done == status' = "done"
Abort == status' = "aborted" /\ UNCHANGED <<regs, cpsr>>
=============================================================================
