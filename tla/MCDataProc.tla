----------------------------- MODULE MCDataProc -----------------------------
(* DataProc on three registers of two bits.  Immediates name a register,   *)
(* R15 and no register at all; one operation field has no handler.         *)
EXTENDS DataProc, MCBitwise

MCOpFields == {0, 1, 3, 5, 11, 13, 14}
MCImmediates == {1, 2, 3}

(* What a step depends on and what it leaves: the instruction of the last  *)
(* step is chosen anew by the next, so states that differ in it alone are  *)
(* explored once; the action properties see every instruction.             *)
Machine == <<regs, cpsr, fault_out, status>>
=============================================================================
