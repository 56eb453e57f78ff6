---------------------------- MODULE MCSimulator -----------------------------
(* Simulator on R0, R1, LR and R15 of five bits.                             *)
EXTENDS Simulator, MCBitwise

Data(op, i, rn, low) == [ZeroWord EXCEPT !.op = op, !.i = i, !.rn = rn, !.low = low]
B(cond, link, imm24) == [kind |-> "b", cond |-> cond, link |-> link, imm24 |-> imm24]

(* One code is no ErrorCode. *)
MCCodes == ErrorCode \cup {2}

(* R1 := R0 + 1, R1 - R0, an OR of R0 with R1, a comparison of the two and *)
(* one with an immediate that is also the index of R15, a write of R15 and *)
(* an immediate that is no register; BEQ and BNE backwards, a call         *)
(* forwards, a return, a branch whose condition is no CondCode.            *)
MCInstructions ==
  {ZeroWord, Data(3, TRUE, 0, 1), Data(5, FALSE, 1, 0), Data(1, FALSE, 1, 0),
   Data(11, FALSE, 0, 1), Data(11, TRUE, 0, 3),
   Data(3, TRUE, 0, 3), Data(3, TRUE, 0, 5),
   B(0, FALSE, 5), B(1, FALSE, 5), B(1, TRUE, 7), B(14, FALSE, 0),
   [kind |-> "bx", cond |-> 1, rn |-> LINK_REGISTER_INDEX],
   [kind |-> "mul", rd |-> 1, ra |-> 1, rb |-> 1],
   [kind |-> "nop"], [kind |-> "halt"]}
=============================================================================
