------------------------- MODULE BranchInstructions -------------------------
(***************************************************************************)
(* B, BL and BX: their decoders and bodies (src/instructions/branch).  R15 *)
(* reads two instructions ahead of the one executing, as the comments of   *)
(* b_op say; main.c itself leaves that to the executor.                    *)
(***************************************************************************)
EXTENDS Handler

CONSTANT IMM24_SIGN   \* weight of the sign bit of the offset field, 2^23

WORD_SIZE_BYTES == 4

(* How far R15 reads ahead of the executing instruction. *)
PC_BIAS == 8

(* The widths the address arithmetic relies on: a scaled offset is no      *)
(* wider than a word, and the words are whole instructions, more than the  *)
(* distance R15 reads ahead.                                               *)
AddressWidths ==
  /\ IMM24_SIGN \in Nat \ {0}
  /\ 4 * IMM24_SIGN <= WORD_MODULUS
  /\ WORD_MODULUS % 4 = 0 /\ WORD_MODULUS > PC_BIAS

(* Seeded fault: the mask is missing. *)
KeepLowBits(x) == x

(* x & ~3u *)
ClearLowBits(x) == x - (x % 4)

(* Seeded fault: the offset is not sign-extended. *)
ZeroExtend(imm24) == imm24

(* Shifting the field left and back by 8 bits. *)
SignExtend(imm24) == IF imm24 >= IMM24_SIGN THEN imm24 - 2 * IMM24_SIGN ELSE imm24

(* The offset is scaled to bytes. *)
decode_b(raw) ==
  [raw |-> raw, cond |-> raw.cond, link |-> raw.link,
   offset |-> SignExtend(raw.imm24) * WORD_SIZE_BYTES]

decode_bx(raw) == [raw |-> raw, cond |-> raw.cond, rn |-> raw.rn]

Passed(cond) == CondSupported(cond) /\ cond_passed(cond, cpsr)

(* Seeded fault: the address of the branch itself. *)
PrefetchForgotten(pc) == ClearLowBits(Wrap(pc - PC_BIAS))

(* The address stored in LR: one word back from R15, aligned. *)
StoredAddress(pc) == ClearLowBits(Wrap(pc - WORD_SIZE_BYTES))

(* Seeded fault: LR is written before the condition is looked at. *)
LinkAnyway(cond) ==
  /\ ~Passed(cond) /\ Done /\ UNCHANGED cpsr
  /\ cpu_set_reg(LINK_REGISTER_INDEX, StoredAddress(cpu_get_reg(PC_REGISTER_INDEX)))

(* cond_passed aborts, or returns false and the handler returns. *)
NotPassed(cond) ==
  \/ ~CondSupported(cond) /\ Abort
  \/ /\ CondSupported(cond) /\ ~cond_passed(cond, cpsr)
     /\ Done
     /\ UNCHANGED <<regs, cpsr>>

(* The program counter and, with the link bit, the link register. *)
b_op(b) ==
  \/ NotPassed(b.cond)
  \/ LET pc == cpu_get_reg(PC_REGISTER_INDEX)
     IN  /\ Passed(b.cond)
         /\ regs' = [regs EXCEPT
                       ![LINK_REGISTER_INDEX] = IF b.link THEN StoredAddress(pc) ELSE @,
                       ![PC_REGISTER_INDEX] = Wrap(pc + b.offset)]
         /\ status' = "taken"
         /\ UNCHANGED cpsr

(* R15 as the operand is refused before the condition is looked at, a      *)
(* Thumb target after it.                                                  *)
bx_op(bx) ==
  LET target_address == cpu_get_reg(bx.rn)
      is_thumb == target_address % 2 # 0
  IN  \/ bx.rn = PC_REGISTER_INDEX /\ Abort
      \/ bx.rn # PC_REGISTER_INDEX /\ NotPassed(bx.cond)
      \/ bx.rn # PC_REGISTER_INDEX /\ Passed(bx.cond) /\ is_thumb /\ Abort
      \/ /\ bx.rn # PC_REGISTER_INDEX /\ Passed(bx.cond) /\ ~is_thumb
         /\ cpu_set_reg(PC_REGISTER_INDEX, ClearLowBits(target_address))
         /\ status' = "taken"
         /\ UNCHANGED cpsr
=============================================================================
