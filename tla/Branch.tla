------------------------------- MODULE Branch -------------------------------
(***************************************************************************)
(* B, BL and BX among the data processing instructions, which write any    *)
(* register, R15 included.  The loop that calls them is not in the         *)
(* repository beyond src/main.c: Decode and Advance are what it has to do  *)
(* around them.                                                            *)
(***************************************************************************)
EXTENDS BranchInstructions

CONSTANTS
  Imm24,        \* the offset fields a branch may carry
  Conditions,   \* the condition fields an instruction may carry
  Scratch       \* the results data processing may write to a register

ASSUME BranchAssumption == AddressWidths

ASSUME FieldAssumption ==
  /\ Imm24 \subseteq 0 .. 2 * IMM24_SIGN - 1
  /\ Conditions \subseteq 0 .. 15
  /\ Scratch \subseteq Word

VARIABLES
  at,      \* address of the instruction being executed
  inst,    \* the decoded instruction
  linked   \* return address of the last BL while LR still holds it (history)

vars == <<regs, cpsr, status, at, inst, linked>>

NoAddress == -1   \* no word

RawB == [kind : {"b"}, cond : Conditions, link : BOOLEAN, imm24 : Imm24]
RawBx == [kind : {"bx"}, cond : Conditions, rn : RegisterIndex]

Init ==
  /\ at = 0
  /\ regs = [construct_registers EXCEPT ![PC_REGISTER_INDEX] = PC_BIAS]
  /\ cpsr = construct_cpsr
  /\ status = "decode"
  /\ inst = [raw |-> [kind |-> "other"]]
  /\ linked = NoAddress

Decode ==
  /\ status = "decode"
  /\ at % WORD_SIZE_BYTES = 0
  /\ \/ \E raw \in RawB : inst' = decode_b(raw)
     \/ \E raw \in RawBx : inst' = decode_bx(raw)
     \/ inst' = [raw |-> [kind |-> "other"]]
  /\ status' = "execute"
  /\ UNCHANGED <<regs, cpsr, at, linked>>

(* The fetch of main.c refuses an address between two words and the        *)
(* program is over.                                                        *)
Refuse ==
  /\ status = "decode"
  /\ at % WORD_SIZE_BYTES # 0
  /\ status' = "faulted"
  /\ UNCHANGED <<regs, cpsr, at, inst, linked>>

(* A data processing instruction: at most one register is written, R15 as  *)
(* well as any other, the flags change, or an opcode trips the assert.  Z  *)
(* is the one flag the condition of a branch can read.                     *)
Other ==
  \/ /\ \/ UNCHANGED regs
        \/ \E reg \in RegisterIndex, value \in Scratch : cpu_set_reg(reg, value)
     /\ cpsr' \in {{}, {"Z"}}
     /\ Done
  \/ Abort

Calls == inst.raw.kind = "b" /\ inst.link /\ status' = "taken"

(* LR holds a return address from the BL on until another value is in it.  *)
Remember ==
  linked' = IF Calls THEN Wrap(at + WORD_SIZE_BYTES)
            ELSE IF regs'[LINK_REGISTER_INDEX] = regs[LINK_REGISTER_INDEX]
                 THEN linked ELSE NoAddress

Execute ==
  /\ status = "execute"
  /\ \/ inst.raw.kind = "b" /\ b_op(inst)
     \/ inst.raw.kind = "bx" /\ bx_op(inst)
     \/ inst.raw.kind = "other" /\ Other
  /\ Remember
  /\ UNCHANGED <<at, inst>>

(* Where R15 may send the processor: to the target of a taken branch.      *)
(* After any other instruction the executor chooses between the word that  *)
(* follows and, when R15 was written, the value written.                   *)
NextAddresses ==
  LET pc == regs[PC_REGISTER_INDEX]
  IN  IF status = "taken" THEN {pc}
      ELSE {Wrap(at + WORD_SIZE_BYTES)} \cup ({pc} \ {Wrap(at + PC_BIAS)})

(* R15 runs ahead again of the instruction that is next.                   *)
Advance ==
  /\ status \in {"taken", "done"}
  /\ at' \in NextAddresses
  /\ cpu_set_reg(PC_REGISTER_INDEX, Wrap(at' + PC_BIAS))
  /\ status' = "decode"
  /\ UNCHANGED <<cpsr, inst, linked>>

Next == Decode \/ Refuse \/ Execute \/ Advance

Spec == Init /\ [][Next]_vars

-----------------------------------------------------------------------------
Instruction ==
  [raw : RawB, cond : Conditions, link : BOOLEAN, offset : Int]
    \cup [raw : RawBx, cond : Conditions, rn : RegisterIndex]
    \cup [raw : [kind : {"other"}]]

(* Every register, R15 included, stays a word across branches and the end  *)
(* of the address space.                                                   *)
TypeOK ==
  /\ CpuTypeOK
  /\ at \in Word
  /\ status \in Outcome \cup {"decode", "execute", "faulted"}
  /\ inst \in Instruction
  /\ linked \in Word \cup {NoAddress}

(* A branch never sends the program between two words, where the fetch of  *)
(* main.c would refuse to go: b_op relies on the scaling done by the       *)
(* decoder, bx_op on its own mask, both on the address they start from.    *)
(* Only a data processing instruction that writes R15 does, and nothing is *)
(* decoded there.                                                          *)
MisalignedOnlyByWrite ==
  /\ status = "taken" => regs[PC_REGISTER_INDEX] % 4 = 0
  /\ at % 4 # 0 => inst.raw.kind = "other" /\ status \in {"decode", "faulted"}

(* What makes returns work, as an inductive invariant: R15 reads two       *)
(* instructions ahead whenever an instruction is decoded or executed, and  *)
(* after a branch that was not taken, a decoded branch offset is a         *)
(* multiple of four and no larger than a word, and LR holds the address    *)
(* after the last BL until something writes it.                            *)
ReadsAhead ==
  (status \in {"decode", "execute"} \/ (status = "done" /\ inst.raw.kind # "other")) =>
    regs[PC_REGISTER_INDEX] = Wrap(at + PC_BIAS)

OffsetFits ==
  inst.raw.kind = "b" =>
    /\ inst.offset \in -4 * IMM24_SIGN .. 4 * IMM24_SIGN
    /\ inst.offset % 4 = 0

LinkHeld ==
  linked # NoAddress =>
    /\ regs[LINK_REGISTER_INDEX] = linked
    /\ linked % 4 = 0

ReturnInv ==
  TypeOK /\ MisalignedOnlyByWrite /\ ReadsAhead /\ OffsetFits /\ LinkHeld

(* instructions_enums.h: next_pc = PC + 8 + (SignExtend(imm24) << 2), also  *)
(* for negative offsets and across the end of the address space.           *)
BranchLandsOnTarget ==
  [][ (status = "execute" /\ status' = "taken" /\ inst.raw.kind = "b") =>
        \E signed \in -IMM24_SIGN .. IMM24_SIGN - 1 :
          /\ (signed - inst.raw.imm24) % (2 * IMM24_SIGN) = 0
          /\ regs'[PC_REGISTER_INDEX]
               = (at + 8 + 4 * signed) % WORD_MODULUS ]_vars

(* A subroutine returns: as long as nothing else wrote LR since a taken    *)
(* BL, BX LR never trips an assert and resumes right after that BL.        *)
ReturnResumes ==
  [][ (/\ status = "execute" /\ inst.raw.kind = "bx"
       /\ inst.rn = LINK_REGISTER_INDEX
       /\ linked # NoAddress
       /\ Passed(inst.cond)) =>
        /\ status' = "taken"
        /\ regs'[PC_REGISTER_INDEX] = linked ]_vars

(* A BL changes LR and leaves its fall-through path together or not at     *)
(* all: a failed condition or an abort leaves no half-made call behind.    *)
CallAllOrNothing ==
  [][ (status = "execute" /\ inst.raw.kind # "other") =>
        IF status' = "taken"
        THEN (inst.raw.kind = "b" /\ inst.link) =>
               regs'[LINK_REGISTER_INDEX] = Wrap(at + WORD_SIZE_BYTES)
        ELSE UNCHANGED regs ]_vars

(* cond.h: AL is "(ignored) | always"; its field in an instruction is 14.  *)
AlwaysConditionRuns ==
  (status = "aborted" /\ inst.raw.kind = "b") => inst.cond # 14
=============================================================================
