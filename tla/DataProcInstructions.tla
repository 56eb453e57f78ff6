------------------------ MODULE DataProcInstructions ------------------------
(***************************************************************************)
(* The data-processing class: the decoder of data_processing_decoder.h, on *)
(* named fields (Encoding has the bits), and data_proc_op.                 *)
(*                                                                         *)
(* Two places of data_proc_op do not compile as written and are read as    *)
(* follows: the calls of add_op, sub_op and and_op leave out the S         *)
(* argument, so any value may arrive; or_op is orr_op, the only OR there   *)
(* is.                                                                     *)
(***************************************************************************)
EXTENDS Handler, Operations, Faults, Sequences

VARIABLE fault_out   \* *fault_out

(* The enumerators, from 0 on; the field has no room for the last two. *)
OpCode == <<"AND", "ORR", "EOR", "ADD", "ADC", "SUB", "SBC", "RSB", "RSC", "TST",
            "TEQ", "CMP", "CMN", "BIC", "MOV", "MVN", "NOP", "HALT">>

HandledOps == {"ADD", "SUB", "AND", "ORR", "CMP", "MOV"}

(* low is Rm or the immediate, high the shift or the rotate field.  The    *)
(* two operand structures share their storage: low is rm and imm8 at once. *)
(* The initializers ".shift = shift" and ".rotate = rotate" reach only the *)
(* first member of RegShift, the Boolean shift_by_reg; the type and the    *)
(* amount computed before are dropped.                                     *)
decode(raw) ==
  [raw |-> raw, cond |-> raw.cond, immediate_mode |-> raw.i,
   op |-> OpCode[raw.op + 1], set_condition_codes |-> raw.s,
   rn |-> raw.rn, rd |-> raw.rd, low |-> raw.low, shift_by_reg |-> raw.high # 0]

(* cpu_set_reg asserts its index; CMP is the one operation without it.     *)
Writable(d) == d.op = "CMP" \/ d.low < REGISTER_COUNT

(* Seeded fault: CMP stores its result. *)
CmpStores(d, operand1, operand2) ==
  d.op = "CMP" /\ sub_op(d.low, operand1, operand2, TRUE)

(* The switch of data_proc_op.  mov_op is handed both operands, so the     *)
(* first is the value moved and the second, as a Boolean, its S argument.  *)
Dispatch(d, operand1, operand2) ==
  LET result_reg == d.low
  IN  \/ d.op = "ADD" /\ \E s \in BOOLEAN : add_op(result_reg, operand1, operand2, s)
      \/ d.op = "SUB" /\ \E s \in BOOLEAN : sub_op(result_reg, operand1, operand2, s)
      \/ d.op = "AND" /\ \E s \in BOOLEAN : and_op(result_reg, operand1, operand2, s)
      \/ d.op = "ORR" /\ orr_op(result_reg, operand1, operand2)
      \/ d.op = "CMP" /\ cmp_op(operand1, operand2)
      \/ d.op = "MOV" /\ mov_op(result_reg, operand1, operand2 # 0)

Operand1(d) == cpu_get_reg(d.rn)

(* Seeded fault: the field is the operand in either form. *)
FieldItself(d) == d.low

Operand2(d) == IF d.immediate_mode THEN d.low ELSE cpu_get_reg(d.low)

(* Seeded fault: the second check, of rm, is missing. *)
UsesPcOfRdRn(d) == PC_REGISTER_INDEX \in {d.rd, d.rn}

UsesPc(d) ==
  PC_REGISTER_INDEX \in {d.rd, d.rn} \cup (IF d.immediate_mode THEN {} ELSE {d.low})

(* The checks of rd and rm against REGISTER_COUNT cannot fail on a decoded *)
(* instruction and have no branch here.  The function falls off its end    *)
(* without a return value: what a caller reads is indeterminate.           *)
data_proc_op(d) ==
  /\ fault_out' = IF UsesPc(d) THEN WARNING_PC_USED_AS_OPERAND ELSE fault_out
  /\ \/ /\ d.op \in HandledOps /\ Writable(d)
        /\ Dispatch(d, Operand1(d), Operand2(d))
        /\ Done
     \/ /\ d.op \notin HandledOps \/ ~Writable(d)
        /\ Abort
=============================================================================
