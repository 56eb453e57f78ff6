------------------------------ MODULE Encoding ------------------------------
(***************************************************************************)
(* The decoders on the bits of an instruction word: masks, shifts and the  *)
(* widths they are done in.  DataProcInstructions and BranchInstructions   *)
(* start from the fields; this module is about how the fields are got.     *)
(* A 32-bit number is the set of the positions of its one bits.            *)
(***************************************************************************)
EXTENDS Integers, FiniteSets

CONSTANT DISTANCE   \* in how many bits a word may differ from 0 or from all ones

ASSUME DistanceAssumption == DISTANCE \in Nat

VARIABLE raw_inst

Bits == 0 .. 31

(* x << n, x >> n of a word_t, and x >> n of an int32_t.                   *)
Shl(x, n) == {bit \in Bits : bit - n \in x}
Shr(x, n) == {bit \in Bits : bit + n \in x}
Sar(x, n) == Shr(x, n) \cup (IF 31 \in x THEN 32 - n .. 31 ELSE {})

(* Conversion to byte_t and to bool.                                       *)
Narrow(x) == x \cap (0 .. 7)
NonZero(x) == x # {}

COND_MASK == 28 .. 31
I_MASK == {25}
LINK_MASK == {24}
OP_MASK == 21 .. 24
S_MASK == {20}
RN_MASK == 16 .. 19
RD_MASK == 12 .. 15
SHIFT_MASK == 4 .. 11
ROT_MASK == 8 .. 11
IMM_MASK == 0 .. 7
RM_MASK == 0 .. 3
OFFSET_MASK == 0 .. 23

(* What the decoder stores of the shift or rotate field.  It works out a   *)
(* RegShift of its own and never reads it; the byte itself initializes the *)
(* first member of the structure, and the members without an initializer   *)
(* are zero.                                                               *)
Elided(shift) == [shift_by_reg |-> NonZero(shift), type |-> {}, amount |-> {}]

decode(raw) ==
  LET immediate_mode == NonZero(raw \cap I_MASK)
      rotate == Narrow(Shr(raw \cap ROT_MASK, 8))
      shift == Narrow(Shr(raw \cap SHIFT_MASK, 4))
  IN  [cond |-> Shr(raw \cap COND_MASK, 28),
       immediate_mode |-> immediate_mode,
       op |-> Shr(raw \cap OP_MASK, 21),
       set_condition_codes |-> NonZero(raw \cap S_MASK),
       rn |-> Shr(raw \cap RN_MASK, 16),
       rd |-> Shr(raw \cap RD_MASK, 12),
       low |-> IF immediate_mode THEN Narrow(raw \cap IMM_MASK) ELSE raw \cap RM_MASK,
       shift |-> Elided(IF immediate_mode THEN rotate ELSE shift)]

decode_b(raw) ==
  LET imm24 == Sar(Shl(raw \cap OFFSET_MASK, 8), 8)
  IN  [cond |-> Shr(raw \cap COND_MASK, 28), link |-> NonZero(raw \cap LINK_MASK),
       offset |-> Shl(imm24, 2)]

decode_bx(raw) == [cond |-> Shr(raw, 28), rn |-> raw \cap RM_MASK]

-----------------------------------------------------------------------------
(* Words near zero and near all ones, one bit flipped after another.       *)
Uniform == raw_inst \in {{}, Bits}

FlipBit(bit) ==
  raw_inst' = IF bit \in raw_inst THEN raw_inst \ {bit} ELSE raw_inst \cup {bit}

FlipOne ==
  /\ \E bit \in Bits : FlipBit(bit)
  /\ Cardinality(raw_inst') \in 0 .. DISTANCE \cup 32 - DISTANCE .. 32

AnyWord == Uniform /\ [][FlipOne]_raw_inst

-----------------------------------------------------------------------------
Only(flag, mask) == IF flag THEN mask ELSE {}

(* Put back where instructions_enums.h places them, the decoded fields are *)
(* the word again: they overlap nowhere and miss nothing but the class     *)
(* selector and, for data processing, the shift or rotate field.           *)
FieldsReassemble ==
  LET d == decode(raw_inst)
      b == decode_b(raw_inst)
      bx == decode_bx(raw_inst)
      dropped == IF d.immediate_mode THEN 8 .. 11 ELSE 4 .. 11
  IN  /\ Shl(d.cond, 28) \cup Only(d.immediate_mode, {25}) \cup Shl(d.op, 21)
           \cup Only(d.set_condition_codes, {20}) \cup Shl(d.rn, 16)
           \cup Shl(d.rd, 12) \cup d.low
             = raw_inst \ ({26, 27} \cup dropped)
      /\ Shl(b.cond, 28) \cup Only(b.link, {24}) \cup (Shr(b.offset, 2) \cap (0 .. 23))
             = raw_inst \ (25 .. 27)
      /\ Shl(bx.cond, 28) \cup bx.rn = raw_inst \ (4 .. 27)

(* The value of an unsigned number, by hexadecimal digits and bytes, and   *)
(* that of an int32_t.                                                     *)
Digit(x, bit) == IF bit \in x THEN 1 ELSE 0
Hex(x, low) ==
  Digit(x, low) + 2 * Digit(x, low + 1) + 4 * Digit(x, low + 2) + 8 * Digit(x, low + 3)
Octet(x, low) == Hex(x, low) + 16 * Hex(x, low + 4)
Value(x) == Octet(x, 0) + 256 * (Octet(x, 8) + 256 * (Octet(x, 16) + 256 * Octet(x, 24)))
SignedValue(x) == IF 31 \in x THEN -1 - Value(Bits \ x) ELSE Value(x)

(* What BranchInstructions takes for granted: shifting left by 8, back by  *)
(* 8 and left by 2 is four times the two's complement value of imm24, in   *)
(* which the sign bit counts negative.                                     *)
OffsetSignExtended ==
  SignedValue(decode_b(raw_inst).offset)
    = 4 * (Value(raw_inst \cap (0 .. 22)) - Value(raw_inst \cap {23}))
=============================================================================
