----------------------------- MODULE MultiWord ------------------------------
(***************************************************************************)
(* The idiom the carry flag exists for: a number of LIMBS words is added   *)
(* to another by one ADDS on the lowest words and an ADCS on each of the   *)
(* others, "multi-word (64-bit+) addition" in instructions_enums.h.        *)
(* Between two additions the program may run instructions that are not     *)
(* arithmetic, with or without the S bit; the carry has to survive them.   *)
(* Registers 0 .. LIMBS-1 hold the accumulator, the next LIMBS the addend, *)
(* the one after that is scratch.                                          *)
(***************************************************************************)
EXTENDS Operations

CONSTANT LIMBS

ASSUME LimbsAssumption == /\ LIMBS \in Nat \ {0}
                          /\ 2 * LIMBS + 1 =< REGISTER_COUNT

VARIABLES
  limb,   \* the number of words added so far
  x, y    \* the two numbers, least significant word first (history)

vars == <<regs, cpsr, limb, x, y>>

Limb == 0 .. LIMBS - 1

Scratch == 2 * LIMBS

Number == [Limb -> Word]

Init ==
  /\ x \in Number
  /\ y \in Number
  /\ limb = 0
  /\ regs = [index \in RegisterIndex |->
               IF index < LIMBS THEN x[index]
               ELSE IF index < Scratch THEN y[index - LIMBS]
               ELSE 0]
  /\ cpsr \in SUBSET {"N", "Z", "C", "V"}

AddLowest ==
  /\ limb = 0
  /\ add_op(0, cpu_get_reg(0), cpu_get_reg(LIMBS), TRUE)
  /\ limb' = 1
  /\ UNCHANGED <<x, y>>

AddNext ==
  /\ limb \in 1 .. LIMBS - 1
  /\ adc_op(limb, cpu_get_reg(limb), cpu_get_reg(LIMBS + limb), TRUE)
  /\ limb' = limb + 1
  /\ UNCHANGED <<x, y>>

(* Any move, logical operation or test in between. *)
Interleave ==
  /\ limb < LIMBS
  /\ \E w \in Word, s \in BOOLEAN :
       LET scratch == cpu_get_reg(Scratch)
       IN  \/ mov_op(Scratch, w, s)
           \/ mvn_op(Scratch, w, s)
           \/ and_op(Scratch, scratch, w, s)
           \/ eor_op(Scratch, scratch, w, s)
           \/ orr_op(Scratch, scratch, w)
           \/ bic_op(Scratch, scratch, w)
           \/ tst_op(scratch, w)
           \/ teq_op(scratch, w)
  /\ UNCHANGED <<limb, x, y>>

Next == AddLowest \/ AddNext \/ Interleave

Spec == Init /\ [][Next]_vars

-----------------------------------------------------------------------------
(* The weight of each word of a number, and the value of the n lowest.     *)
Weight[i \in 0 .. LIMBS] == IF i = 0 THEN 1 ELSE WORD_MODULUS * Weight[i - 1]

Value(number, n) ==
  LET value[i \in 0 .. n] ==
        IF i = 0 THEN 0 ELSE value[i - 1] + number[i - 1] * Weight[i - 1]
  IN  value[n]

(* When the last words are added the accumulator holds the sum of the two  *)
(* numbers, modulo the range of LIMBS words, whatever ran in between.      *)
WideSum ==
  limb = LIMBS =>
    Value([i \in Limb |-> regs[i]], LIMBS)
      = (Value(x, LIMBS) + Value(y, LIMBS)) % Weight[LIMBS]
=============================================================================
