-------------------------------- MODULE Cond --------------------------------
(***************************************************************************)
(* Condition codes (src/instructions/cond.h).  The enumerators are written *)
(* in hexadecimal in the source, so CS is 16 and not the binary 10 of an   *)
(* A32 condition field; the values here are the ones a compiler gives.     *)
(***************************************************************************)
EXTENDS Integers

EQ == 0      \* 0x0000
NE == 1      \* 0x0001
CS == 16     \* 0x0010
CC == 17     \* 0x0011
MI == 256    \* 0x0100
PL == 257    \* 0x0101
VS == 272    \* 0x0110
VC == 273    \* 0x0111
HI == 4096   \* 0x1000
LS == 4097   \* 0x1001
GE == 4112   \* 0x1010
LT == 4113   \* 0x1011
GT == 4352   \* 0x1100
LE == 4353   \* 0x1101
AL == 4368   \* 0x1110

CondCode == {EQ, NE, CS, CC, MI, PL, VS, VC, HI, LS, GE, LT, GT, LE, AL}

(* Whether cond_passed returns at all: any other value reaches the default *)
(* label of the switch, whose assert(false) aborts the program.            *)
CondSupported(cond) == cond \in CondCode

(* The result of cond_passed for a supported condition. *)
cond_passed(cond, flags) ==
  LET N == "N" \in flags
      Z == "Z" \in flags
      C == "C" \in flags
      V == "V" \in flags
      IS_GE == N = V
  IN  \/ cond = EQ /\ Z
      \/ cond = NE /\ ~Z
      \/ cond = CS /\ C
      \/ cond = CC /\ ~C
      \/ cond = MI /\ N
      \/ cond = PL /\ ~N
      \/ cond = VS /\ V
      \/ cond = VC /\ ~V
      \/ cond = HI /\ C /\ ~Z
      \/ cond = LS /\ (~C \/ Z)
      \/ cond = GE /\ IS_GE
      \/ cond = LT /\ ~IS_GE
      \/ cond = GT /\ ~Z /\ IS_GE
      \/ cond = LE /\ (Z \/ ~IS_GE)
      \/ cond = AL
=============================================================================
