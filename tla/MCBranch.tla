------------------------------ MODULE MCBranch ------------------------------
(* Branch on six-bit addresses: 16 instruction slots, offsets of -4 to     *)
(* +3 slots, R0, LR and R15.  Each register may be given an aligned, a     *)
(* half-aligned and a Thumb address.                                       *)
EXTENDS Branch

MCImm24 == 0 .. 2 * IMM24_SIGN - 1
MCScratch == {0, 6, 13, WORD_MODULUS - 4}

MCConditions == {0, 1, 2, 14}
=============================================================================
