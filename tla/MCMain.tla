------------------------------- MODULE MCMain -------------------------------
(* Main with a program of two words; jumps go to both, between them, past    *)
(* the end and between words past the end; one code is no ErrorCode.         *)
EXTENDS Main

MCAddresses == {0, 2, 4, 8, 9}
MCCodes == ErrorCode \cup {2}
=============================================================================
