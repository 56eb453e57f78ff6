------------------------------ MODULE MCMemory ------------------------------
(* Memory with one-bit bytes: two words of four bytes, and addresses up to   *)
(* twice its size.  The stored values reach every content of the array and   *)
(* tell the four lanes apart; two of them are wider than a byte or halfword. *)
EXTENDS Memory

MCStored == {0, 1, 6, 11}
=============================================================================
