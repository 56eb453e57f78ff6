----------------------------- MODULE ByteLanes ------------------------------
(* The weights of the bytes of a little-endian word of src/memory.h.       *)
EXTENDS Integers

CONSTANT BYTE_RADIX   \* number of values of a byte_t, 256 in the code

(* 1 << (BYTE_SIZE_BITS * lane), for the four lanes and the carry past them. *)
Weight(lane) ==
  <<1, BYTE_RADIX, BYTE_RADIX * BYTE_RADIX,
    BYTE_RADIX * BYTE_RADIX * BYTE_RADIX,
    BYTE_RADIX * BYTE_RADIX * BYTE_RADIX * BYTE_RADIX>>[lane + 1]
=============================================================================
