------------------------------- MODULE Memory -------------------------------
(***************************************************************************)
(* The data memory (src/memory.h): a byte array behind little-endian       *)
(* accessors of one, two and four bytes.  Every ProgramMemory handle that  *)
(* construct_memory returns points at the same static array g_mem, so one  *)
(* variable stands for all of them.  A failed assert aborts the program.   *)
(***************************************************************************)
EXTENDS ByteLanes

CONSTANTS
  MEMORY_SIZE,    \* length of g_mem, 1024 in the code
  ADDRESS_LIMIT,  \* number of addresses a word_t can hold, 2^32 in the code
  Stored          \* the values a caller may store

ASSUME MemoryAssumption ==
  /\ BYTE_RADIX \in Nat \ {0, 1}
  /\ MEMORY_SIZE \in Nat \ {0}
  /\ MEMORY_SIZE % 4 = 0
  /\ ADDRESS_LIMIT \in Nat /\ MEMORY_SIZE < ADDRESS_LIMIT
  /\ Stored \subseteq 0 .. Weight(4) - 1

VARIABLES
  g_mem,    \* the byte array
  aborted,  \* an assert has failed
  call      \* the last call, with the value it stored or returned (history)

vars == <<g_mem, aborted, call>>

BYTE_SIZE_BYTES == 1
HALFWORD_SIZE_BYTES == 2
WORD_SIZE_BYTES == 4

Byte == 0 .. BYTE_RADIX - 1
MemoryWord == 0 .. Weight(WORD_SIZE_BYTES) - 1

Address == 0 .. ADDRESS_LIMIT - 1
Location == 0 .. MEMORY_SIZE - 1

construct_memory ==
  /\ g_mem = [addr \in Location |-> 0]
  /\ aborted = FALSE

(* The subtraction is the code's: the size is known to be no larger than   *)
(* the array, so neither side of the comparison can wrap.                  *)
mem_in_bounds(addr, size_bytes) ==
  /\ size_bytes <= MEMORY_SIZE
  /\ addr <= MEMORY_SIZE - size_bytes

(* Seeded fault: the bounds are the only check. *)
Unaligned(addr, size_bytes) == TRUE

(* (addr & (size_bytes - 1)) == 0, for the sizes 1, 2 and 4. *)
Aligned(addr, size_bytes) == addr % size_bytes = 0

(* The two asserts in front of an access; a byte access has only the first,*)
(* which is what Aligned says of size one.                                 *)
Accessible(addr, size_bytes) ==
  /\ mem_in_bounds(addr, size_bytes)
  /\ Aligned(addr, size_bytes)

Record(kind, addr, size_bytes, value) ==
  call' = [kind |-> kind, addr |-> addr, size |-> size_bytes, value |-> value]

(* A failed assert: nothing has been stored and nothing is returned. *)
AssertFails(kind, addr, size_bytes) ==
  /\ ~Accessible(addr, size_bytes)
  /\ aborted' = TRUE
  /\ Record(kind, addr, size_bytes, 0)
  /\ UNCHANGED g_mem

Return(addr, size_bytes, value) ==
  /\ Accessible(addr, size_bytes)
  /\ Record("load", addr, size_bytes, value)
  /\ UNCHANGED <<g_mem, aborted>>

(* Seeded fault: the mask 0xFF is missing. *)
ByteUnmasked(value, lane) == value \div Weight(lane)

(* (value >> BYTE_SIZE_BITS * lane) & 0xFF *)
ByteOf(value, lane) == (value \div Weight(lane)) % BYTE_RADIX

(* m->bytes[addr + lane] = byte lane of value, for each lane in turn. *)
StoreBytes(addr, size_bytes, value) ==
  /\ Accessible(addr, size_bytes)
  /\ g_mem' = [i \in Location |->
                 IF i - addr \in 0 .. size_bytes - 1
                 THEN ByteOf(value, i - addr) ELSE g_mem[i]]
  /\ Record("store", addr, size_bytes, value)
  /\ UNCHANGED aborted

-----------------------------------------------------------------------------
mem_read8(addr) ==
  \/ Return(addr, BYTE_SIZE_BYTES, g_mem[addr])
  \/ AssertFails("load", addr, BYTE_SIZE_BYTES)

mem_read16(addr) ==
  \/ Return(addr, HALFWORD_SIZE_BYTES, g_mem[addr] + Weight(1) * g_mem[addr + 1])
  \/ AssertFails("load", addr, HALFWORD_SIZE_BYTES)

mem_read32(addr) ==
  \/ Return(addr, WORD_SIZE_BYTES,
            g_mem[addr] + Weight(1) * g_mem[addr + 1]
              + Weight(2) * g_mem[addr + 2]
              + Weight(3) * g_mem[addr + 3])
  \/ AssertFails("load", addr, WORD_SIZE_BYTES)

(* mem_write8 takes a whole word and keeps its low byte. *)
mem_write8(addr, value) ==
  \/ StoreBytes(addr, BYTE_SIZE_BYTES, value)
  \/ AssertFails("store", addr, BYTE_SIZE_BYTES)

(* The parameter is a halfword_t: the caller's value is narrowed on entry. *)
mem_write16(addr, value) ==
  \/ StoreBytes(addr, HALFWORD_SIZE_BYTES, value % Weight(HALFWORD_SIZE_BYTES))
  \/ AssertFails("store", addr, HALFWORD_SIZE_BYTES)

mem_write32(addr, value) ==
  \/ StoreBytes(addr, WORD_SIZE_BYTES, value)
  \/ AssertFails("store", addr, WORD_SIZE_BYTES)

-----------------------------------------------------------------------------
Init ==
  /\ construct_memory
  /\ call = [kind |-> "none", addr |-> 0, size |-> BYTE_SIZE_BYTES, value |-> 0]

Reads(addr) == mem_read8(addr) \/ mem_read16(addr) \/ mem_read32(addr)

Writes(addr, value) ==
  mem_write8(addr, value) \/ mem_write16(addr, value) \/ mem_write32(addr, value)

Next ==
  /\ ~aborted
  /\ \E addr \in Address :
       Reads(addr) \/ \E value \in Stored : Writes(addr, value)

Spec == Init /\ [][Next]_vars

-----------------------------------------------------------------------------
(* Every cell of g_mem stays a byte, whatever wider value is stored.       *)
TypeOK ==
  /\ g_mem \in [Location -> Byte]
  /\ aborted \in BOOLEAN
  /\ call \in [kind : {"none", "load", "store"}, addr : Address,
               size : {1, 2, 4}, value : MemoryWord]

(* The word array behind the bytes: byte addr is digit addr % 4 of word    *)
(* addr \div 4.                                                            *)
words ==
  [index \in 0 .. MEMORY_SIZE \div WORD_SIZE_BYTES - 1 |->
     LET Digit(lane) ==
           g_mem[WORD_SIZE_BYTES * index + lane] * Weight(lane)
     IN  Digit(0) + Digit(1) + Digit(2) + Digit(3)]

Abstract == INSTANCE WordMemory WITH words <- words

(* The byte array and its six accessors are an array of little-endian      *)
(* words: overlapping accesses of different sizes see one another's bytes, *)
(* a store changes no byte outside its own, and an access stops the        *)
(* program exactly when it is misaligned or reaches past the end.          *)
RefinesWordMemory == Abstract!Spec
=============================================================================
