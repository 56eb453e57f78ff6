----------------------------- MODULE WordMemory -----------------------------
(***************************************************************************)
(* What src/memory.h promises its callers: an array of words, read and     *)
(* written whole or by a naturally aligned half or byte, little-endian, in *)
(* arithmetic on whole words.  An access that is misaligned or reaches     *)
(* past the last word stops the program and changes nothing.               *)
(***************************************************************************)
EXTENDS ByteLanes

CONSTANTS MEMORY_SIZE, ADDRESS_LIMIT

VARIABLES words, aborted, call

WordCount == MEMORY_SIZE \div 4

(* The weight in its word of the byte at addr, and the number of values of *)
(* an access of this size.                                                 *)
Place(addr) == Weight(addr % 4)
Values(size) == Weight(size)

Legal(addr, size) == addr % size = 0 /\ addr + size <= 4 * WordCount

Field(addr, size) == (words[addr \div 4] \div Place(addr)) % Values(size)

Call == [kind : {"load", "store"}, addr : 0 .. ADDRESS_LIMIT - 1,
         size : {1, 2, 4}, value : 0 .. Values(4) - 1]

Init ==
  /\ words = [index \in 0 .. WordCount - 1 |-> 0]
  /\ aborted = FALSE
  /\ call.kind = "none"

Load(c) ==
  /\ c.kind = "load" /\ Legal(c.addr, c.size)
  /\ c.value = Field(c.addr, c.size)
  /\ UNCHANGED <<words, aborted>>

(* The field is replaced by the value, and every other digit stays. *)
Store(c) ==
  /\ c.kind = "store" /\ Legal(c.addr, c.size)
  /\ words' = [words EXCEPT ![c.addr \div 4] =
                 @ + ((c.value % Values(c.size)) - Field(c.addr, c.size))
                       * Place(c.addr)]
  /\ UNCHANGED aborted

Stop(c) ==
  /\ ~Legal(c.addr, c.size)
  /\ aborted' = TRUE
  /\ UNCHANGED words

(* The caller chooses a call; the memory answers it. *)
Next ==
  /\ ~aborted
  /\ call' \in Call
  /\ Load(call') \/ Store(call') \/ Stop(call')

Spec == Init /\ [][Next]_<<words, aborted, call>>
=============================================================================
