---------------------------- MODULE LayoutProofs ----------------------------
(***************************************************************************)
(* How words are laid out: as bytes in the memory and as fields in an      *)
(* instruction.  The byte array of src/memory.h implements the array of    *)
(* little-endian words, for every number of values of a byte, size of the  *)
(* array and choice of stored values; the decoders take every instruction  *)
(* word apart without loss or overlap.                                     *)
(***************************************************************************)
EXTENDS Memory, Encoding, TLAPS

-----------------------------------------------------------------------------
(* Quotients, remainders and digits. *)

(* Only zero is a multiple of m that lies within one m of zero. *)
LEMMA OnlyZero ==
  ASSUME NEW m \in Nat \ {0}, NEW q \in Int, -m < q * m, q * m < m
  PROVE  q = 0
<1>1. CASE q >= 1
  <2>1. q * m >= m
    BY <1>1
  <2>2. QED
    BY <2>1
<1>2. CASE q <= -1
  <2>1. q * m <= -m
    BY <1>2
  <2>2. QED
    BY <2>1
<1>3. QED
  BY <1>1, <1>2

(* A number written as a multiple of m and a residue has that quotient and *)
(* that remainder.                                                         *)
LEMMA Division ==
  ASSUME NEW m \in Nat \ {0}, NEW k \in Int, NEW r \in 0 .. m - 1
  PROVE  (r + m * k) \div m = k /\ (r + m * k) % m = r
<1> DEFINE a == r + m * k
           q == a \div m
<1>1. \A n \in Nat \ {0}, z \in Int :
        /\ z % n \in 0 .. n - 1
        /\ z \div n \in Int
        /\ z = n * (z \div n) + (z % n)
  OBVIOUS
<1>2. a % m \in 0 .. m - 1 /\ q \in Int /\ a = m * q + (a % m)
  BY <1>1
<1> HIDE DEF q
<1>3. (q - k) * m = r - (a % m)
  BY <1>2
<1>4. -m < (q - k) * m /\ (q - k) * m < m
  BY <1>2, <1>3
<1>5. q = k
  BY <1>4, OnlyZero, <1>2
<1>6. QED
  BY <1>2, <1>5 DEF q

(* Every number is a multiple of m and a residue; natural ones have a      *)
(* natural quotient.                                                       *)
LEMMA Quotient ==
  ASSUME NEW m \in Nat \ {0}, NEW v \in Nat
  PROVE  /\ v \div m \in Nat /\ v % m \in 0 .. m - 1
         /\ v = (v % m) + m * (v \div m)
<1>1. \A n \in Nat \ {0}, z \in Int :
        /\ z % n \in 0 .. n - 1
        /\ z \div n \in Int
        /\ z = n * (z \div n) + (z % n)
  OBVIOUS
<1>2. v % m \in 0 .. m - 1 /\ v \div m \in Int /\ v = m * (v \div m) + (v % m)
  BY <1>1
<1> DEFINE q == v \div m
<1> HIDE DEF q
<1>3. q >= 0
  <2>1. SUFFICES ASSUME q <= -1 PROVE FALSE
    BY <1>2 DEF q
  <2>2. m * q <= -m
    BY <2>1, <1>2 DEF q
  <2>3. QED
    BY <2>2, <1>2 DEF q
<1>4. QED
  BY <1>2, <1>3 DEF q

(* Two digits: the remainder and the quotient by the square of the radix.  *)
LEMMA TwoDigits ==
  ASSUME NEW m \in Nat \ {0}, NEW v \in Nat
  PROVE  /\ m * m \in Nat \ {0}
         /\ v % (m * m) = (v % m) + m * ((v \div m) % m)
         /\ v \div (m * m) = (v \div m) \div m
<1> DEFINE q == v \div m
           r == v % m
           d == q % m
           k == q \div m
           w == m * m
<1>1. q \in Nat /\ r \in 0 .. m - 1 /\ v = r + m * q
  BY Quotient
<1> HIDE DEF q, r
<1>2. k \in Nat /\ d \in 0 .. m - 1 /\ q = d + m * k
  BY <1>1, Quotient
<1> HIDE DEF d, k
<1>3. w \in Nat \ {0}
  OBVIOUS
<1>4. m * d <= m * (m - 1)
  BY <1>2
<1>5. r + m * d \in 0 .. w - 1
  <2>1. m * (m - 1) = w - m
    OBVIOUS
  <2>2. m * d \in Nat
    BY <1>2
  <2>3. QED
    BY <1>1, <1>3, <1>4, <2>1, <2>2
<1>6. v = (r + m * d) + w * k
  BY <1>1, <1>2
<1> DEFINE low == r + m * d
<1> HIDE DEF w, low
<1>7. low \in 0 .. w - 1 /\ v = low + w * k
  BY <1>5, <1>6 DEF low
<1>8. v % w = low /\ v \div w = k
  BY <1>2, <1>3, <1>7, Division
<1>9. QED
  BY <1>3, <1>8 DEF q, r, d, k, w, low

-----------------------------------------------------------------------------
(* Words and their bytes. *)

Lane == 0 .. WORD_SIZE_BYTES - 1

(* The weights of the lanes are powers of the radix. *)
LEMMA Weights ==
  /\ BYTE_RADIX \in Nat \ {0} /\ BYTE_RADIX >= 2
  /\ Weight(0) = 1 /\ Weight(1) = BYTE_RADIX
  /\ Weight(2) = BYTE_RADIX * BYTE_RADIX
  /\ Weight(3) = BYTE_RADIX * Weight(2)
  /\ Weight(4) = Weight(2) * Weight(2)
  /\ Weight(2) \in Nat \ {0} /\ Weight(3) \in Nat \ {0} /\ Weight(4) \in Nat \ {0}
<1> DEFINE m == BYTE_RADIX
<1>1. m \in Nat \ {0} /\ m >= 2
  BY MemoryAssumption
<1>2. /\ Weight(0) = 1 /\ Weight(1) = m /\ Weight(2) = m * m
      /\ Weight(3) = m * m * m /\ Weight(4) = m * m * m * m
  BY DEF Weight
<1> HIDE DEF m
<1>3. m * m \in Nat \ {0} /\ m * m * m \in Nat \ {0}
  BY <1>1
<1>4. m * m * m = m * (m * m) /\ m * m * m * m = (m * m) * (m * m)
  BY <1>1
<1>5. (m * m) * (m * m) \in Nat \ {0}
  BY <1>3
<1>6. QED
  BY <1>1, <1>2, <1>3, <1>4, <1>5 DEF m

(* The four bytes of a number: the bytes mem_write32 stores give it back,  *)
(* the two of mem_write16 the lower half of it.                            *)
LEMMA Bytes ==
  ASSUME NEW v \in Nat
  PROVE  /\ \A lane \in Lane : ByteOf(v, lane) \in Byte
         /\ v % Weight(1) = ByteOf(v, 0)
         /\ v % Weight(2) = ByteOf(v, 0) + Weight(1) * ByteOf(v, 1)
         /\ v % Weight(4) = ByteOf(v, 0) + Weight(1) * ByteOf(v, 1)
                              + Weight(2) * ByteOf(v, 2) + Weight(3) * ByteOf(v, 3)
<1> DEFINE m == BYTE_RADIX
           w == m * m
           q1 == v \div m
           q2 == v \div w
           q3 == v \div Weight(3)
<1>1. m \in Nat \ {0}
  BY Weights
<1>2. w \in Nat \ {0} /\ v % w = (v % m) + m * (q1 % m) /\ q2 = q1 \div m
  BY <1>1, TwoDigits
<1>3. q2 \in Nat /\ q1 \in Nat /\ v % w \in 0 .. w - 1 /\ v = (v % w) + w * q2
  BY <1>1, <1>2, Quotient
<1>4. q2 % w = (q2 % m) + m * ((q2 \div m) % m)
  BY <1>1, <1>3, TwoDigits
<1>5. v % (w * w) = (v % w) + w * (q2 % w)
  BY <1>2, TwoDigits
<1>6. q3 = q2 \div m
  <2> DEFINE r == v % w
             k == q2 \div m
             d == q2 % m
             low == r + w * d
  <2>1. k \in Nat /\ d \in 0 .. m - 1 /\ q2 = d + m * k
    BY <1>1, <1>3, Quotient
  <2> HIDE DEF k, d
  <2>2. r \in 0 .. w - 1 /\ v = r + w * q2
    BY <1>3
  <2> HIDE DEF r, q2, w, m
  <2>3. v = low + (m * w) * k
    BY <1>1, <1>2, <2>1, <2>2
  <2>4. low \in 0 .. m * w - 1
    <3>1. w * d <= w * (m - 1) /\ w * d \in Nat
      BY <1>1, <1>2, <2>1
    <3>2. w * (m - 1) = m * w - w
      BY <1>1, <1>2
    <3>3. QED
      BY <1>1, <1>2, <2>2, <3>1, <3>2
  <2> DEFINE u == m * w
  <2>5. u \in Nat \ {0} /\ low \in 0 .. u - 1 /\ v = low + u * k
    BY <1>1, <1>2, <2>3, <2>4
  <2>6. u = Weight(3)
    BY Weights DEF u, w, m
  <2> HIDE DEF low, u
  <2>7. v \div u = k
    BY <2>1, <2>5, Division
  <2>8. QED
    BY <2>6, <2>7 DEF k
<1>7. q1 % m \in Byte /\ v % m \in Byte /\ q2 % m \in Byte /\ q3 % m \in Byte
  <2>1. q3 \in Nat
    BY <1>1, <1>3, <1>6, Quotient
  <2>2. QED
    BY <1>1, <1>3, <2>1, Quotient DEF Byte
<1>8. /\ ByteOf(v, 0) = v % m /\ ByteOf(v, 1) = q1 % m
      /\ ByteOf(v, 2) = q2 % m /\ ByteOf(v, 3) = q3 % m
  <2>1. v \div 1 = v
    OBVIOUS
  <2>2. QED
    BY <2>1, Weights DEF ByteOf
<1>9. Weight(4) = w * w /\ Weight(3) = w * m /\ Weight(2) = w /\ Weight(1) = m
  BY Weights
<1>10. \A lane \in Lane : lane \in {0, 1, 2, 3}
  BY DEF Lane, WORD_SIZE_BYTES
<1>11. v % (w * w) = (v % m) + m * (q1 % m) + w * (q2 % m) + (w * m) * (q3 % m)
  <2> DEFINE b0 == v % m
             b1 == q1 % m
             b2 == q2 % m
             b3 == q3 % m
  <2>1. v % (w * w) = (b0 + m * b1) + w * (b2 + m * b3)
    BY <1>2, <1>4, <1>5, <1>6
  <2>2. b0 \in Nat /\ b1 \in Nat /\ b2 \in Nat /\ b3 \in Nat
    BY <1>7 DEF Byte
  <2> DEFINE total == v % (w * w)
  <2> HIDE DEF b0, b1, b2, b3, w, m, total
  <2>3. (b0 + m * b1) + w * (b2 + m * b3) = b0 + m * b1 + w * b2 + (w * m) * b3
    BY <1>1, <1>2, <2>2
  <2>4. QED
    BY <2>1, <2>3 DEF b0, b1, b2, b3, total
<1>12. QED
  BY <1>2, <1>7, <1>8, <1>9, <1>10, <1>11

(* Four bytes in a word, and what shifting and masking it gets back: each  *)
(* byte, each half and the whole.                                          *)
WordOf(b0, b1, b2, b3) ==
  b0 * Weight(0) + b1 * Weight(1) + b2 * Weight(2) + b3 * Weight(3)

LEMMA Fields ==
  ASSUME NEW b0 \in Byte, NEW b1 \in Byte, NEW b2 \in Byte, NEW b3 \in Byte,
         NEW w, w = WordOf(b0, b1, b2, b3)
  PROVE  /\ w \in MemoryWord
         /\ (w \div Weight(0)) % Weight(1) = b0
         /\ (w \div Weight(1)) % Weight(1) = b1
         /\ (w \div Weight(2)) % Weight(1) = b2
         /\ (w \div Weight(3)) % Weight(1) = b3
         /\ (w \div Weight(0)) % Weight(2) = b0 + Weight(1) * b1
         /\ (w \div Weight(2)) % Weight(2) = b2 + Weight(1) * b3
         /\ (w \div Weight(0)) % Weight(4) = w
<1> DEFINE m == BYTE_RADIX
           s == m * m
           low == b0 + m * b1
           high == b2 + m * b3
<1>1. /\ b0 \in 0 .. m - 1 /\ b1 \in 0 .. m - 1 /\ b2 \in 0 .. m - 1 /\ b3 \in 0 .. m - 1
      /\ m \in Nat \ {0}
  BY Weights DEF Byte
<1>2. /\ Weight(0) = 1 /\ Weight(1) = m /\ Weight(2) = s /\ Weight(3) = m * s
      /\ Weight(4) = s * s /\ s \in Nat \ {0}
  BY Weights
<1> HIDE DEF m
<1>3. \A a, b \in 0 .. m - 1 : a + m * b \in 0 .. s - 1
  <2>1. TAKE a, b \in 0 .. m - 1
  <2>2. m * b <= m * (m - 1) /\ m * b \in Nat
    BY <1>1
  <2>3. m * (m - 1) = s - m
    BY <1>1
  <2>4. QED
    BY <1>1, <1>2, <2>2, <2>3
<1>4. low \in 0 .. s - 1 /\ high \in 0 .. s - 1
  BY <1>1, <1>3
<1>5. w = low + s * high
  <2>1. w = b0 * 1 + b1 * m + b2 * s + b3 * (m * s)
    BY <1>2 DEF WordOf
  <2> HIDE DEF s
  <2>2. QED
    BY <1>1, <1>2, <2>1
<1>6. \A a, b \in 0 .. m - 1 : (a + m * b) % m = a /\ ((a + m * b) \div m) = b /\ b % m = b
  <2>1. TAKE a, b \in 0 .. m - 1
  <2>2. b + m * 0 = b /\ (b + m * 0) % m = b
    BY <1>1, Division
  <2>3. QED
    BY <1>1, <2>2, Division
<1>7. low % m = b0 /\ low \div m = b1 /\ high % m = b2 /\ high \div m = b3 /\ b3 % m = b3
  BY <1>1, <1>6
<1> HIDE DEF low, high
<1>8. w \in Nat /\ w % s = low /\ w \div s = high
  <2> HIDE DEF s
  <2>1. high \in Int /\ s \in Nat \ {0} /\ low \in 0 .. s - 1 /\ s * high \in Nat
    BY <1>2, <1>4
  <2>2. (low + s * high) \div s = high /\ (low + s * high) % s = low
    BY <2>1, Division
  <2>3. QED
    BY <1>5, <2>1, <2>2
<1>9. w % s = (w % m) + m * ((w \div m) % m) /\ w \div s = (w \div m) \div m
  BY <1>1, <1>8, TwoDigits
<1>10. w % m = b0 /\ (w \div m) % m = b1
  <2> DEFINE r == w % m
             d == (w \div m) % m
  <2>1. w \div m \in Nat /\ r \in 0 .. m - 1
    BY <1>1, <1>8, Quotient
  <2>2. d \in 0 .. m - 1
    BY <1>1, <2>1, Quotient
  <2>3. (r + m * d) % m = r /\ (r + m * d) \div m = d
    BY <1>6, <2>1, <2>2
  <2>4. low = r + m * d
    BY <1>8, <1>9
  <2>5. QED
    BY <1>7, <2>3, <2>4
<1>11. w \div Weight(3) = b3
  <2> DEFINE u == m * s
             r == low + s * b2
  <2>1. w = r + u * b3
    <3> HIDE DEF s
    <3>1. low \in Nat /\ b2 \in Nat /\ b3 \in Nat /\ m \in Nat /\ s \in Nat
      BY <1>1, <1>2, <1>4
    <3>2. s * high = s * b2 + (m * s) * b3
      BY <3>1 DEF high
    <3>3. QED
      BY <1>5, <3>1, <3>2
  <2>2. r \in 0 .. u - 1 /\ u \in Nat \ {0}
    <3>1. s * b2 <= s * (m - 1) /\ s * b2 \in Nat
      BY <1>1, <1>2
    <3>2. s * (m - 1) = u - s /\ u \in Nat \ {0}
      BY <1>1, <1>2
    <3>3. QED
      BY <1>2, <1>4, <3>1, <3>2
  <2> HIDE DEF r, u
  <2>3. b3 \in Int
    BY <1>1
  <2>4. (r + u * b3) \div u = b3
    BY <2>2, <2>3, Division
  <2>5. QED
    BY <1>2, <2>1, <2>4 DEF u
<1>12. low % s = low /\ high % s = high
  <2>1. low + s * 0 = low /\ high + s * 0 = high
    BY <1>2, <1>4
  <2>2. (low + s * 0) % s = low /\ (high + s * 0) % s = high
    BY <1>2, <1>4, Division
  <2>3. QED
    BY <2>1, <2>2
<1>13. w \in 0 .. s * s - 1 /\ s * s \in Nat \ {0}
  <2>1. s * high <= s * (s - 1) /\ s * high \in Nat
    BY <1>2, <1>4
  <2> HIDE DEF s
  <2>2. s * (s - 1) = s * s - s
    BY <1>2
  <2>3. s * s \in Nat \ {0}
    BY <1>2
  <2>4. QED
    BY <1>2, <1>4, <1>5, <2>1, <2>2, <2>3
<1>14. w \div 1 = w /\ w % (s * s) = w
  <2> DEFINE z == s * s
  <2> HIDE DEF z
  <2>1. z \in Nat \ {0} /\ w \in 0 .. z - 1
    BY <1>13 DEF z
  <2>2. w + z * 0 = w /\ (w + z * 0) % z = w
    BY <2>1, Division
  <2>3. w \div 1 = w
    BY <1>8
  <2>4. QED
    BY <2>2, <2>3 DEF z
<1>15. w \in MemoryWord
  BY <1>2, <1>13 DEF MemoryWord, WORD_SIZE_BYTES
<1>16. QED
  BY <1>2, <1>7, <1>8, <1>10, <1>11, <1>12, <1>14, <1>15 DEF low, high

-----------------------------------------------------------------------------
(* Locations and calls. *)

Index == 0 .. MEMORY_SIZE \div WORD_SIZE_BYTES - 1
Size == {BYTE_SIZE_BYTES, HALFWORD_SIZE_BYTES, WORD_SIZE_BYTES}

(* Words fill the array: four cells each, and none is left over.           *)
LEMMA WordCells ==
  /\ \A index \in Index, lane \in Lane : WORD_SIZE_BYTES * index + lane \in Location
  /\ Abstract!WordCount = MEMORY_SIZE \div WORD_SIZE_BYTES
  /\ 4 * Abstract!WordCount = MEMORY_SIZE /\ MEMORY_SIZE >= 4
BY MemoryAssumption DEF Index, Lane, Location, WORD_SIZE_BYTES, Abstract!WordCount

(* The two asserts of an accessor let through what the word memory calls   *)
(* legal, and such an access stays within the lanes of one word.           *)
LEMMA Access ==
  ASSUME NEW addr \in Address, NEW size \in Size
  PROVE  /\ Accessible(addr, size) <=> Abstract!Legal(addr, size)
         /\ Accessible(addr, size) =>
              /\ addr \div 4 \in Index
              /\ addr = WORD_SIZE_BYTES * (addr \div 4) + (addr % 4)
              /\ addr % 4 \in 0 .. WORD_SIZE_BYTES - size
              /\ (addr % 4) % size = 0
<1>1. addr \in Nat /\ size \in {1, 2, 4}
  BY MemoryAssumption
     DEF Address, Size, BYTE_SIZE_BYTES, HALFWORD_SIZE_BYTES, WORD_SIZE_BYTES
<1>2. Accessible(addr, size) <=> addr + size <= MEMORY_SIZE /\ addr % size = 0
  BY <1>1, WordCells, MemoryAssumption DEF Accessible, mem_in_bounds, Aligned
<1>3. Accessible(addr, size) <=> Abstract!Legal(addr, size)
  BY <1>2, WordCells DEF Abstract!Legal
<1>4. ASSUME addr + size <= MEMORY_SIZE, addr % size = 0
      PROVE  /\ addr \div 4 \in Index
             /\ addr = 4 * (addr \div 4) + (addr % 4)
             /\ addr % 4 \in 0 .. 4 - size
             /\ (addr % 4) % size = 0
  <2>1. addr \div 4 \in Index
    BY <1>1, <1>4, MemoryAssumption DEF Index, WORD_SIZE_BYTES
  <2>2. addr = 4 * (addr \div 4) + (addr % 4) /\ addr % 4 \in 0 .. 3
    BY <1>1
  <2>3. CASE size = 1
    BY <2>1, <2>2, <2>3
  <2>4. CASE size = 2
    BY <1>1, <1>4, <2>1, <2>2, <2>4
  <2>5. CASE size = 4
    BY <1>1, <1>4, <2>1, <2>2, <2>5
  <2>6. QED
    BY <1>1, <2>3, <2>4, <2>5
<1>5. QED
  BY <1>2, <1>3, <1>4 DEF WORD_SIZE_BYTES

(* What the accessor of each size returns. *)
Loaded(addr, size) ==
  IF size = BYTE_SIZE_BYTES THEN g_mem[addr]
  ELSE IF size = HALFWORD_SIZE_BYTES THEN g_mem[addr] + Weight(1) * g_mem[addr + 1]
  ELSE g_mem[addr] + Weight(1) * g_mem[addr + 1]
         + Weight(2) * g_mem[addr + 2] + Weight(3) * g_mem[addr + 3]

(* A step is one of three things: a failed assert, a load of what is in    *)
(* the array, a store of a word.                                           *)
LEMMA StepIsCall ==
  ASSUME Next
  PROVE  \E addr \in Address, size \in Size :
           \/ \E kind \in {"load", "store"} : AssertFails(kind, addr, size)
           \/ Return(addr, size, Loaded(addr, size))
           \/ \E value \in MemoryWord : StoreBytes(addr, size, value)
<1>1. PICK addr \in Address :
        Reads(addr) \/ \E value \in Stored : Writes(addr, value)
  BY DEF Next
<1>2. \A value \in Stored :
        value \in MemoryWord /\ value % Weight(HALFWORD_SIZE_BYTES) \in MemoryWord
  <2>1. TAKE value \in Stored
  <2>2. value \in MemoryWord
    BY MemoryAssumption DEF MemoryWord, WORD_SIZE_BYTES
  <2>3. /\ value \in Nat /\ Weight(2) \in Nat \ {0} /\ Weight(4) \in Nat
        /\ value <= Weight(4) - 1
    BY <2>2, Weights DEF MemoryWord, WORD_SIZE_BYTES
  <2>4. /\ value % Weight(2) \in Nat /\ value \div Weight(2) \in Nat
        /\ value = (value % Weight(2)) + Weight(2) * (value \div Weight(2))
    <3>1. \A m \in Nat \ {0}, v \in Nat :
            v % m \in Nat /\ v \div m \in Nat /\ v = (v % m) + m * (v \div m)
      BY Quotient
    <3>2. QED
      BY <2>3, <3>1
  <2>5. value % Weight(2) <= value
    <3> DEFINE m == Weight(2)
               r == value % m
               q == value \div m
    <3>1. m \in Nat /\ r \in Nat /\ q \in Nat /\ value = r + m * q
      BY <2>3, <2>4
    <3> HIDE DEF m, r, q
    <3>2. m * q \in Nat
      BY <3>1
    <3>3. r <= value
      BY <3>1, <3>2
    <3>4. QED
      BY <3>3 DEF r, m
  <2>6. QED
    BY <2>2, <2>3, <2>4, <2>5 DEF MemoryWord, WORD_SIZE_BYTES, HALFWORD_SIZE_BYTES
<1>3. /\ BYTE_SIZE_BYTES \in Size /\ HALFWORD_SIZE_BYTES \in Size /\ WORD_SIZE_BYTES \in Size
      /\ Loaded(addr, BYTE_SIZE_BYTES) = g_mem[addr]
      /\ Loaded(addr, HALFWORD_SIZE_BYTES) = g_mem[addr] + Weight(1) * g_mem[addr + 1]
      /\ Loaded(addr, WORD_SIZE_BYTES)
           = g_mem[addr] + Weight(1) * g_mem[addr + 1]
               + Weight(2) * g_mem[addr + 2] + Weight(3) * g_mem[addr + 3]
  BY DEF Size, Loaded, BYTE_SIZE_BYTES, HALFWORD_SIZE_BYTES, WORD_SIZE_BYTES
<1>4. CASE mem_read8(addr)
  BY <1>3, <1>4 DEF mem_read8
<1>5. CASE mem_read16(addr)
  BY <1>3, <1>5 DEF mem_read16
<1>6. CASE mem_read32(addr)
  BY <1>3, <1>6 DEF mem_read32
<1>7. ASSUME NEW value \in Stored, mem_write8(addr, value)
      PROVE  \/ StoreBytes(addr, BYTE_SIZE_BYTES, value)
             \/ AssertFails("store", addr, BYTE_SIZE_BYTES)
  BY <1>7 DEF mem_write8
<1>8. ASSUME NEW value \in Stored, mem_write16(addr, value)
      PROVE  \/ StoreBytes(addr, HALFWORD_SIZE_BYTES, value % Weight(HALFWORD_SIZE_BYTES))
             \/ AssertFails("store", addr, HALFWORD_SIZE_BYTES)
  BY <1>8 DEF mem_write16
<1>9. ASSUME NEW value \in Stored, mem_write32(addr, value)
      PROVE  \/ StoreBytes(addr, WORD_SIZE_BYTES, value)
             \/ AssertFails("store", addr, WORD_SIZE_BYTES)
  BY <1>9 DEF mem_write32
<1>10. CASE \E value \in Stored : Writes(addr, value)
  <2>1. PICK value \in Stored :
          mem_write8(addr, value) \/ mem_write16(addr, value) \/ mem_write32(addr, value)
    BY <1>10 DEF Writes
  <2>2. CASE mem_write8(addr, value)
    BY <1>2, <1>3, <1>7, <2>2
  <2>3. CASE mem_write16(addr, value)
    BY <1>2, <1>3, <1>8, <2>3
  <2>4. CASE mem_write32(addr, value)
    BY <1>2, <1>3, <1>9, <2>4
  <2>5. QED
    BY <2>1, <2>2, <2>3, <2>4
<1>11. QED
  BY <1>1, <1>4, <1>5, <1>6, <1>10 DEF Reads

-----------------------------------------------------------------------------
(* Types. *)

(* What a load returns fits a word. *)
LEMMA LoadedWord ==
  ASSUME TypeOK, NEW addr \in Address, NEW size \in Size, Accessible(addr, size)
  PROVE  Loaded(addr, size) \in MemoryWord
<1> DEFINE b(lane) == IF lane < size THEN g_mem[addr + lane] ELSE 0
<1>1. addr \in Nat /\ size \in {1, 2, 4} /\ addr + size <= MEMORY_SIZE
  BY MemoryAssumption
     DEF Address, Size, BYTE_SIZE_BYTES, HALFWORD_SIZE_BYTES, WORD_SIZE_BYTES,
         Accessible, mem_in_bounds
<1>2. \A lane \in Lane : lane < size => addr + lane \in Location
  BY <1>1, MemoryAssumption DEF Lane, Location, WORD_SIZE_BYTES
<1>3. 0 \in Byte
  BY Weights DEF Byte
<1>4. \A lane \in Lane : b(lane) \in Byte
  BY <1>2, <1>3 DEF TypeOK
<1>5. b(0) \in Byte /\ b(1) \in Byte /\ b(2) \in Byte /\ b(3) \in Byte
  BY <1>4 DEF Lane, WORD_SIZE_BYTES
<1>6. WordOf(b(0), b(1), b(2), b(3)) \in MemoryWord
  BY <1>5, Fields
<1>7. ASSUME NEW b0 \in Byte, NEW b1 \in Byte, NEW b2 \in Byte, NEW b3 \in Byte
      PROVE  /\ WordOf(b0, b1, b2, b3) = b0 + Weight(1) * b1 + Weight(2) * b2 + Weight(3) * b3
             /\ WordOf(b0, b1, 0, 0) = b0 + Weight(1) * b1
             /\ WordOf(b0, 0, 0, 0) = b0
  <2>1. b0 \in Nat /\ b1 \in Nat /\ b2 \in Nat /\ b3 \in Nat
    BY Weights DEF Byte
  <2>2. Weight(1) \in Nat /\ Weight(2) \in Nat /\ Weight(3) \in Nat /\ Weight(0) = 1
    BY Weights
  <2>3. QED
    BY <2>1, <2>2 DEF WordOf
<1>8. Loaded(addr, size) = WordOf(b(0), b(1), b(2), b(3))
  <2>1. addr + 0 = addr
    BY <1>1
  <2>2. CASE size = 1
    <3>1. b(0) = g_mem[addr] /\ b(1) = 0 /\ b(2) = 0 /\ b(3) = 0
      BY <2>1, <2>2
    <3>2. Loaded(addr, size) = b(0)
      BY <2>2, <3>1 DEF Loaded, BYTE_SIZE_BYTES
    <3>3. QED
      BY <1>5, <1>7, <3>1, <3>2
  <2>3. CASE size = 2
    <3>1. b(0) = g_mem[addr] /\ b(1) = g_mem[addr + 1] /\ b(2) = 0 /\ b(3) = 0
      BY <2>1, <2>3
    <3>2. Loaded(addr, size) = b(0) + Weight(1) * b(1)
      BY <2>3, <3>1 DEF Loaded, BYTE_SIZE_BYTES, HALFWORD_SIZE_BYTES
    <3>3. QED
      BY <1>5, <1>7, <3>1, <3>2
  <2>4. CASE size = 4
    <3>1. /\ b(0) = g_mem[addr] /\ b(1) = g_mem[addr + 1]
          /\ b(2) = g_mem[addr + 2] /\ b(3) = g_mem[addr + 3]
      BY <2>1, <2>4
    <3>2. Loaded(addr, size)
            = b(0) + Weight(1) * b(1) + Weight(2) * b(2) + Weight(3) * b(3)
      BY <2>4, <3>1 DEF Loaded, BYTE_SIZE_BYTES, HALFWORD_SIZE_BYTES
    <3>3. QED
      BY <1>5, <1>7, <3>1, <3>2
  <2>5. QED
    BY <1>1, <2>2, <2>3, <2>4
<1>9. QED
  BY <1>6, <1>8

(* A call record is in its type. *)
LEMMA RecordType ==
  ASSUME NEW kind \in {"load", "store"}, NEW addr \in Address, NEW size \in Size,
         NEW value \in MemoryWord, Record(kind, addr, size, value)
  PROVE  call' \in [kind : {"none", "load", "store"}, addr : Address,
                    size : {1, 2, 4}, value : MemoryWord]
BY DEF Record, Size, BYTE_SIZE_BYTES, HALFWORD_SIZE_BYTES, WORD_SIZE_BYTES

(* Initially everything is zero. *)
LEMMA InitType == Init => TypeOK
<1> SUFFICES ASSUME Init PROVE TypeOK
  OBVIOUS
<1>1. 0 \in Byte /\ 0 \in MemoryWord /\ 0 \in Address
  BY Weights, MemoryAssumption DEF Byte, MemoryWord, Address, WORD_SIZE_BYTES
<1>2. QED
  BY <1>1 DEF Init, construct_memory, TypeOK, BYTE_SIZE_BYTES

(* No step leaves a cell that is not a byte. *)
LEMMA NextType ==
  ASSUME TypeOK, Next
  PROVE  TypeOK'
<1>1. 0 \in MemoryWord
  BY Weights DEF MemoryWord, WORD_SIZE_BYTES
<1>2. PICK addr \in Address, size \in Size :
        \/ \E kind \in {"load", "store"} : AssertFails(kind, addr, size)
        \/ Return(addr, size, Loaded(addr, size))
        \/ \E value \in MemoryWord : StoreBytes(addr, size, value)
  BY StepIsCall
<1>3. CASE \E kind \in {"load", "store"} : AssertFails(kind, addr, size)
  BY <1>1, <1>3, RecordType DEF AssertFails, TypeOK
<1>4. CASE Return(addr, size, Loaded(addr, size))
  BY <1>4, LoadedWord, RecordType DEF Return, TypeOK
<1>5. ASSUME NEW value \in MemoryWord, StoreBytes(addr, size, value)
      PROVE  TypeOK'
  <2>1. value \in Nat
    BY Weights DEF MemoryWord, WORD_SIZE_BYTES
  <2>2. size \in {1, 2, 4} /\ addr \in Nat
    BY MemoryAssumption
       DEF Size, BYTE_SIZE_BYTES, HALFWORD_SIZE_BYTES, WORD_SIZE_BYTES, Address
  <2>3. ASSUME NEW i \in Location, i - addr \in 0 .. size - 1
        PROVE  ByteOf(value, i - addr) \in Byte
    <3>1. i - addr \in Lane
      BY <2>2, <2>3 DEF Lane, WORD_SIZE_BYTES
    <3>2. QED
      BY <2>1, <3>1, Bytes
  <2>4. g_mem' \in [Location -> Byte]
    BY <1>5, <2>3 DEF StoreBytes, TypeOK
  <2>5. QED
    BY <1>5, <2>4, RecordType DEF StoreBytes, TypeOK
<1>6. QED
  BY <1>2, <1>3, <1>4, <1>5

(* Every cell of g_mem stays a byte whatever wider value is stored, and    *)
(* every access returns a word.                                            *)
THEOREM TypeCorrect == Spec => []TypeOK
<1>1. TypeOK /\ UNCHANGED vars => TypeOK'
  BY DEF TypeOK, vars
<1>2. QED
  BY InitType, NextType, <1>1, PTL DEF Spec

-----------------------------------------------------------------------------
(* The refinement, one kind of step at a time. *)

(* A word of the abstract array is made of its four cells. *)
LEMMA WordOfCells ==
  ASSUME TypeOK, NEW index \in Index
  PROVE  /\ g_mem[4 * index + 0] \in Byte /\ g_mem[4 * index + 1] \in Byte
         /\ g_mem[4 * index + 2] \in Byte /\ g_mem[4 * index + 3] \in Byte
         /\ words[index] = WordOf(g_mem[4 * index + 0], g_mem[4 * index + 1],
                                  g_mem[4 * index + 2], g_mem[4 * index + 3])
<1>1. /\ 4 * index + 0 \in Location /\ 4 * index + 1 \in Location
      /\ 4 * index + 2 \in Location /\ 4 * index + 3 \in Location
  <2>1. 0 \in Lane /\ 1 \in Lane /\ 2 \in Lane /\ 3 \in Lane
    BY DEF Lane, WORD_SIZE_BYTES
  <2>2. QED
    BY <2>1, WordCells DEF WORD_SIZE_BYTES
<1>2. QED
  BY <1>1 DEF TypeOK, words, WordOf, Index, WORD_SIZE_BYTES

(* A load returns the field of the abstract word. *)
LEMMA LoadStep ==
  ASSUME TypeOK, NEW addr \in Address, NEW size \in Size,
         Return(addr, size, Loaded(addr, size))
  PROVE  Abstract!Load(call') /\ call' \in Abstract!Call
<1> DEFINE index == addr \div 4
           k == addr % 4
           cell(lane) == g_mem[4 * index + lane]
           w == words[index]
<1>1. /\ Accessible(addr, size)
      /\ call' = [kind |-> "load", addr |-> addr, size |-> size, value |-> Loaded(addr, size)]
      /\ UNCHANGED <<g_mem, aborted>>
  BY DEF Return, Record
<1>2. /\ Abstract!Legal(addr, size) /\ index \in Index /\ addr = 4 * index + k
      /\ k \in 0 .. 4 - size /\ k % size = 0
  BY <1>1, Access DEF WORD_SIZE_BYTES
<1>3. size \in {1, 2, 4} /\ index \in Nat /\ k \in Nat
  BY <1>2, MemoryAssumption
     DEF Size, BYTE_SIZE_BYTES, HALFWORD_SIZE_BYTES, WORD_SIZE_BYTES, Index
<1>4. /\ cell(0) \in Byte /\ cell(1) \in Byte /\ cell(2) \in Byte /\ cell(3) \in Byte
      /\ w = WordOf(cell(0), cell(1), cell(2), cell(3))
  BY <1>2, WordOfCells
<1>5. /\ (w \div Weight(0)) % Weight(1) = cell(0) /\ (w \div Weight(1)) % Weight(1) = cell(1)
      /\ (w \div Weight(2)) % Weight(1) = cell(2) /\ (w \div Weight(3)) % Weight(1) = cell(3)
      /\ (w \div Weight(0)) % Weight(2) = cell(0) + Weight(1) * cell(1)
      /\ (w \div Weight(2)) % Weight(2) = cell(2) + Weight(1) * cell(3)
      /\ (w \div Weight(0)) % Weight(4) = w
  BY <1>4, Fields
<1>6. w = cell(0) + Weight(1) * cell(1) + Weight(2) * cell(2) + Weight(3) * cell(3)
  <2>1. /\ cell(0) \in Nat /\ cell(1) \in Nat /\ cell(2) \in Nat /\ cell(3) \in Nat
    BY <1>4, Weights DEF Byte
  <2>2. Weight(1) \in Nat /\ Weight(2) \in Nat /\ Weight(3) \in Nat /\ Weight(0) = 1
    BY Weights
  <2>3. QED
    BY <1>4, <2>1, <2>2 DEF WordOf
<1>7. Abstract!Field(addr, size) = (w \div Weight(k)) % Weight(size)
  BY DEF Abstract!Field, Abstract!Place, Abstract!Values, Abstract!Weight, Weight
<1>8. Loaded(addr, size) = Abstract!Field(addr, size)
  <2>1. CASE size = 1
    <3>1. Loaded(addr, size) = cell(k)
      BY <1>2, <2>1 DEF Loaded, BYTE_SIZE_BYTES
    <3>2. k \in {0, 1, 2, 3}
      BY <1>2, <2>1
    <3>3. QED
      BY <1>5, <1>7, <2>1, <3>1, <3>2
  <2>2. CASE size = 2
    <3>1. k \in {0, 2}
      BY <1>2, <2>2
    <3>2. g_mem[addr] = cell(k) /\ g_mem[addr + 1] = cell(k + 1)
      BY <1>2, <1>3
    <3>3. Loaded(addr, size) = cell(k) + Weight(1) * cell(k + 1)
      BY <2>2, <3>2 DEF Loaded, BYTE_SIZE_BYTES, HALFWORD_SIZE_BYTES
    <3>4. CASE k = 0
      BY <1>5, <1>7, <2>2, <3>3, <3>4
    <3>5. CASE k = 2
      BY <1>5, <1>7, <2>2, <3>3, <3>5
    <3>6. QED
      BY <3>1, <3>4, <3>5
  <2>3. CASE size = 4
    <3>1. k = 0
      BY <1>2, <2>3
    <3>2. /\ g_mem[addr] = cell(0) /\ g_mem[addr + 1] = cell(1)
          /\ g_mem[addr + 2] = cell(2) /\ g_mem[addr + 3] = cell(3)
      BY <1>2, <1>3, <3>1
    <3>3. Loaded(addr, size)
            = cell(0) + Weight(1) * cell(1) + Weight(2) * cell(2) + Weight(3) * cell(3)
      BY <2>3, <3>2 DEF Loaded, BYTE_SIZE_BYTES, HALFWORD_SIZE_BYTES
    <3>4. QED
      BY <1>5, <1>6, <1>7, <2>3, <3>1, <3>3
  <2>4. QED
    BY <1>3, <2>1, <2>2, <2>3
<1>9. words' = words
  BY <1>1 DEF words
<1>10. call' \in Abstract!Call
  <2>1. Loaded(addr, size) \in 0 .. Weight(4) - 1
    BY <1>1, LoadedWord DEF MemoryWord, WORD_SIZE_BYTES
  <2>2. QED
    BY <1>1, <1>3, <2>1
       DEF Abstract!Call, Abstract!Values, Abstract!Weight, Weight, Address
<1>11. QED
  BY <1>1, <1>2, <1>8, <1>9, <1>10 DEF Abstract!Load

(* A store replaces the field of the abstract word and nothing else.       *)
LEMMA StoreStep ==
  ASSUME TypeOK, NEW addr \in Address, NEW size \in Size, NEW value \in MemoryWord,
         StoreBytes(addr, size, value)
  PROVE  Abstract!Store(call') /\ call' \in Abstract!Call
<1> DEFINE at == addr \div 4
           k == addr % 4
           w == words[at]
           field == (w \div Weight(k)) % Weight(size)
           stored == value % Weight(size)
           byte(lane) == ByteOf(value, lane)
<1>1. /\ Accessible(addr, size)
      /\ call' = [kind |-> "store", addr |-> addr, size |-> size, value |-> value]
      /\ g_mem' = [i \in Location |-> IF i - addr \in 0 .. size - 1
                                     THEN byte(i - addr) ELSE g_mem[i]]
      /\ UNCHANGED aborted
  BY DEF StoreBytes, Record
<1>2. /\ Abstract!Legal(addr, size) /\ at \in Index /\ addr = 4 * at + k
      /\ k \in 0 .. 4 - size /\ k % size = 0
  BY <1>1, Access DEF WORD_SIZE_BYTES
<1>3. size \in {1, 2, 4} /\ at \in Nat /\ k \in Nat /\ Index \subseteq Nat
  BY <1>2, MemoryAssumption
     DEF Size, BYTE_SIZE_BYTES, HALFWORD_SIZE_BYTES, WORD_SIZE_BYTES, Index
<1>4. value \in 0 .. Weight(4) - 1 /\ value \in Nat
  BY Weights DEF MemoryWord, WORD_SIZE_BYTES
<1>5. /\ byte(0) \in Nat /\ byte(1) \in Nat /\ byte(2) \in Nat /\ byte(3) \in Nat
      /\ value % Weight(1) = byte(0)
      /\ value % Weight(2) = byte(0) + Weight(1) * byte(1)
      /\ value % Weight(4) = byte(0) + Weight(1) * byte(1)
                               + Weight(2) * byte(2) + Weight(3) * byte(3)
  <2>1. 0 \in Lane /\ 1 \in Lane /\ 2 \in Lane /\ 3 \in Lane
    BY DEF Lane, WORD_SIZE_BYTES
  <2>2. \A lane \in Lane : ByteOf(value, lane) \in Nat
    <3>1. \A lane \in Lane : ByteOf(value, lane) \in Byte
      BY <1>4, Bytes
    <3>2. Byte \subseteq Nat
      BY Weights DEF Byte
    <3>3. QED
      BY <3>1, <3>2
  <2>3. QED
    BY <1>4, <2>1, <2>2, Bytes
<1> HIDE DEF at, k, byte
<1>6. \A index \in Index : words'[index] =
        WordOf(g_mem'[4 * index + 0], g_mem'[4 * index + 1],
               g_mem'[4 * index + 2], g_mem'[4 * index + 3])
  BY DEF words, WordOf, Index, WORD_SIZE_BYTES
<1>7. \A index \in Index, lane \in {0, 1, 2, 3} :
        g_mem'[4 * index + lane] =
          IF index = at /\ lane - k \in 0 .. size - 1
          THEN byte(lane - k) ELSE g_mem[4 * index + lane]
  <2>1. TAKE index \in Index, lane \in {0, 1, 2, 3}
  <2>2. 4 * index + lane \in Location
    <3>1. lane \in Lane
      BY DEF Lane, WORD_SIZE_BYTES
    <3>2. QED
      BY <3>1, WordCells DEF WORD_SIZE_BYTES
  <2>3. (4 * index + lane) - addr \in 0 .. size - 1
          <=> index = at /\ lane - k \in 0 .. size - 1
    BY <1>2, <1>3
  <2>4. index = at => (4 * index + lane) - addr = lane - k
    BY <1>2, <1>3
  <2>5. QED
    BY <1>1, <2>2, <2>3, <2>4
<1>8. \A index \in Index \ {at} : words'[index] = words[index]
  BY <1>6, <1>7, WordOfCells
<1>9. words'[at] = w + (stored - field) * Weight(k)
  <2> DEFINE b0 == g_mem[4 * at + 0]
             b1 == g_mem[4 * at + 1]
             b2 == g_mem[4 * at + 2]
             b3 == g_mem[4 * at + 3]
             c(lane) == IF lane - k \in 0 .. size - 1 THEN byte(lane - k)
                        ELSE g_mem[4 * at + lane]
             m == Weight(1)
             s == Weight(2)
             t == Weight(3)
  <2>1. b0 \in Byte /\ b1 \in Byte /\ b2 \in Byte /\ b3 \in Byte /\ w = WordOf(b0, b1, b2, b3)
    BY <1>2, WordOfCells
  <2>2. /\ (w \div Weight(0)) % Weight(1) = b0 /\ (w \div Weight(1)) % Weight(1) = b1
        /\ (w \div Weight(2)) % Weight(1) = b2 /\ (w \div Weight(3)) % Weight(1) = b3
        /\ (w \div Weight(0)) % Weight(2) = b0 + Weight(1) * b1
        /\ (w \div Weight(2)) % Weight(2) = b2 + Weight(1) * b3
        /\ (w \div Weight(0)) % Weight(4) = w
    BY <2>1, Fields
  <2>3. /\ b0 \in Nat /\ b1 \in Nat /\ b2 \in Nat /\ b3 \in Nat
        /\ m \in Nat /\ s \in Nat /\ t \in Nat /\ t = m * s /\ Weight(0) = 1
    BY <2>1, Weights DEF Byte
  <2>4. w = b0 + b1 * m + b2 * s + b3 * t
    BY <2>1, <2>3 DEF WordOf
  <2>5. words'[at] = c(0) + c(1) * m + c(2) * s + c(3) * t
    <3>1. words'[at] = WordOf(c(0), c(1), c(2), c(3))
      <4>1. \A lane \in {0, 1, 2, 3} : g_mem'[4 * at + lane] = c(lane)
        <5>1. TAKE lane \in {0, 1, 2, 3}
        <5>2. at \in Index
          BY <1>2
        <5>3. g_mem'[4 * at + lane] = IF at = at /\ lane - k \in 0 .. size - 1
                                     THEN byte(lane - k) ELSE g_mem[4 * at + lane]
          BY <1>7, <5>2
        <5>4. QED
          BY <5>3
      <4> HIDE DEF c
      <4>2. /\ g_mem'[4 * at + 0] = c(0) /\ g_mem'[4 * at + 1] = c(1)
            /\ g_mem'[4 * at + 2] = c(2) /\ g_mem'[4 * at + 3] = c(3)
        BY <4>1
      <4>3. QED
        BY <1>2, <1>6, <4>2
    <3>2. c(0) \in Nat
      BY <1>2, <1>3, <1>5, <2>3
    <3>3. QED
      BY <2>3, <3>1, <3>2 DEF WordOf
  <2>6. CASE size = 1
    <3>1. stored = byte(0)
      BY <1>5, <2>6
    <3>2. CASE k = 0
      <4>1. c(0) = byte(0) /\ c(1) = b1 /\ c(2) = b2 /\ c(3) = b3
        BY <2>6, <3>2
      <4>2. field = b0 /\ Weight(k) = 1
        BY <2>2, <2>3, <2>6, <3>2
      <4> HIDE DEF c, field, stored, w, b0, b1, b2, b3, m, s, t
      <4>3. QED
        BY <1>5, <2>3, <2>4, <2>5, <3>1, <4>1, <4>2
    <3>3. CASE k = 1
      <4>1. c(0) = b0 /\ c(1) = byte(0) /\ c(2) = b2 /\ c(3) = b3
        BY <2>6, <3>3
      <4>2. field = b1 /\ Weight(k) = m
        BY <2>2, <2>6, <3>3
      <4> HIDE DEF c, field, stored, w, b0, b1, b2, b3, m, s, t
      <4>3. QED
        BY <1>5, <2>3, <2>4, <2>5, <3>1, <4>1, <4>2
    <3>4. CASE k = 2
      <4>1. c(0) = b0 /\ c(1) = b1 /\ c(2) = byte(0) /\ c(3) = b3
        BY <2>6, <3>4
      <4>2. field = b2 /\ Weight(k) = s
        BY <2>2, <2>6, <3>4
      <4> HIDE DEF c, field, stored, w, b0, b1, b2, b3, m, s, t
      <4>3. QED
        BY <1>5, <2>3, <2>4, <2>5, <3>1, <4>1, <4>2
    <3>5. CASE k = 3
      <4>1. c(0) = b0 /\ c(1) = b1 /\ c(2) = b2 /\ c(3) = byte(0)
        BY <2>6, <3>5
      <4>2. field = b3 /\ Weight(k) = t
        BY <2>2, <2>6, <3>5
      <4> HIDE DEF c, field, stored, w, b0, b1, b2, b3, m, s, t
      <4>3. QED
        BY <1>5, <2>3, <2>4, <2>5, <3>1, <4>1, <4>2
    <3>6. QED
      BY <1>2, <1>3, <2>6, <3>2, <3>3, <3>4, <3>5
  <2>7. CASE size = 2
    <3>1. stored = byte(0) + m * byte(1)
      BY <1>5, <2>7
    <3>2. CASE k = 0
      <4>1. c(0) = byte(0) /\ c(1) = byte(1) /\ c(2) = b2 /\ c(3) = b3
        BY <2>7, <3>2
      <4>2. field = b0 + m * b1 /\ Weight(k) = 1
        BY <2>2, <2>3, <2>7, <3>2
      <4> HIDE DEF c, field, stored, w, b0, b1, b2, b3, m, s, t
      <4>3. QED
        BY <1>5, <2>3, <2>4, <2>5, <3>1, <4>1, <4>2
    <3>3. CASE k = 2
      <4>1. c(0) = b0 /\ c(1) = b1 /\ c(2) = byte(0) /\ c(3) = byte(1)
        BY <2>7, <3>3
      <4>2. field = b2 + m * b3 /\ Weight(k) = s
        BY <2>2, <2>7, <3>3
      <4> HIDE DEF c, field, stored, w, b0, b1, b2, b3, m, s, t
      <4>3. QED
        BY <1>5, <2>3, <2>4, <2>5, <3>1, <4>1, <4>2
    <3>4. QED
      BY <1>2, <1>3, <2>7, <3>2, <3>3
  <2>8. CASE size = 4
    <3>1. k = 0
      BY <1>2, <2>8
    <3>2. stored = byte(0) + m * byte(1) + s * byte(2) + t * byte(3)
      BY <1>5, <2>8
    <3>3. c(0) = byte(0) /\ c(1) = byte(1) /\ c(2) = byte(2) /\ c(3) = byte(3)
      BY <2>8, <3>1
    <3>4. field = w /\ Weight(k) = 1
      BY <2>2, <2>3, <2>8, <3>1
    <3> HIDE DEF c, field, stored, w, b0, b1, b2, b3, m, s, t
    <3>5. QED
      BY <1>5, <2>3, <2>4, <2>5, <3>2, <3>3, <3>4
  <2>9. QED
    BY <1>3, <2>6, <2>7, <2>8
<1>10. /\ Abstract!Field(addr, size) = field
       /\ Abstract!Values(size) = Weight(size) /\ Abstract!Place(addr) = Weight(k)
  BY DEF Abstract!Field, Abstract!Place, Abstract!Values, Abstract!Weight, Weight, k, at
<1>11. words' = [words EXCEPT ![at] = @ + (stored - field) * Weight(k)]
  <2>1. words' = [index \in Index |-> words'[index]] /\ words = [index \in Index |-> words[index]]
    BY DEF words, Index
  <2>2. QED
    BY <1>2, <1>8, <1>9, <2>1
<1>12. Abstract!Store(call')
  BY <1>1, <1>2, <1>10, <1>11 DEF Abstract!Store, at
<1>13. call' \in Abstract!Call
  BY <1>1, <1>3, <1>4 DEF Abstract!Call, Abstract!Values, Abstract!Weight, Weight, Address
<1>14. QED
  BY <1>12, <1>13

(* A failed assert stops the abstract memory too. *)
LEMMA StopStep ==
  ASSUME NEW kind \in {"load", "store"}, NEW addr \in Address, NEW size \in Size,
         AssertFails(kind, addr, size)
  PROVE  Abstract!Stop(call') /\ call' \in Abstract!Call
<1>1. /\ ~Abstract!Legal(addr, size) /\ aborted' = TRUE /\ words' = words
      /\ call' = [kind |-> kind, addr |-> addr, size |-> size, value |-> 0]
  BY Access DEF AssertFails, Record, words
<1>2. 0 \in 0 .. Weight(4) - 1 /\ size \in {1, 2, 4}
  BY Weights DEF Size, BYTE_SIZE_BYTES, HALFWORD_SIZE_BYTES, WORD_SIZE_BYTES
<1>3. QED
  BY <1>1, <1>2
     DEF Abstract!Stop, Abstract!Call, Abstract!Values, Abstract!Weight, Weight, Address

(* Every step of the byte array is a step of the word array. *)
LEMMA NextRefines ==
  ASSUME TypeOK, Next
  PROVE  Abstract!Next
<1>1. PICK addr \in Address, size \in Size :
        \/ \E kind \in {"load", "store"} : AssertFails(kind, addr, size)
        \/ Return(addr, size, Loaded(addr, size))
        \/ \E value \in MemoryWord : StoreBytes(addr, size, value)
  BY StepIsCall
<1>2. ~aborted
  BY DEF Next
<1>3. CASE \E kind \in {"load", "store"} : AssertFails(kind, addr, size)
  BY <1>2, <1>3, StopStep DEF Abstract!Next
<1>4. CASE Return(addr, size, Loaded(addr, size))
  BY <1>2, <1>4, LoadStep DEF Abstract!Next
<1>5. CASE \E value \in MemoryWord : StoreBytes(addr, size, value)
  BY <1>2, <1>5, StoreStep DEF Abstract!Next
<1>6. QED
  BY <1>1, <1>3, <1>4, <1>5

(* The byte array is zero, and so is every word. *)
LEMMA InitRefines == Init => Abstract!Init
<1> SUFFICES ASSUME Init PROVE Abstract!Init
  OBVIOUS
<1>1. /\ call.kind = "none" /\ aborted = FALSE
      /\ \A i \in Location : g_mem[i] = 0
  BY DEF Init, construct_memory
<1>2. \A index \in Index : words[index] = 0
  <2>1. TAKE index \in Index
  <2>2. words[index] = WordOf(g_mem[4 * index + 0], g_mem[4 * index + 1],
                              g_mem[4 * index + 2], g_mem[4 * index + 3])
    BY InitType, WordOfCells
  <2>3. /\ 4 * index + 0 \in Location /\ 4 * index + 1 \in Location
        /\ 4 * index + 2 \in Location /\ 4 * index + 3 \in Location
    <3>1. 0 \in Lane /\ 1 \in Lane /\ 2 \in Lane /\ 3 \in Lane
      BY DEF Lane, WORD_SIZE_BYTES
    <3>2. QED
      BY <3>1, WordCells DEF WORD_SIZE_BYTES
  <2>4. QED
    BY <1>1, <2>2, <2>3, Weights DEF WordOf
<1>3. words = [index \in Index |-> 0]
  BY <1>2 DEF words, Index
<1>4. QED
  BY <1>1, <1>3, WordCells DEF Abstract!Init, Index

(* The byte array with its six accessors implements the array of           *)
(* little-endian words, whatever the number of values of a byte and the    *)
(* size of the array.                                                      *)
THEOREM ImplementsWordMemory == Spec => RefinesWordMemory
<1>1. UNCHANGED vars => UNCHANGED <<words, aborted, call>>
  BY DEF vars, words
<1>2. QED
  BY TypeCorrect, InitRefines, NextRefines, <1>1, PTL
     DEF Spec, RefinesWordMemory, Abstract!Spec

(* What the last store left in the array is what a load of its size there  *)
(* returns: the value, narrowed to the size.                               *)
ReadBack ==
  call.kind = "store" /\ Accessible(call.addr, call.size) =>
    Loaded(call.addr, call.size) = call.value % Weight(call.size)

(* A store leaves its value behind, at every size. *)
LEMMA StoreReadsBack ==
  ASSUME NEW addr \in Address, NEW size \in Size, NEW value \in MemoryWord,
         StoreBytes(addr, size, value)
  PROVE  ReadBack'
<1> DEFINE byte(lane) == ByteOf(value, lane)
<1>1. /\ call' = [kind |-> "store", addr |-> addr, size |-> size, value |-> value]
      /\ g_mem' = [i \in Location |-> IF i - addr \in 0 .. size - 1
                                     THEN byte(i - addr) ELSE g_mem[i]]
  BY DEF StoreBytes, Record
<1>2. addr \in Nat /\ size \in {1, 2, 4} /\ addr + size <= MEMORY_SIZE
  BY MemoryAssumption
     DEF Address, Size, BYTE_SIZE_BYTES, HALFWORD_SIZE_BYTES, WORD_SIZE_BYTES,
         StoreBytes, Accessible, mem_in_bounds
<1>3. value \in Nat
  BY Weights DEF MemoryWord, WORD_SIZE_BYTES
<1>4. /\ value % Weight(1) = byte(0)
      /\ value % Weight(2) = byte(0) + Weight(1) * byte(1)
      /\ value % Weight(4) = byte(0) + Weight(1) * byte(1)
                               + Weight(2) * byte(2) + Weight(3) * byte(3)
  BY <1>3, Bytes
<1> HIDE DEF byte
<1>5. \A lane \in 0 .. 3 : lane < size => g_mem'[addr + lane] = byte(lane)
  BY <1>1, <1>2, MemoryAssumption DEF Location
<1>6. Loaded(addr, size)' = value % Weight(size)
  <2>1. addr + 0 = addr
    BY <1>2
  <2>2. CASE size = 1
    <3>1. g_mem'[addr] = byte(0)
      BY <1>5, <2>1, <2>2
    <3>2. QED
      BY <1>4, <2>2, <3>1 DEF Loaded, BYTE_SIZE_BYTES
  <2>3. CASE size = 2
    <3>1. g_mem'[addr] = byte(0) /\ g_mem'[addr + 1] = byte(1)
      BY <1>5, <2>1, <2>3
    <3>2. QED
      BY <1>4, <2>3, <3>1 DEF Loaded, BYTE_SIZE_BYTES, HALFWORD_SIZE_BYTES
  <2>4. CASE size = 4
    <3>1. /\ g_mem'[addr] = byte(0) /\ g_mem'[addr + 1] = byte(1)
          /\ g_mem'[addr + 2] = byte(2) /\ g_mem'[addr + 3] = byte(3)
      BY <1>5, <2>1, <2>4
    <3>2. QED
      BY <1>4, <2>4, <3>1 DEF Loaded, BYTE_SIZE_BYTES, HALFWORD_SIZE_BYTES
  <2>5. QED
    BY <1>2, <2>2, <2>3, <2>4
<1>7. Loaded(call.addr, call.size)' = Loaded(addr, size)'
  BY <1>1 DEF Loaded
<1>8. QED
  BY <1>1, <1>6, <1>7 DEF ReadBack

(* A value stored is read back, narrowed to the size of the access.        *)
THEOREM ReadBackAlways == Spec => []ReadBack
<1>1. Init => ReadBack
  BY DEF Init, ReadBack
<1>2. TypeOK /\ ReadBack /\ [Next]_vars => ReadBack'
  <2> SUFFICES ASSUME TypeOK, ReadBack, [Next]_vars
               PROVE  ReadBack'
    OBVIOUS
  <2>1. CASE UNCHANGED vars
    BY <2>1 DEF vars, ReadBack, Loaded
  <2>2. CASE Next
    <3>1. PICK addr \in Address, size \in Size :
            \/ \E kind \in {"load", "store"} : AssertFails(kind, addr, size)
            \/ Return(addr, size, Loaded(addr, size))
            \/ \E value \in MemoryWord : StoreBytes(addr, size, value)
      BY <2>2, StepIsCall
    <3>2. CASE \E kind \in {"load", "store"} : AssertFails(kind, addr, size)
      <4>1. ~Accessible(call'.addr, call'.size)
        BY <3>2 DEF AssertFails, Record
      <4>2. QED
        BY <4>1 DEF ReadBack, Accessible, mem_in_bounds, Aligned
    <3>3. CASE Return(addr, size, Loaded(addr, size))
      BY <3>3 DEF Return, Record, ReadBack
    <3>4. CASE \E value \in MemoryWord : StoreBytes(addr, size, value)
      BY <3>4, StoreReadsBack
    <3>5. QED
      BY <3>1, <3>2, <3>3, <3>4
  <2>3. QED
    BY <2>1, <2>2
<1>3. QED
  BY <1>1, <1>2, TypeCorrect, PTL DEF Spec

-----------------------------------------------------------------------------
(* Instruction words.  Nothing below depends on DISTANCE: with 16 or more  *)
(* the specification reaches every word.                                   *)

(* Flipping bits leads from words to words. *)
THEOREM WordsOnly == AnyWord => [](raw_inst \subseteq Bits)
<1>1. Uniform => raw_inst \subseteq Bits
  BY DEF Uniform
<1>2. raw_inst \subseteq Bits /\ [FlipOne]_raw_inst => (raw_inst \subseteq Bits)'
  BY DEF FlipOne, FlipBit
<1>3. QED
  BY <1>1, <1>2, PTL DEF AnyWord

(* A field above n, shifted down by n, comes back when shifted up again.   *)
LEMMA ShiftBack ==
  ASSUME NEW n \in Nat, NEW x, x \subseteq n .. 31
  PROVE  Shl(Shr(x, n), n) = x
<1>1. ASSUME NEW bit \in Bits
      PROVE  bit \in Shl(Shr(x, n), n) <=> bit \in x
  <2>1. bit \in Int /\ bit - n + n = bit
    BY DEF Bits
  <2>2. bit \in Shl(Shr(x, n), n) <=> bit - n \in 0 .. 31 /\ bit \in x
    BY <2>1 DEF Shl, Shr, Bits
  <2>3. QED
    BY <2>1, <2>2 DEF Bits
<1>2. Shl(Shr(x, n), n) \subseteq Bits /\ x \subseteq Bits
  BY DEF Shl, Bits
<1>3. QED
  BY <1>1, <1>2

(* The fields of the three instruction classes cover the word but for the  *)
(* class selector and what the class has no field for.                     *)
LEMMA Cover ==
  ASSUME NEW x, x \subseteq Bits
  PROVE  /\ (x \cap (28 .. 31)) \cup (x \cap {25}) \cup (x \cap (21 .. 24))
              \cup (x \cap {20}) \cup (x \cap (16 .. 19)) \cup (x \cap (12 .. 15))
              \cup (x \cap (0 .. 7))
                = x \ ({26, 27} \cup (8 .. 11))
         /\ (x \cap (28 .. 31)) \cup (x \cap {25}) \cup (x \cap (21 .. 24))
              \cup (x \cap {20}) \cup (x \cap (16 .. 19)) \cup (x \cap (12 .. 15))
              \cup (x \cap (0 .. 3))
                = x \ ({26, 27} \cup (4 .. 11))
         /\ (x \cap (28 .. 31)) \cup (x \cap {24}) \cup (x \cap (0 .. 23)) = x \ (25 .. 27)
         /\ (x \cap (28 .. 31)) \cup (x \cap (0 .. 3)) = x \ (4 .. 27)
<1>1. \A bit \in x : bit \in Int /\ 0 <= bit /\ bit <= 31
  BY DEF Bits
<1>2. QED
  BY <1>1

(* The fields of a data-processing word, put back in their places.         *)
LEMMA DataFields ==
  ASSUME NEW d, d = decode(raw_inst)
  PROVE  /\ Shl(d.cond, 28) = raw_inst \cap (28 .. 31)
         /\ Only(d.immediate_mode, {25}) = raw_inst \cap {25}
         /\ Shl(d.op, 21) = raw_inst \cap (21 .. 24)
         /\ Only(d.set_condition_codes, {20}) = raw_inst \cap {20}
         /\ Shl(d.rn, 16) = raw_inst \cap (16 .. 19)
         /\ Shl(d.rd, 12) = raw_inst \cap (12 .. 15)
         /\ d.low = raw_inst \cap (IF d.immediate_mode THEN 0 .. 7 ELSE 0 .. 3)
<1>1. Shl(d.cond, 28) = raw_inst \cap (28 .. 31)
  BY ShiftBack DEF decode, COND_MASK
<1>2. Shl(d.op, 21) = raw_inst \cap (21 .. 24)
  BY ShiftBack DEF decode, OP_MASK
<1>3. Shl(d.rn, 16) = raw_inst \cap (16 .. 19)
  BY ShiftBack DEF decode, RN_MASK
<1>4. Shl(d.rd, 12) = raw_inst \cap (12 .. 15)
  BY ShiftBack DEF decode, RD_MASK
<1>5. Only(d.immediate_mode, {25}) = raw_inst \cap {25}
  BY DEF decode, NonZero, I_MASK, Only
<1>6. Only(d.set_condition_codes, {20}) = raw_inst \cap {20}
  BY DEF decode, NonZero, S_MASK, Only
<1>7. d.low = raw_inst \cap (IF d.immediate_mode THEN 0 .. 7 ELSE 0 .. 3)
  BY DEF decode, Narrow, IMM_MASK, RM_MASK
<1>8. QED
  BY <1>1, <1>2, <1>3, <1>4, <1>5, <1>6, <1>7

(* The two's complement reading of imm24, bit by bit: shifted left by 8,   *)
(* back by 8 and left by 2 it stands two places up, and the bits above it  *)
(* are copies of its sign.                                                 *)
LEMMA OffsetBits ==
  decode_b(raw_inst).offset
    = {bit \in Bits : bit - 2 \in raw_inst \cap (0 .. 23)}
        \cup (IF 23 \in raw_inst THEN 26 .. 31 ELSE {})
<1> DEFINE field == raw_inst \cap (0 .. 23)
           top == Shl(field, 8)
           imm24 == Sar(top, 8)
<1>1. top = {bit \in Bits : bit - 8 \in raw_inst /\ bit >= 8}
  BY DEF Shl, Bits
<1>2. imm24 = field \cup (IF 23 \in raw_inst THEN 24 .. 31 ELSE {})
  <2>1. Shr(top, 8) = field
    BY <1>1 DEF Shr, Bits
  <2>2. 31 \in top <=> 23 \in raw_inst
    BY <1>1 DEF Bits
  <2> HIDE DEF top
  <2>3. QED
    BY <2>1, <2>2 DEF Sar
<1>3. decode_b(raw_inst).offset = Shl(imm24, 2)
  BY DEF decode_b, OFFSET_MASK
<1> HIDE DEF imm24, top
<1>4. QED
  BY <1>2, <1>3 DEF Shl, Bits

(* The digits of that offset and of its complement. *)
LEMMA OffsetDigits ==
  ASSUME NEW offset, offset = decode_b(raw_inst).offset
  PROVE  /\ \A bit \in 0 .. 1 : Digit(offset, bit) = 0
         /\ \A bit \in 2 .. 25 : Digit(offset, bit) = Digit(raw_inst, bit - 2)
         /\ \A bit \in 26 .. 31 : Digit(offset, bit) = Digit(raw_inst, 23)
         /\ \A bit \in 0 .. 31 : Digit(Bits \ offset, bit) = 1 - Digit(offset, bit)
         /\ 31 \in offset <=> 23 \in raw_inst
<1>1. \A bit \in 0 .. 31 :
        bit \in offset <=> \/ bit \in 2 .. 25 /\ bit - 2 \in raw_inst
                           \/ bit \in 26 .. 31 /\ 23 \in raw_inst
  <2>1. TAKE bit \in 0 .. 31
  <2>2. CASE bit \in 26 .. 31
    BY <2>2, OffsetBits DEF Bits
  <2>3. CASE bit \in 2 .. 25
    BY <2>3, OffsetBits DEF Bits
  <2>4. CASE bit \in 0 .. 1
    BY <2>4, OffsetBits DEF Bits
  <2>5. QED
    BY <2>2, <2>3, <2>4
<1>2. QED
  BY <1>1 DEF Digit, Bits

(* The fields of a B or BL, put back in their places.                      *)
LEMMA BranchFields ==
  ASSUME NEW b, b = decode_b(raw_inst)
  PROVE  /\ Shl(b.cond, 28) = raw_inst \cap (28 .. 31)
         /\ Only(b.link, {24}) = raw_inst \cap {24}
         /\ Shr(b.offset, 2) \cap (0 .. 23) = raw_inst \cap (0 .. 23)
<1>1. Shl(b.cond, 28) = raw_inst \cap (28 .. 31)
  BY ShiftBack DEF decode_b, COND_MASK
<1>2. Only(b.link, {24}) = raw_inst \cap {24}
  BY DEF decode_b, NonZero, LINK_MASK, Only
<1>3. Shr(b.offset, 2) \cap (0 .. 23) = raw_inst \cap (0 .. 23)
  BY OffsetBits DEF Shr, Bits
<1>4. QED
  BY <1>1, <1>2, <1>3

(* Those of a BX. *)
LEMMA ExchangeFields ==
  ASSUME raw_inst \subseteq Bits, NEW bx, bx = decode_bx(raw_inst)
  PROVE  /\ Shl(bx.cond, 28) = raw_inst \cap (28 .. 31)
         /\ bx.rn = raw_inst \cap (0 .. 3)
<1>1. bx.cond = Shr(raw_inst \cap (28 .. 31), 28)
  BY DEF decode_bx, Shr, Bits
<1>2. bx.rn = raw_inst \cap (0 .. 3)
  BY DEF decode_bx, RM_MASK
<1>3. QED
  BY <1>1, <1>2, ShiftBack

(* Put back in their places, the fields of each class are the word again,  *)
(* whatever the word.                                                      *)
THEOREM FieldsReassembleAlways == AnyWord => []FieldsReassemble
<1>1. ASSUME raw_inst \subseteq Bits
      PROVE  FieldsReassemble
  <2> DEFINE d == decode(raw_inst)
             b == decode_b(raw_inst)
             bx == decode_bx(raw_inst)
             dropped == IF d.immediate_mode THEN 8 .. 11 ELSE 4 .. 11
  <2> HIDE DEF d, b, bx
  <2>1. Shl(d.cond, 28) \cup Only(d.immediate_mode, {25})
          \cup Shl(d.op, 21) \cup Only(d.set_condition_codes, {20})
          \cup Shl(d.rn, 16) \cup Shl(d.rd, 12) \cup d.low
            = raw_inst \ ({26, 27} \cup dropped)
    BY <1>1, DataFields, Cover DEF d
  <2>2. Shl(b.cond, 28) \cup Only(b.link, {24})
          \cup (Shr(b.offset, 2) \cap (0 .. 23)) = raw_inst \ (25 .. 27)
    BY <1>1, BranchFields, Cover DEF b
  <2>3. Shl(bx.cond, 28) \cup bx.rn = raw_inst \ (4 .. 27)
    BY <1>1, ExchangeFields, Cover DEF bx
  <2>4. QED
    BY <2>1, <2>2, <2>3 DEF FieldsReassemble, d, b, bx
<1>2. QED
  BY <1>1, WordsOnly, PTL

(* Two digits of a word at a time: the distance an offset is shifted by.   *)
Pair(x, j) == Digit(x, 2 * j) + 2 * Digit(x, 2 * j + 1)

(* The number whose base 4 digits are p. *)
PairSum(p) ==
  p[0] + 4 * p[1] + 16 * p[2] + 64 * p[3]
    + 256 * (p[4] + 4 * p[5] + 16 * p[6] + 64 * p[7])
    + 65536 * (p[8] + 4 * p[9] + 16 * p[10] + 64 * p[11])
    + 16777216 * (p[12] + 4 * p[13] + 16 * p[14] + 64 * p[15])

(* The value of a word, pair by pair. *)
LEMMA ValueOfPairs ==
  ASSUME NEW x, NEW p \in [0 .. 15 -> Int], \A j \in 0 .. 15 : Pair(x, j) = p[j]
  PROVE  Value(x) = PairSum(p)
<1> DEFINE d(k) == Digit(x, k)
<1>1. ASSUME NEW j \in 0 .. 14
      PROVE  Hex(x, 2 * j) = p[j] + 4 * p[j + 1]
  <2>1. /\ d(2 * j) + 2 * d(2 * j + 1) = p[j]
        /\ d(2 * (j + 1)) + 2 * d(2 * (j + 1) + 1) = p[j + 1]
    BY DEF Pair
  <2>2. 2 * (j + 1) = 2 * j + 2 /\ 2 * (j + 1) + 1 = 2 * j + 3
    OBVIOUS
  <2>3. \A k : d(k) \in Int
    BY DEF Digit
  <2>4. Hex(x, 2 * j)
          = d(2 * j) + 2 * d(2 * j + 1) + 4 * d(2 * j + 2) + 8 * d(2 * j + 3)
    BY DEF Hex
  <2> HIDE DEF d
  <2>5. QED
    BY <2>1, <2>2, <2>3, <2>4
<1>2. /\ Octet(x, 0) = p[0] + 4 * p[1] + 16 * (p[2] + 4 * p[3])
      /\ Octet(x, 8) = p[4] + 4 * p[5] + 16 * (p[6] + 4 * p[7])
      /\ Octet(x, 16) = p[8] + 4 * p[9] + 16 * (p[10] + 4 * p[11])
      /\ Octet(x, 24) = p[12] + 4 * p[13] + 16 * (p[14] + 4 * p[15])
  <2>1. /\ Hex(x, 2 * 0) = p[0] + 4 * p[0 + 1]
        /\ Hex(x, 2 * 2) = p[2] + 4 * p[2 + 1]
        /\ Hex(x, 2 * 4) = p[4] + 4 * p[4 + 1]
        /\ Hex(x, 2 * 6) = p[6] + 4 * p[6 + 1]
        /\ Hex(x, 2 * 8) = p[8] + 4 * p[8 + 1]
        /\ Hex(x, 2 * 10) = p[10] + 4 * p[10 + 1]
        /\ Hex(x, 2 * 12) = p[12] + 4 * p[12 + 1]
        /\ Hex(x, 2 * 14) = p[14] + 4 * p[14 + 1]
    BY <1>1
  <2>2. QED
    BY <2>1 DEF Octet
<1>3. \A j \in 0 .. 15 : p[j] \in Int
  OBVIOUS
<1>4. QED
  BY <1>2, <1>3 DEF Value, PairSum

(* The pairs of an offset, of its complement, of the magnitude and of the  *)
(* sign of imm24, from the pairs r of imm24 and its sign s.                *)
ShiftedPairs(r, s) ==
  [j \in 0 .. 15 |-> IF j = 0 THEN 0 ELSE IF j < 13 THEN r[j - 1] ELSE 3 * s]
Complement(p) == [j \in 0 .. 15 |-> 3 - p[j]]
MagnitudePairs(r, s) ==
  [j \in 0 .. 15 |-> IF j < 11 THEN r[j] ELSE IF j = 11 THEN r[11] - 2 * s ELSE 0]
SignPairs(s) == [j \in 0 .. 15 |-> IF j = 11 THEN 2 * s ELSE 0]

(* A number and its complement add up to all ones. *)
LEMMA ComplementSum ==
  ASSUME NEW p \in [0 .. 15 -> Int]
  PROVE  PairSum(Complement(p)) = 4294967295 - PairSum(p)
<1>1. \A j \in 0 .. 15 : p[j] \in Int
  OBVIOUS
<1>2. QED
  BY SMT, <1>1 DEF PairSum, Complement

(* The arithmetic of a shift by one pair with sign extension: a set sign   *)
(* adds a whole 2^32.                                                      *)
LEMMA ShiftedSum ==
  ASSUME NEW r \in [0 .. 11 -> Int], NEW s \in Int
  PROVE  /\ PairSum(ShiftedPairs(r, s))
              = 4 * (PairSum(MagnitudePairs(r, s)) - PairSum(SignPairs(s))) + 4294967296 * s
         /\ PairSum(Complement(ShiftedPairs(r, s)))
              = 4294967295 - PairSum(ShiftedPairs(r, s))
         /\ PairSum(ShiftedPairs(r, s)) \in Int
         /\ PairSum(MagnitudePairs(r, s)) \in Int /\ PairSum(SignPairs(s)) \in Int
<1> DEFINE offset == ShiftedPairs(r, s)
           rest == Complement(offset)
           low == MagnitudePairs(r, s)
           sign == SignPairs(s)
<1>1. \A j \in 0 .. 11 : r[j] \in Int
  OBVIOUS
<1>2. PairSum(offset)
        = 4 * r[0] + 16 * r[1] + 64 * r[2]
            + 256 * (r[3] + 4 * r[4] + 16 * r[5] + 64 * r[6])
            + 65536 * (r[7] + 4 * r[8] + 16 * r[9] + 64 * r[10])
            + 16777216 * (r[11] + 4 * (3 * s) + 16 * (3 * s) + 64 * (3 * s))
  BY SMT, <1>1 DEF PairSum, ShiftedPairs
<1>3. /\ PairSum(low)
           = r[0] + 4 * r[1] + 16 * r[2] + 64 * r[3]
               + 256 * (r[4] + 4 * r[5] + 16 * r[6] + 64 * r[7])
               + 65536 * (r[8] + 4 * r[9] + 16 * r[10] + 64 * (r[11] - 2 * s))
      /\ PairSum(sign) = 65536 * (64 * (2 * s))
  BY SMT, <1>1 DEF PairSum, MagnitudePairs, SignPairs
<1>4. offset \in [0 .. 15 -> Int]
  BY <1>1 DEF ShiftedPairs
<1>5. PairSum(rest) = 4294967295 - PairSum(offset)
  BY SMT, <1>4, ComplementSum
<1> HIDE DEF offset, rest, low, sign
<1>6. QED
  BY SMT, <1>1, <1>2, <1>3, <1>5 DEF offset, rest, low, sign

(* The pairs of the offset, those of its complement, and those of the two  *)
(* parts of imm24.                                                         *)
LEMMA OffsetPairs ==
  ASSUME NEW offset, offset = decode_b(raw_inst).offset,
         NEW s, s = Digit(raw_inst, 23)
  PROVE  /\ Pair(offset, 0) = 0
         /\ \A j \in 1 .. 12 : Pair(offset, j) = Pair(raw_inst, j - 1)
         /\ \A j \in 13 .. 15 : Pair(offset, j) = 3 * s
         /\ \A j \in 0 .. 15 : Pair(Bits \ offset, j) = 3 - Pair(offset, j)
<1> DEFINE d(k) == Digit(offset, k)
<1>1. /\ \A bit \in 0 .. 1 : d(bit) = 0
      /\ \A bit \in 2 .. 25 : d(bit) = Digit(raw_inst, bit - 2)
      /\ \A bit \in 26 .. 31 : d(bit) = s
      /\ \A bit \in 0 .. 31 : Digit(Bits \ offset, bit) = 1 - d(bit)
  BY OffsetDigits
<1>2. s \in Int /\ \A k : d(k) \in Int
  BY DEF Digit
<1> HIDE DEF d
<1>3. Pair(offset, 0) = 0
  BY <1>1 DEF Pair, d
<1>4. ASSUME NEW j \in 1 .. 12
      PROVE  Pair(offset, j) = Pair(raw_inst, j - 1)
  <2>1. /\ d(2 * j) = Digit(raw_inst, 2 * j - 2)
        /\ d(2 * j + 1) = Digit(raw_inst, 2 * j + 1 - 2)
    BY <1>1
  <2>2. 2 * j - 2 = 2 * (j - 1) /\ 2 * j + 1 - 2 = 2 * (j - 1) + 1
    OBVIOUS
  <2>3. QED
    BY <2>1, <2>2 DEF Pair, d
<1>5. ASSUME NEW j \in 13 .. 15
      PROVE  Pair(offset, j) = 3 * s
  <2>1. d(2 * j) = s /\ d(2 * j + 1) = s
    BY <1>1
  <2>2. QED
    BY <1>2, <2>1 DEF Pair, d
<1>6. ASSUME NEW j \in 0 .. 15
      PROVE  Pair(Bits \ offset, j) = 3 - Pair(offset, j)
  <2>1. /\ Digit(Bits \ offset, 2 * j) = 1 - d(2 * j)
        /\ Digit(Bits \ offset, 2 * j + 1) = 1 - d(2 * j + 1)
    BY <1>1
  <2>2. d(2 * j) \in Int /\ d(2 * j + 1) \in Int
    BY <1>2
  <2>3. QED
    BY <2>1, <2>2 DEF Pair, d
<1>7. QED
  BY <1>3, <1>4, <1>5, <1>6

(* The pairs of the two parts of imm24: its magnitude and its sign.        *)
LEMMA FieldPairs ==
  ASSUME NEW low, low = raw_inst \cap (0 .. 22),
         NEW sign, sign = raw_inst \cap {23},
         NEW s, s = Digit(raw_inst, 23)
  PROVE  /\ \A j \in 0 .. 10 : Pair(low, j) = Pair(raw_inst, j) /\ Pair(sign, j) = 0
         /\ Pair(low, 11) = Pair(raw_inst, 11) - 2 * s /\ Pair(sign, 11) = 2 * s
         /\ \A j \in 12 .. 15 : Pair(low, j) = 0 /\ Pair(sign, j) = 0
<1>1. /\ \A bit \in 0 .. 22 : Digit(low, bit) = Digit(raw_inst, bit)
      /\ \A bit \in 23 .. 31 : Digit(low, bit) = 0
      /\ \A bit \in 0 .. 31 : Digit(sign, bit) = IF bit = 23 THEN s ELSE 0
  BY DEF Digit
<1>2. s \in Int /\ \A k : Digit(raw_inst, k) \in Int
  BY DEF Digit
<1>3. ASSUME NEW j \in 0 .. 10
      PROVE  Pair(low, j) = Pair(raw_inst, j) /\ Pair(sign, j) = 0
  <2>1. 2 * j \in 0 .. 22 /\ 2 * j + 1 \in 0 .. 22
    OBVIOUS
  <2>2. QED
    BY <1>1, <2>1 DEF Pair
<1>4. Pair(low, 11) = Pair(raw_inst, 11) - 2 * s /\ Pair(sign, 11) = 2 * s
  BY <1>1, <1>2 DEF Pair
<1>5. ASSUME NEW j \in 12 .. 15
      PROVE  Pair(low, j) = 0 /\ Pair(sign, j) = 0
  <2>1. 2 * j \in 24 .. 31 /\ 2 * j + 1 \in 24 .. 31
    OBVIOUS
  <2>2. QED
    BY <1>1, <2>1 DEF Pair
<1>6. QED
  BY <1>3, <1>4, <1>5

(* The offset a branch adds is four times the number imm24 encodes,        *)
(* whatever the word.                                                      *)
THEOREM OffsetSignExtendedAlways == AnyWord => []OffsetSignExtended
<1>1. OffsetSignExtended
  <2> DEFINE offset == decode_b(raw_inst).offset
             rest == Bits \ offset
             low == raw_inst \cap (0 .. 22)
             sign == raw_inst \cap {23}
             s == Digit(raw_inst, 23)
             pairs(x) == [j \in 0 .. 15 |-> Pair(x, j)]
             r == [j \in 0 .. 11 |-> Pair(raw_inst, j)]
  <2>1. s = IF 31 \in offset THEN 1 ELSE 0
    BY OffsetDigits DEF Digit
  <2>2. \A x, j : Pair(x, j) \in Int
    BY DEF Pair, Digit
  <2>3. /\ pairs(offset) = ShiftedPairs(r, s)
        /\ pairs(rest) = Complement(pairs(offset))
    BY OffsetPairs DEF ShiftedPairs, Complement
  <2>4. pairs(low) = MagnitudePairs(r, s) /\ pairs(sign) = SignPairs(s)
    BY FieldPairs DEF MagnitudePairs, SignPairs
  <2>5. r \in [0 .. 11 -> Int] /\ s \in Int
    BY <2>1, <2>2
  <2>6. \A x : Value(x) = PairSum(pairs(x))
    <3>1. ASSUME NEW x
          PROVE  /\ pairs(x) \in [0 .. 15 -> Int]
                 /\ \A j \in 0 .. 15 : Pair(x, j) = pairs(x)[j]
      BY <2>2
    <3> HIDE DEF pairs
    <3>2. QED
      BY <3>1, ValueOfPairs
  <2> HIDE DEF offset, rest, low, sign, s, pairs, r
  <2>7. /\ Value(offset) = 4 * (Value(low) - Value(sign)) + 4294967296 * s
        /\ Value(rest) = 4294967295 - Value(offset)
        /\ Value(offset) \in Int /\ Value(low) \in Int /\ Value(sign) \in Int
    BY SMT, <2>3, <2>4, <2>5, <2>6, ShiftedSum
  <2>8. IF 31 \in offset THEN -1 - Value(rest) = 4 * (Value(low) - Value(sign))
        ELSE Value(offset) = 4 * (Value(low) - Value(sign))
    BY SMT, <2>1, <2>7
  <2>9. QED
    BY <2>8 DEF OffsetSignExtended, SignedValue, offset, rest, low, sign
<1>2. QED
  BY <1>1, PTL
=============================================================================
