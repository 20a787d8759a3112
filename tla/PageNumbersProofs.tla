-------------------------- MODULE PageNumbersProofs -------------------------
(***************************************************************************)
(* The conversions of PageNumbers for every word of a register.            *)
(***************************************************************************)
EXTENDS PageNumbers, TLAPS

\* The five bits kept twice are the same five bits.
LEMMA OrOfEqual == \A a \in 0 .. 31 : Or5(a, a) = a
<1> SUFFICES ASSUME NEW a \in 0 .. 31 PROVE Or5(a, a) = a
  OBVIOUS
<1>1. \A x \in {0, 1} : BitOr(x, x) = x
  BY DEF BitOr
<1>2. /\ Bit(a, 1) \in {0, 1} /\ Bit(a, 2) \in {0, 1} /\ Bit(a, 4) \in {0, 1}
      /\ Bit(a, 8) \in {0, 1} /\ Bit(a, 16) \in {0, 1}
  BY DEF Bit
<1>3. Or5(a, a) = Bit(a, 1) + 2 * Bit(a, 2) + 4 * Bit(a, 4) + 8 * Bit(a, 8) + 16 * Bit(a, 16)
  BY <1>1, <1>2 DEF Or5
<1>4. a = Bit(a, 1) + 2 * Bit(a, 2) + 4 * Bit(a, 4) + 8 * Bit(a, 8) + 16 * Bit(a, 16)
  BY DEF Bit
<1> QED
  BY <1>3, <1>4

\* How a word splits into its low part and the rest.
LEMMA Split ==
  ASSUME NEW x \in Nat
  PROVE  /\ x = (x % 2) + 2 * (x \div 2)
         /\ x \div 2 \in Nat
         /\ x = (x % 8) + 8 * (x \div 8)
         /\ x \div 8 \in Nat
         /\ (x % 32) + 32 * (x \div 32) = x
         /\ x % 32 \in 0 .. 31
OBVIOUS

\* The overlapping bits: both fields hold them.
LEMMA Overlap ==
  ASSUME NEW x \in Nat
  PROVE  (x % 256) \div 8 = (x \div 8) % 32 /\ (x % 256) % 8 = x % 8
OBVIOUS

\* Shifts compose.
LEMMA Shifts ==
  ASSUME NEW x \in Nat
  PROVE  /\ x \div 2 \in Nat /\ x \div 4 \in Nat /\ x \div 8 \in Nat /\ x \div 64 \in Nat
         /\ (x \div 2) \div 2 = x \div 4
         /\ (x \div 4) \div 2 = x \div 8
         /\ (x \div 8) \div 8 = x \div 64
OBVIOUS

\* TLBWI followed by TLBR gives back every word of EntryLo whose top bit, that
\* the register lacks, is clear.
THEOREM EntryLoSurvives == \A x \in EntryLoWords : ToEntryLo(FromEntryLo(x)) = x
<1> SUFFICES ASSUME NEW x \in EntryLoWords PROVE ToEntryLo(FromEntryLo(x)) = x
  OBVIOUS
<1>1. x \in Nat /\ x < 2147483648
  BY SMT DEF EntryLoWords
<1> DEFINE a == x \div 2
           b == x \div 4
           w == x \div 8
           u == x \div 64
<1>2. /\ a \in Nat /\ b \in Nat /\ w \in Nat /\ u \in Nat
      /\ b = a \div 2 /\ w = b \div 2 /\ u = w \div 8
  BY <1>1, Shifts
<1>u. u < 33554432
  BY <1>1, SMT
<1>f. FromEntryLo(x) = [g |-> x % 2, v |-> a % 2, d |-> b % 2,
                         c |-> w % 256, pfn |-> u % 33554432]
  BY SMT DEF FromEntryLo
<1> HIDE DEF a, b, w, u
<1>3. u % 33554432 = u
  BY <1>2, <1>u, SMT
<1>4. (w % 256) \div 8 = u % 32 /\ (w % 256) % 8 = w % 8
  BY <1>2, Overlap
<1>5. Or5((w % 256) \div 8, u % 32) = u % 32
  BY <1>2, <1>4, Split, OrOfEqual
<1>6. ToEntryLo(FromEntryLo(x)) =
        (x % 2) + 2 * (a % 2) + 4 * (b % 2) + 8 * (w % 8) + 64 * ((u % 32) + 32 * (u \div 32))
  BY <1>2, <1>3, <1>4, <1>5, <1>f, SMT DEF ToEntryLo
<1>7. /\ x = (x % 2) + 2 * a
      /\ a = (a % 2) + 2 * b
      /\ b = (b % 2) + 2 * w
      /\ w = (w % 8) + 8 * u
      /\ u = (u % 32) + 32 * (u \div 32)
  BY <1>1, <1>2, Split DEF a
<1>8. x % 2 \in Int /\ a % 2 \in Int /\ b % 2 \in Int /\ w % 8 \in Int
  BY <1>1, <1>2, SMT
<1> QED
  BY <1>1, <1>2, <1>6, <1>7, <1>8, SMT

\* Two different frames never map an address to the same physical address,
\* whatever the size of the page.
THEOREM FramesDisjoint ==
  ASSUME NEW size \in Nat \ {0}, NEW p \in Nat, NEW q \in Nat,
         NEW a \in Nat, NEW b \in Nat,
         MapPhysical(p, size, a) = MapPhysical(q, size, b)
  PROVE  p = q
<1> DEFINE x == a % size
           y == b % size
<1>1. x \in 0 .. size - 1 /\ y \in 0 .. size - 1
  OBVIOUS
<1>2. p * size + x = q * size + y
  BY DEF MapPhysical
<1> HIDE DEF x, y
<1>3. ASSUME NEW m \in Nat, NEW n \in Nat, m < n PROVE m * size + size <= n * size
  <2>1. PICK k \in Nat : n = m + 1 + k
    <3>1. n = m + 1 + (n - m - 1) /\ n - m - 1 \in Nat
      BY <1>3
    <3> QED
      BY <3>1
  <2>2. n * size = m * size + size + k * size /\ k * size \in Nat
    BY <2>1
  <2>3. m * size \in Nat
    OBVIOUS
  <2> QED
    BY <2>2, <2>3
<1>4. p * size \in Nat /\ q * size \in Nat
  OBVIOUS
<1> QED
  BY <1>1, <1>2, <1>3, <1>4

-----------------------------------------------------------------------------
\* The registers

\* What the program can put into the registers.
WordsInv == lo \in EntryLos \cup {0} /\ mask \in PageMasks

LEMMA WordsTyped == WordsSpec => []WordsInv
<1>1. WordsInit => WordsInv
  BY DEF WordsInit, WordsInv, PageMasks
<1>2. WordsInv /\ [Pick]_words => WordsInv'
  BY DEF WordsInv, Pick, words
<1> QED
  BY <1>1, <1>2, PTL DEF WordsSpec

\* TLBWI and TLBR give the program back every word it wrote to EntryLo.
THEOREM EntryLoReadsBack == WordsSpec => []EntryLoReadBack
<1>1. 0 \in EntryLoWords
  BY SMT DEF EntryLoWords
<1>2. WordsInv => EntryLoReadBack
  BY <1>1, EntryLoAssumption, EntryLoSurvives DEF WordsInv, EntryLoReadBack
<1> QED
  BY <1>2, WordsTyped, PTL
=============================================================================
