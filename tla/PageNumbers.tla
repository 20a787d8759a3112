---------------------------- MODULE PageNumbers -----------------------------
(***************************************************************************)
(* The words of the TLB registers and the structures they are converted    *)
(* to: PageFrameNumber.cs, PageSize.cs and VirtualPageNumber2.cs of        *)
(* src/Source/Soft64/MipsR4300.  Shifts and masks are division and modulo; *)
(* a flag is the number 0 or 1.  The state is what a program puts into the *)
(* registers: any word of EntryLo that the register can hold, or a mask.   *)
(***************************************************************************)
EXTENDS Integers

CONSTANT EntryLos   \* the words of EntryLo a program writes

\* The top bit is none of the register's.
EntryLoWords == {w \in Nat : w <= 2147483647}

ASSUME EntryLoAssumption == EntryLos \subseteq EntryLoWords

-----------------------------------------------------------------------------
\* EntryLo

\* Eight bits are kept as coherency bits, five of them the low bits of PFN.
FromEntryLo(lo) ==
  [g   |-> lo % 2,
   v   |-> (lo \div 2) % 2,
   d   |-> (lo \div 4) % 2,
   c   |-> (lo \div 8) % 256,
   pfn |-> (lo \div 64) % 33554432]

BitOr(a, b) == IF a + b > 0 THEN 1 ELSE 0

Bit(x, k) == (x \div k) % 2

\* The bitwise or of two numbers of five bits.
Or5(a, b) ==
     BitOr(Bit(a, 1), Bit(b, 1))      + 2 * BitOr(Bit(a, 2), Bit(b, 2))
   + 4 * BitOr(Bit(a, 4), Bit(b, 4))  + 8 * BitOr(Bit(a, 8), Bit(b, 8))
   + 16 * BitOr(Bit(a, 16), Bit(b, 16))

\* Faulty variant: the flags are shifted as the constructor reads them, D and
\* V exchanged.
ToEntryLo_Swapped(p) ==
  p.g + 2 * p.d + 4 * p.v + 8 * (p.c % 8)
  + 64 * (Or5(p.c \div 8, p.pfn % 32) + 32 * (p.pfn \div 32))

\* The coherency bits above the third overlap the low bits of PFN.
ToEntryLo(p) ==
  p.g + 2 * p.v + 4 * p.d + 8 * (p.c % 8)
  + 64 * (Or5(p.c \div 8, p.pfn % 32) + 32 * (p.pfn \div 32))

-----------------------------------------------------------------------------
\* PageMask

PageMasks == {0, 24576, 122880, 516096, 2088960, 8380416, 33546240}

PageSize(mask) == 1 + (mask \div 8192) * 4096 + 4095

PageMaskOf(size) == (((size - 1) \div 8192) % 4096) * 16384

-----------------------------------------------------------------------------
\* Translation

\* isOddPage of TranslateVirtualAddress.  The names are exchanged twice: the
\* entry's PfnOdd is EntryLo0, and a clear bit selects it.
SelectsLo0(va, size) == ~((va \div size) % 2 > 0)

MapPhysical(pfn, size, va) == pfn * size + (va % size)

PhysicalAddress(lo0, lo1, pageMask, va) ==
  MapPhysical(FromEntryLo(IF SelectsLo0(va, PageSize(pageMask)) THEN lo0 ELSE lo1).pfn,
              PageSize(pageMask), va)

-----------------------------------------------------------------------------
\* The registers

VARIABLES lo, mask

words == <<lo, mask>>

WordsInit == lo = 0 /\ mask = 0

\* The program loads EntryLo or PageMask, before TLBWI.
Pick == \/ lo' \in EntryLos /\ mask = 0 /\ UNCHANGED mask
        \/ lo = 0 /\ mask' \in PageMasks /\ UNCHANGED lo

WordsSpec == WordsInit /\ [][Pick]_words

-----------------------------------------------------------------------------
\* Properties

\* TLBWI followed by TLBR gives EntryLo back to the program, although the
\* structure in between keeps five bits of it twice.
EntryLoReadBack == ToEntryLo(FromEntryLo(lo)) = lo

\* TLBEntry.cs:33 of the page size: "This simply stores the mask values used in
\* TLB read operations": TLBR after TLBWI gives PageMask back to the program.
PageMaskReadBack == PageMaskOf(PageSize(mask)) = mask
=============================================================================
