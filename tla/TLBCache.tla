------------------------------ MODULE TLBCache ------------------------------
(***************************************************************************)
(* The translation buffer of src/Source/Soft64/MipsR4300/TLBCache.cs: the  *)
(* table of entries that TLBWI and TLBWR fill, the two dictionaries that   *)
(* translation looks entries up in, and the registers TLBP and TLBR write. *)
(*                                                                         *)
(* The table is what the guest sees, the dictionaries are what a load or a *)
(* store uses, and nothing but these operations keeps the two together.    *)
(*                                                                         *)
(* A VirtualPageNumber2 is a record of an asid and a vpn2.  PageMask and   *)
(* the pair EntryLo0, EntryLo1 are one value of PageData, of which the     *)
(* operations only read the Valid and Global flags of each page; the words *)
(* they are packed in are the subject of PageNumbers.                      *)
(***************************************************************************)
EXTENDS Integers

CONSTANTS NumEntries,   \* 48 in the code, where 47 and 46 follow from it
          RandomReset,  \* 31 in the code
          VPN2s,        \* the page numbers a program puts in EntryHi
          PageData,     \* what it puts in EntryLo0 and EntryLo1
          IndexValues,  \* the low words a program writes to Index
          WiredValues,  \* what Wired is set to
          NoEntry       \* an empty place: null

ASSUME TLBSizes ==
  /\ NumEntries \in 3 .. 255
  /\ RandomReset \in 0 .. NumEntries - 1
  /\ WiredValues \subseteq 0 .. NumEntries - 2
  /\ IndexValues \subseteq Int

Table == 0 .. NumEntries - 1
Entry == [vpn2 : VPN2s, page : PageData]

ASSUME NullIsNoEntry == NoEntry \notin Entry

VARIABLES
  m_Entries, m_VPN2Dictionary, m_GlobalVPN2Dictionary,
  m_DisableTLB, m_DuplicateEntryError,
  Wired, Random, Index,
  EntryHi, \* the page number in EntryHi
  page,    \* PageMask, EntryLo0 and EntryLo1
  outcome, \* how the last operation ended
  replaced \* history: an entry was overwritten since the last flush

tables   == <<m_Entries, m_VPN2Dictionary, m_GlobalVPN2Dictionary,
              m_DuplicateEntryError, replaced>>
guestRegs == <<Index, EntryHi, page>>
tlbVars  == <<tables, m_DisableTLB, Wired, Random, guestRegs, outcome>>

\* The Convert of an Index without a bit of its low word but the P bit: the
\* (Int32) of 0x80000000.
ProbeFailure == -2147483647 - 1

\* Exceptions that no caller of the operation catches: the task of the
\* emulator ends with them.
Thrown   == {"Mod", "NotFound", "OutOfRange"}
Outcomes == Thrown \cup {"none", "hit", "miss", "mapped", "refill", "shutdown"}

Dictionary == [VPN2s -> Entry \cup {NoEntry}]

TLBTypeOK ==
  /\ m_Entries \in [Table -> Entry \cup {NoEntry}]
  /\ m_VPN2Dictionary \in Dictionary
  /\ m_GlobalVPN2Dictionary \in Dictionary
  /\ m_DisableTLB \in BOOLEAN
  /\ m_DuplicateEntryError \in BOOLEAN
  /\ Wired \in 0 .. NumEntries - 2
  /\ Random \in Table
  /\ Index \in Int
  /\ EntryHi \in VPN2s
  /\ page \in PageData
  /\ outcome \in Outcomes
  /\ replaced \in BOOLEAN

Empty == [v \in VPN2s |-> NoEntry]

TLBInit ==
  /\ m_Entries = [i \in Table |-> NoEntry]
  /\ m_VPN2Dictionary = Empty
  /\ m_GlobalVPN2Dictionary = Empty
  /\ m_DisableTLB = FALSE
  /\ m_DuplicateEntryError = FALSE
  /\ Wired = 0
  /\ Random = RandomReset
  /\ Index = 0
  /\ EntryHi \in VPN2s
  /\ page \in PageData
  /\ outcome = "none"
  /\ replaced = FALSE

-----------------------------------------------------------------------------
\* Helpers

IsGlobal(p) == p.odd.global /\ p.even.global
AllValid(p) == p.odd.valid /\ p.even.valid

Byte(x) == x % 256

CheckSafeEntry(i) == Byte(i) <= Wired

\* UpdateRandom, as a function of the register.
\* Faulty variant: the counter does not wrap.
NextRandom_NoWrap(r) == IF CheckSafeEntry(r) THEN Wired + 1 ELSE r + 1

\* Faulty variant: the counter wraps to the first place.
NextRandom_WrapsToZero(r) ==
  IF CheckSafeEntry(r) THEN Wired + 1 ELSE IF r + 1 >= NumEntries - 1 THEN 0 ELSE r + 1

NextRandom(r) ==
  IF CheckSafeEntry(r) \/ r + 1 >= NumEntries - 1 THEN Wired + 1 ELSE r + 1

Matches(i, v) ==
  /\ m_Entries[i] # NoEntry
  /\ IsGlobal(m_Entries[i].page) \/ m_Entries[i].vpn2 = v

CreateEntryFromRegs == [vpn2 |-> EntryHi, page |-> page]

\* Faulty variant: the exception of Dictionary.Add is swallowed.
DictionaryAdd_Silent(e) ==
  /\ m_VPN2Dictionary' =
       IF ~IsGlobal(e.page) /\ m_VPN2Dictionary[e.vpn2] = NoEntry
       THEN [m_VPN2Dictionary EXCEPT ![e.vpn2] = e] ELSE m_VPN2Dictionary
  /\ m_GlobalVPN2Dictionary' =
       IF IsGlobal(e.page) /\ m_GlobalVPN2Dictionary[e.vpn2] = NoEntry
       THEN [m_GlobalVPN2Dictionary EXCEPT ![e.vpn2] = e] ELSE m_GlobalVPN2Dictionary
  /\ m_DuplicateEntryError' = m_DuplicateEntryError

\* The try and the catch of AddEntry: a key that is already there stays with
\* its old entry, and the error is remembered.
AddTo(dictionary, e) ==
  IF dictionary[e.vpn2] = NoEntry THEN [dictionary EXCEPT ![e.vpn2] = e] ELSE dictionary

DictionaryAdd(e) ==
  \/ /\ IsGlobal(e.page)
     /\ m_GlobalVPN2Dictionary' = AddTo(m_GlobalVPN2Dictionary, e)
     /\ m_DuplicateEntryError' =
          (m_DuplicateEntryError \/ m_GlobalVPN2Dictionary[e.vpn2] # NoEntry)
     /\ UNCHANGED m_VPN2Dictionary
  \/ /\ ~IsGlobal(e.page)
     /\ m_VPN2Dictionary' = AddTo(m_VPN2Dictionary, e)
     /\ m_DuplicateEntryError' =
          (m_DuplicateEntryError \/ m_VPN2Dictionary[e.vpn2] # NoEntry)
     /\ UNCHANGED m_GlobalVPN2Dictionary

\* AddEntry(i, the entry in the registers), Random holding r.
AddEntry(i, r) ==
  \/ /\ i \in Table
     /\ m_Entries' = [m_Entries EXCEPT ![i] = CreateEntryFromRegs]
     /\ replaced' = (replaced \/ m_Entries[i] # NoEntry)
     /\ DictionaryAdd(CreateEntryFromRegs)
     /\ Random' = NextRandom(r)
     /\ outcome' = "none"
  \/ /\ i \notin Table
     /\ Random' = r
     /\ outcome' = "OutOfRange"
     /\ UNCHANGED tables

-----------------------------------------------------------------------------
\* Operations

\* Faulty variant: the dictionary of global entries is forgotten.
Initialize_KeepsGlobals ==
  /\ m_Entries' = [i \in Table |-> NoEntry]
  /\ replaced' = FALSE
  /\ m_VPN2Dictionary' = Empty
  /\ Random' = RandomReset
  /\ outcome' = "none"
  /\ UNCHANGED <<m_GlobalVPN2Dictionary, m_DisableTLB, m_DuplicateEntryError, Wired,
                 guestRegs>>

\* Neither of the two flags is reset.
Initialize ==
  /\ m_Entries' = [i \in Table |-> NoEntry]
  /\ replaced' = FALSE
  /\ m_VPN2Dictionary' = Empty
  /\ m_GlobalVPN2Dictionary' = Empty
  /\ Random' = RandomReset
  /\ outcome' = "none"
  /\ UNCHANGED <<m_DisableTLB, m_DuplicateEntryError, Wired, guestRegs>>

FlushAll == ~m_DisableTLB /\ Initialize

\* The program still runs, and the TLB has not been shut down.
Enabled == outcome \notin Thrown /\ ~m_DisableTLB

\* A TLB instruction after the shutdown does nothing.
Ignored ==
  /\ outcome \notin Thrown
  /\ m_DisableTLB
  /\ outcome' = "none"
  /\ UNCHANGED <<tables, m_DisableTLB, Wired, Random, guestRegs>>

\* Faulty variant: the probe asks the dictionary of global entries.
ContainsEntry_Global(v) == m_GlobalVPN2Dictionary[v] # NoEntry

ContainsEntry(v) == m_VPN2Dictionary[v] # NoEntry

ProbeMiss ==
  /\ Enabled
  /\ ~ContainsEntry(EntryHi)
  /\ Random' = NextRandom(Random)
  /\ Index' = ProbeFailure
  /\ outcome' = "miss"
  /\ UNCHANGED <<tables, m_DisableTLB, Wired, EntryHi, page>>

\* GetIndex takes the first entry that equals the page number, and a global
\* entry equals every page number.
ProbeHit ==
  /\ Enabled
  /\ ContainsEntry(EntryHi)
  /\ Random' = NextRandom(Random)
  /\ \E i \in Table :
       /\ Matches(i, EntryHi)
       /\ \A j \in Table : Matches(j, EntryHi) => i <= j
       /\ Index' = i
  /\ outcome' = "hit"
  /\ UNCHANGED <<tables, m_DisableTLB, Wired, EntryHi, page>>

\* The key has no entry left in the table: First throws.
ProbeThrows ==
  /\ Enabled
  /\ ContainsEntry(EntryHi)
  /\ \A i \in Table : ~Matches(i, EntryHi)
  /\ Random' = NextRandom(Random)
  /\ outcome' = "NotFound"
  /\ UNCHANGED <<tables, m_DisableTLB, Wired, guestRegs>>

Probe == ProbeMiss \/ ProbeHit \/ ProbeThrows

WriteRefused ==
  /\ Enabled
  /\ CheckSafeEntry(Index)
  /\ outcome' = "Mod"
  /\ UNCHANGED <<tables, m_DisableTLB, Wired, Random, guestRegs>>

Write ==
  \/ WriteRefused
  \/ /\ Enabled
     /\ ~CheckSafeEntry(Index)
     /\ AddEntry(Index, NextRandom(Random))
     /\ UNCHANGED <<m_DisableTLB, Wired, guestRegs>>

WriteRandom ==
  /\ Enabled
  /\ AddEntry(NextRandom(Random), NextRandom(Random))
  /\ UNCHANGED <<m_DisableTLB, Wired, guestRegs>>

Read ==
  /\ Enabled
  /\ Random' = NextRandom(Random)
  /\ IF Index \in Table /\ m_Entries[Index] # NoEntry
     THEN /\ EntryHi' = m_Entries[Index].vpn2
          /\ page' = m_Entries[Index].page
     ELSE UNCHANGED <<EntryHi, page>>
  /\ outcome' = "none"
  /\ UNCHANGED <<tables, m_DisableTLB, Wired, Index>>

\* Faulty variant: a page number missing among the global entries is a refill.
Lookup_GlobalOnly(v) == m_GlobalVPN2Dictionary[v]

Lookup(v) == IF m_GlobalVPN2Dictionary[v] # NoEntry
             THEN m_GlobalVPN2Dictionary[v] ELSE m_VPN2Dictionary[v]

\* TranslateVirtualAddress on behalf of a load or a store, which go on after
\* a shutdown too.  The address only selects one of the two pages.
Shutdown ==
  /\ outcome \notin Thrown
  /\ m_DuplicateEntryError
  /\ m_DisableTLB' = TRUE
  /\ outcome' = "shutdown"
  /\ UNCHANGED <<tables, Wired, Random, guestRegs>>

Translate(half) ==
  /\ outcome \notin Thrown
  /\ ~m_DuplicateEntryError
  /\ LET e == Lookup(EntryHi) IN
       outcome' = IF e # NoEntry /\ e.page[half].valid THEN "mapped" ELSE "refill"
  /\ UNCHANGED <<tables, m_DisableTLB, Wired, Random, guestRegs>>

TranslateVirtualAddress == Shutdown \/ \E half \in {"odd", "even"} : Translate(half)

\* The setter of the property Wired.
SetWired(w) ==
  /\ Enabled
  /\ Wired' = w
  /\ Random' = NumEntries - 2
  /\ outcome' = "none"
  /\ UNCHANGED <<tables, m_DisableTLB, guestRegs>>

\* MTC0, and the register view of the user interface.
WriteRegister ==
  /\ outcome \notin Thrown
  /\ \/ Index' \in IndexValues /\ UNCHANGED <<EntryHi, page>>
     \/ EntryHi' \in VPN2s /\ UNCHANGED <<Index, page>>
     \/ page' \in PageData /\ UNCHANGED <<Index, EntryHi>>
  /\ outcome' = "none"
  /\ UNCHANGED <<tables, m_DisableTLB, Wired, Random>>

TLBInstruction == Probe \/ Write \/ WriteRandom \/ Read \/ Ignored

TLBNext ==
  \/ Initialize
  \/ FlushAll
  \/ TLBInstruction
  \/ TranslateVirtualAddress
  \/ \E w \in WiredValues : SetWired(w)
  \/ WriteRegister

TLBSpec == TLBInit /\ [][TLBNext]_tlbVars

-----------------------------------------------------------------------------
\* Properties

\* What the key of entry e leads to in the dictionary of its kind.
Keyed(local, global, e) == (IF IsGlobal(e.page) THEN global ELSE local)[e.vpn2]

Live(i) == m_Entries[i] # NoEntry

\* The table and the dictionaries agree one way: each entry in the table has
\* its key in the dictionary of its kind, and until a duplicate is noticed
\* that key leads to this very entry.
TableIndexed ==
  \A i \in Table : Live(i) =>
    LET key == Keyed(m_VPN2Dictionary, m_GlobalVPN2Dictionary, m_Entries[i])
    IN  key # NoEntry /\ (~m_DuplicateEntryError => key = m_Entries[i])

\* Two entries of one kind for one page number never go unnoticed.
DuplicatesNoticed ==
  ~m_DuplicateEntryError =>
    \A i, j \in Table :
      /\ Live(i) /\ Live(j)
      /\ m_Entries[i].vpn2 = m_Entries[j].vpn2
      /\ IsGlobal(m_Entries[i].page) <=> IsGlobal(m_Entries[j].page)
      => i = j

\* A program that gets a refill exception for a page it has mapped, both
\* halves valid, finds the cause in a global entry of that page number that
\* takes precedence, possibly one the table no longer holds.
RefillJustified ==
  outcome = "refill" =>
    \A i \in Table :
      Live(i) /\ m_Entries[i].vpn2 = EntryHi /\ AllValid(m_Entries[i].page) =>
        ~IsGlobal(m_Entries[i].page) /\ m_GlobalVPN2Dictionary[EntryHi] # NoEntry

\* A probe that fails tells the truth about the entries that are not global,
\* even after a duplicate.
ProbeMissSound ==
  outcome = "miss" =>
    \A i \in Table : Live(i) /\ m_Entries[i].vpn2 = EntryHi => IsGlobal(m_Entries[i].page)

\* An instruction leaves the table only when the program wrote an Index wider
\* than its low byte (CheckSafeEntry looks at that byte, AddEntry at the whole
\* word); Random never points outside.
OnlyWideIndexLeavesTable ==
  outcome = "OutOfRange" => Index \notin Table

\* TLBWR never overwrites one of the wired entries, of which Wired is the
\* number (CP0Registers.cs:63), whatever Random held before Wired was raised.
WiredKept ==
  [][WriteRandom => \A i \in 0 .. Wired - 1 : m_Entries'[i] = m_Entries[i]]_tlbVars

\* Until an entry is overwritten, a load or a store is translated by an entry
\* the table holds, and a flush leaves nothing to translate by.
MappedUntilReplaced ==
  outcome = "mapped" /\ ~replaced =>
    \E i \in Table : /\ Live(i) /\ m_Entries[i].vpn2 = EntryHi
                     /\ m_Entries[i].page.odd.valid \/ m_Entries[i].page.even.valid

-----------------------------------------------------------------------------
\* What the comments and the references say

\* TLBCache.cs:36: the shutdown is "used to simulate a real TLB shutdown",
\* which two entries for one page number cause: the flag that leads to it is
\* m_DuplicateEntryError.
ShutdownMeansDuplicate ==
  outcome = "shutdown" =>
    \E i, j \in Table : /\ i # j /\ Live(i) /\ Live(j)
                        /\ m_Entries[i].vpn2 = m_Entries[j].vpn2

\* src/Docs/n64_tlb.txt:58: to translate is to "read each TLB entry, looking
\* for a virtual address hit": what a load or a store is translated by is an
\* entry of the table that TLBEntry.Equals takes for the page number.
TranslatedByTable ==
  outcome = "mapped" => \E i \in Table : Matches(i, EntryHi)
=============================================================================
