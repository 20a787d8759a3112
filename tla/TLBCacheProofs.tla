--------------------------- MODULE TLBCacheProofs ---------------------------
(***************************************************************************)
(* What TLBCache guarantees whatever the number of entries, the pages a    *)
(* program maps and the words it writes to the registers.                  *)
(***************************************************************************)
EXTENDS TLBCache, TLAPS

-----------------------------------------------------------------------------
\* UpdateRandom

\* Whatever Random held, its next value is a place of the table that is not
\* wired.
LEMMA NextRandomFree ==
  ASSUME Wired \in 0 .. NumEntries - 2, NEW r \in Table
  PROVE  NextRandom(r) \in Table /\ NextRandom(r) > Wired
BY TLBSizes DEF NextRandom, CheckSafeEntry, Byte, Table

-----------------------------------------------------------------------------
\* Typing

\* The flags are proved Boolean apart from the rest.
LEMMA FlagsStep ==
  ASSUME TLBTypeOK, [TLBNext]_tlbVars
  PROVE  /\ m_DisableTLB' \in BOOLEAN /\ m_DuplicateEntryError' \in BOOLEAN
         /\ replaced' \in BOOLEAN
<1>1. m_DisableTLB' \in BOOLEAN
  BY DEF TLBTypeOK, tlbVars, TLBNext, Initialize, FlushAll, TLBInstruction, Probe, ProbeMiss,
         ProbeHit, ProbeThrows, Write, WriteRefused, WriteRandom, Read, Ignored,
         TranslateVirtualAddress, Shutdown, Translate, SetWired, WriteRegister
<1>2. ASSUME NEW i, NEW r, AddEntry(i, r)
      PROVE  m_DuplicateEntryError' \in BOOLEAN /\ replaced' \in BOOLEAN
  <2>1. m_DuplicateEntryError' \in BOOLEAN
    BY <1>2 DEF TLBTypeOK, AddEntry, DictionaryAdd, tables
  <2>2. replaced' \in BOOLEAN
    BY <1>2 DEF TLBTypeOK, AddEntry, tables
  <2> QED
    BY <2>1, <2>2
<1>3. m_DuplicateEntryError' \in BOOLEAN /\ replaced' \in BOOLEAN
  BY <1>2 DEF TLBTypeOK, tlbVars, tables, TLBNext, Initialize, FlushAll, TLBInstruction, Probe,
         ProbeMiss, ProbeHit, ProbeThrows, Write, WriteRefused, WriteRandom, Read,
         Ignored, TranslateVirtualAddress, Shutdown, Translate, SetWired,
         WriteRegister
<1> QED
  BY <1>1, <1>3

TypedTables ==
  /\ m_Entries \in [Table -> Entry \cup {NoEntry}]
  /\ m_VPN2Dictionary \in Dictionary
  /\ m_GlobalVPN2Dictionary \in Dictionary

TypedRegisters ==
  /\ Wired \in 0 .. NumEntries - 2
  /\ Random \in Table
  /\ Index \in Int
  /\ EntryHi \in VPN2s
  /\ page \in PageData
  /\ outcome \in Outcomes

\* AddEntry keeps the table, the dictionaries and Random within their types.
LEMMA AddEntryTyped ==
  ASSUME TLBTypeOK, NEW i, NEW r \in Table, AddEntry(i, r)
  PROVE  TypedTables' /\ Random' \in Table /\ outcome' \in Outcomes
<1> DEFINE e == CreateEntryFromRegs
<1>1. e \in Entry /\ e.vpn2 \in VPN2s
  BY DEF TLBTypeOK, CreateEntryFromRegs, Entry
<1>2. CASE i \in Table
  <2>1. m_Entries' \in [Table -> Entry \cup {NoEntry}]
    BY <1>1, <1>2 DEF AddEntry, TLBTypeOK
  <2>2. ASSUME NEW d \in Dictionary PROVE AddTo(d, e) \in Dictionary
    BY <1>1, <2>2 DEF AddTo, Dictionary
  <2>3. m_VPN2Dictionary' \in Dictionary /\ m_GlobalVPN2Dictionary' \in Dictionary
    BY <1>2, <2>2 DEF AddEntry, DictionaryAdd, TLBTypeOK
  <2>4. Random' \in Table /\ outcome' \in Outcomes
    BY <1>2, NextRandomFree DEF AddEntry, TLBTypeOK, Outcomes
  <2> QED
    BY <2>1, <2>3, <2>4 DEF TypedTables
<1>3. CASE i \notin Table
  BY <1>3 DEF AddEntry, TLBTypeOK, TypedTables, tables, Outcomes, Thrown
<1> QED
  BY <1>2, <1>3

\* Every operation keeps the state within its type.
LEMMA TypeStep == TLBTypeOK /\ [TLBNext]_tlbVars => TLBTypeOK'
<1> SUFFICES ASSUME TLBTypeOK, [TLBNext]_tlbVars PROVE TypedTables' /\ TypedRegisters'
  BY FlagsStep DEF TLBTypeOK, TypedTables, TypedRegisters
<1>r. NextRandom(Random) \in Table
  BY NextRandomFree DEF TLBTypeOK
<1> USE DEF TLBTypeOK, TypedTables, TypedRegisters, tables, guestRegs, Outcomes, Thrown
<1>1. CASE Initialize
  BY <1>1, TLBSizes DEF Initialize, Table, Dictionary, Empty
<1>2. CASE ProbeMiss
  BY <1>2, <1>r DEF ProbeMiss, ProbeFailure
<1>3. CASE ProbeHit
  BY <1>3, <1>r DEF ProbeHit, Table
<1>4. CASE ProbeThrows
  BY <1>4, <1>r DEF ProbeThrows
<1>5. CASE Write
  <2>1. CASE WriteRefused
    BY <2>1 DEF WriteRefused
  <2>2. CASE AddEntry(Index, NextRandom(Random)) /\ UNCHANGED <<m_DisableTLB, Wired, guestRegs>>
    BY <2>2, <1>r, AddEntryTyped
  <2> QED
    BY <1>5, <2>1, <2>2 DEF Write
<1>6. CASE WriteRandom
  BY <1>6, <1>r, AddEntryTyped DEF WriteRandom
<1>7. CASE Read
  BY <1>7, <1>r DEF Read, Entry
<1>8. CASE Ignored \/ TranslateVirtualAddress
  BY <1>8 DEF Ignored, TranslateVirtualAddress, Shutdown, Translate
<1>9. ASSUME NEW w \in WiredValues, SetWired(w) PROVE TypedTables' /\ TypedRegisters'
  BY <1>9, TLBSizes DEF SetWired, Table
<1>10. CASE WriteRegister
  BY <1>10, TLBSizes DEF WriteRegister
<1>11. CASE UNCHANGED tlbVars
  BY <1>11 DEF tlbVars
<1> QED
  BY <1>1, <1>2, <1>3, <1>4, <1>5, <1>6, <1>7, <1>8, <1>9, <1>10, <1>11
     DEF TLBNext, FlushAll, TLBInstruction, Probe

\* The TLB starts well typed.
LEMMA InitTyped == TLBInit => TLBTypeOK
<1> SUFFICES ASSUME TLBInit PROVE TLBTypeOK
  OBVIOUS
<1>1. /\ m_DisableTLB \in BOOLEAN /\ m_DuplicateEntryError \in BOOLEAN
      /\ replaced \in BOOLEAN
  BY DEF TLBInit
<1> QED
  BY <1>1, TLBSizes DEF TLBInit, TLBTypeOK, Table, Dictionary, Empty, Outcomes

\* The TLB is well typed in every reachable state: in particular Random
\* always points into the table.
THEOREM TypeCorrect == TLBSpec => []TLBTypeOK
BY InitTyped, TypeStep, PTL DEF TLBSpec

-----------------------------------------------------------------------------
\* The table and the dictionaries

Agreement == TableIndexed /\ DuplicatesNoticed

\* Adding to a dictionary keeps every key it has, with its entry, and leaves
\* the key of the new entry present.
LEMMA AddToKeeps ==
  ASSUME NEW d \in Dictionary, NEW e \in Entry
  PROVE  /\ AddTo(d, e)[e.vpn2] # NoEntry
         /\ d[e.vpn2] = NoEntry => AddTo(d, e)[e.vpn2] = e
         /\ \A v \in VPN2s : d[v] # NoEntry => AddTo(d, e)[v] = d[v]
BY NullIsNoEntry DEF AddTo, Dictionary, Entry

\* AddEntry keeps the agreement: the entry either gets the key of its page
\* number, which was free and so belonged to no other live entry of its kind,
\* or raises the error.
LEMMA AddEntryAgrees ==
  ASSUME TLBTypeOK, Agreement, NEW i, NEW r, AddEntry(i, r)
  PROVE  Agreement'
<1> DEFINE Key(e)  == Keyed(m_VPN2Dictionary, m_GlobalVPN2Dictionary, e)
           KeyP(e) == Keyed(m_VPN2Dictionary', m_GlobalVPN2Dictionary', e)
<1>1. CASE i \in Table
  <2>1. PICK e \in Entry : /\ m_Entries' = [m_Entries EXCEPT ![i] = e]
                           /\ DictionaryAdd(e)
    BY <1>1 DEF AddEntry, TLBTypeOK, CreateEntryFromRegs, Entry
  <2>2. m_Entries'[i] = e /\ \A j \in Table \ {i} : m_Entries'[j] = m_Entries[j]
    BY <1>1, <2>1 DEF TLBTypeOK
  <2>3. m_DuplicateEntryError => m_DuplicateEntryError'
    BY <2>1 DEF DictionaryAdd
  <2>4. ~m_DuplicateEntryError' => Key(e) = NoEntry
    BY <2>1 DEF DictionaryAdd, Keyed
  <2>5. KeyP(e) # NoEntry /\ (~m_DuplicateEntryError' => KeyP(e) = e)
    BY <2>1, <2>4, AddToKeeps DEF DictionaryAdd, Keyed, TLBTypeOK
  <2>6. ASSUME NEW f \in Entry, Key(f) # NoEntry PROVE KeyP(f) = Key(f)
    <3>1. f.vpn2 \in VPN2s
      BY DEF Entry
    <3> QED
      BY <2>1, <2>6, <3>1, AddToKeeps DEF DictionaryAdd, Keyed, TLBTypeOK
  <2>7. ASSUME NEW j \in Table, Live(j)
        PROVE  /\ m_Entries[j] \in Entry
               /\ Key(m_Entries[j]) # NoEntry
               /\ ~m_DuplicateEntryError => Key(m_Entries[j]) = m_Entries[j]
    BY <2>7 DEF Agreement, TableIndexed, TLBTypeOK, Live
  <2>8. TableIndexed'
    <3> SUFFICES ASSUME NEW j \in Table, m_Entries'[j] # NoEntry
                 PROVE  /\ KeyP(m_Entries'[j]) # NoEntry
                        /\ ~m_DuplicateEntryError' => KeyP(m_Entries'[j]) = m_Entries'[j]
      BY DEF TableIndexed, Live
    <3>1. CASE j = i
      BY <3>1, <2>2, <2>5
    <3>2. CASE j # i
      <4>1. m_Entries'[j] = m_Entries[j] /\ Live(j)
        BY <3>2, <2>2 DEF Live
      <4> QED
        BY <4>1, <2>3, <2>6, <2>7
    <3> QED
      BY <3>1, <3>2
  <2>9. DuplicatesNoticed'
    <3> SUFFICES ASSUME ~m_DuplicateEntryError', NEW j \in Table, NEW k \in Table,
                        m_Entries'[j] # NoEntry, m_Entries'[k] # NoEntry,
                        m_Entries'[j].vpn2 = m_Entries'[k].vpn2,
                        IsGlobal(m_Entries'[j].page) <=> IsGlobal(m_Entries'[k].page),
                        j # k
                 PROVE  FALSE
      BY DEF DuplicatesNoticed, Live
    <3>1. ASSUME NEW l \in Table, Live(l), m_Entries[l].vpn2 = e.vpn2,
                 IsGlobal(m_Entries[l].page) <=> IsGlobal(e.page)
          PROVE  FALSE
      BY <3>1, <2>4, <2>7 DEF Keyed
    <3>2. CASE j = i
      BY <3>1, <3>2, <2>2 DEF Live
    <3>3. CASE k = i
      BY <3>1, <3>3, <2>2 DEF Live
    <3>4. CASE j # i /\ k # i
      BY <3>4, <2>2, <2>3 DEF Agreement, DuplicatesNoticed, Live
    <3> QED
      BY <3>2, <3>3, <3>4
  <2> QED
    BY <2>8, <2>9 DEF Agreement
<1>2. CASE i \notin Table
  BY <1>2 DEF AddEntry, tables, Agreement, TableIndexed, DuplicatesNoticed, Live
<1> QED
  BY <1>1, <1>2

\* Every operation keeps the agreement.
LEMMA AgreementStep == TLBTypeOK /\ Agreement /\ [TLBNext]_tlbVars => Agreement'
<1> SUFFICES ASSUME TLBTypeOK, Agreement, [TLBNext]_tlbVars PROVE Agreement'
  OBVIOUS
<1>1. CASE Initialize
  BY <1>1 DEF Initialize, Agreement, TableIndexed, DuplicatesNoticed, Live
<1>2. CASE UNCHANGED tables
  BY <1>2 DEF tables, Agreement, TableIndexed, DuplicatesNoticed, Live
<1>3. ASSUME NEW i, NEW r, AddEntry(i, r) PROVE Agreement'
  BY <1>3, AddEntryAgrees
<1> QED
  BY <1>1, <1>2, <1>3
     DEF TLBNext, FlushAll, TLBInstruction, Probe, ProbeMiss, ProbeHit, ProbeThrows, Write,
         WriteRefused, WriteRandom, Read, Ignored, TranslateVirtualAddress, Shutdown,
         Translate, SetWired, WriteRegister, tlbVars

\* Until a duplicate is noticed, what translation finds under the page number
\* of a live entry is that entry; and no two live entries of one kind share a
\* page number unnoticed.
THEOREM TableAgrees == TLBSpec => [](TableIndexed /\ DuplicatesNoticed)
<1>1. TLBInit => TLBTypeOK /\ Agreement
  BY InitTyped DEF TLBInit, Agreement, TableIndexed, DuplicatesNoticed, Live
<1>2. (TLBTypeOK /\ Agreement) /\ [TLBNext]_tlbVars => (TLBTypeOK /\ Agreement)'
  BY TypeStep, AgreementStep
<1>3. TLBTypeOK /\ Agreement => TableIndexed /\ DuplicatesNoticed
  BY DEF Agreement
<1> QED
  BY <1>1, <1>2, <1>3, PTL DEF TLBSpec

\* Two live entries of one kind never share a page number unless the duplicate
\* raised the error that switches the TLB off.
THEOREM DuplicatesAreNoticed == TLBSpec => []DuplicatesNoticed
BY TableAgrees, PTL

-----------------------------------------------------------------------------
\* What a program observes

Indexed == TLBTypeOK /\ Agreement

\* The invariant the observations rest on is itself inductive.
LEMMA AlwaysIndexed == TLBSpec => []Indexed
<1>1. TLBInit => Indexed
  BY InitTyped DEF Indexed, TLBInit, Agreement, TableIndexed, DuplicatesNoticed, Live
<1>2. Indexed /\ [TLBNext]_tlbVars => Indexed'
  BY TypeStep, AgreementStep DEF Indexed
<1> QED
  BY <1>1, <1>2, PTL DEF TLBSpec

\* Only translation ends in a refill, and it leaves the tables alone.
LEMMA RefillStep == Indexed /\ RefillJustified /\ [TLBNext]_tlbVars => RefillJustified'
<1> SUFFICES ASSUME Indexed, RefillJustified, [TLBNext]_tlbVars, outcome' = "refill",
                    NEW i \in Table, Live(i)', m_Entries'[i].vpn2 = EntryHi',
                    AllValid(m_Entries'[i].page)
             PROVE  ~IsGlobal(m_Entries'[i].page) /\ m_GlobalVPN2Dictionary'[EntryHi'] # NoEntry
  BY DEF RefillJustified
<1>1. ASSUME NEW half \in {"odd", "even"}, Translate(half)
      PROVE  ~IsGlobal(m_Entries'[i].page) /\ m_GlobalVPN2Dictionary'[EntryHi'] # NoEntry
  <2>1. /\ UNCHANGED <<tables, EntryHi>>
        /\ ~m_DuplicateEntryError
        /\ Lookup(EntryHi) = NoEntry \/ ~Lookup(EntryHi).page[half].valid
    BY <1>1 DEF Translate, guestRegs
  <2>2. Keyed(m_VPN2Dictionary, m_GlobalVPN2Dictionary, m_Entries[i]) = m_Entries[i]
    BY <2>1 DEF Indexed, Agreement, TableIndexed, Live, tables
  <2>3. m_Entries[i] # NoEntry /\ m_Entries[i].page[half].valid /\ m_Entries[i].vpn2 = EntryHi
    BY <2>1 DEF AllValid, tables, Live
  <2> QED
    BY <2>1, <2>2, <2>3 DEF Keyed, Lookup, tables
<1>2. CASE UNCHANGED tlbVars
  BY <1>2 DEF RefillJustified, tlbVars, tables, guestRegs, Live
<1> QED
  BY <1>1, <1>2
     DEF TLBNext, Initialize, FlushAll, TLBInstruction, Probe, ProbeMiss, ProbeHit, ProbeThrows,
         Write, WriteRefused, WriteRandom, AddEntry, Read, Ignored,
         TranslateVirtualAddress, Shutdown, SetWired, WriteRegister

\* Only a page the program has not mapped, or has mapped in part, or a global
\* entry of its page number, gives a refill exception.
THEOREM RefillIsJustified == TLBSpec => []RefillJustified
<1>1. TLBInit => RefillJustified
  BY DEF TLBInit, RefillJustified
<1> QED
  BY <1>1, AlwaysIndexed, RefillStep, PTL DEF TLBSpec

\* Only a probe ends in a miss, and it leaves the tables alone.
LEMMA MissStep == Indexed /\ ProbeMissSound /\ [TLBNext]_tlbVars => ProbeMissSound'
<1> SUFFICES ASSUME Indexed, ProbeMissSound, [TLBNext]_tlbVars, outcome' = "miss",
                    NEW i \in Table, Live(i)', m_Entries'[i].vpn2 = EntryHi'
             PROVE  IsGlobal(m_Entries'[i].page)
  BY DEF ProbeMissSound
<1>1. CASE ProbeMiss
  BY <1>1 DEF ProbeMiss, ContainsEntry, Indexed, Agreement, TableIndexed, Keyed,
              Live, tables
<1>2. CASE UNCHANGED tlbVars
  BY <1>2 DEF ProbeMissSound, tlbVars, tables, guestRegs, Live
<1> QED
  BY <1>1, <1>2
     DEF TLBNext, Initialize, FlushAll, TLBInstruction, Probe, ProbeHit, ProbeThrows,
         Write, WriteRefused, WriteRandom, AddEntry, Read, Ignored, Translate,
         TranslateVirtualAddress, Shutdown, SetWired, WriteRegister

\* A program that probes before it writes never misses an entry of its own
\* address space that is in the table.
THEOREM ProbeMissIsSound == TLBSpec => []ProbeMissSound
<1>1. TLBInit => ProbeMissSound
  BY DEF TLBInit, ProbeMissSound
<1> QED
  BY <1>1, AlwaysIndexed, MissStep, PTL DEF TLBSpec

\* Only a TLBWI whose Index is no place of the table leaves it.
LEMMA WideIndexStep ==
  Indexed /\ OnlyWideIndexLeavesTable /\ [TLBNext]_tlbVars => OnlyWideIndexLeavesTable'
<1> SUFFICES ASSUME Indexed, OnlyWideIndexLeavesTable, [TLBNext]_tlbVars,
                    outcome' = "OutOfRange"
             PROVE  Index' \notin Table
  BY DEF OnlyWideIndexLeavesTable
<1>r. NextRandom(Random) \in Table
  BY NextRandomFree DEF Indexed, TLBTypeOK
<1>1. CASE Write
  BY <1>1 DEF Write, WriteRefused, AddEntry, guestRegs
<1>2. CASE WriteRandom
  BY <1>2, <1>r DEF WriteRandom, AddEntry
<1>3. CASE UNCHANGED tlbVars
  BY <1>3 DEF OnlyWideIndexLeavesTable, tlbVars, guestRegs
<1> QED
  BY <1>1, <1>2, <1>3
     DEF TLBNext, Initialize, FlushAll, TLBInstruction, Probe, ProbeMiss, ProbeHit,
         ProbeThrows, Read, Ignored, Translate, TranslateVirtualAddress, Shutdown,
         SetWired, WriteRegister

\* TLBWR never writes outside the table, for any number of wired entries that
\* leaves Random a place.
THEOREM RandomStaysInTable == TLBSpec => []OnlyWideIndexLeavesTable
<1>1. TLBInit => OnlyWideIndexLeavesTable
  BY DEF TLBInit, OnlyWideIndexLeavesTable
<1> QED
  BY <1>1, AlwaysIndexed, WideIndexStep, PTL DEF TLBSpec

\* TLBWR never overwrites a wired entry, nor the one Wired itself names.
THEOREM WiredEntriesKept == TLBSpec => WiredKept
<1>1. TLBTypeOK /\ [TLBNext]_tlbVars =>
        [WriteRandom => \A i \in 0 .. Wired - 1 : m_Entries'[i] = m_Entries[i]]_tlbVars
  <2> SUFFICES ASSUME TLBTypeOK, WriteRandom, NEW i \in 0 .. Wired - 1
               PROVE  m_Entries'[i] = m_Entries[i]
    OBVIOUS
  <2>1. NextRandom(Random) \in Table /\ NextRandom(Random) # i
    BY NextRandomFree DEF TLBTypeOK
  <2>2. m_Entries' = [m_Entries EXCEPT ![NextRandom(Random)] = CreateEntryFromRegs]
    BY <2>1 DEF WriteRandom, AddEntry
  <2>3. i \in Table
    BY TLBSizes DEF TLBTypeOK, Table
  <2> QED
    BY <2>1, <2>2, <2>3 DEF TLBTypeOK
<1> QED
  BY <1>1, TypeCorrect, PTL DEF TLBSpec, WiredKept

-----------------------------------------------------------------------------
\* What loads and stores are translated by

\* The table holds an entry.
InTable(e) == \E i \in Table : m_Entries[i] = e

\* A dictionary holds its entries under their own page numbers.
KeysFit ==
  \A v \in VPN2s :
    /\ m_VPN2Dictionary[v] # NoEntry => m_VPN2Dictionary[v].vpn2 = v
    /\ m_GlobalVPN2Dictionary[v] # NoEntry => m_GlobalVPN2Dictionary[v].vpn2 = v

\* Until an entry is overwritten, the dictionaries hold only entries of the
\* table: the other way of TableIndexed.
KeysBacked ==
  ~replaced =>
    \A v \in VPN2s :
      /\ m_VPN2Dictionary[v] # NoEntry => InTable(m_VPN2Dictionary[v])
      /\ m_GlobalVPN2Dictionary[v] # NoEntry => InTable(m_GlobalVPN2Dictionary[v])

Backed == KeysFit /\ KeysBacked

\* Adding to a dictionary brings in nothing but the entry, under its key.
LEMMA AddToFiles ==
  ASSUME NEW d \in Dictionary, NEW e \in Entry, NEW v \in VPN2s, AddTo(d, e)[v] # NoEntry
  PROVE  (AddTo(d, e)[v] = e /\ v = e.vpn2) \/ (AddTo(d, e)[v] = d[v] /\ d[v] # NoEntry)
BY DEF AddTo, Dictionary, Entry

\* AddEntry keeps what backs the keys: what it overwrites, it remembers.
LEMMA AddEntryBacks ==
  ASSUME TLBTypeOK, Backed, NEW i, NEW r, AddEntry(i, r)
  PROVE  Backed'
<1>1. CASE i \in Table
  <2>1. PICK e \in Entry : /\ m_Entries' = [m_Entries EXCEPT ![i] = e]
                           /\ replaced' = (replaced \/ m_Entries[i] # NoEntry)
                           /\ DictionaryAdd(e)
    BY <1>1 DEF AddEntry, TLBTypeOK, CreateEntryFromRegs, Entry
  <2>2. m_Entries'[i] = e /\ \A j \in Table \ {i} : m_Entries'[j] = m_Entries[j]
    BY <1>1, <2>1 DEF TLBTypeOK
  <2>3. ASSUME NEW d \in Dictionary, NEW d2 \in {d, AddTo(d, e)}, NEW v \in VPN2s,
               d2[v] # NoEntry
        PROVE  (d2[v] = e /\ v = e.vpn2) \/ (d2[v] = d[v] /\ d[v] # NoEntry)
    BY <2>3, AddToFiles
  <2>4. /\ m_VPN2Dictionary \in Dictionary /\ m_GlobalVPN2Dictionary \in Dictionary
        /\ m_VPN2Dictionary' \in {m_VPN2Dictionary, AddTo(m_VPN2Dictionary, e)}
        /\ m_GlobalVPN2Dictionary'
             \in {m_GlobalVPN2Dictionary, AddTo(m_GlobalVPN2Dictionary, e)}
    BY <2>1 DEF DictionaryAdd, TLBTypeOK
  <2>5. KeysFit'
    BY <2>3, <2>4 DEF KeysFit, Backed
  <2> DEFINE InTableP(f) == \E j \in Table : m_Entries'[j] = f
  <2>6. ASSUME ~replaced', NEW f, f = e \/ (f # NoEntry /\ InTable(f)) PROVE InTableP(f)
    <3>1. ~replaced /\ m_Entries[i] = NoEntry
      BY <2>1, <2>6
    <3>2. CASE f = e
      BY <1>1, <2>2, <3>2
    <3>3. CASE f # NoEntry /\ InTable(f)
      BY <2>2, <3>1, <3>3 DEF InTable
    <3> QED
      BY <2>6, <3>2, <3>3
  <2>7. KeysBacked'
    <3> HIDE DEF InTableP
    <3>1. ASSUME ~replaced', NEW v \in VPN2s
          PROVE  /\ m_VPN2Dictionary'[v] # NoEntry => InTableP(m_VPN2Dictionary'[v])
                 /\ m_GlobalVPN2Dictionary'[v] # NoEntry
                      => InTableP(m_GlobalVPN2Dictionary'[v])
      <4>1. ~replaced
        BY <2>1, <3>1
      <4> QED
        BY <2>3, <2>4, <2>6, <3>1, <4>1 DEF KeysBacked, Backed
    <3> QED
      BY <3>1 DEF KeysBacked, InTable, InTableP
  <2> QED
    BY <2>5, <2>7 DEF Backed
<1>2. CASE i \notin Table
  BY <1>2 DEF AddEntry, tables, Backed, KeysFit, KeysBacked, InTable
<1> QED
  BY <1>1, <1>2

\* Every operation keeps what backs the keys.
LEMMA BackedStep == TLBTypeOK /\ Backed /\ [TLBNext]_tlbVars => Backed'
<1> SUFFICES ASSUME TLBTypeOK, Backed, [TLBNext]_tlbVars PROVE Backed'
  OBVIOUS
<1>1. CASE Initialize
  BY <1>1 DEF Initialize, Backed, KeysFit, KeysBacked, Empty
<1>2. CASE UNCHANGED tables
  BY <1>2 DEF tables, Backed, KeysFit, KeysBacked, InTable
<1>3. ASSUME NEW i, NEW r, AddEntry(i, r) PROVE Backed'
  BY <1>3, AddEntryBacks
<1> QED
  BY <1>1, <1>2, <1>3
     DEF TLBNext, FlushAll, TLBInstruction, Probe, ProbeMiss, ProbeHit, ProbeThrows, Write,
         WriteRefused, WriteRandom, Read, Ignored, TranslateVirtualAddress, Shutdown,
         Translate, SetWired, WriteRegister, tlbVars

\* Only a translation ends mapped, and it leaves the tables alone.
LEMMA MappedStep ==
  TLBTypeOK /\ Backed /\ MappedUntilReplaced /\ [TLBNext]_tlbVars => MappedUntilReplaced'
<1> SUFFICES ASSUME TLBTypeOK, Backed, MappedUntilReplaced, [TLBNext]_tlbVars,
                    outcome' = "mapped", ~replaced'
             PROVE  MappedUntilReplaced'
  BY DEF MappedUntilReplaced
<1>1. ASSUME NEW half \in {"odd", "even"}, Translate(half) PROVE MappedUntilReplaced'
  <2> DEFINE e == Lookup(EntryHi)
  <2>1. e # NoEntry /\ e.page[half].valid /\ UNCHANGED <<tables, guestRegs>>
    BY <1>1 DEF Translate
  <2>2. e.vpn2 = EntryHi /\ InTable(e)
    BY <2>1 DEF Lookup, Backed, KeysFit, KeysBacked, TLBTypeOK, tables
  <2>3. e.page.odd.valid \/ e.page.even.valid
    BY <1>1, <2>1
  <2> HIDE DEF e
  <2> QED
    BY <2>1, <2>2, <2>3 DEF MappedUntilReplaced, InTable, Live, tables, guestRegs
<1>2. CASE UNCHANGED tlbVars
  BY <1>2 DEF MappedUntilReplaced, tlbVars, tables, guestRegs, Live
<1> QED
  BY <1>1, <1>2
     DEF TLBNext, Initialize, FlushAll, TLBInstruction, Probe, ProbeMiss, ProbeHit,
         ProbeThrows, Write, WriteRefused, WriteRandom, AddEntry, Read, Ignored,
         TranslateVirtualAddress, Shutdown, SetWired, WriteRegister

\* A load or a store is translated by an entry of the table, for as long as
\* none has been overwritten: every stale translation is of an entry that TLBWI
\* or TLBWR replaced since the last flush.
THEOREM StaleOnlyWhenReplaced == TLBSpec => []MappedUntilReplaced
<1>1. TLBInit => Backed /\ MappedUntilReplaced
  BY DEF TLBInit, Backed, KeysFit, KeysBacked, Empty, MappedUntilReplaced
<1> QED
  BY <1>1, TypeCorrect, BackedStep, MappedStep, PTL DEF TLBSpec
=============================================================================
