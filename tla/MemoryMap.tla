----------------------------- MODULE MemoryMap -----------------------------
(***************************************************************************)
(* The dispatch tables of the mupen64plus core's memory (memory/memory.c), *)
(* and the debugger's breakpoints, which patch them.                       *)
(*                                                                         *)
(* Every 64 KB region of the address space has, per kind of access, a      *)
(* handler; an emulated load or store calls the handler of its region.     *)
(* Two parties rewrite the tables.  The machine maps regions: all of them  *)
(* at power up, and those of the frame buffers around every graphics task. *)
(* The debugger replaces the handler of a region that an enabled memory    *)
(* breakpoint covers by one that checks the breakpoints first, and keeps   *)
(* the handler it displaced in a second table, "saved".  map_region has to *)
(* know of the breakpoints, and the breakpoints of what is mapped.         *)
(*                                                                         *)
(* The four widths of a table are written together and are one entry here. *)
(* A command of the front end is one step: it comes from the debugger's    *)
(* callback on the emulation thread, or while that thread runs no access   *)
(* and maps nothing.                                                       *)
(***************************************************************************)
EXTENDS Integers

CONSTANTS
    RegionSize,     \* bytes of a region (0x10000)
    Regions,        \* the region numbers
    Segments,       \* first region of each view of physical memory (0x8000, 0xa000)
    Handlers,       \* the handlers map_region is given
    BaseMap,        \* BaseMap[k][r]: the handler init_memory maps for region r
    Rdram, RdramFB, \* the handlers of RDRAM and of RDRAM under a frame buffer
    NULL, Checked,  \* no saved handler; a ..._with_bp_checks handler
    MaxBreakpoints, \* BREAKPOINTS_MAX_NUMBER
    Breakpoints,    \* the structures the front end passes
    InfosCount,     \* FB_INFOS_COUNT
    Spans           \* the spans of physical regions a frame buffer may have

Kinds == {"READ", "WRITE"}
Flags == Kinds \cup {"EXEC", "ENABLED"}
GuestAddress == {a \in Nat : a \div RegionSize \in Regions}
Breakpoint == [address : GuestAddress, endaddr : GuestAddress, flags : SUBSET Flags]
Slots == 0 .. MaxBreakpoints - 1
Infos == 0 .. InfosCount - 1
RunStates == {"PAUSED", "STEPPING", "RUNNING"}

ASSUME SizesAssumption ==
    /\ RegionSize \in Nat \ {0} /\ MaxBreakpoints \in Nat \ {0}
    /\ InfosCount \in Nat \ {0} /\ Regions \subseteq Nat /\ 0 \in Regions
ASSUME HandlersAssumption ==
    /\ BaseMap \in [Kinds -> [Regions -> Handlers]]
    /\ {Rdram, RdramFB} \subseteq Handlers
    /\ NULL \notin Handlers /\ Checked \notin Handlers /\ NULL # Checked
ASSUME BreakpointsAssumption ==   \* none wraps around the address space
    Breakpoints \subseteq {b \in Breakpoint : b.address <= b.endaddr}
ASSUME SpansAssumption ==         \* a frame buffer lies in RDRAM
    \A s \in Spans : \A g \in Segments, j \in s :
        g + j \in Regions /\ \A k \in Kinds : BaseMap[k][g + j] = Rdram

VARIABLES
    tables,     \* [bp, num, mem, saved]: g_Breakpoints, g_NumBreakpoints,
                \* the handlers and the handlers kept aside
    infos,      \* fb.infos
    runstate,   \* g_dbg_runstate
    emulation,  \* where the emulation thread is
    access      \* the access that waits for the callback to return

memoryVars == <<tables, infos, runstate, emulation, access>>

Tables == [bp    : [Slots -> Breakpoint],
           num   : 0 .. MaxBreakpoints,
           mem   : [Kinds -> [Regions -> Handlers \cup {Checked}]],
           saved : [Kinds -> [Regions -> Handlers \cup {NULL}]]]
Access == [kind : Kinds, address : GuestAddress]
NoAccess == [kind |-> "none"]

-----------------------------------------------------------------------------
(* The breakpoints.                                                        *)

\* lookup_breakpoint's test of one entry, for the bytes lo .. hi
Overlaps(b, lo, hi) ==
    IF b.endaddr < b.address THEN hi >= b.address \/ lo <= b.endaddr
                             ELSE hi >= b.address /\ lo <= b.endaddr

Matches(t, lo, size, flags) ==
    {i \in 0 .. t.num - 1 : /\ flags \subseteq t.bp[i].flags
                            /\ Overlaps(t.bp[i], lo, lo + size - 1)}

\* lookup_breakpoint(...) # -1, and for a whole region
Lookup(t, lo, size, flags) == Matches(t, lo, size, flags) # {}
Covered(t, k, r) == Lookup(t, r * RegionSize, RegionSize, {"ENABLED", k})

\* the regions the loops of enable_breakpoint and disable_breakpoint visit
Visited(b) == (b.address \div RegionSize) .. (b.endaddr \div RegionSize)

WithFlags(b, fs) == [address |-> b.address, endaddr |-> b.endaddr, flags |-> fs]
WithBreakpoint(t, i, b) == [bp    |-> [t.bp EXCEPT ![i] = b], num |-> t.num,
                            mem   |-> t.mem, saved |-> t.saved]
WithCount(t, n) == [bp |-> t.bp, num |-> n, mem |-> t.mem, saved |-> t.saved]
SetFlags(t, i, fs) == WithBreakpoint(t, i, WithFlags(t.bp[i], fs))

\* activate_memory_break_read and _write of the regions in R[k]
Activate(t, R) ==
    [bp    |-> t.bp, num |-> t.num,
     mem   |-> [k \in Kinds |-> [r \in Regions |->
                 IF r \in R[k] /\ t.saved[k][r] = NULL
                 THEN Checked ELSE t.mem[k][r]]],
     saved |-> [k \in Kinds |-> [r \in Regions |->
                 IF r \in R[k] /\ t.saved[k][r] = NULL
                 THEN t.mem[k][r] ELSE t.saved[k][r]]]]

\* Faulty variant: the displaced handler is not forgotten.
Deactivate_KeepsSaved(t, R) ==
    [bp    |-> t.bp, num |-> t.num,
     mem   |-> [k \in Kinds |-> [r \in Regions |->
                 IF r \in R[k] /\ t.saved[k][r] # NULL
                 THEN t.saved[k][r] ELSE t.mem[k][r]]],
     saved |-> t.saved]

\* deactivate_memory_break_read and _write
Deactivate(t, R) ==
    [bp    |-> t.bp, num |-> t.num,
     mem   |-> [k \in Kinds |-> [r \in Regions |->
                 IF r \in R[k] /\ t.saved[k][r] # NULL
                 THEN t.saved[k][r] ELSE t.mem[k][r]]],
     saved |-> [k \in Kinds |-> [r \in Regions |->
                 IF r \in R[k] THEN NULL ELSE t.saved[k][r]]]]

\* the visited regions no enabled breakpoint covers, for the kinds of slot i
Uncovered(t, i) ==
    [k \in Kinds |-> {r \in Visited(t.bp[i]) :
                        k \in t.bp[i].flags /\ ~ Covered(t, k, r)}]

\* The entry counts as enabled only after the loops, and before add's
\* increment of g_NumBreakpoints not at all.
Enable(t, i) ==
    LET u == Activate(t, Uncovered(t, i))
    IN  SetFlags(u, i, u.bp[i].flags \cup {"ENABLED"})

\* Faulty variant: other breakpoints of the regions are not looked for.
Disable_Alone(t, i) ==
    LET u == SetFlags(t, i, t.bp[i].flags \ {"ENABLED"})
    IN  Deactivate(u, [k \in Kinds |-> IF k \in u.bp[i].flags
                                       THEN Visited(u.bp[i]) ELSE {}])

Disable(t, i) ==
    LET u == SetFlags(t, i, t.bp[i].flags \ {"ENABLED"})
    IN  Deactivate(u, Uncovered(u, i))

DisableIfEnabled(t, i) ==
    IF "ENABLED" \in t.bp[i].flags THEN Disable(t, i) ELSE t

\* the tail of add_breakpoint_struct and replace_breakpoint_num
Install(t, i, b) ==
    LET u == WithBreakpoint(t, i, WithFlags(b, b.flags \ {"ENABLED"}))
    IN  IF "ENABLED" \in b.flags THEN Enable(u, i) ELSE u

\* The new entry keeps whatever flags its slot was left with.
AddAddress(t, a) ==
    LET b == [address |-> a, endaddr |-> a,
              flags |-> t.bp[t.num].flags \cup {"EXEC"}]
    IN  WithCount(Enable(WithBreakpoint(t, t.num, b), t.num), t.num + 1)

AddStruct(t, b) == WithCount(Install(t, t.num, b), t.num + 1)

Replace(t, i, b) == Install(DisableIfEnabled(t, i), i, b)

\* The entries above move down; the last one stays behind in its slot.
RemoveSlot(t, i) ==
    LET u == DisableIfEnabled(t, i)
    IN  [bp    |-> [j \in Slots |-> IF j >= i /\ j < t.num - 1
                                   THEN u.bp[j + 1] ELSE u.bp[j]],
         num   |-> t.num - 1,
         mem   |-> u.mem, saved |-> u.saved]

-----------------------------------------------------------------------------
(* Mapping.                                                                *)

\* map_region for the regions in R, with the handlers h[k][r]
MapRegions(t, R, h) ==
    [bp    |-> t.bp, num |-> t.num,
     mem   |-> [k \in Kinds |-> [r \in Regions |->
                 IF r \in R THEN IF Covered(t, k, r) THEN Checked ELSE h[k][r]
                           ELSE t.mem[k][r]]],
     saved |-> [k \in Kinds |-> [r \in Regions |->
                 IF r \in R /\ Covered(t, k, r)
                 THEN h[k][r] ELSE t.saved[k][r]]]]

NoneSaved == [k \in Kinds |-> [r \in Regions |-> NULL]]

\* init_memory
MapMemory(t) ==
    MapRegions([bp |-> t.bp, num |-> t.num, mem |-> t.mem, saved |-> NoneSaved],
               Regions, BaseMap)

Constantly(h) == [k \in Kinds |-> [r \in Regions |-> h]]

\* The regions of the frame buffers (an info whose addr is 0 spans none), none if the first info is empty.
FbRegions(fb) ==
    IF fb[0] = {} THEN {}
    ELSE {g + j : g \in Segments, j \in UNION {fb[i] : i \in Infos}}

\* the handler a region is meant to have, for the frame buffers fb
Mapped(fb, k, r) == IF r \in FbRegions(fb) THEN RdramFB ELSE BaseMap[k][r]

-----------------------------------------------------------------------------
(* The emulation thread.                                                   *)

NoInfos == [i \in Infos |-> {}]

\* static storage
ZeroBreakpoint == [address |-> 0, endaddr |-> 0, flags |-> {}]

MemoryInit ==
    /\ tables = [bp    |-> [i \in Slots |-> ZeroBreakpoint],
                 num   |-> 0, mem |-> BaseMap, saved |-> NoneSaved]
    /\ infos = NoInfos
    /\ runstate = "PAUSED"
    /\ emulation = "run"
    /\ access = NoAccess

\* reset_hard and a second ROM; init_rdp forgets the frame buffers
InitMemory ==
    /\ emulation = "run"
    /\ tables' = MapMemory(tables)
    /\ infos' = NoInfos
    /\ UNCHANGED <<runstate, emulation, access>>

\* do_SP_Task before the plugin runs: unprotect_framebuffers
BeginTask ==
    /\ emulation = "run"
    /\ tables' = MapRegions(tables, FbRegions(infos), Constantly(Rdram))
    /\ emulation' = "task"
    /\ UNCHANGED <<infos, runstate, access>>

\* ... and after it: protect_framebuffers with the plugin's new frame buffers
EndTask ==
    /\ emulation = "task"
    /\ \E fb \in [Infos -> Spans \cup {{}}] :
         /\ infos' = fb
         /\ tables' = MapRegions(tables, FbRegions(fb), Constantly(RdramFB))
    /\ emulation' = "run"
    /\ UNCHANGED <<runstate, access>>

\* update_debugger: the front end hears of it unless the state is RUNNING
Update(s, a) ==
    /\ runstate' = s
    /\ IF s = "RUNNING" THEN UNCHANGED <<emulation, access>>
                        ELSE emulation' = "callback" /\ access' = a

\* update_debugger before an instruction at pc
Execute(pc) ==
    /\ emulation = "run"
    /\ Update(IF /\ runstate # "PAUSED"
                 /\ Lookup(tables, pc, 1, {"ENABLED", "EXEC"})
              THEN "PAUSED" ELSE runstate, NoAccess)
    /\ UNCHANGED <<tables, infos>>

\* A load or store of size bytes that dispatches to a checking handler and
\* finds a breakpoint.  Any other access touches nothing modelled here: when
\* not RUNNING the breakpoints are not even looked up.
MemoryAccess(k, a, size) ==
    /\ emulation = "run"
    /\ tables.mem[k][a \div RegionSize] = Checked
    /\ runstate = "RUNNING"
    /\ Lookup(tables, a, size, {"ENABLED", k})
    /\ Update("PAUSED", [kind |-> k, address |-> a])
    /\ UNCHANGED <<tables, infos>>

\* the callback returns; a checked access now calls the saved handler
CallbackReturns ==
    /\ emulation = "callback"
    /\ emulation' = IF access = NoAccess THEN "run" ELSE "call"
    /\ UNCHANGED <<tables, infos, runstate, access>>

\* saved_readmem[address>>16](): a null pointer ends the process
CallSaved ==
    /\ emulation = "call"
    /\ emulation' = IF tables.saved[access.kind][access.address \div RegionSize] = NULL
                 THEN "crashed" ELSE "run"
    /\ access' = NoAccess
    /\ UNCHANGED <<tables, infos, runstate>>

Crashed == emulation = "crashed" /\ UNCHANGED memoryVars

-----------------------------------------------------------------------------
(* DebugBreakpointCommand and DebugSetRunState.                            *)

FrontEnd ==
    emulation \in {"run", "task", "callback"} /\ UNCHANGED <<infos, emulation, access>>
Command(t) == FrontEnd /\ tables' = t /\ UNCHANGED runstate
Live == 0 .. tables.num - 1

AddBreakpoint(a) == tables.num < MaxBreakpoints /\ Command(AddAddress(tables, a))
AddBreakpointStruct(b) ==
    tables.num < MaxBreakpoints /\ Command(AddStruct(tables, b))
ReplaceBreakpoint(i, b) == Command(Replace(tables, i, b))
RemoveBreakpoint(i) == Command(RemoveSlot(tables, i))

\* remove_breakpoint_by_address: the first entry that covers the address
RemoveBreakpointAt(a) ==
    \E i \in Matches(tables, a, 1, {}) :
        /\ \A j \in Matches(tables, a, 1, {}) : i <= j
        /\ RemoveBreakpoint(i)

EnableBreakpoint(i) == Command(Enable(tables, i))
DisableBreakpoint(i) == Command(Disable(tables, i))

SetRunState(s) == FrontEnd /\ runstate' = s /\ UNCHANGED tables

-----------------------------------------------------------------------------

Sizes == {s \in 1 .. 8 : RegionSize % s = 0}    \* accesses are aligned

\* the addresses tried: the ends of the front end's breakpoints
Ends == UNION {{b.address, b.endaddr} : b \in Breakpoints}
Starts == {b.address : b \in Breakpoints}

MemoryNext ==
    \/ InitMemory \/ BeginTask \/ EndTask \/ CallbackReturns
    \/ CallSaved \/ Crashed
    \/ \E a \in Starts : Execute(a) \/ AddBreakpoint(a) \/ RemoveBreakpointAt(a)
    \/ \E k \in Kinds, a \in Ends, s \in Sizes :
           a % s = 0 /\ MemoryAccess(k, a, s)
    \/ \E b \in Breakpoints :
           \/ AddBreakpointStruct(b)
           \/ \E i \in Live : ReplaceBreakpoint(i, b)
    \/ \E i \in Live :
           RemoveBreakpoint(i) \/ EnableBreakpoint(i) \/ DisableBreakpoint(i)
    \/ \E s \in RunStates : SetRunState(s)

MemorySpec == MemoryInit /\ [][MemoryNext]_memoryVars

-----------------------------------------------------------------------------
(* Properties.                                                             *)

MemoryTypeOK ==
    /\ tables \in Tables
    /\ \A i \in Slots : tables.bp[i].address <= tables.bp[i].endaddr
    /\ infos \in [Infos -> Spans \cup {{}}]
    /\ runstate \in RunStates
    /\ emulation \in {"run", "task", "callback", "call", "crashed"}
    /\ access \in Access \cup {NoAccess}

\* A region's loads (stores) go through the checking handler exactly when an
\* enabled read (write) breakpoint covers a byte of it, whatever breakpoints
\* were added, replaced, removed, enabled and disabled over one another and
\* whatever was mapped meanwhile: no watched access escapes the debugger, and
\* no region stays slow after its last breakpoint (memory.c, dbg_breakpoints.c).
WatchedRegionsChecked ==
    \A k \in Kinds, r \in Regions :
        tables.mem[k][r] = Checked <=> Covered(tables, k, r)

\* Behind the breakpoints the memory map is the machine's: every region has,
\* checked or not, the handler mapped for it last, RDRAM's again when a
\* frame buffer has moved away; and no displaced handler is left over, which
\* activate would take for the sign that the region is checked already.
HandlersKept ==
    \A k \in Kinds, r \in Regions :
        LET m == tables.mem[k][r]
            s == tables.saved[k][r]
        IN  /\ (IF m = Checked THEN s ELSE m) =
                   Mapped(IF emulation = "task" THEN NoInfos ELSE infos, k, r)
            /\ m # Checked => s = NULL
=============================================================================
