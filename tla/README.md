# Formal model of Soft64

Soft64 is a Nintendo 64 emulator in C#. This directory holds TLA+ models of its
core and of the parts of mupen64plus it is compared with, the TLC runs that check
them and the TLAPS proofs about them. Paths below are relative to
`src/Source/Soft64/` unless they start with `src/`; `mupen/` stands for
`src/Source/CompareEngine.Mupen/mupen64plus-core/src/`.

## 1. The system

| Part | State it keeps | Operations | Talks to |
|---|---|---|---|
| Pause gate (`Engines/CoreTaskScheduler.cs`) | `m_PauseState`, `m_PauseEvent` | `PauseThreads`, `ResumeThreads`, `PauseWait`, `RunThreads` | called by the engine on any thread, waited on by the task threads |
| Engine and machine (`Engines/EmulatorEngine.cs`, `SimpleEngine.cs`, `SingleCoreScheduler.cs`, `Machine.cs`) | `m_Status`, the cancellation token, the scheduled tasks, the emulator thread | `Run`, `Pause`, `Stop`, `Start`, `Boot`, the emulation loop | user interface thread, emulator thread, thread-pool tasks that publish `Paused` |
| Debugger (`MipsR4300/Debugging/MipsDebugger.cs`) | `m_Break`, breakpoints, `m_LastPC` | `Break`, `Step`, breakpoints, the `DebugStep` handler | handler on the emulator thread, the rest on the user interface thread |
| TLB (`MipsR4300/TLBCache.cs`, `TLBEntry.cs`, ...) | 48 entries, two dictionaries by VPN2, `Random`, `Wired`, `Index`, the shutdown flags | `TLBP/R/WI/WR`, translation, flush, debugger edits | interpreter opcodes, `VMemStream`, debugger views through `CacheChanged` |
| Virtual memory (`MipsR4300/VMemStream.cs`, `TLBMapStream.cs`) | position | read, write, address mapping | TLB, unified memory |
| Unified memory (`IO/UnifiedStream.cs` and its look-up table, compiler and interpreter) | streams by base address, cache of compiled operations | add, remove, read, write | every bus client; two locks, see `Machine.cs:69-70` |
| Block, byte-swap and synchronized streams (`IO/`) | blocks, position | read, write | RDRAM, cartridge, user interface |
| CPU interpreter (`MipsR4300/Interpreter*.cs`) | registers, `BranchEnabled`, `BranchTarget`, `NullifyEnabled` | `Step` and every opcode | memory, TLB, CP0, CP1 |
| CP0 and exceptions (`MipsR4300/CP0Registers.cs`, `CauseRegister.cs`, `MipsR4300Core.cs`) | CP0 registers | register access, exception and interrupt entry | interpreter, MIPS interface |
| FPU (`MipsR4300/CP1/`) | FPRs, FCR31 | arithmetic and conversions | interpreter |
| RCP bus and peripheral interface (`RCP/`) | mounted streams, inserted cartridge | insert, eject, initialise | unified memory, cartridge |
| Cartridges and boot (`Cartridge.cs`, `VirtualCartridge.cs`, `SoftBootManager.cs`) | `s_Current`, `m_Booted` | open, boot | PI, CPU state |
| Views and tools (`Debugging/VMemViewStream.cs`, disassembler, WPF projects) | caches for display | display | debugger |
| Compare engine and core control (`src/Source/CompareEngine.Mupen/MupenEngine.cpp`, `mupen/api/frontend.c`, `mupen/main/main.c`) | `l_CoreInit`, `l_ROMOpen`, `g_EmulatorRunning`, `stop`, `rompause`, `l_FrameAdvance`, the compare event | the commands of `CoreDoCommand`, `main_run`, the pause loop, the compare callback | front end threads, the thread that runs the core |
| Memory dispatch and breakpoints of mupen64plus (`mupen/memory/memory.c`, `mupen/debugger/`, `mupen/rdp/fb.c`) | a read and a write handler per 64 KiB, the handlers put aside, 128 breakpoints, the frame buffers | `map_region`, the breakpoint commands, `protect_` and `unprotect_framebuffers`, the checks on access and execution | debugger front end, graphics plug-in, the CPU |
| Events, interrupts and resets of mupen64plus (`mupen/r4300/interupt.c`, `mi_`, `pi_`, `si_`, `ai_`, `vi_controller.c`, `rsp_core.c`, `rdp_core.c`) | the queue ordered by Count, `next_interupt`, the CP0 and MI registers, what is busy in each device | starts and ends of transfers and tasks, MTC0, ERET, the handlers of eleven kinds of event, soft and hard reset | the CPU at the end of every jump |
| Rest of mupen64plus (recompilers, archives, configuration, save devices) | - | - | - |

Hard behaviours: the pause gate has no lock; the debugger pauses from the thread
it pauses; statuses are published by unordered pool tasks; `Stop` only raises a
flag; the TLB keeps look-up dictionaries beside the entries they index; compiled
memory operations outlive the layout they were compiled for; branch, nullify and
exception state is carried from one interpreter step to the next. In mupen64plus,
breakpoints and frame buffers put handlers over each other in one table; events
are ordered by a counter that wraps around and that a program may write; and
three threads control the core through plain integers.

What makes each part correct:

| Part | Correct when |
|---|---|
| Pause gate | a waiting task is released by a resume; a pause stops the task after a bounded number of loop bodies |
| Engine and machine | one task, one thread; `Stop` ends the loop within one instruction; nothing executes before `Start` opens the gate |
| Debugger | every break request stops the program once; a step executes one instruction |
| TLB | table and dictionaries describe the same mapping; wired entries are kept; exceptions and shutdown have their cause in the table |
| TLB formats | what a program writes it reads back; pages translate to disjoint frames |
| Unified memory | a transfer moves the bytes a flat memory would; compiled code moves what the interpreter would |
| Interpreter | instructions run in the architecture's order, delay slots included; a handler returns to the address it interrupted |
| Block and synchronized streams | a transfer over a block boundary equals one over a flat memory; a client keeps its own position |
| Memory dispatch | a region is checked exactly when a breakpoint covers it; behind the checks is the handler mapped last |
| Events and interrupts | what is busy has an event, events are taken when due and not before, a pending interrupt is not forgotten |
| Core control | one run owns the core and its ROM; the front end is told the truth; the last command is in force; a stop ends the run |
| PI, cartridge, boot | the inserted cartridge is the mounted one and the current one; boot sees all or nothing |

## 2. Modules

| Module | Models | Composed with | Proofs |
|---|---|---|---|
| `CoreTaskScheduler` | the pause gate, one action per access of shared memory | - | `EmulatorEngineProofs` |
| `EmulatorEngine` | `Machine`, `EmulatorEngine`, `SimpleEngine`, `SingleCoreScheduler`, the status tasks | EXTENDS the gate, every step is a gate step or leaves the gate alone | `EmulatorEngineProofs` |
| `TLBCache` | the 48-entry table, its two dictionaries, Random, Wired, Index, translation, the shutdown flags | run with the next and `Interpreter` by `MCCoprocessor0` | `TLBCacheProofs` |
| `PageNumbers` | the conversions of EntryLo, PageMask and virtual addresses, and the registers a program loads and reads back | - | `PageNumbersProofs` |
| `MipsCode` | addresses and instructions as far as control flow needs them | used by the next two | - |
| `InstructionFlow` | the abstract order of instructions with delay slots | - | - |
| `Interpreter` | `DoInterpreterStep`, branches, ERET, traps, MTC0, the interrupt entry | refines `InstructionFlow` | `InterpreterProofs` |
| `UnifiedStream` | the look-up table, the transfer interpreter and the transfer compiler | - | `UnifiedStreamProofs` |
| `MemoryMap` | the dispatch tables of mupen64plus under breakpoints and frame buffers | - | `MemoryMapProofs` |
| `RcpEvents` | its event queue, devices, interrupts and resets | - | `RcpEventsProofs` |
| `CoreControl` | its control by commands, runs and the compare event | - | `CoreControlProofs` |

The `MC` modules give the constants their values. Names of variables and
operators are those of the code where TLA+ allows it. A definition whose name
ends in `_Something` and whose comment says "faulty variant" is a deliberately
wrong form of the one below it; no specification uses it, and replacing the
right one by it makes the property that watches it fail. `MCParts` and `MCCoprocessor0`
each put modules that share no state into one run: a behaviour chooses its part at the
start and leaves the others in their initial states.

### CoreTaskScheduler and EmulatorEngine

`m_PauseState` and `m_PauseEvent` are the two fields; `pc[t]` says between which
two statements of `PauseThreads`, `ResumeThreads` or `PauseWait` thread `t`
stands. `PauseEnter` reads the state (line 59), `PauseReset` resets the event
(61), `PauseExchange` is the `Interlocked.Exchange` with its throw (52-67);
`ResumeClear` and `ResumeSet` are lines 73 and 74; `PauseWaitPass`,
`PauseWaitBlock` and `WaitOne` are `PauseWait`. `AutoResetEvent` is a Boolean
that `WaitOne` consumes.

`EmulatorEngine` adds the callers: `at[UI]` follows the user interface thread
through `Machine.Run`, `Pause` and `Stop`, `at[Emulator]` the task through boot,
the token check, the gate and one instruction. An instruction ends in one of
three ways: the loop goes on, the debugger pauses on this very thread
(`MipsDebugger.cs:126`), or an exception leaves the task faulted. Boot is one
step with the same three outcomes. `Task.Factory.StartNew` in `PauseThreads`
becomes `statusTasks`, a count of pool tasks that have yet to set `Paused`, in
any order with everything else. A status of `Running` or `Resumed` is never
stored by the code and so is not in the model.

### TLBCache and PageNumbers

`m_Entries`, the dictionaries and the flags are variables of the same names. An
entry is its page number and, of each half, the two bits that decide anything
(`valid`, `global`). `Write`, `WriteRandom`, `Probe`, `Read`, `Translate` are the
opcodes with all they call; `outcome` remembers what the last one did, including
the exceptions .NET throws out of it (`OutOfRange`, a key added twice). The
registers a program writes are `WriteRegister` and `SetWired`; MTC0 to Wired is
lost in this commit (`CP0Registers.cs` has no case for it), so `SetWired` is
the public setter of `TLBCache.Wired`, which nothing in this commit calls.
`PageNumbers` has the arithmetic that `TLBCache` abstracts from: shifts and masks
as division and modulo, exactly.

Loads and stores look only at the dictionaries, which forget nothing until the next
flush, so an entry that TLBWI or TLBWR replaces goes on translating: that is the
violated `TranslatedByTable`. `replaced` is history, an entry was overwritten since the
last flush; `MappedUntilReplaced` says that until then translation is by the table.
`WiredKept` takes Wired to be the number of wired entries, as `CP0Registers.cs:63`
says, and is about TLBWR. That TLBWI is refused (`WriteRefused`) at every Index up to and
with Wired, entry 0 of a program that wires none included, is the code's
`CheckSafeEntry` and no property: `N64OPS#B2.txt:1136` has TLBWI load the entry Index
points at.

### Interpreter and InstructionFlow

A step with no branch pending is `PlainStep`; the second step of a branch is
`SlotStep` or `NullifyStep`. `CallInstruction` is the opcode: it records the
pending branch (`SetBranch`: target, slot, nullify), links, and has the effect on
the CP0 registers. The order of assignments matters for ERET, which sets `PC`
before the step adds 4 to it, and is kept. The program in memory is not fixed:
every fetch may return any instruction of a set, and the condition of a branch
is a free Boolean, so all programs over the set are explored at once.
`InstructionFlow` has only the address of the next instruction and the one
after, which is how the architecture describes delay slots. The mapping is

    pc  <- the slot, if a branch with a slot is pending; else the target, if one
           is pending; else PC
    npc <- the target, if a branch with a slot is pending; else pc + 4

so that `NullifyStep` is a stutter and the two steps of any other branch are two
instructions.

### UnifiedStream

A transfer is the sequence of its pieces (stream, position in it, place in the
buffer, count) and a compiled transfer is the same with a reference in place of
the stream. The three loops of the code, over the zones in address order, over the
listed streams and over the pieces to emit, are recursive functions of the number
of rounds (`Touched`, `Moved`, `Emitted`), and `QueryZoneTouches`, `RunOperation` and
`Compile` are their last values. `Moved` and `Piece` have the three cases of the code (first, last, inner)
and its use of the list's length for "last", which counts skipped streams too.
`CompiledTransfer` has the code's order: look for code, query, clear a full
cache, compile or run. `compiledIn` is history, used only to state properties.
Code is kept by `HashOf`, any function of the request for the proofs and the code's
`GenerateHash` in the runs, with half words of 2 bits in place of 16: two of the six requests
share a hash, as 0x1000 with count 0x100004 and 0x1010 with count 4 do in the program.
A piece is what a stream is asked for. The first piece of a transfer has the whole count
(`_StreamIOInterpreter.cs:57`), also when the stream ends before it; what comes of that is
the stream's own (`MMIOStream` throws, `BlockStream` goes on), so `InterpretedIsFlat`
excepts transfers that leave the stream they begin in the middle of (`LeavesMidway`).

### MemoryMap

`tables` holds the breakpoints and, for reads and for writes, the handler of each
region (`mem`) and the one put aside (`saved`); `RegionSize`, `Regions` and `MaxBreakpoints`
stand for 65536, 65536 and 128. `Enable`, `Disable`, `Install`, `Replace` and
`RemoveSlot` are the functions of `dbg_breakpoints.c` on a record of the tables,
composed as the code calls them: replacing disables, writes and enables again;
removing renumbers the slots above. `Lookup` keeps the unsigned arithmetic of
`lookup_breakpoint`, which is why an entry that ends at the last byte is special.
`BeginTask` and `EndTask` are the remapping around a graphics task. An access that
meets a breakpoint calls the debugger (`MemoryAccess`), whose callback may change
the breakpoints before `CallSaved` calls the handler put aside.

### RcpEvents

The queue is a sequence of (type, count) in the order of the code, `Count` and all
times are modulo `Modulus` (2^32 in the code), and `BeforeEvent` is the code's
comparison with its wrap bit, `SPECIAL_done`. A step is an instruction: a jump,
which advances Count and takes what is due, a store to a register of a device, an
MTC0, an ERET, an idle loop, or the front end asking for a reset. `Dispatch` is
`gen_interupt` with each handler. Transfers move no data; their lengths are in
`Delays`. Programs are sets of the operations they use (`Programs`), so a run
looks at one device and its interrupts at a time, in every order; "slots" in a program
lets it have the instructions of the CPU in delay slots too. An instruction that
assigns the whole of Cause, a MTC0 of 0 (`StoreCause`) or an exception of the program's own
(`Syscall`, and `check_cop1_unusable` in the same way), drops the pending bits that
are there; an exception then checks again, MTC0 does not. The history variable `erased` says that a
MTC0 Cause has hidden an interrupt of the RCP that is enabled, and that it still is hidden.
Executions the code itself cannot tell apart are told apart by `lapsed` (history:
an event fell into one of the gaps of 32-bit time, due between the last jump
and the wrap, left waiting beyond what `before_event` tolerates since a jump whose slot
ended in an exception dispatches nothing, or due at Count 0, which `get_event` uses for
"none"), by `Rewritten` (the program writes Count or Compare) and by `epc`, which says whose
address the register holds. Not modelled: a MTC0 of another value to Cause, which stops
the emulator, and TLB exceptions, which treat Cause as SYSCALL does.

### CoreControl

`pc[c]` is where a thread of the front end stands in a command or a run, `todo[c]`
what is left of its script. The commands are cut where other threads can come between:
PAUSE is test, announce, flip and settle; STOP is test, lift, announce and halt;
`main_run` is boot, flag, announce, and the two places that clear `stop`. The
client that executes is the emulation thread until the run ends. `event` is the
compare engine's `AutoResetEvent`. `rompause` is a plain int: `build` says whether
the compiler loads it in every round of the pause loop or once, both of which a
build can do. `overlap` is history: two calls, or a call and the start, the end of
a frame or the end of a run, were in progress together, or the core was shut down
and started again under a run. The API does nothing against that, so the properties say what holds
while callers keep apart. An iteration of the loop is an instruction or a jump with its
delay slot and `gen_interupt`, which takes the vertical interrupt whether or not the run is
to stop (`Retire`). Keeping apart is therefore not enough for STOP: one that comes while a
frame is being advanced and a jump is under way leaves the core in the pause that ends the
frame, which the violated `StopHonoured` shows; `StopEndsRun` is about the stops outside a
frame advance. After the compare event is closed a wait or an unlock throws; in the
model the thread stands still, and no instruction follows either way.

## 3. Runs

Every run checks for deadlock as well: in each state somebody can do something.

| Run | Question | Bounds and why they are enough |
|---|---|---|
| `engine` | the life cycle over the pause gate: no lost wakeup, a bounded leak of the gate, one task, prompt stop, barrier at start, the engine as a refinement of the gate, and liveness | one user interface thread and one emulator thread, which is what the program has; two waiting status tasks, enough for one to overtake a resume and another one; the count of steps after a stop saturates at 2 |
| `rcp_events` | are events, interrupts and transfers neither lost nor early? | Count has 64 values, so that the wrap and both gaps are met; eighteen programs, each the operations around one or two devices, three of them with idle loops, four with the CPU's instructions in delay slots; at most one modelled instruction before each jump and its slot (`MaxLine`), two rare events (`MaxRare`: resets, writes of Count); delays of 3 and 5 against a vertical interrupt of 16 |
| `cp0` | three parts in turn, below | no state is shared, so the parts' states add up and do not multiply |
| - table | do table, dictionaries, exceptions and wired entries agree, and is translation by the table until an entry is replaced? | four entries: one wired, three to let two duplicates and a bystander exist; two page numbers, three kinds of page; an Index in the wired part, in the free part, and wider than a byte |
| - words | does EntryLo read back? | all flags and coherency bits with page frames at field edges |
| - exceptions | does a handler's return address survive? | four words, with the vector the last of them; all combinations of IE and EXL, ERL set, coprocessor refused |
| `parts` | four parts in turn, below | as above |
| - streams | do transfers ask for what they should as streams come and go? | four streams (adjacent, behind a gap, overlapping and read-only), six transfers, two of which share a hash, a cache of one instead of 450, which fills after two |
| - flow | is every user program executed in the architecture's order? | six words: branch, slot, successor, target, and room for the wrap of the address space |
| - memory | do the tables agree with breakpoints and frame buffers? | four regions of four bytes in two segments, two breakpoints of lengths within, across and beyond a region, two frame buffers |
| - core | does control work with three threads? | the engine's task, a user interface that pauses, resumes, advances, stops, detaches, closes, starts up or executes at any time, the finalizer; failing plug-ins; both builds; states after an overlap are cut off (`MCApart`), as every property is about executions without one |

| Run (violated) | What a comment or document says | What the code does |
|---|---|---|
| `stop_paused` | `SingleCoreScheduler.cs:13`: stopping kills all tasks instantly | a task that is paused when the token is cancelled waits for ever on an event nobody signals |
| `tlb_shutdown` | `TLBCache.cs:36`: the shutdown simulates that of a real TLB | writing an entry over itself, the ordinary refresh, counts as a duplicate and shuts the TLB down |
| `tlb_stale` | `src/Docs/n64_tlb.txt:58`: to translate is to look for a hit in the entries of the TLB | the dictionaries keep the key of an entry that was overwritten, and it goes on translating |
| `mask_readback` | `TLBEntry.cs:33`: the page size stores the mask values used in TLB read operations | the mask is cut before it is shifted back: TLBR returns 0x4000 for 0x6000 |
| `eret_resumes` | `N64OPS#B2.txt:1080`: ERET returns from an interrupt | the step adds 4 to the address it returned to |
| `compiled_code` | `_StreamIOCompiler.cs:91`: compiled with the interpreter's engine | a full cache is cleared after the query that relied on it: an empty transfer is compiled and kept |
| `deferred_task` | `mupen/rsp/rsp_core.c:272`: a task put off by a freeze is done when the DP is unfrozen | the end of an earlier display list clears the freeze and does not run the task |
| `stop_honoured` | the front-end API: STOP "will stop the emulator, if it is currently running" | a STOP that comes while a frame is being advanced looks for a pause before the frame has ended in one; the emulation thread then stays in the pause loop |

Disagreements seen in the code and stated as the models' comments but not given
a run: TLBWI is refused at entry Wired and below, entry 0 included; TLBP can report a
global entry of another address space's key; global
entries are looked up by a key that includes the ASID; the coherency mode is Reserved for most frames;
ERET with EXL set returns to ErrorEPC, though interrupts save EPC; SYSCALL, BREAK and the
traps record a cause and enter no handler; a reference to the last stream
resolves to the first one, requests share code when their hashes meet, and streams added
later are invisible to compiled code (`DivergenceExplained` states all three).

Some hazards are modelled and reached, and excused by name in the properties around
them, because nothing in the repository says what should happen instead: a
pause refused because two threads pause at once, a pause lost during boot, an event that falls
into a gap of Count, a second event of a device whose first is due at Count 0, a check that comes
too late after a write of Compare, an EPC lost to a CHECK_INT that was queued before an
exception, a handler that never runs because a branch was pending, and what overlapping
commands do to each other. `PROJECT.json` says so at each of them.

### Fairness

Only liveness properties use it, in `engine`, `stop_paused`, `rcp_events`, `parts`
and `stop_honoured`. The emulator thread and the pool threads run whenever they can
(`WF`): they are operating system threads with nothing that holds them but the
gate. The user interface finishes a call it has begun, and never has to begin
one. `WaitOne` is woken when the event stays signalled. `RcpEvents` assumes that
the program goes on: some instruction is executed, and in the end a jump, where
events are taken; a program without jumps would leave the address space.
`CoreControl` assumes of every thread that a call or a run that can take a step
takes it; nobody has to issue another command. No strong fairness is assumed
anywhere. The properties say: a resume releases the waiter unless paused again
(`ResumeReleases`), a pause takes hold (`PauseTakesHold`), a stop ends a running
task (`StopEndsRunningTask`), a transfer ends (`TransfersEnd`), the audio FIFO
moves on (`AudioAdvances`), a stop ends a run (`StopEndsRun`).

## 4. Proofs

| Module | Theorems | Assumptions |
|---|---|---|
| `EmulatorEngineProofs` | of the gate: `TypeCorrect`, `NeverLostWakeup`, `PauseLeaksLittle` | `SchedulerThreads`: finitely many controllers, no thread both |
| | of the engine: `EngineUsesGate`, `EngineNeverLosesWakeup`, `EnginePauseLeaksLittle`, `EngineInductive`, `OneTaskOnly`, `StopIsPrompt`, `StartIsBarred` | `EngineThreads` |
| `TLBCacheProofs` | `TypeCorrect`, `TableAgrees`, `DuplicatesAreNoticed`, `RefillIsJustified`, `ProbeMissIsSound`, `RandomStaysInTable`, `WiredEntriesKept`, `StaleOnlyWhenReplaced` | `TLBSizes` and the sets a program's values come from |
| `PageNumbersProofs` | `EntryLoSurvives`, `FramesDisjoint`, `EntryLoReadsBack` | `EntryLoAssumption`, for the third |
| `MemoryMapProofs` | `IInvHolds`, `TypeCorrect`, `WatchedAreChecked`, `HandlersAreKept` | the sizes and the two kinds of handler, `MemoryMap`'s named assumptions |
| `CoreControlProofs` | `TypeCorrect`, `CoreInvHolds`, `RunsOwnCore`, `ReportsAreTrue`, `LastCommandsHold` | `ScriptsAssumption`: scripts are non-empty sequences of commands |
| `UnifiedStreamProofs` | `TypeCorrect`, `CodeIsResolved`, `DivergenceIsExplained`, `TransfersAreFlat`, `CacheIsBounded` | `UnifiedAssumption`: finitely many streams, at different addresses, none empty |
| `RcpEventsProofs` | `TypeCorrect`, `MarkerIsKept`, `BusyDevicesEnd`, `PendingIsNoticed`, `HeadIsDispatched`, `NothingIsEarly` | `WidthAssumption`, `ChoicesAssumption`; hypotheses on the room in the pool and on promptness, below |
| `InterpreterProofs` | `TypeCorrect`, `PendingBranchHolds`, `InterpreterImplementsFlow`, `HandlersKeepEPC` | `InterpreterAssumption`; the middle two also `FlowPrograms` |

The arguments:

* **Gate.** `PauseLeakBounded` is not inductive: a state with the bound used up
  and a signal still to come would break it. `LeakBudget` adds the signals to the
  releases; a release moves one from one side to the other, and only a new pause
  starts again, with at most one signal per controller and one in the event.
  `NoLostWakeup` holds for a single worker, since the event releases one.
* **Engine.** Every step of the engine is a step of the gate or a stutter
  (`GateStep`), so the gate's theorems carry over with `PTL`. The other three
  rest on `IndInv = Places /\ FirstStart /\ OneTask /\ LastStep`: a thread is in a
  method of the scheduler only where the engine called it from; until the first
  `Start` has passed there is no emulator thread to race with; the status is
  Stopped again only after the token was cancelled; a loop body begun after the
  cancel is followed by the check.
* **TLB.** `TableIndexed /\ DuplicatesNoticed` is inductive together with the
  types: `AddEntry` either finds the key free, or finds it taken and raises the
  flag that both conjuncts excuse. `RefillJustified` and `ProbeMissSound` follow
  from the dictionary entry that `TableIndexed` guarantees for a live page.
  `StaleOnlyWhenReplaced` needs that until an entry is overwritten the dictionaries hold
  nothing but entries of the table, under their own page numbers (`KeysBacked`, `KeysFit`). `WiredEntriesKept`
  is about what `NextRandom` may return for any value Random was left with.
* **Formats.** The overlap of coherency bits and frame number is harmless because
  both copies are equal and `Or5(a, a) = a`; what is left is positional notation.
* **Interpreter.** `PendingBranch` ties `BranchTarget`, `BranchDelaySlot`, `PC` and
  the flags to the branch executed last. It needs `FlowPrograms` (no branch in a
  delay slot, no ERET, no interrupt): the architecture leaves the first undefined,
  and the others are what the exceptions part of `cp0` and `eret_resumes` look at. Under it each
  step maps to one step of `InstructionFlow` or a stutter, for every size of the
  address space and every set of instructions.

* **Memory.** The inductive invariant says region by region what `HandlersKept`
  and `WatchedRegionsChecked` say of the tables, together with the fact that no
  breakpoint in use ends before it begins: without it the code's test for an
  overlap, which tests the ends of each against the other, and its walk over the
  regions of a breakpoint could differ (`OverlapIsVisit`). Each function of
  `dbg_breakpoints.c` has a lemma that it keeps the invariant for the entry it
  changes; replacing and removing are then two steps of it.

* **Control.** None of the three properties is inductive: they speak of the states
  between calls, and a call leaves them for a few steps. `CoreInv` says at each of
  those steps what is still to come: `Told` that where the announced state differs
  some thread is about to announce (after `flip`'s announcement, before it acts),
  `Held` the same of the last command, `Owned` which steps of a run count as
  running and which commands cannot be under way in one. `Alone` (no overlap)
  gives each case its point: whatever another thread does meanwhile is none of
  the steps that write the same variables. Nothing is assumed of how many threads
  there are or what they ask for.
* **Events.** `IndInv` says that the machine is well typed, the queue within its
  pool and with exactly one marker, and, for programs that write neither Compare
  nor Count, that `next_interupt` is 0 or the time of the queue's head (`Headed`).
  Each operation of the queue has a lemma that says which kinds of event it adds
  and which it takes away (`AddedFacts`, `TakenFacts`); each handler and each
  instruction is a composition of them (`Keeps`, `Moves`, `Acts`).
  `HeadIsDispatched` is then arithmetic: a head that is due and was not passed over
  has a time no later than Count. The pool matters to the rest. A write of Count
  takes the marker out and puts it back, which needs room for it (`MarkerFits`);
  an operation that starts, or an interrupt that becomes pending, needs room for
  its event (`PoolHasRoom`). The hypotheses are about the reachable states and not
  idle: nothing in the code keeps the pool from filling, since `check_interupt`
  queues a second CHECK_INT without looking for the first, and once Count has
  wrapped past the head nothing is taken until the marker's turn. TLC sees a full
  pool of eight under the program that starts immediate SI transfers.
  `PendingIsNoticed` speaks of a CPU that has interrupts enabled: a soft reset clears
  Cause and disables them, but leaves the SI and DP bits of MI_INTR, so that a
  masked-in interrupt is not in Cause until the program enables interrupts again,
  which checks. Its first half is false of MTC0 Cause, which clears the pending bits and
  looks for nothing: the theorem says that this is the only way (`Hidden(m) => erased`), and
  its second half holds without exception.
* **Events: nothing early.** `NeverEarly` says that an event that is dispatched is
  due. `next_interupt <= Count` alone does not imply that, since times wrap around
  and the comparison is of plain numbers. The inductive invariant is `Orderly`:
  `next_interupt` is the time of the head, and every event before the marker is
  either ahead of Count without a wrap or already due. Inside an instruction it
  becomes `Well`, which also covers the cycles that `CP0_UPDATE_COUNT` has still to
  add (`Fitting`) and the moments in which a handler leaves `next_interupt` at 0
  (`Aimed`); `Carried` is what each handler and instruction preserves, and the
  lemmas ending in `Carried` go through them. The queue's comparison puts a new
  event before the marker only if its time does not wrap past it, which is where
  `SPECIAL_done` is needed. Two hypotheses are about the program. `Prompt`: an
  event that is due is taken before Count has gone 0x10000000 (`Near`) past it. The
  code itself assumes that: `before_event` takes an event further behind to be one
  that is ahead. `HeadFirst`: when an idle loop begins, the head is due if any
  event before the marker is, as the loop moves Count to the head's time without
  looking at others. Neither is idle or impossible: TLC finds both true in every
  reachable state of the instance of `rcp_events`, which checks `NeverEarly` itself
  without them; but no assignment of delays bounds how long a program goes without
  a jump, so they stay hypotheses. `WidthAssumption` gains that Count starts below
  `Near` (0x5000), and `ChoicesAssumption` that the code between two modelled
  instructions lasts less than `Near`: 0x10000000 cycles of straight code would fill
  512 MB. Programs that write Compare or Count are excused by `Rewritten`, as in the
  property.
* **Unified memory: loops.** A recursive function is what its equation says, which
  `TouchedRounds`, `MovedRounds` and `EmittedRounds` establish, each by the least
  number of rounds for which no solution would exist; what a loop computes is then
  proved in the same way, from a least round that would break it.
* **Unified memory: kept code.** `CodeInv` says of every kept hash that its code
  is that of an operation, of the request it was compiled for, made of streams of the table it was compiled for, line by
  line with the same position, place and count, naming a reference to the stream or
  the first one (`Makes`), and that this table was part of the present one. A new
  transfer only appends references, so what is kept stays true (`MakesMore`); an added
  stream grows the table; everything else clears the code. `TypeCorrect`,
  `CodeIsResolved` and `DivergenceIsExplained` follow from it.
* **Unified memory: transfers.** Where zones keep apart, a zone that begins before another
  ends before it (`TiledFacts`), so the zone of the first byte is met once and every zone
  after it is listed until one begins behind the transfer: the query is the sequence
  of the `Wanted` zones by address (`QueryIsWanted`). The i-th piece is then that of
  the i-th zone (`AllMoved`), and in each of the cases of `Piece` its bytes are those of
  the transfer that its stream holds (`PieceBytes`), the first piece because the transfer does not leave its stream midway;
  `FlatTransfer` is the union.
* **Unified memory: the cache.** A transfer is compiled only when it has no code, or
  after the cache was emptied, so the count is that of a set with one new element.

Only model-checked: all liveness (out of the prover's reach) and the eight violations.
The type invariants of `UnifiedStream`, `MemoryMap` and `CoreControl` are only proved
(their `TypeCorrect`), for every value of the constants.

## 5. Not modelled

The debugger's break counter, virtual memory, block and synchronized streams,
instruction semantics, the FPU, the RCP bus, cartridges, boot and the views are
planned below. The ROM header checks, the disassembler and the user interface
are text, tables and display; the interrupt scheduler is commented out at this
commit. Inside the modelled parts, `Machine`'s import of a configuration, the
position a unified transfer advances, the changes of a unified stream by the user
interface without its lock, and the CPU's Count register are left out;
`PROJECT.json` lists the hazards this leaves uncovered.

Of mupen64plus, three parts with state that several actors share are modelled.
Most of its lines are something else: two recompilers and their assemblers for
three processors (a quarter of the tree is `new_dynarec/` alone), whose
correctness is that the code they write computes what the interpreter does, over
the whole of an instruction set; zip and MD5; tables of opcodes; plug-in
stubs; the display; and data formats of save files. These have no small state
space that says something about them, so the share of the C sources that is
modelled stays small, while Soft64 itself is C#. Inside the modelled parts the
data that a transfer moves, the contents of memory behind a handler, save states,
volume, speed and screenshots are left out.

## 6. Plan

Done, in this order because the gate and the life cycle are what every other part
runs under, the TLB has the most state to keep in agreement, and control flow and
memory decide what every instruction does: gate, engine, TLB, formats,
interpreter, unified memory; then the reference core: memory dispatch, events and
interrupts, control. The gate's own run and those of the formats and the unified
stream have been joined with `engine`, `cp0` and `parts`. Next:

1. `MipsDebugger` composed with `EmulatorEngine` (break counter, step, breakpoints;
   "a break request stops the program once"), joining the `engine` run.
2. `MachineBoot`: PI mount and release, `Cartridge.Current`, `RcpProcessor.Initialize`,
   boot and boot again after a failure; "inserted, mounted and current agree".
3. `SychronizedStream`: two streams with a lock each and a shared per-thread
   position over one bus, against an abstract atomic memory.
4. `BlockStream` and `ByteSwapStream` against a flat memory, unaligned loads and
   stores and the branch conditions against the opcode reference, joining `parts`.
5. `VirtualMemory`, composing `TLBCache` and `UnifiedStream`: which exception a
   program sees for which access.
6. Of mupen64plus: the invalidation of translated code by stores, the flash
   memory's command states and the controllers' register cache of the recompiler.
