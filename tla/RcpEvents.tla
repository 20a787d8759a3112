----------------------------- MODULE RcpEvents -----------------------------
(***************************************************************************)
(* The event queue of the mupen64plus core (r4300/interupt.c), through     *)
(* which the devices of the RCP interrupt the emulated CPU.                *)
(*                                                                         *)
(* A device that starts something queues an event for the value Count will *)
(* have when it ends.  The interpreter compares Count with next_interupt   *)
(* at the end of every jump, and in a few other instructions, and lets     *)
(* gen_interupt dispatch the head of the queue.  Count is a 32-bit number  *)
(* that wraps around: an event of type SPECIAL_INT marks the wrap in the   *)
(* queue.  An interrupt raised by a register write is queued as well, as a *)
(* CHECK_INT at the head, and taken by the next jump.                      *)
(*                                                                         *)
(* The machine is one record, since a handler is a chain of calls that     *)
(* each change it.  An instruction runs alone or in the delay slot of a    *)
(* jump; the instructions between two of those modelled only let time      *)
(* pass, "lag" being what update_count has still to add to Count.          *)
(***************************************************************************)
EXTENDS Integers, Sequences

CONSTANTS
    Modulus, Half, Near, \* 2^32, 0x80000000 and 0x10000000
    Capacity,       \* POOL_CAPACITY
    CountPerOp,     \* count_per_op
    BootCount,      \* Count after r4300_reset_hard (0x5000)
    FirstVi,        \* the first VI_INT (5000)
    Delays,         \* Delays[device]: durations of an operation of the device
    Tasks,          \* the types of RSP task it starts ("gfx", "audio", "other")
    SpDelays,       \* SpDelays[task]: from the task to its interrupt
    ResetDelay,     \* from reset_soft to the NMI (50000000)
    Lags,           \* instructions between two modelled ones, in Count units
    MaxLine,        \* bound: modelled instructions without a jump
    MaxRare,        \* bound: resets asked for and writes to Count
    Masks,          \* values the program writes to MI_INTR_MASK
    Lines,          \* sets of interrupt lines it enables in Status
    Compares, Counts, \* values it writes to Compare and to Count
    Programs        \* the programs: each the set of instructions it uses, with
                    \* "slots" if it has those of the CPU in delay slots too

Devices == {"PI", "SI", "AI", "VI", "SP", "DP"}
Timed == {"PI", "SI", "AI", "VI"}
Types == Devices \cup {"COMPARE", "CHECK", "SPECIAL", "HW2", "NMI"}
Words == 0 .. Modulus - 1

\* Count starts below the tolerance of before_event, and no straight line of
\* code lasts as long as it: 0x10000000 cycles would fill 512 MB.
ASSUME WidthAssumption ==
    /\ {Modulus, Half, Near, Capacity, CountPerOp, MaxLine} \subseteq Nat \ {0}
    /\ MaxRare \in Nat
    /\ Near < Half /\ Modulus = 2 * Half /\ 2 < Capacity
    /\ {BootCount, FirstVi} \subseteq Words /\ FirstVi <= BootCount /\ BootCount < Near
    /\ Compares \cup Counts \subseteq Words
ASSUME ChoicesAssumption ==
    /\ Delays \in [Timed -> SUBSET Words] /\ SpDelays \in [Tasks -> Words]
    /\ ResetDelay \in Words /\ Lags \subseteq Words /\ \A d \in Lags : d < Near
    /\ Masks \subseteq SUBSET Devices
    /\ Lines \subseteq SUBSET {"rcp", "timer"}

VARIABLES
    m,          \* the machine
    line,       \* modelled instructions since the last jump
    rare,       \* resets and writes to Count so far
    lapsed,     \* history: an event was passed over or left waiting, or had Count 0
    erased,     \* history: MTC0 Cause hid an interrupt, and it still is hidden
    program     \* the instructions this run of the machine uses

vars == <<m, line, rare, lapsed, erased, program>>

Events == [type : Types, count : Words]

Machine == [count : Words, lag : Words, compare : Words,
            queue : Seq(Events), next : Words, done : BOOLEAN,
            ie : BOOLEAN, exl : BOOLEAN, epc : {"none", "thread", "handler"},
            im : SUBSET {"rcp", "timer", "hw2"},
            cause : SUBSET {"rcp", "timer", "hw2"},
            intr : SUBSET Devices, mask : SUBSET Devices,
            slot : BOOLEAN, skip : BOOLEAN,
            pi : BOOLEAN, ai : 0 .. 2, vi : Words,
            running : BOOLEAN, onbreak : BOOLEAN, task : Tasks \cup {"other"},
            frozen : BOOLEAN, deferred : BOOLEAN, job : BOOLEAN]

-----------------------------------------------------------------------------
(* The queue.                                                              *)

\* uint32_t subtraction
Diff(a, b) == (a - b) % Modulus

UpdateCount(s) == [s EXCEPT !.count = (@ + s.lag) % Modulus, !.lag = 0]

\* before_event(c, e.count, e.type)
BeforeEvent(s, c, e) ==
    /\ Diff(c, s.count) < Half
    /\ IF Diff(e.count, s.count) < Half
       THEN Diff(c, s.count) < Diff(e.count, s.count)
       ELSE Diff(s.count, e.count) < Near => e.type = "SPECIAL" /\ s.done

\* a queue with one more event after its first k, and without its k-th
Inserted(q, k, e) ==
    [i \in 1 .. Len(q) + 1 |->
        IF i <= k THEN q[i] ELSE IF i = k + 1 THEN e ELSE q[i - 1]]
Without(q, k) == [i \in 1 .. Len(q) - 1 |-> IF i < k THEN q[i] ELSE q[i + 1]]

Positions(s, t) == {i \in DOMAIN s.queue : s.queue[i].type = t}
Least(S) == CHOOSE i \in S : \A j \in S : i <= j

\* get_event: 0 also stands for "none"
GetEvent(s, t) ==
    IF Positions(s, t) = {} THEN 0
    ELSE s.queue[Least(Positions(s, t))].count

\* how many events add_interupt_event_count leaves in front of the new one
Place(s, t, c) ==
    LET n == Len(s.queue)
        \* the two loops of the insertion
        behind == Least({k \in 1 .. n :
                           k = n \/ BeforeEvent(s, c, s.queue[k + 1])})
        equal  == Least({k \in behind .. n :
                           k = n \/ s.queue[k + 1].count # c})
    IN IF n = 0 \/ t = "SPECIAL" THEN n
       ELSE IF BeforeEvent(s, c, s.queue[1]) THEN 0
       ELSE IF behind = n THEN n ELSE equal

\* Faulty variant: next_interupt follows the newest event.
AddEventCount_NewestNext(s0, t, c) ==
    LET s == [s0 EXCEPT !.done = @ /\ s0.count <= Half]
    IN IF GetEvent(s, t) # 0 \/ Len(s.queue) >= Capacity THEN s
       ELSE [s EXCEPT !.queue = Inserted(@, Place(s, t, c), [type |-> t, count |-> c]),
                      !.next  = c]

\* add_interupt_event_count
AddEventCount(s0, t, c) ==
    LET s == [s0 EXCEPT !.done = @ /\ s0.count <= Half]
        k == Place(s, t, c)
    IN IF GetEvent(s, t) # 0 \/ Len(s.queue) >= Capacity THEN s
       ELSE [s EXCEPT !.queue = Inserted(@, k, [type |-> t, count |-> c]),
                      !.next  = IF k = 0 THEN c ELSE @]

AddEvent(s, t, delay) == AddEventCount(s, t, (s.count + delay) % Modulus)

\* next_interupt as remove_interupt_event and gen_interupt recompute it
Recomputed(s) ==
    IF s.queue # <<>> /\ \/ s.queue[1].count > s.count
                         \/ Diff(s.count, s.queue[1].count) < Half
    THEN s.queue[1].count ELSE 0

RemoveHead(s) ==
    LET r == [s EXCEPT !.queue = Without(@, 1)] IN [r EXCEPT !.next = Recomputed(r)]

\* remove_event: next_interupt stays
RemoveEvent(s, t) ==
    IF Positions(s, t) = {} THEN s
    ELSE [s EXCEPT !.queue = Without(@, Least(Positions(s, t)))]

\* the events, moved to a Count of "base"
Translated(s, base) ==
    [i \in DOMAIN s.queue |->
        [type |-> s.queue[i].type,
         count |-> (Diff(s.queue[i].count, s.count) + base) % Modulus]]

\* Faulty variant: the marker is not taken out first.
TranslateEventQueue_KeepsSpecial(s0, base) ==
    LET s == RemoveEvent(s0, "COMPARE")
        r == [s EXCEPT !.queue = Translated(s, base)]
    IN AddEventCount(AddEventCount(r, "COMPARE", r.compare), "SPECIAL", 0)

TranslateEventQueue(s0, base) ==
    LET s == RemoveEvent(RemoveEvent(s0, "COMPARE"), "SPECIAL")
        r == [s EXCEPT !.queue = Translated(s, base)]
    IN AddEventCount(AddEventCount(r, "COMPARE", r.compare), "SPECIAL", 0)

InitInterrupt(s) ==
    AddEventCount(AddEventCount([s EXCEPT !.done = TRUE, !.vi = FirstVi,
                                          !.queue = <<>>], "VI", FirstVi),
                  "SPECIAL", 0)

-----------------------------------------------------------------------------
(* Interrupts.                                                             *)

Enabled(s) == s.ie /\ ~ s.exl
Pending(s) == s.im \cap s.cause # {}
\* the RCP asks for an interrupt, and Cause does not show it
Hidden(s) == Enabled(s) /\ s.intr \cap s.mask # {} /\ "rcp" \notin s.cause

\* check_interupt
CheckInterrupt(s0) ==
    LET s == [s0 EXCEPT !.cause = IF s0.intr \cap s0.mask # {}
                                  THEN @ \cup {"rcp"} ELSE @ \ {"rcp"}]
    IN IF Enabled(s) /\ Pending(s) /\ Len(s.queue) < Capacity
       THEN [s EXCEPT !.queue = Inserted(@, 0, [type |-> "CHECK", count |-> s.count]),
                      !.next = s.count]
       ELSE s

\* exception_general: EPC is the address of the instruction interrupted
ExceptionGeneral(s0) ==
    LET s == UpdateCount(s0)
    IN [s EXCEPT !.exl  = TRUE,
                 !.epc  = IF s.exl THEN "handler" ELSE "thread",
                 !.skip = @ \/ s.slot,
                 !.next = IF s.slot THEN 0 ELSE @]

RaiseMaskable(s0, l) ==
    LET s == [s0 EXCEPT !.cause = @ \cup {l}]
    IN IF Enabled(s) /\ Pending(s) THEN ExceptionGeneral(s) ELSE s

RaiseRcp(s0, i) ==
    LET s == [s0 EXCEPT !.intr = @ \cup {i}]
    IN IF s.intr \cap s.mask # {} THEN RaiseMaskable(s, "rcp") ELSE s

SignalRcp(s, i) == CheckInterrupt([s EXCEPT !.intr = @ \cup {i}])
ClearRcp(s, i) == CheckInterrupt([s EXCEPT !.intr = @ \ {i}])

-----------------------------------------------------------------------------
(* The devices: what a register write does, and the end of an operation.   *)

\* Faulty variant: a second start replaces the event of the first.
StartPi_Restarts(s, delay) ==
    LET r == RemoveEvent(UpdateCount([s EXCEPT !.pi = TRUE]), "PI")
    IN AddEvent([r EXCEPT !.next = Recomputed(r)], "PI", delay)

\* dma_pi_read, dma_pi_write
StartPi(s, delay) == AddEvent(UpdateCount([s EXCEPT !.pi = TRUE]), "PI", delay)
PiEnd(s) == RaiseRcp([s EXCEPT !.pi = FALSE], "PI")

\* dma_si_write, dma_si_read, with and without the DelaySI option
StartSi(s) == {AddEvent(UpdateCount(s), "SI", t) : t \in Delays["SI"]}
StartSiNow(s) == {SignalRcp(UpdateCount(s), "SI")}

\* fifo_push: ai counts the buffers (BUSY, BUSY and FULL)
FifoPush(s, duration) ==
    IF s.ai = 0 THEN AddEvent(UpdateCount([s EXCEPT !.ai = 1]), "AI", duration)
                ELSE [s EXCEPT !.ai = 2]
\* Faulty variant: FULL is not cleared.
AiEnd_StillFull(s, duration) ==
    RaiseRcp(IF s.ai = 2 THEN AddEvent(UpdateCount(s), "AI", duration)
             ELSE [s EXCEPT !.ai = 0], "AI")
\* ai_end_of_dma_event
AiEnd(s, duration) ==
    RaiseRcp(IF s.ai = 2
             THEN AddEvent(UpdateCount([s EXCEPT !.ai = 1]), "AI", duration)
             ELSE [s EXCEPT !.ai = 0], "AI")

\* vi_vertical_interrupt_event
ViEnd(s0, delay) ==
    LET s == [s0 EXCEPT !.vi = (@ + delay) % Modulus]
    IN RaiseRcp(AddEventCount(s, "VI", s.vi), "VI")

\* do_SP_Task, the RSP plugin having raised the interrupts in "raised"
SpTask(s0, raised) ==
    LET gfx == s0.task = "gfx"
        s == UpdateCount([s0 EXCEPT !.intr = @ \cup raised, !.deferred = FALSE])
        sp == IF "SP" \in s.intr
              THEN AddEvent(s, "SP", SpDelays[s.task]) ELSE s
        dp == IF gfx /\ "DP" \in s.intr
              THEN AddEvent(sp, "DP", SpDelays[s.task]) ELSE sp
    IN IF gfx /\ s0.frozen THEN [s0 EXCEPT !.deferred = TRUE]
       ELSE [dp EXCEPT !.intr = @ \ (IF gfx THEN {"SP", "DP"} ELSE {"SP"})]

\* rsp_interrupt_event: halt and broke
SpEnd(s0) ==
    LET s == [s0 EXCEPT !.running = FALSE]
    IN IF s.onbreak THEN RaiseRcp(s, "SP") ELSE s
\* rdp_interrupt_event
DpEnd(s) == RaiseRcp([s EXCEPT !.frozen = FALSE], "DP")

-----------------------------------------------------------------------------
(* gen_interupt.                                                           *)

\* r4300_reset_soft, as far as it concerns the queue
ResetSoft(s) == [s EXCEPT !.ie = FALSE, !.exl = FALSE, !.im = {},
                          !.running = FALSE, !.deferred = FALSE,
                          !.onbreak = FALSE, !.pi = FALSE,
                          !.intr = @ \ {"PI", "VI", "AI", "SP"}]

\* reset_hard: memory and devices, CPU, queue
ResetHard(s) ==
    InitInterrupt([ResetSoft(s) EXCEPT
        !.count = BootCount, !.lag = 0, !.compare = 0, !.cause = {},
        !.epc = "none", !.intr = {}, !.mask = {}, !.ai = 0, !.frozen = FALSE,
        !.job = FALSE])

\* Faulty variant: the marker does not wait for Count to wrap around.
SpecialHandler_AtOnce(s) ==
    AddEventCount(RemoveHead([s EXCEPT !.done = TRUE]), "SPECIAL", 0)

SpecialHandler(s) ==
    IF s.count > Near THEN s
    ELSE AddEventCount(RemoveHead([s EXCEPT !.done = TRUE]), "SPECIAL", 0)

CompareHandler(s) ==
    LET r == RemoveHead(s)
        q == AddEventCount([r EXCEPT !.count = (@ + CountPerOp) % Modulus],
                           "COMPARE", r.compare)
    IN RaiseMaskable([q EXCEPT !.count = s.count], "timer")

Hw2Handler(s) ==
    ExceptionGeneral([RemoveHead(s) EXCEPT !.im = @ \cup {"hw2"},
                                           !.cause = @ \cup {"hw2"}])

\* Faulty variant: the audio status is not cleared.
NmiHandler_KeepsAudio(s) ==
    InitInterrupt([ResetSoft(RemoveHead(s)) EXCEPT
        !.count = 0, !.lag = 0, !.cause = {}, !.slot = FALSE])

NmiHandler(s) ==
    InitInterrupt([ResetSoft(RemoveHead(s)) EXCEPT
        !.count = 0, !.lag = 0, !.cause = {}, !.ai = 0, !.slot = FALSE])

\* the outcomes of dispatching the head of the queue
Dispatch(s) ==
    LET t == s.queue[1].type
        r == RemoveHead(s)
    IN CASE t = "SPECIAL" -> {SpecialHandler(s)}
         [] t = "COMPARE" -> {CompareHandler(s)}
         [] t = "CHECK"   -> {ExceptionGeneral(r)}
         [] t = "VI"      -> {ViEnd(r, d) : d \in Delays["VI"]}
         [] t = "AI"      -> {AiEnd(r, d) : d \in Delays["AI"]}
         [] t = "PI"      -> {PiEnd(r)}
         [] t = "SI"      -> {RaiseRcp(r, "SI")}
         [] t = "SP"      -> {SpEnd(r)}
         [] t = "DP"      -> {DpEnd(r)}
         [] t = "HW2"     -> {Hw2Handler(s)}
         [] t = "NMI"     -> {NmiHandler(s)}

\* "unsafe": interupt_unsafe_state, set by the MTC0 instructions
GenInterrupt(s, unsafe) ==
    IF s.job /\ ~ unsafe THEN {ResetHard(s)}
    ELSE IF s.skip THEN {[s EXCEPT !.skip = FALSE, !.next = Recomputed(s)]}
    ELSE Dispatch(s)

GenIfDue(s, unsafe) ==
    IF s.next <= s.count THEN GenInterrupt(s, unsafe) ELSE {s}

-----------------------------------------------------------------------------
(* The instructions: each maps a machine to its possible successors.       *)

StoreMiMask(s) ==
    UNION {GenIfDue(UpdateCount(CheckInterrupt([s EXCEPT !.mask = w])), FALSE) :
             w \in Masks}
ClearDp(s) == {ClearRcp(s, "DP")}                    \* MI_INIT_MODE
StorePiLength(s) == {StartPi(s, d) : d \in Delays["PI"]}
StorePiStatus(s) == {ClearRcp(s, "PI")}
StoreSiStatus(s) == {ClearRcp(s, "SI")}
StoreAiLength(s) == {FifoPush(s, d) : d \in Delays["AI"]}
StoreAiStatus(s) == {ClearRcp(s, "AI")}
StoreViCurrent(s) == {ClearRcp(s, "VI")}
StoreDpcEnd(s) == {SignalRcp(s, "DP")}

\* update_sp_status: set halt; clear the SP interrupt and set "interrupt on
\* break"; set the SP interrupt; clear halt and broke
HaltSp(s) == {[s EXCEPT !.running = FALSE, !.deferred = FALSE]}
BreakSp(s) == {ClearRcp([s EXCEPT !.onbreak = TRUE], "SP")}
SignalSp(s) == {SignalRcp(s, "SP")}

\* what the plugin's task raises: SP when it breaks, DP after the full sync of
\* a display list
Raised(s) == LET sp == IF s.onbreak THEN {"SP"} ELSE {}
             IN IF s.task = "gfx" THEN {sp, sp \cup {"DP"}} ELSE {sp}
RunSp(s) == {SpTask(s, r) : r \in Raised(s)}
StartSp(s) == UNION {RunSp([s EXCEPT !.running = TRUE, !.task = t]) : t \in Tasks}

\* update_dpc_status: set and clear freeze
Freeze(s) == {[s EXCEPT !.frozen = TRUE]}
Unfreeze(s) ==
    LET u == [s EXCEPT !.frozen = FALSE]
    IN IF s.running THEN RunSp(u) ELSE {u}

\* MTC0
StoreCount(s) ==
    UNION {{[TranslateEventQueue(g, w) EXCEPT !.count = w] :
              g \in GenIfDue(UpdateCount(s), TRUE)} : w \in Counts}
StoreCompare(s) ==
    {[AddEventCount(RemoveEvent(UpdateCount(s), "COMPARE"), "COMPARE", w)
        EXCEPT !.compare = w, !.cause = @ \ {"timer"}] : w \in Compares}
StoreStatus(s) ==
    UNION {GenIfDue(CheckInterrupt(UpdateCount(
              [s EXCEPT !.ie = w.ie, !.exl = FALSE, !.im = w.im])), TRUE) :
             w \in [ie : BOOLEAN, im : Lines]}

\* MTC0 Cause with 0: the pending bits go as well, and nothing is checked
StoreCause(s) == {[s EXCEPT !.cause = {}]}

\* An exception of the program's own, which assigns the whole of Cause:
\* SYSCALL, and in the same way check_cop1_unusable.
Syscall(s) == {ExceptionGeneral([s EXCEPT !.cause = {}])}

\* Faulty variant: no check for pending interrupts.
Eret_Unchecked(s) ==
    GenIfDue([UpdateCount(s) EXCEPT !.exl = FALSE, !.epc = "none"], FALSE)
Eret(s) ==
    GenIfDue(CheckInterrupt([UpdateCount(s) EXCEPT !.exl = FALSE, !.epc = "none"]),
             FALSE)

\* the end of a jump, after its delay slot
EndJump(s) == GenIfDue([UpdateCount(s) EXCEPT !.slot = FALSE], FALSE)

\* a jump to itself skips to next_interupt
Idle(s0) ==
    LET s == UpdateCount(s0)
        skip == Diff(s.next, s.count)
    IN IF 3 < skip /\ skip < Half
       THEN {[s EXCEPT !.count = (@ + skip - (skip % 4)) % Modulus]}
       ELSE EndJump(s)

\* reset_soft and main_reset, called by the front end
ResetSoftRequested(s) ==
    {AddEvent(AddEvent(s, "HW2", 0), "NMI", ResetDelay)}
ResetHardRequested(s) == {[s EXCEPT !.job = TRUE]}

-----------------------------------------------------------------------------
PowerOn ==
    ResetHard([count |-> 0, lag |-> 0, compare |-> 0, queue |-> <<>>,
               next |-> 0, done |-> TRUE, ie |-> FALSE, exl |-> FALSE,
               epc |-> "none", im |-> {}, cause |-> {}, intr |-> {},
               mask |-> {}, slot |-> FALSE, skip |-> FALSE, pi |-> FALSE,
               ai |-> 0, vi |-> 0, running |-> FALSE, onbreak |-> FALSE,
               task |-> "other", frozen |-> FALSE, deferred |-> FALSE,
               job |-> FALSE])

FirstEvent(s) == s.queue[1]
Due(s, e) == Diff(s.count, e.count) < Half
\* The head's time passed while Count wrapped around, or the head was left
\* waiting beyond the tolerance of before_event: the end of a jump dispatches
\* nothing after an exception in its delay slot.
PassedOver(s) ==
    /\ Due(s, FirstEvent(s))
    /\ \/ FirstEvent(s).count > s.count
       \/ \E d \in Lags : ~ Diff(s.count, FirstEvent(s).count) + d < Near
\* get_event takes an event of count 0 for none: a second one is queued
Unseen(s) ==
    \E i \in DOMAIN s.queue : s.queue[i].count = 0 /\ s.queue[i].type # "SPECIAL"

Init == /\ m = PowerOn /\ line = 0 /\ rare = 0
        /\ lapsed = FALSE /\ erased = FALSE
        /\ program \in Programs

Becomes(s) == /\ m' = s /\ lapsed' = (lapsed \/ PassedOver(s) \/ Unseen(s))
              /\ UNCHANGED program
\* "writes": the step writes Cause
Erases(writes) == erased' = (Hidden(m)' /\ (erased \/ writes))

\* what an instruction may make of the machine
Effect(instruction, s) ==
    CASE instruction = "mask"      -> StoreMiMask(s)
      [] instruction = "cleardp"   -> ClearDp(s)
      [] instruction = "pi"        -> StorePiLength(s)
      [] instruction = "pistatus"  -> StorePiStatus(s)
      [] instruction = "si"        -> StartSi(s)
      [] instruction = "sinow"     -> StartSiNow(s)
      [] instruction = "sistatus"  -> StoreSiStatus(s)
      [] instruction = "ai"        -> StoreAiLength(s)
      [] instruction = "aistatus"  -> StoreAiStatus(s)
      [] instruction = "vicurrent" -> StoreViCurrent(s)
      [] instruction = "dpcend"    -> StoreDpcEnd(s)
      [] instruction = "haltsp"    -> HaltSp(s)
      [] instruction = "breaksp"   -> BreakSp(s)
      [] instruction = "signalsp"  -> SignalSp(s)
      [] instruction = "startsp"   -> StartSp(s)
      [] instruction = "freeze"    -> Freeze(s)
      [] instruction = "unfreeze"  -> Unfreeze(s)
      [] instruction = "count"     -> StoreCount(s)
      [] instruction = "compare"   -> StoreCompare(s)
      [] instruction = "status"    -> StoreStatus(s)
      [] instruction = "cause"     -> StoreCause(s)
      [] instruction = "syscall"   -> Syscall(s)
      [] instruction = "eret"      -> Eret(s)

CpuInstructions == {"count", "compare", "status", "cause", "syscall"}

\* an instruction of the program, after a few others
Execute(instruction) ==
    /\ instruction \in program /\ line < MaxLine
    /\ \E d \in Lags : \E s \in Effect(instruction, [m EXCEPT !.lag = d]) :
         Becomes([s EXCEPT !.lag = 0])
    /\ Erases(instruction = "cause") /\ line' = line + 1

\* the same in the delay slot of a jump
InSlot(instruction) ==
    /\ instruction \in program
    /\ instruction \in CpuInstructions => "slots" \in program
    /\ \E d \in Lags :
         \E s \in Effect(instruction, [m EXCEPT !.lag = d, !.slot = TRUE]) :
             \E e \in EndJump(s) : Becomes(e)
    /\ Erases(instruction = "cause") /\ line' = 0

Instruction(instruction) ==
    (Execute(instruction) \/ InSlot(instruction)) /\ UNCHANGED rare

\* not in a delay slot, where the architecture leaves it undefined
ReturnFromException == Execute("eret") /\ UNCHANGED rare

WriteCount == /\ rare < MaxRare /\ rare' = rare + 1
              /\ Execute("count") \/ InSlot("count")

Jump == /\ \E d \in Lags : \E s \in EndJump([m EXCEPT !.lag = d]) : Becomes(s)
        /\ Erases(FALSE) /\ line' = 0 /\ UNCHANGED rare

IdleJump == /\ "idle" \in program
            /\ \E d \in Lags : \E s \in Idle([m EXCEPT !.lag = d]) : Becomes(s)
            /\ Erases(FALSE) /\ line' = 0 /\ UNCHANGED rare

\* the front end asks for a reset
Request ==
    /\ rare < MaxRare
    /\ \/ /\ "softreset" \in program
          /\ \E s \in ResetSoftRequested(m) : Becomes(s)
       \/ /\ "hardreset" \in program
          /\ \E s \in ResetHardRequested(m) : Becomes(s)
    /\ Erases(FALSE) /\ rare' = rare + 1 /\ UNCHANGED line

Next ==
    \/ Jump \/ IdleJump \/ WriteCount \/ Request \/ ReturnFromException
    \/ Instruction("compare")   \/ Instruction("status")
    \/ Instruction("cause")     \/ Instruction("syscall")
    \/ Instruction("mask")      \/ Instruction("cleardp")
    \/ Instruction("pi")        \/ Instruction("pistatus")
    \/ Instruction("si")        \/ Instruction("sinow")     \/ Instruction("sistatus")
    \/ Instruction("ai")        \/ Instruction("aistatus")
    \/ Instruction("vicurrent") \/ Instruction("dpcend")
    \/ Instruction("haltsp")    \/ Instruction("breaksp")   \/ Instruction("signalsp")
    \/ Instruction("startsp")   \/ Instruction("freeze")    \/ Instruction("unfreeze")

Spec == Init /\ [][Next]_vars
\* The CPU runs on: it reaches the end of a jump again and again.  A jump is
\* always enabled, so this is weak fairness of the jumps taken together.
FairSpec == Spec /\ []<><<line' = 0>>_m

-----------------------------------------------------------------------------
(* Properties.                                                             *)

TypeOK == /\ m \in Machine /\ line \in 0 .. MaxLine /\ rare \in 0 .. MaxRare
          /\ {lapsed, erased} \subseteq BOOLEAN /\ program \in Programs

\* The queue has exactly one SPECIAL_INT, whatever the handlers, the resets
\* and MTC0 Count do to it: the marker of the wrap is never lost or doubled,
\* and gen_interupt, which reads the head without a test, always has one.
OneSpecial == \E i \in DOMAIN m.queue : Positions(m, "SPECIAL") = {i}

\* A device that says it is busy has an event that will end it, and the next
\* vertical interrupt is always queued: no operation is dropped by the
\* refusal of a second event or by a reset.  A start that finds the pool of
\* events full would be; no program of the runs gets that far.
BusyHasEvent ==
    /\ m.pi => Positions(m, "PI") # {}
    /\ m.ai > 0 => Positions(m, "AI") # {}
    /\ Positions(m, "VI") # {}

\* A CPU that has interrupts enabled sees every unmasked interrupt of the RCP
\* in Cause, and has a CHECK_INT queued when one is pending: raising, unmasking
\* and enabling an interrupt, in a delay slot or not, all look for one.  Only
\* MTC0 Cause hides an interrupt, until something looks again ("erased").
PendingIsChecked ==
    /\ Hidden(m) => erased
    /\ Enabled(m) /\ Pending(m) => Positions(m, "CHECK") # {}

Rewritten == program \cap {"compare", "count"} # {}

\* The head is dispatched by the first jump at which it is due: not if its
\* time was within the instructions over which Count wrapped around ("lapsed"),
\* nor when Compare or Count was written, since remove_event and
\* translate_event_queue leave next_interupt as it was.
DueIsSeen ==
    lapsed \/ Rewritten \/ (Due(m, FirstEvent(m)) => m.next <= m.count)

\* No device's event is dispatched before its time, with the same exceptions.
NeverEarly ==
    lapsed \/ Rewritten \/
        (m.next <= m.count /\ ~ m.skip /\ FirstEvent(m).type # "SPECIAL"
            => Due(m, FirstEvent(m)))

\* A cartridge transfer ends, and a second audio buffer is started, however
\* the program's instructions are laid out, or the queue is passed over.
TransfersEnd == m.pi ~> (~ m.pi \/ lapsed)
AudioAdvances == (m.ai = 2) ~> (m.ai # 2 \/ lapsed)

\* "DP frozen: don't do the task now, the task will be done when DP is
\* unfreezed" (rsp_core.c:271-272): a task that was put off can still be run
\* by an unfreeze.
DeferredTaskKept == m.deferred => m.frozen /\ m.running
=============================================================================
