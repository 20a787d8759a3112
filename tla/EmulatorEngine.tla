--------------------------- MODULE EmulatorEngine ---------------------------
(***************************************************************************)
(* The life of the emulator: Machine.Run / Pause / Stop called by the user *)
(* interface, EmulatorEngine, the single thread SingleCoreScheduler makes  *)
(* for the loop of SimpleEngine, and the thread-pool tasks that publish    *)
(* the Paused status.  Source: src/Source/Soft64/Engines and Machine.cs.   *)
(*                                                                         *)
(* The pause gate is CoreTaskScheduler: every step here is a step of the   *)
(* gate by the same thread, or leaves the gate alone, together with what   *)
(* the engine does around it.  at[t] is the engine code thread t is in,    *)
(* pc[t] (of the gate) how far it is inside the scheduler's methods.       *)
(***************************************************************************)
EXTENDS CoreTaskScheduler

CONSTANTS UI,              \* the thread that calls Machine
          Emulator,        \* SingleCoreScheduler.m_SingleThread
          MaxStatusTasks   \* bound: with so many status tasks waiting to run,
                           \* nobody begins another Pause

ASSUME EngineThreads ==
  /\ UI # Emulator
  /\ Controllers = {UI}
  /\ Workers = {Emulator}
  /\ MaxStatusTasks \in Nat \ {0}

VARIABLES
  m_Status,          \* EngineStatus; Running and Resumed are never stored
  m_TokenCancelled,  \* m_TokenSource, never replaced after the constructor
  m_ScheduledTasks,  \* how many tasks the scheduler has queued, ever
  statusTasks,       \* tasks of PauseThreads that have yet to set Paused
  at,                \* where each thread is
  resume,            \* the local of RunThreads: it paused, so it resumes
  stepsAfterCancel   \* history: loop bodies begun since the cancel, 2 for more

engineVars == <<m_Status, m_TokenCancelled, m_ScheduledTasks, statusTasks,
                at, resume, stepsAfterCancel>>
vars == <<gateVars, engineVars>>

Statuses == {"Stopped", "Started", "Paused"}

UiPlaces == {"Idle", "Start", "RunThreads", "RunPause", "StartLoop",
             "Resume", "Started", "Pause", "Notify", "Stop"}
EmulatorPlaces == {"Absent", "Boot", "Begin", "PauseWait", "Step",
                   "Pause", "Notify", "Dead"}

EngineTypeOK ==
  /\ TypeOK
  /\ m_Status \in Statuses
  /\ m_TokenCancelled \in BOOLEAN
  /\ m_ScheduledTasks \in Nat
  /\ statusTasks \in Nat
  /\ at \in [{UI, Emulator} -> UiPlaces \cup EmulatorPlaces]
  /\ at[UI] \in UiPlaces /\ at[Emulator] \in EmulatorPlaces
  /\ resume \in BOOLEAN
  /\ stepsAfterCancel \in 0..2

Init ==
  /\ GateInit
  /\ m_Status = "Stopped"
  /\ m_TokenCancelled = FALSE
  /\ m_ScheduledTasks = 0
  /\ statusTasks = 0
  /\ at = [t \in {UI, Emulator} |-> IF t = UI THEN "Idle" ELSE "Absent"]
  /\ resume = FALSE
  /\ stepsAfterCancel = 0

\* Thread t is at from, outside the scheduler's methods, and goes to to.
Move(t, from, to) ==
  /\ at[t] = from
  /\ pc[t] = "Out"
  /\ at' = [at EXCEPT ![t] = to]

\* The bound, in the guards of the steps that decide to call Machine.Pause.
MayPause == statusTasks < MaxStatusTasks

Alive == at[Emulator] \notin {"Absent", "Dead"}

-----------------------------------------------------------------------------
\* Machine, on the thread of the user interface

MachineRun ==
  /\ Move(UI, "Idle", IF m_Status = "Stopped" THEN "Start" ELSE "Resume")
  /\ UNCHANGED <<gateVars, m_Status, m_TokenCancelled, m_ScheduledTasks,
                 statusTasks, resume, stepsAfterCancel>>

MachinePause ==
  /\ MayPause
  /\ Move(UI, "Idle", "Pause")
  /\ UNCHANGED <<gateVars, m_Status, m_TokenCancelled, m_ScheduledTasks,
                 statusTasks, resume, stepsAfterCancel>>

\* Faulty variant: Stop forgets to cancel the token.
MachineStop_NoCancel ==
  /\ Move(UI, "Idle", "Stop")
  /\ UNCHANGED <<gateVars, m_Status, m_TokenCancelled, m_ScheduledTasks,
                 statusTasks, resume, stepsAfterCancel>>

MachineStop ==
  /\ Move(UI, "Idle", "Stop")
  /\ m_TokenCancelled' = TRUE
  /\ UNCHANGED <<gateVars, m_Status, m_ScheduledTasks, statusTasks, resume,
                 stepsAfterCancel>>

\* Faulty variant: Stop opens the gate itself, without signalling the event.
StopSetsStatus_OpensGate ==
  /\ Move(UI, "Stop", "Idle")
  /\ m_Status' = "Stopped"
  /\ m_PauseState' = NOTSET
  /\ UNCHANGED <<m_PauseEvent, pc, leaks, m_TokenCancelled, m_ScheduledTasks,
                 statusTasks, resume, stepsAfterCancel>>

\* EmulatorEngine.Stop after the cancel: it waits for nobody.
StopSetsStatus ==
  /\ Move(UI, "Stop", "Idle")
  /\ m_Status' = "Stopped"
  /\ UNCHANGED <<gateVars, m_TokenCancelled, m_ScheduledTasks, statusTasks,
                 resume, stepsAfterCancel>>

-----------------------------------------------------------------------------
\* EmulatorEngine.Start and CoreTaskScheduler.RunThreads

\* TaskFactory.StartNew queues nothing when its token is already cancelled.
StartTasks ==
  /\ Move(UI, "Start", "RunThreads")
  /\ m_ScheduledTasks' = m_ScheduledTasks + (IF m_TokenCancelled THEN 0 ELSE 1)
  /\ UNCHANGED <<gateVars, m_Status, m_TokenCancelled, statusTasks, resume,
                 stepsAfterCancel>>

\* Faulty variant: the threads are started with the gate open.
RunThreads_GateOpen ==
  /\ Move(UI, "RunThreads", "StartLoop")
  /\ resume' = TRUE
  /\ UNCHANGED <<gateVars, m_Status, m_TokenCancelled, m_ScheduledTasks,
                 statusTasks, stepsAfterCancel>>

RunThreads ==
  /\ Move(UI, "RunThreads", IF m_PauseState = NOTSET THEN "RunPause" ELSE "StartLoop")
  /\ resume' = (m_PauseState = NOTSET)
  /\ UNCHANGED <<gateVars, m_Status, m_TokenCancelled, m_ScheduledTasks,
                 statusTasks, stepsAfterCancel>>

AfterLoop == IF resume THEN "Resume" ELSE "Started"

\* The foreach over the tasks, every one of which gets the same thread.  A
\* thread is started once; asked of a dead one, Thread.IsBackground throws.
StartLoopThrows == m_ScheduledTasks > 0 /\ at[Emulator] = "Dead"

StartLoop ==
  /\ at[UI] = "StartLoop"
  /\ pc[UI] = "Out"
  /\ IF StartLoopThrows
     THEN at' = [at EXCEPT ![UI] = "Idle"] /\ resume' = FALSE
     ELSE /\ at' = [at EXCEPT ![UI] = AfterLoop,
                              ![Emulator] = IF m_ScheduledTasks > 0 /\ @ = "Absent"
                                            THEN "Boot" ELSE @]
          /\ UNCHANGED resume
  /\ UNCHANGED <<gateVars, m_Status, m_TokenCancelled, m_ScheduledTasks,
                 statusTasks, stepsAfterCancel>>

\* ResumeThreads, from RunThreads or from Machine.Run; both then set Started.
UiResumeClear ==
  /\ at[UI] = "Resume"
  /\ ResumeClear(UI)
  /\ UNCHANGED engineVars

UiResumeSet ==
  /\ at[UI] = "Resume"
  /\ ResumeSet(UI)
  /\ at' = [at EXCEPT ![UI] = "Started"]
  /\ UNCHANGED <<m_Status, m_TokenCancelled, m_ScheduledTasks, statusTasks,
                 resume, stepsAfterCancel>>

SetStarted ==
  /\ Move(UI, "Started", "Idle")
  /\ m_Status' = "Started"
  /\ resume' = FALSE
  /\ UNCHANGED <<gateVars, m_TokenCancelled, m_ScheduledTasks, statusTasks,
                 stepsAfterCancel>>

-----------------------------------------------------------------------------
\* EmulatorEngine.PauseThreads, on either thread, and the pause of RunThreads

AfterPause(t) == IF at[t] = "RunPause" THEN "StartLoop" ELSE "Notify"

\* What becomes of a thread whose PauseThreads throws: the dispatcher of the
\* user interface goes on, the task of the emulator faults and its thread ends.
AfterThrow(t) == IF t = UI THEN "Idle" ELSE "Dead"

PauseBegins(t) ==
  /\ at[t] \in {"Pause", "RunPause"}
  /\ \/ PauseEnter(t) /\ UNCHANGED at
     \/ PauseNoop(t) /\ at' = [at EXCEPT ![t] = AfterPause(t)]
  /\ UNCHANGED <<m_Status, m_TokenCancelled, m_ScheduledTasks, statusTasks,
                 resume, stepsAfterCancel>>

PauseResets(t) ==
  /\ PauseReset(t)
  /\ UNCHANGED engineVars

PauseExchanges(t) ==
  /\ PauseExchange(t)
  /\ at' = [at EXCEPT ![t] = IF ExchangeThrows THEN AfterThrow(t) ELSE AfterPause(t)]
  /\ resume' = (resume /\ ~(t = UI /\ ExchangeThrows))
  /\ UNCHANGED <<m_Status, m_TokenCancelled, m_ScheduledTasks, statusTasks,
                 stepsAfterCancel>>

\* Task.Factory.StartNew: the status is set later, by some pool thread.
NotifyPaused(t) ==
  /\ Move(t, "Notify", IF t = UI THEN "Idle" ELSE "Begin")
  /\ statusTasks' = statusTasks + 1
  /\ UNCHANGED <<gateVars, m_Status, m_TokenCancelled, m_ScheduledTasks, resume,
                 stepsAfterCancel>>

SetPaused ==
  /\ statusTasks > 0
  /\ statusTasks' = statusTasks - 1
  /\ m_Status' = "Paused"
  /\ UNCHANGED <<gateVars, m_TokenCancelled, m_ScheduledTasks, at, resume,
                 stepsAfterCancel>>

-----------------------------------------------------------------------------
\* The loop of SimpleEngine, on the emulator thread

\* Machine.Boot: it succeeds; a handler of the Booted notification pauses the
\* machine (the break-on-boot button); or it throws and the task faults.
EmuBoot ==
  /\ \E next \in {"Begin", "Pause", "Dead"} :
       (next = "Pause" => MayPause) /\ Move(Emulator, "Boot", next)
  /\ UNCHANGED <<gateVars, m_Status, m_TokenCancelled, m_ScheduledTasks,
                 statusTasks, resume, stepsAfterCancel>>

\* Faulty variant: the loop does not look at the token.
EmuBegin_NoTokenCheck ==
  /\ Move(Emulator, "Begin", "PauseWait")
  /\ UNCHANGED <<gateVars, m_Status, m_TokenCancelled, m_ScheduledTasks,
                 statusTasks, resume, stepsAfterCancel>>

\* ThrowIfCancellationRequested
EmuBegin ==
  /\ Move(Emulator, "Begin", IF m_TokenCancelled THEN "Dead" ELSE "PauseWait")
  /\ UNCHANGED <<gateVars, m_Status, m_TokenCancelled, m_ScheduledTasks,
                 statusTasks, resume, stepsAfterCancel>>

\* The way out of Begin into the body of the loop.
EnterLoopBody ==
  /\ at' = [at EXCEPT ![Emulator] = "Step"]
  /\ stepsAfterCancel' = CASE ~m_TokenCancelled -> 0
                            [] m_TokenCancelled /\ stepsAfterCancel = 0 -> 1
                            [] OTHER -> 2
  /\ UNCHANGED <<m_Status, m_TokenCancelled, m_ScheduledTasks, statusTasks, resume>>

\* Faulty variant: the loop body is entered without waiting.
EmuPauseWait_NoWait ==
  /\ at[Emulator] = "PauseWait"
  /\ EnterLoopBody
  /\ UNCHANGED gateVars

EmuPauseWait ==
  /\ at[Emulator] = "PauseWait"
  /\ \/ PauseWaitPass(Emulator) /\ EnterLoopBody
     \/ PauseWaitBlock(Emulator) /\ UNCHANGED engineVars

EmuWaitOne ==
  /\ WaitOne(Emulator)
  /\ EnterLoopBody

\* StepOnce: one instruction; then the debugger may pause, or the
\* instruction let an exception out and the task faults.
EmuStep ==
  /\ \E next \in {"Begin", "Pause", "Dead"} :
       (next = "Pause" => MayPause) /\ Move(Emulator, "Step", next)
  /\ UNCHANGED <<gateVars, m_Status, m_TokenCancelled, m_ScheduledTasks,
                 statusTasks, resume, stepsAfterCancel>>

-----------------------------------------------------------------------------
UiNext ==
  \/ MachineRun \/ MachinePause \/ MachineStop \/ StopSetsStatus
  \/ StartTasks \/ RunThreads \/ StartLoop
  \/ UiResumeClear \/ UiResumeSet \/ SetStarted

EmulatorNext == EmuBoot \/ EmuBegin \/ EmuPauseWait \/ EmuWaitOne \/ EmuStep

PauseNext(t) == PauseBegins(t) \/ PauseResets(t) \/ PauseExchanges(t) \/ NotifyPaused(t)

Next ==
  \/ UiNext
  \/ EmulatorNext
  \/ \E t \in {UI, Emulator} : PauseNext(t)
  \/ SetPaused

Spec == Init /\ [][Next]_vars

(***************************************************************************)
(* The emulator thread and the pool threads are scheduled by the operating *)
(* system, and the user interface finishes a call it has made.  It is not  *)
(* obliged to make one.                                                    *)
(***************************************************************************)
UiBusy == at[UI] # "Idle" /\ (UiNext \/ PauseNext(UI))

Fairness ==
  /\ WF_vars(EmulatorNext \/ PauseNext(Emulator))
  /\ WF_vars(UiBusy)
  /\ WF_vars(SetPaused)

FairSpec == Spec /\ Fairness

-----------------------------------------------------------------------------
\* Properties

\* The engine uses the gate as CoreTaskScheduler describes it, so what holds
\* of the gate holds of the engine.
UsesGate == GateSpec

\* SingleCoreScheduler runs the first task of its thread and drops the rest
\* (the result of Delegate.Combine, line 41, is discarded).  It is safe with
\* Start only because Start never queues a second task: the one call that
\* makes the status Stopped again has cancelled the token first.
AtMostOneTask == m_ScheduledTasks <= 1

\* Stop is late by one instruction at most: a task released from a pause
\* after the cancel runs one loop body before it looks at the token again.
StopLatency == stepsAfterCancel <= 1

\* RunThreads holds the gate closed until every thread is started: while the
\* first Start has yet to resume, the loop body is not running.
StartBarrier ==
  /\ at[UI] \in {"StartLoop", "Resume"}
  /\ resume
  /\ pc[UI] = "Out"
  /\ ~m_TokenCancelled
  => at[Emulator] # "Step"

\* A pause takes hold: unless resumed, the emulator comes to rest on the
\* event with no signal left in it, or its thread has ended.
PauseTakesHold ==
  m_PauseState = SET /\ Alive
    ~> \/ m_PauseState = NOTSET
       \/ ~Alive
       \/ pc[Emulator] = "Wait" /\ ~m_PauseEvent

\* A stop ends the thread, if the machine is not paused.
StopEndsRunningTask ==
  m_TokenCancelled /\ m_PauseState = NOTSET ~> ~Alive \/ m_PauseState = SET

\* SingleCoreScheduler.cs:13 says that the engine is expected "to instantly
\* kill all tasks when stopping the machine".  A task that runs when the token
\* is cancelled does end; one that is paused does not: the cancel does not
\* signal the event it waits on.
StopKillsTasks == m_TokenCancelled /\ Alive ~> ~Alive

-----------------------------------------------------------------------------
\* The inductive invariant behind AtMostOneTask, StopLatency and StartBarrier

\* Inside the methods of the scheduler a thread is where the engine called
\* them from.
Places ==
  /\ pc[UI] \in {"Reset", "Exchange"} => at[UI] \in {"Pause", "RunPause"}
  /\ pc[UI] = "Set" => at[UI] = "Resume"
  /\ pc[UI] # "Wait"
  /\ pc[Emulator] \in {"Reset", "Exchange"} => at[Emulator] = "Pause"
  /\ pc[Emulator] = "Wait" => at[Emulator] = "PauseWait"
  /\ pc[Emulator] # "Set"
  /\ resume => at[UI] \in {"RunPause", "StartLoop", "Resume", "Started"}

\* The first Start, from Machine.Run to the start of the thread: the task is
\* new, there is no emulator thread, and so nobody interferes with the gate.
FirstStart ==
  ~m_TokenCancelled =>
    /\ at[UI] = "Start" => m_ScheduledTasks = 0
    /\ at[UI] \in {"Start", "RunThreads", "RunPause"} => at[Emulator] = "Absent"
    /\ at[UI] = "StartLoop" => at[Emulator] = "Absent"
    /\ at[UI] = "RunPause" => m_PauseState = NOTSET
    /\ at[UI] = "RunPause" /\ pc[UI] = "Exchange" => ~m_PauseEvent
    /\ at[UI] \in {"StartLoop", "Resume"} /\ resume /\ pc[UI] = "Out" =>
         /\ m_PauseState = SET
         /\ ~m_PauseEvent
         /\ at[Emulator] # "Step"
         /\ pc[Emulator] \in {"Out", "Wait"}

\* A task is there exactly when its Start has passed, and the status cannot
\* be Stopped again before the token is cancelled.
OneTask ==
  /\ m_ScheduledTasks <= 1
  /\ m_ScheduledTasks = 0 => at[Emulator] = "Absent"
  /\ at[UI] = "Stop" => m_TokenCancelled
  /\ m_ScheduledTasks = 1 /\ ~m_TokenCancelled =>
       \/ m_Status # "Stopped"
       \/ at[UI] \in {"RunThreads", "RunPause", "StartLoop", "Resume", "Started"}

\* The loop body begun after the cancel was the last one.
LastStep ==
  /\ stepsAfterCancel <= 1
  /\ stepsAfterCancel = 1 =>
       /\ m_TokenCancelled
       /\ at[Emulator] \in {"Step", "Pause", "Notify", "Begin", "Dead"}

IndInv == Places /\ FirstStart /\ OneTask /\ LastStep
=============================================================================
