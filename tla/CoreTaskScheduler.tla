------------------------- MODULE CoreTaskScheduler -------------------------
(***************************************************************************)
(* The pause gate of src/Source/Soft64/Engines/CoreTaskScheduler.cs.       *)
(*                                                                         *)
(* Tasks of the scheduler (Workers) call PauseWait once per loop; any      *)
(* thread may call PauseThreads, and Controllers call ResumeThreads.  The  *)
(* gate is an int and an AutoResetEvent with no lock around them, so each  *)
(* access of shared memory is a step of its own:                           *)
(*                                                                         *)
(*   PauseThreads    PauseEnter -> PauseReset -> PauseExchange             *)
(*   ResumeThreads   ResumeClear -> ResumeSet                              *)
(*   PauseWait       PauseWaitPass, or PauseWaitBlock -> WaitOne           *)
(*                                                                         *)
(* pc[t] is where thread t stands inside one of these methods, "Out" when  *)
(* it is in none.                                                          *)
(***************************************************************************)
EXTENDS Integers, FiniteSets

CONSTANTS Controllers,  \* threads that pause and resume: the user interface
          Workers       \* threads of the scheduled tasks: the emulator loop

ASSUME SchedulerThreads ==
  /\ IsFiniteSet(Controllers)
  /\ Controllers \cap Workers = {}

NOTSET == 0
SET    == 1

VARIABLES
  m_PauseState,  \* NOTSET or SET
  m_PauseEvent,  \* TRUE while the AutoResetEvent is signalled
  pc,            \* where each thread stands in the methods above
  leaks          \* history: waits released since the state last became SET

gateVars == <<m_PauseState, m_PauseEvent, pc, leaks>>

Threads == Controllers \cup Workers

TypeOK ==
  /\ m_PauseState \in {NOTSET, SET}
  /\ m_PauseEvent \in BOOLEAN
  /\ pc \in [Threads -> {"Out", "Reset", "Exchange", "Set", "Wait"}]
  /\ leaks \in Nat

GateInit ==
  /\ m_PauseState = NOTSET
  /\ m_PauseEvent = FALSE
  /\ pc = [t \in Threads |-> "Out"]
  /\ leaks = 0

Goto(t, from, to) ==
  /\ pc[t] = from
  /\ pc' = [pc EXCEPT ![t] = to]

-----------------------------------------------------------------------------
\* PauseThreads

\* Line 59 read NOTSET: the thread is committed to pausing.
PauseEnter(t) ==
  /\ m_PauseState = NOTSET
  /\ Goto(t, "Out", "Reset")
  /\ UNCHANGED <<m_PauseState, m_PauseEvent, leaks>>

\* Line 59 read SET: the call returns at once.
PauseNoop(t) ==
  /\ pc[t] = "Out"
  /\ m_PauseState = SET
  /\ UNCHANGED gateVars

PauseReset(t) ==
  /\ Goto(t, "Reset", "Exchange")
  /\ m_PauseEvent' = FALSE
  /\ UNCHANGED <<m_PauseState, leaks>>

\* The Interlocked.Exchange.  When it finds SET, somebody paused in between
\* and the method throws InvalidOperationException, the state left SET.
ExchangeThrows == m_PauseState = SET

\* Faulty variant: Interlocked.Increment in place of Exchange.
PauseExchange_Increments(t) ==
  /\ Goto(t, "Exchange", "Out")
  /\ m_PauseState' = m_PauseState + 1
  /\ leaks' = IF ExchangeThrows THEN leaks ELSE 0
  /\ UNCHANGED m_PauseEvent

PauseExchange(t) ==
  /\ Goto(t, "Exchange", "Out")
  /\ m_PauseState' = SET
  /\ leaks' = IF ExchangeThrows THEN leaks ELSE 0
  /\ UNCHANGED m_PauseEvent

-----------------------------------------------------------------------------
\* ResumeThreads

\* Faulty variant: the state is cleared and the event is not signalled.
ResumeClear_NoSignal(c) ==
  /\ Goto(c, "Out", "Out")
  /\ m_PauseState' = NOTSET
  /\ leaks' = 0
  /\ UNCHANGED m_PauseEvent

ResumeClear(c) ==
  /\ Goto(c, "Out", "Set")
  /\ m_PauseState' = NOTSET
  /\ leaks' = 0
  /\ UNCHANGED m_PauseEvent

ResumeSet(c) ==
  /\ Goto(c, "Set", "Out")
  /\ m_PauseEvent' = TRUE
  /\ UNCHANGED <<m_PauseState, leaks>>

-----------------------------------------------------------------------------
\* PauseWait

PauseWaitPass(w) ==
  /\ pc[w] = "Out"
  /\ m_PauseState = NOTSET
  /\ UNCHANGED gateVars

PauseWaitBlock(w) ==
  /\ m_PauseState = SET
  /\ Goto(w, "Out", "Wait")
  /\ UNCHANGED <<m_PauseState, m_PauseEvent, leaks>>

\* Faulty variant: a ManualResetEvent, which stays signalled.
WaitOne_ManualReset(w) ==
  /\ m_PauseEvent
  /\ Goto(w, "Wait", "Out")
  /\ leaks' = IF m_PauseState = SET THEN leaks + 1 ELSE leaks
  /\ UNCHANGED <<m_PauseState, m_PauseEvent>>

\* WaitOne returns and consumes the signal.  It does not look at the state
\* again, so a signal left over from an earlier resume lets the task through.
WaitOne(w) ==
  /\ m_PauseEvent
  /\ Goto(w, "Wait", "Out")
  /\ m_PauseEvent' = FALSE
  /\ leaks' = IF m_PauseState = SET THEN leaks + 1 ELSE leaks
  /\ UNCHANGED m_PauseState

-----------------------------------------------------------------------------
PauseThreads(t)  == PauseEnter(t) \/ PauseReset(t) \/ PauseExchange(t)
ResumeThreads(c) == ResumeClear(c) \/ ResumeSet(c)
PauseWait(w)     == PauseWaitBlock(w) \/ WaitOne(w)

GateNext ==
  \/ \E t \in Threads : PauseThreads(t)
  \/ \E c \in Controllers : ResumeThreads(c)
  \/ \E w \in Workers : PauseWait(w)

GateSpec == GateInit /\ [][GateNext]_gateVars

(***************************************************************************)
(* A running thread finishes a call it is inside of, and the operating     *)
(* system wakes a thread that waits on a signalled event.  Nobody is made  *)
(* to call PauseThreads or ResumeThreads.                                  *)
(***************************************************************************)
GateFairness ==
  /\ \A t \in Threads : WF_gateVars(PauseReset(t)) /\ WF_gateVars(PauseExchange(t))
  /\ \A c \in Controllers : WF_gateVars(ResumeSet(c))
  /\ \A w \in Workers : WF_gateVars(WaitOne(w))

GateFairSpec == GateSpec /\ GateFairness

-----------------------------------------------------------------------------
\* Properties

\* Controllers that have cleared the state and are about to signal.
Resuming == {c \in Controllers : pc[c] = "Set"}

\* Once paused, the gate lets through no more tasks than there can be late
\* signals: the one the event may already hold and one per controller caught
\* between the two statements of ResumeThreads (lines 73 and 74).  A pause is
\* therefore late by a bounded number of loop iterations, never lost.
PauseLeakBounded ==
  m_PauseState = SET => leaks <= Cardinality(Controllers) + 1

\* A task that waits while the gate is open is not forgotten: the event is
\* signalled, or a resume is about to signal it, or a pause that overtook the
\* resume is about to close the gate again.  Only one waiter is released per
\* signal, so this is about schedulers with a single task thread.
NoLostWakeup ==
  \A w \in Workers :
    pc[w] = "Wait" /\ m_PauseState = NOTSET =>
      \/ m_PauseEvent
      \/ \E t \in Threads : pc[t] \in {"Set", "Exchange"}

\* A waiting task leaves the gate after a resume unless it is paused again.
ResumeReleases ==
  \A w \in Workers :
    pc[w] = "Wait" /\ m_PauseState = NOTSET
      ~> pc[w] # "Wait" \/ m_PauseState = SET

\* Signals given or about to be given, and not yet used up by a waiter.
Signals == (IF m_PauseEvent THEN 1 ELSE 0) + Cardinality(Resuming)

\* The strengthening of PauseLeakBounded that steps preserve: tasks released
\* and signals still to come together never exceed the bound.
LeakBudget ==
  m_PauseState = SET => leaks + Signals <= Cardinality(Controllers) + 1
=============================================================================
