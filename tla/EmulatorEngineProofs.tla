------------------------ MODULE EmulatorEngineProofs ------------------------
(***************************************************************************)
(* What the pause gate guarantees for any finite number of controllers and *)
(* any number of task threads (CoreTaskScheduler); that the engine uses    *)
(* the gate as specified; and what that and the engine's own bookkeeping   *)
(* guarantee.                                                              *)
(***************************************************************************)
EXTENDS EmulatorEngine, FiniteSetTheorems, TLAPS

-----------------------------------------------------------------------------
\* Typing

\* Every step of the pause gate keeps the two words of shared memory and the
\* control points of its threads within their types.
LEMMA TypeStep == TypeOK /\ [GateNext]_gateVars => TypeOK'
<1> SUFFICES ASSUME TypeOK, [GateNext]_gateVars PROVE TypeOK'
  OBVIOUS
<1>1. m_PauseEvent' \in BOOLEAN
  BY DEF TypeOK, gateVars, GateNext, PauseThreads, ResumeThreads, PauseWait,
         PauseEnter, PauseReset, PauseExchange, ResumeClear, ResumeSet,
         PauseWaitBlock, WaitOne
<1> DEFINE Rest == /\ m_PauseState \in {NOTSET, SET}
                   /\ pc \in [Threads -> {"Out", "Reset", "Exchange", "Set", "Wait"}]
                   /\ leaks \in Nat
<1>2. Rest'
  <2> USE DEF TypeOK, Goto, NOTSET, SET
  <2>1. ASSUME NEW t \in Threads, PauseThreads(t) PROVE Rest'
    BY <2>1 DEF PauseThreads, PauseEnter, PauseReset, PauseExchange, ExchangeThrows
  <2>2. ASSUME NEW c \in Controllers, ResumeThreads(c) PROVE Rest'
    BY <2>2 DEF ResumeThreads, ResumeClear, ResumeSet
  <2>3. ASSUME NEW w \in Workers, PauseWait(w) PROVE Rest'
    BY <2>3 DEF PauseWait, PauseWaitBlock, WaitOne
  <2>4. CASE UNCHANGED gateVars
    BY <2>4 DEF gateVars
  <2> QED
    BY <2>1, <2>2, <2>3, <2>4 DEF GateNext
<1> QED
  BY <1>1, <1>2 DEF TypeOK

\* The gate is well typed in every reachable state.
THEOREM TypeCorrect == GateSpec => []TypeOK
<1>1. GateInit => TypeOK
  <2> SUFFICES ASSUME GateInit PROVE TypeOK
    OBVIOUS
  <2>1. m_PauseEvent \in BOOLEAN
    BY DEF GateInit
  <2> QED
    BY <2>1 DEF GateInit, TypeOK, NOTSET, SET
<1> QED
  BY <1>1, TypeStep, PTL DEF GateSpec

-----------------------------------------------------------------------------
\* No lost wakeup

\* With one task thread, no step of a pausing or resuming thread strands it:
\* whoever clears the state still has the event to set, and whoever resets
\* the event still has the state to set.
LEMMA WakeupStep ==
  ASSUME NEW w, Workers = {w}
  PROVE  TypeOK /\ NoLostWakeup /\ [GateNext]_gateVars => NoLostWakeup'
<1> SUFFICES ASSUME TypeOK, NoLostWakeup, [GateNext]_gateVars,
                    pc'[w] = "Wait", m_PauseState' = NOTSET
             PROVE  \/ m_PauseEvent'
                    \/ \E t \in Threads : pc'[t] \in {"Set", "Exchange"}
  BY DEF NoLostWakeup
<1>w. w \in Threads
  BY DEF Threads
<1>old. pc[w] = "Wait" /\ m_PauseState = NOTSET =>
          \/ m_PauseEvent
          \/ \E t \in Threads : pc[t] \in {"Set", "Exchange"}
  BY DEF NoLostWakeup
<1> USE DEF TypeOK, Goto, NOTSET, SET
<1>1. ASSUME NEW t \in Threads, PauseEnter(t)
      PROVE  \/ m_PauseEvent'
             \/ \E u \in Threads : pc'[u] \in {"Set", "Exchange"}
  <2>1. pc[w] = "Wait" /\ m_PauseState = NOTSET /\ UNCHANGED m_PauseEvent
    BY <1>1, <1>w DEF PauseEnter
  <2>2. \A u \in Threads : pc[u] \in {"Set", "Exchange"} => pc'[u] = pc[u]
    BY <1>1 DEF PauseEnter
  <2> QED
    BY <1>old, <2>1, <2>2
<1>2. ASSUME NEW t \in Threads, PauseReset(t)
      PROVE  \E u \in Threads : pc'[u] \in {"Set", "Exchange"}
  BY <1>2 DEF PauseReset
<1>3. ASSUME NEW t \in Threads, PauseExchange(t) PROVE FALSE
  BY <1>3 DEF PauseExchange
<1>4. ASSUME NEW c \in Controllers, ResumeClear(c)
      PROVE  \E u \in Threads : pc'[u] \in {"Set", "Exchange"}
  BY <1>4 DEF ResumeClear, Threads
<1>5. ASSUME NEW c \in Controllers, ResumeSet(c) PROVE m_PauseEvent'
  BY <1>5 DEF ResumeSet
<1>6. ASSUME NEW v \in Workers, PauseWaitBlock(v) PROVE FALSE
  BY <1>6 DEF PauseWaitBlock
<1>7. ASSUME NEW v \in Workers, WaitOne(v) PROVE FALSE
  BY <1>7, <1>w DEF WaitOne
<1>8. CASE UNCHANGED gateVars
  BY <1>8, <1>old DEF gateVars
<1> QED
  BY <1>1, <1>2, <1>3, <1>4, <1>5, <1>6, <1>7, <1>8
     DEF GateNext, PauseThreads, ResumeThreads, PauseWait

\* A single task waiting at an open gate is about to be signalled, or about
\* to be paused again, whatever number of threads pause and resume it.
THEOREM NeverLostWakeup ==
  ASSUME NEW w, Workers = {w}
  PROVE  GateSpec => []NoLostWakeup
<1>1. GateInit => NoLostWakeup
  BY DEF GateInit, NoLostWakeup, Threads
<1>2. TypeOK /\ NoLostWakeup /\ [GateNext]_gateVars => NoLostWakeup'
  BY WakeupStep
<1> QED
  BY <1>1, <1>2, TypeCorrect, PTL DEF GateSpec

-----------------------------------------------------------------------------
\* The leak of a pause is bounded

LEMMA ResumingFinite ==
  /\ IsFiniteSet(Resuming)
  /\ Cardinality(Resuming) \in Nat
  /\ Cardinality(Controllers) \in Nat
  /\ Cardinality(Resuming) <= Cardinality(Controllers)
<1>1. Resuming \subseteq Controllers
  BY DEF Resuming
<1> QED
  BY <1>1, SchedulerThreads, FS_Subset, FS_CardinalityType

\* A step that moves no thread into or out of line 74 keeps Resuming.
LEMMA ResumingKept ==
  ASSUME TypeOK, NEW t \in Threads, NEW from, NEW to, Goto(t, from, to),
         from # "Set", to # "Set"
  PROVE  Resuming' = Resuming
BY DEF TypeOK, Goto, Resuming, Threads

\* A late signal is paid for: giving it moves it from the resuming thread to
\* the event, using it up moves it to leaks, and nothing else while the
\* state stays SET makes a new one.
LEMMA BudgetStep ==
  TypeOK /\ LeakBudget /\ [GateNext]_gateVars => LeakBudget'
<1> SUFFICES ASSUME TypeOK, LeakBudget, [GateNext]_gateVars, m_PauseState' = SET
             PROVE  leaks' + Signals' <= Cardinality(Controllers) + 1
  BY DEF LeakBudget
<1> DEFINE N == Cardinality(Controllers)
           R == Cardinality(Resuming)
<1>n. N \in Nat /\ R \in Nat /\ R <= N /\ leaks \in Nat
  BY ResumingFinite DEF TypeOK
<1>e. m_PauseEvent \in BOOLEAN /\ m_PauseState \in {0, 1}
  BY DEF TypeOK, NOTSET, SET
<1>b. m_PauseState = SET => leaks + (IF m_PauseEvent THEN 1 ELSE 0) + R <= N + 1
  BY <1>n DEF LeakBudget, Signals
<1>g. SUFFICES leaks' + (IF m_PauseEvent' THEN 1 ELSE 0) + R' <= N + 1
  <2>1. leaks' \in Nat
    BY TypeStep DEF TypeOK
  <2>2. R' \in Nat
    <3>1. Resuming' \subseteq Controllers
      BY DEF Resuming
    <3> QED
      BY <3>1, SchedulerThreads, FS_Subset, FS_CardinalityType
  <2> QED
    BY <1>g, <2>1, <2>2, <1>n DEF Signals
<1> HIDE DEF N
<1> USE DEF NOTSET, SET
<1>1. ASSUME NEW t \in Threads, PauseEnter(t) PROVE FALSE
  BY <1>1 DEF PauseEnter
<1>2. ASSUME NEW t \in Threads, PauseReset(t)
      PROVE  leaks' + (IF m_PauseEvent' THEN 1 ELSE 0) + R' <= N + 1
  <2>1. R' = R
    BY <1>2, ResumingKept DEF PauseReset
  <2> HIDE DEF R
  <2> QED
    BY <1>2, <2>1, <1>n, <1>e, <1>b DEF PauseReset
<1>3. ASSUME NEW t \in Threads, PauseExchange(t)
      PROVE  leaks' + (IF m_PauseEvent' THEN 1 ELSE 0) + R' <= N + 1
  <2>1. R' = R
    BY <1>3, ResumingKept DEF PauseExchange
  <2> HIDE DEF R
  <2> QED
    BY <1>3, <2>1, <1>n, <1>e, <1>b DEF PauseExchange, ExchangeThrows
<1>4. ASSUME NEW c \in Controllers, ResumeClear(c) PROVE FALSE
  BY <1>4 DEF ResumeClear
<1>5. ASSUME NEW c \in Controllers, ResumeSet(c)
      PROVE  leaks' + (IF m_PauseEvent' THEN 1 ELSE 0) + R' <= N + 1
  <2>1. Resuming' = Resuming \ {c} /\ c \in Resuming
    BY <1>5 DEF ResumeSet, Goto, Resuming, TypeOK, Threads
  <2>2. R' = R - 1
    BY <2>1, ResumingFinite, FS_RemoveElement
  <2> HIDE DEF R
  <2> QED
    BY <1>5, <2>2, <1>n, <1>e, <1>b DEF ResumeSet
<1>6. ASSUME NEW w \in Workers, PauseWaitBlock(w)
      PROVE  leaks' + (IF m_PauseEvent' THEN 1 ELSE 0) + R' <= N + 1
  <2>1. R' = R
    BY <1>6, ResumingKept DEF PauseWaitBlock, Threads
  <2> HIDE DEF R
  <2> QED
    BY <1>6, <2>1, <1>n, <1>e, <1>b DEF PauseWaitBlock
<1>7. ASSUME NEW w \in Workers, WaitOne(w)
      PROVE  leaks' + (IF m_PauseEvent' THEN 1 ELSE 0) + R' <= N + 1
  <2>1. R' = R
    BY <1>7, ResumingKept DEF WaitOne, Threads
  <2> HIDE DEF R
  <2> QED
    BY <1>7, <2>1, <1>n, <1>e, <1>b DEF WaitOne
<1>8. CASE UNCHANGED gateVars
  <2>1. R' = R
    BY <1>8 DEF gateVars, Resuming
  <2> HIDE DEF R
  <2> QED
    BY <1>8, <2>1, <1>n, <1>b DEF gateVars
<1> QED
  BY <1>1, <1>2, <1>3, <1>4, <1>5, <1>6, <1>7, <1>8
     DEF GateNext, PauseThreads, ResumeThreads, PauseWait

\* After a pause no more tasks pass the gate than there are controllers,
\* plus one, however the pause and the resumes interleave.
THEOREM PauseLeaksLittle == GateSpec => []PauseLeakBounded
<1>1. GateInit => LeakBudget
  BY DEF GateInit, LeakBudget, NOTSET, SET
<1>2. TypeOK /\ LeakBudget => PauseLeakBounded
  <2> SUFFICES ASSUME TypeOK, LeakBudget, m_PauseState = SET
               PROVE  leaks <= Cardinality(Controllers) + 1
    BY DEF PauseLeakBounded
  <2>1. leaks \in Nat /\ Signals \in Nat
    BY ResumingFinite DEF TypeOK, Signals
  <2> QED
    BY <2>1, ResumingFinite DEF LeakBudget
<1> QED
  BY <1>1, <1>2, BudgetStep, TypeCorrect, PTL DEF GateSpec

-----------------------------------------------------------------------------
\* Refinement

\* Every step of the engine is a step of the gate, or leaves it alone.
LEMMA GateStep == [Next]_vars => [GateNext]_gateVars
<1> SUFFICES ASSUME [Next]_vars PROVE [GateNext]_gateVars
  OBVIOUS
<1>t. UI \in Threads /\ Emulator \in Threads /\ UI \in Controllers /\ Emulator \in Workers
  BY EngineThreads DEF Threads
<1>1. CASE UiNext
  BY <1>1, <1>t DEF UiNext, MachineRun, MachinePause, MachineStop, StopSetsStatus,
     StartTasks, RunThreads, StartLoop, UiResumeClear, UiResumeSet, SetStarted,
     GateNext, ResumeThreads
<1>2. CASE EmulatorNext
  BY <1>2, <1>t DEF EmulatorNext, EmuBoot, EmuBegin, EmuPauseWait, EmuWaitOne,
     EmuStep, PauseWaitPass, GateNext, PauseWait
<1>3. ASSUME NEW t \in {UI, Emulator}, PauseNext(t) PROVE [GateNext]_gateVars
  BY <1>3, <1>t DEF PauseNext, PauseBegins, PauseResets, PauseExchanges,
     NotifyPaused, PauseNoop, GateNext, PauseThreads
<1>4. CASE SetPaused
  BY <1>4 DEF SetPaused
<1>5. CASE UNCHANGED vars
  BY <1>5 DEF vars, gateVars
<1> QED
  BY <1>1, <1>2, <1>3, <1>4, <1>5 DEF Next

\* The engine implements the gate, so the theorems about the gate apply to it.
THEOREM EngineUsesGate == Spec => UsesGate
<1>1. Init => GateInit
  BY DEF Init
<1> QED
  BY <1>1, GateStep, PTL DEF Spec, UsesGate, GateSpec

\* The emulator thread is never left asleep behind an open gate.
THEOREM EngineNeverLosesWakeup == Spec => []NoLostWakeup
<1>1. GateSpec => []NoLostWakeup
  BY NeverLostWakeup, EngineThreads
<1> QED
  BY <1>1, EngineUsesGate, PTL DEF UsesGate

\* A pause of the machine is late by two loop bodies at most.
THEOREM EnginePauseLeaksLittle == Spec => []PauseLeakBounded
BY EngineUsesGate, PauseLeaksLittle, PTL DEF UsesGate

-----------------------------------------------------------------------------
\* Typing

\* The Booleans of the engine, apart from the rest of its type invariant.
LEMMA FlagsStep ==
  EngineTypeOK /\ [Next]_vars => m_TokenCancelled' \in BOOLEAN /\ resume' \in BOOLEAN
<1> SUFFICES ASSUME EngineTypeOK, [Next]_vars
             PROVE  m_TokenCancelled' \in BOOLEAN /\ resume' \in BOOLEAN
  OBVIOUS
<1>1. m_TokenCancelled' \in BOOLEAN
  BY DEF EngineTypeOK, vars, engineVars, Next, UiNext, EmulatorNext, PauseNext,
     MachineRun, MachinePause, MachineStop, StopSetsStatus, StartTasks, RunThreads,
     StartLoop, UiResumeClear, UiResumeSet, SetStarted, EmuBoot, EmuBegin,
     EmuPauseWait, EmuWaitOne, EnterLoopBody, EmuStep, SetPaused, PauseBegins,
     PauseResets, PauseExchanges, NotifyPaused
<1>2. resume' \in BOOLEAN
  BY DEF EngineTypeOK, vars, engineVars, Next, UiNext, EmulatorNext, PauseNext,
     MachineRun, MachinePause, MachineStop, StopSetsStatus, StartTasks, RunThreads,
     StartLoop, UiResumeClear, UiResumeSet, SetStarted, EmuBoot, EmuBegin,
     EmuPauseWait, EmuWaitOne, EnterLoopBody, EmuStep, SetPaused, PauseBegins,
     PauseResets, PauseExchanges, NotifyPaused
<1> QED
  BY <1>1, <1>2

EnginePoints ==
  /\ m_Status \in Statuses
  /\ m_ScheduledTasks \in Nat
  /\ statusTasks \in Nat
  /\ at \in [{UI, Emulator} -> UiPlaces \cup EmulatorPlaces]
  /\ at[UI] \in UiPlaces /\ at[Emulator] \in EmulatorPlaces
  /\ stepsAfterCancel \in 0..2

\* Control points, counters and the status.
LEMMA PointsStep ==
  EngineTypeOK /\ Places /\ [Next]_vars => EnginePoints'
<1> SUFFICES ASSUME EngineTypeOK, Places, [Next]_vars PROVE EnginePoints'
  OBVIOUS
<1> USE EngineThreads DEF EnginePoints, EngineTypeOK, Places, UiPlaces, EmulatorPlaces,
        Statuses, Move, gateVars, engineVars
<1>1. CASE MachineRun
  BY <1>1 DEF MachineRun
<1>2. CASE MachinePause
  BY <1>2 DEF MachinePause
<1>3. CASE MachineStop
  BY <1>3 DEF MachineStop
<1>4. CASE StopSetsStatus
  BY <1>4 DEF StopSetsStatus
<1>5. CASE StartTasks
  BY <1>5 DEF StartTasks
<1>6. CASE RunThreads
  BY <1>6 DEF RunThreads
<1>7. CASE StartLoop
  BY <1>7 DEF StartLoop, AfterLoop, StartLoopThrows
<1>8. CASE UiResumeClear
  BY <1>8 DEF UiResumeClear, ResumeClear
<1>9. CASE UiResumeSet
  BY <1>9 DEF UiResumeSet, ResumeSet
<1>10. CASE SetStarted
  BY <1>10 DEF SetStarted
<1>11. CASE EmuBoot
  BY <1>11 DEF EmuBoot
<1>12. CASE EmuBegin
  BY <1>12 DEF EmuBegin
<1>13. CASE EmuPauseWait
  BY <1>13 DEF EmuPauseWait, PauseWaitPass, PauseWaitBlock, EnterLoopBody
<1>14. CASE EmuWaitOne
  BY <1>14 DEF EmuWaitOne, WaitOne, EnterLoopBody
<1>15. CASE EmuStep
  BY <1>15 DEF EmuStep
<1>16. CASE SetPaused
  BY <1>16 DEF SetPaused
<1>17. ASSUME NEW t \in {UI, Emulator}, PauseBegins(t) PROVE EnginePoints'
  BY <1>17 DEF PauseBegins, PauseEnter, PauseNoop, AfterPause
<1>18. ASSUME NEW t \in {UI, Emulator}, PauseResets(t) PROVE EnginePoints'
  BY <1>18 DEF PauseResets, PauseReset
<1>19. ASSUME NEW t \in {UI, Emulator}, PauseExchanges(t) PROVE EnginePoints'
  BY <1>19 DEF PauseExchanges, PauseExchange, ExchangeThrows, AfterThrow, AfterPause
<1>20. ASSUME NEW t \in {UI, Emulator}, NotifyPaused(t) PROVE EnginePoints'
  BY <1>20 DEF NotifyPaused
<1>21. CASE UNCHANGED vars
  BY <1>21 DEF vars
<1> QED
  BY <1>1, <1>2, <1>3, <1>4, <1>5, <1>6, <1>7, <1>8, <1>9, <1>10, <1>11,
     <1>12, <1>13, <1>14, <1>15, <1>16, <1>17, <1>18, <1>19, <1>20, <1>21
     DEF Next, UiNext, EmulatorNext, PauseNext

\* A thread enters and leaves the methods of the scheduler where it stands.
LEMMA PlacesStep == EngineTypeOK /\ Places /\ [Next]_vars => Places'
<1> SUFFICES ASSUME EngineTypeOK, Places, [Next]_vars PROVE Places'
  OBVIOUS
<1> USE EngineThreads DEF gateVars, engineVars, Move, Goto, NOTSET, SET, TypeOK, EngineTypeOK, Threads, Places
<1>1. CASE MachineRun
  BY <1>1 DEF MachineRun
<1>2. CASE MachinePause
  BY <1>2 DEF MachinePause
<1>3. CASE MachineStop
  BY <1>3 DEF MachineStop
<1>4. CASE StopSetsStatus
  BY <1>4 DEF StopSetsStatus
<1>5. CASE StartTasks
  BY <1>5 DEF StartTasks
<1>6. CASE RunThreads
  BY <1>6 DEF RunThreads
<1>7. CASE StartLoop
  BY <1>7 DEF StartLoop, AfterLoop, StartLoopThrows
<1>8. CASE UiResumeClear
  BY <1>8 DEF UiResumeClear, ResumeClear
<1>9. CASE UiResumeSet
  BY <1>9 DEF UiResumeSet, ResumeSet
<1>10. CASE SetStarted
  BY <1>10 DEF SetStarted
<1>11. CASE EmuBoot
  BY <1>11 DEF EmuBoot
<1>12. CASE EmuBegin
  BY <1>12 DEF EmuBegin
<1>13. CASE EmuPauseWait
  BY <1>13 DEF EmuPauseWait, PauseWaitPass, PauseWaitBlock, EnterLoopBody
<1>14. CASE EmuWaitOne
  BY <1>14 DEF EmuWaitOne, WaitOne, EnterLoopBody
<1>15. CASE EmuStep
  BY <1>15 DEF EmuStep
<1>16. CASE SetPaused
  BY <1>16 DEF SetPaused
<1>17. ASSUME NEW t \in {UI, Emulator}, PauseBegins(t) PROVE Places'
  BY <1>17 DEF PauseBegins, PauseEnter, PauseNoop, AfterPause, EmulatorPlaces
<1>18. ASSUME NEW t \in {UI, Emulator}, PauseResets(t) PROVE Places'
  BY <1>18 DEF PauseResets, PauseReset
<1>19. ASSUME NEW t \in {UI, Emulator}, PauseExchanges(t) PROVE Places'
  BY <1>19 DEF PauseExchanges, PauseExchange, ExchangeThrows, AfterThrow, AfterPause
<1>20. ASSUME NEW t \in {UI, Emulator}, NotifyPaused(t) PROVE Places'
  BY <1>20 DEF NotifyPaused
<1>21. CASE UNCHANGED vars
  BY <1>21 DEF vars
<1> QED
  BY <1>1, <1>2, <1>3, <1>4, <1>5, <1>6, <1>7, <1>8, <1>9, <1>10, <1>11,
     <1>12, <1>13, <1>14, <1>15, <1>16, <1>17, <1>18, <1>19, <1>20, <1>21
     DEF Next, UiNext, EmulatorNext, PauseNext

\* Nothing disturbs the first Start.
LEMMA FirstStartStep == EngineTypeOK /\ Places /\ OneTask /\ FirstStart /\ [Next]_vars => FirstStart'
<1> SUFFICES ASSUME EngineTypeOK, Places, OneTask, FirstStart, [Next]_vars PROVE FirstStart'
  OBVIOUS
<1> USE EngineThreads DEF gateVars, engineVars, Move, Goto, NOTSET, SET, TypeOK, EngineTypeOK, Threads, Places, OneTask, FirstStart
<1>1. CASE MachineRun
  BY <1>1 DEF MachineRun
<1>2. CASE MachinePause
  BY <1>2 DEF MachinePause
<1>3. CASE MachineStop
  BY <1>3 DEF MachineStop
<1>4. CASE StopSetsStatus
  BY <1>4 DEF StopSetsStatus
<1>5. CASE StartTasks
  BY <1>5 DEF StartTasks
<1>6. CASE RunThreads
  BY <1>6 DEF RunThreads
<1>7. CASE StartLoop
  BY <1>7 DEF StartLoop, AfterLoop, StartLoopThrows
<1>8. CASE UiResumeClear
  BY <1>8 DEF UiResumeClear, ResumeClear
<1>9. CASE UiResumeSet
  BY <1>9 DEF UiResumeSet, ResumeSet
<1>10. CASE SetStarted
  BY <1>10 DEF SetStarted
<1>11. CASE EmuBoot
  BY <1>11 DEF EmuBoot
<1>12. CASE EmuBegin
  BY <1>12 DEF EmuBegin
<1>13. CASE EmuPauseWait
  BY <1>13 DEF EmuPauseWait, PauseWaitPass, PauseWaitBlock, EnterLoopBody
<1>14. CASE EmuWaitOne
  BY <1>14 DEF EmuWaitOne, WaitOne, EnterLoopBody
<1>15. CASE EmuStep
  BY <1>15 DEF EmuStep
<1>16. CASE SetPaused
  BY <1>16 DEF SetPaused
<1>17. ASSUME NEW t \in {UI, Emulator}, PauseBegins(t) PROVE FirstStart'
  BY <1>17 DEF PauseBegins, PauseEnter, PauseNoop, AfterPause
<1>18. ASSUME NEW t \in {UI, Emulator}, PauseResets(t) PROVE FirstStart'
  BY <1>18 DEF PauseResets, PauseReset
<1>19. ASSUME NEW t \in {UI, Emulator}, PauseExchanges(t) PROVE FirstStart'
  BY <1>19 DEF PauseExchanges, PauseExchange, ExchangeThrows, AfterThrow, AfterPause
<1>20. ASSUME NEW t \in {UI, Emulator}, NotifyPaused(t) PROVE FirstStart'
  BY <1>20 DEF NotifyPaused
<1>21. CASE UNCHANGED vars
  BY <1>21 DEF vars
<1> QED
  BY <1>1, <1>2, <1>3, <1>4, <1>5, <1>6, <1>7, <1>8, <1>9, <1>10, <1>11,
     <1>12, <1>13, <1>14, <1>15, <1>16, <1>17, <1>18, <1>19, <1>20, <1>21
     DEF Next, UiNext, EmulatorNext, PauseNext

\* The status becomes Stopped only after the token is cancelled.
LEMMA OneTaskStep == EngineTypeOK /\ Places /\ FirstStart /\ OneTask /\ [Next]_vars => OneTask'
<1> SUFFICES ASSUME EngineTypeOK, Places, FirstStart, OneTask, [Next]_vars PROVE OneTask'
  OBVIOUS
<1> USE EngineThreads DEF gateVars, engineVars, Move, Goto, NOTSET, SET, TypeOK, EngineTypeOK, Threads, Places, FirstStart, OneTask
<1>1. CASE MachineRun
  BY <1>1 DEF MachineRun
<1>2. CASE MachinePause
  BY <1>2 DEF MachinePause
<1>3. CASE MachineStop
  BY <1>3 DEF MachineStop
<1>4. CASE StopSetsStatus
  BY <1>4 DEF StopSetsStatus
<1>5. CASE StartTasks
  BY <1>5 DEF StartTasks
<1>6. CASE RunThreads
  BY <1>6 DEF RunThreads
<1>7. CASE StartLoop
  BY <1>7 DEF StartLoop, AfterLoop, StartLoopThrows
<1>8. CASE UiResumeClear
  BY <1>8 DEF UiResumeClear, ResumeClear
<1>9. CASE UiResumeSet
  BY <1>9 DEF UiResumeSet, ResumeSet
<1>10. CASE SetStarted
  BY <1>10 DEF SetStarted
<1>11. CASE EmuBoot
  BY <1>11 DEF EmuBoot
<1>12. CASE EmuBegin
  BY <1>12 DEF EmuBegin
<1>13. CASE EmuPauseWait
  BY <1>13 DEF EmuPauseWait, PauseWaitPass, PauseWaitBlock, EnterLoopBody
<1>14. CASE EmuWaitOne
  BY <1>14 DEF EmuWaitOne, WaitOne, EnterLoopBody
<1>15. CASE EmuStep
  BY <1>15 DEF EmuStep
<1>16. CASE SetPaused
  BY <1>16 DEF SetPaused
<1>17. ASSUME NEW t \in {UI, Emulator}, PauseBegins(t) PROVE OneTask'
  BY <1>17 DEF PauseBegins, PauseEnter, PauseNoop, AfterPause
<1>18. ASSUME NEW t \in {UI, Emulator}, PauseResets(t) PROVE OneTask'
  BY <1>18 DEF PauseResets, PauseReset
<1>19. ASSUME NEW t \in {UI, Emulator}, PauseExchanges(t) PROVE OneTask'
  BY <1>19 DEF PauseExchanges, PauseExchange, ExchangeThrows, AfterThrow, AfterPause
<1>20. ASSUME NEW t \in {UI, Emulator}, NotifyPaused(t) PROVE OneTask'
  BY <1>20 DEF NotifyPaused
<1>21. CASE UNCHANGED vars
  BY <1>21 DEF vars
<1> QED
  BY <1>1, <1>2, <1>3, <1>4, <1>5, <1>6, <1>7, <1>8, <1>9, <1>10, <1>11,
     <1>12, <1>13, <1>14, <1>15, <1>16, <1>17, <1>18, <1>19, <1>20, <1>21
     DEF Next, UiNext, EmulatorNext, PauseNext

\* The token is checked before the next loop body begins.
LEMMA LastStepStep == EngineTypeOK /\ Places /\ OneTask /\ LastStep /\ [Next]_vars => LastStep'
<1> SUFFICES ASSUME EngineTypeOK, Places, OneTask, LastStep, [Next]_vars PROVE LastStep'
  OBVIOUS
<1> USE EngineThreads DEF gateVars, engineVars, Move, Goto, NOTSET, SET, TypeOK, EngineTypeOK, Threads, Places, OneTask, LastStep
<1>1. CASE MachineRun
  BY <1>1 DEF MachineRun
<1>2. CASE MachinePause
  BY <1>2 DEF MachinePause
<1>3. CASE MachineStop
  BY <1>3 DEF MachineStop
<1>4. CASE StopSetsStatus
  BY <1>4 DEF StopSetsStatus
<1>5. CASE StartTasks
  BY <1>5 DEF StartTasks
<1>6. CASE RunThreads
  BY <1>6 DEF RunThreads
<1>7. CASE StartLoop
  BY <1>7 DEF StartLoop, AfterLoop, StartLoopThrows
<1>8. CASE UiResumeClear
  BY <1>8 DEF UiResumeClear, ResumeClear
<1>9. CASE UiResumeSet
  BY <1>9 DEF UiResumeSet, ResumeSet
<1>10. CASE SetStarted
  BY <1>10 DEF SetStarted
<1>11. CASE EmuBoot
  BY <1>11 DEF EmuBoot
<1>12. CASE EmuBegin
  BY <1>12 DEF EmuBegin
<1>13. CASE EmuPauseWait
  BY <1>13 DEF EmuPauseWait, PauseWaitPass, PauseWaitBlock, EnterLoopBody
<1>14. CASE EmuWaitOne
  BY <1>14 DEF EmuWaitOne, WaitOne, EnterLoopBody
<1>15. CASE EmuStep
  BY <1>15 DEF EmuStep
<1>16. CASE SetPaused
  BY <1>16 DEF SetPaused
<1>17. ASSUME NEW t \in {UI, Emulator}, PauseBegins(t) PROVE LastStep'
  BY <1>17 DEF PauseBegins, PauseEnter, PauseNoop, AfterPause
<1>18. ASSUME NEW t \in {UI, Emulator}, PauseResets(t) PROVE LastStep'
  BY <1>18 DEF PauseResets, PauseReset
<1>19. ASSUME NEW t \in {UI, Emulator}, PauseExchanges(t) PROVE LastStep'
  BY <1>19 DEF PauseExchanges, PauseExchange, ExchangeThrows, AfterThrow, AfterPause
<1>20. ASSUME NEW t \in {UI, Emulator}, NotifyPaused(t) PROVE LastStep'
  BY <1>20 DEF NotifyPaused
<1>21. CASE UNCHANGED vars
  BY <1>21 DEF vars
<1> QED
  BY <1>1, <1>2, <1>3, <1>4, <1>5, <1>6, <1>7, <1>8, <1>9, <1>10, <1>11,
     <1>12, <1>13, <1>14, <1>15, <1>16, <1>17, <1>18, <1>19, <1>20, <1>21
     DEF Next, UiNext, EmulatorNext, PauseNext

-----------------------------------------------------------------------------
\* The invariants

\* In the initial state no thread is anywhere.
LEMMA InitInd == Init => EngineTypeOK /\ IndInv
<1> SUFFICES ASSUME Init PROVE EngineTypeOK /\ IndInv
  OBVIOUS
<1>1. TypeOK
  <2>1. m_PauseEvent \in BOOLEAN
    BY DEF Init, GateInit
  <2> QED
    BY <2>1 DEF Init, GateInit, TypeOK, NOTSET, SET
<1>2. m_TokenCancelled \in BOOLEAN
  BY DEF Init
<1>3. resume \in BOOLEAN
  BY DEF Init
<1>4. EnginePoints
  BY EngineThreads DEF Init, EnginePoints, Statuses, UiPlaces, EmulatorPlaces
<1>5. IndInv
  BY EngineThreads DEF Init, GateInit, IndInv, Places, FirstStart, OneTask, LastStep,
     Threads, NOTSET
<1> QED
  BY <1>1, <1>2, <1>3, <1>4, <1>5 DEF EngineTypeOK, EnginePoints

LEMMA StepInd == EngineTypeOK /\ IndInv /\ [Next]_vars => EngineTypeOK' /\ IndInv'
<1> SUFFICES ASSUME EngineTypeOK, IndInv, [Next]_vars PROVE EngineTypeOK' /\ IndInv'
  OBVIOUS
<1>1. TypeOK'
  BY GateStep, TypeStep DEF EngineTypeOK
<1>2. EngineTypeOK'
  BY <1>1, FlagsStep, PointsStep DEF EngineTypeOK, IndInv, EnginePoints
<1>3. IndInv'
  BY PlacesStep, FirstStartStep, OneTaskStep, LastStepStep DEF IndInv
<1> QED
  BY <1>2, <1>3

\* The engine's variables keep their types, and the strengthening of its
\* safety properties is inductive.
THEOREM EngineInductive == Spec => [](EngineTypeOK /\ IndInv)
BY InitInd, StepInd, PTL DEF Spec

\* The scheduler is never handed a second task, which it would drop.
THEOREM OneTaskOnly == Spec => []AtMostOneTask
<1>1. IndInv => AtMostOneTask
  BY DEF IndInv, OneTask, AtMostOneTask
<1> QED
  BY <1>1, EngineInductive, PTL

\* After Stop has cancelled the token at most one more loop body runs.
THEOREM StopIsPrompt == Spec => []StopLatency
<1>1. IndInv => StopLatency
  BY DEF IndInv, LastStep, StopLatency
<1> QED
  BY <1>1, EngineInductive, PTL

\* The first Start opens the gate only after the thread exists, and until
\* then no instruction is executed.
THEOREM StartIsBarred == Spec => []StartBarrier
<1>1. EngineTypeOK /\ IndInv => StartBarrier
  BY DEF EngineTypeOK, IndInv, FirstStart, StartBarrier
<1> QED
  BY <1>1, EngineInductive, PTL
=============================================================================
