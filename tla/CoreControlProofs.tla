-------------------------- MODULE CoreControlProofs --------------------------
(***************************************************************************)
(* That the core is controlled as its front ends expect while their calls  *)
(* keep apart: for any number of threads and any commands they issue.      *)
(***************************************************************************)
EXTENDS CoreControl, SequenceTheorems, TLAPS

\* A run from where it is marked as running to where the mark is removed.
MarkedSteps == RunSteps \ {"boot", "flag", "tellStopped"}

\* A run from where the plugins have been told of the ROM to where they are
\* told that it is closed.
PluginSteps == RunSteps \ {"boot", "finish", "tellStopped"}

\* Commands that are refused in a run, and commands that need one.
Between == {"open", "close", "attach", "attachNone", "detach"}
During == {"asItIs", "toggle", "flip", "settle", "advance", "lift", "tellAdvance",
           "unpause", "tellRunning", "halt"}

\* No thread is in another's way (the negation of Overlapping).
Alone ==
    \A c, d \in Clients :
        c # d /\ Busy(c) => ~Busy(d) /\ ~(At(c, "startup") /\ InRun(d))

\* There is one run, g_EmulatorRunning marks it, and what it needs is kept.
Owned ==
    /\ \A c, d \in Clients : InRun(c) /\ InRun(d) => c = d
    /\ \A c \in Clients :
        /\ InRun(c) => romOpen
        /\ pc[c] \in MarkedSteps => running
        /\ pc[c] \in Between => ~running
        /\ pc[c] \in During => running
    /\ running => \E c \in Clients : pc[c] \in MarkedSteps
    /\ gfxOpen => /\ gfx = "real"
                  /\ \E c \in Clients : pc[c] \in PluginSteps

\* Where reported and the state differ, some thread is about to mend it.
Told ==
    /\ \/ reported = Query
       \/ \E c \in Clients : pc[c] \in {"flip", "tellAdvance", "tellRunning", "announce",
                                        "arm", "frameEnd", "tellPaused", "tellStopped"}
    /\ \A c \in Clients :
        /\ pc[c] = "flip" => reported = IF rompause THEN "running" ELSE "paused"
        /\ pc[c] \in {"tellAdvance", "tellRunning"} => ~rompause
        /\ pc[c] = "arm" => reported = "running"
        /\ pc[c] \in {"frameEnd", "tellPaused"} => rompause

\* Where the last command is not in force, some thread is about to ask for
\* something else.
Held ==
    /\ asked = "pause" => rompause \/ \E c \in Clients : pc[c] \in {"tellRunning", "halt"}
    /\ asked = "resume" =>
        ~rompause /\ (~frameAdvance \/ \E c \in Clients : pc[c] \in {"settle", "lift"})
    /\ asked \in Stops => stop
    /\ \A c \in Clients : pc[c] \in {"announce", "arm", "rearm"} => asked = "none"

CoreInv == ~overlap => Alone /\ Owned /\ Told /\ Held

------------------------------------------------------------------------------
(* Steps                                                                     *)

\* The steps as Next takes them, without the history variable.
Step(c) == Issue(c) \/ CallStep(c) \/ RunStep(c)

\* Every step begins a command, or is one of a call or of a run.
LEMMA StepCases ==
    ASSUME CoreTypeOK, NEW c \in Clients, Step(c)
    PROVE  \/ \E s \in Seq(CoreCommands \cup EngineCommands) : s # <<>> /\ Begin(c, s)
           \/ CoreStartup(c) \/ CoreShutdown(c) \/ OpenRom(c) \/ CloseRom(c)
           \/ ChangePlugin(c) \/ AsItIs(c) \/ Toggle(c) \/ Flip(c) \/ Settle(c)
           \/ Advance(c) \/ Stop(c) \/ Compare(c)
           \/ RunStep(c)
<1>1. CASE Issue(c)
  BY <1>1, ScriptsAssumption DEF Issue
<1>2. CASE Continue(c)
  BY <1>2 DEF Continue, CoreTypeOK
<1> QED
  BY <1>1, <1>2 DEF Step, CallStep

\* A command that begins: one that has been accepted is at its first step.
LEMMA BeginCases ==
    ASSUME CoreTypeOK, NEW c \in Clients,
           NEW s \in Seq(CoreCommands \cup EngineCommands), s # <<>>, Begin(c, s)
    PROVE  \E command \in CoreCommands \cup EngineCommands :
              /\ At(c, "idle")
              /\ \/ Accepted(command) /\ pc' = [pc EXCEPT ![c] = First(command)]
                 \/ pc' = pc
              /\ todo' \in [Clients -> Seq(CoreCommands \cup EngineCommands)]
              /\ UNCHANGED <<setup, gfxOpen, flags, reported, compare, asked>>
<1> DEFINE Command == CoreCommands \cup EngineCommands
<1>1. Head(s) \in Command /\ Tail(s) \in Seq(Command) /\ <<>> \in Seq(Command)
  BY HeadTailProperties, EmptySeq
<1>2. \E t \in Seq(Command) : todo' = [todo EXCEPT ![c] = t]
  BY <1>1 DEF Begin
<1>3. todo' \in [Clients -> Seq(Command)]
  BY <1>2 DEF CoreTypeOK
<1> QED
  BY <1>1, <1>3 DEF Begin

------------------------------------------------------------------------------
(* Types                                                                     *)

\* The program counters and scripts.
LEMMA PlacesTyped ==
    ASSUME CoreTypeOK, NEW c \in Clients, Step(c)
    PROVE  /\ pc' \in [Clients -> {"idle"} \cup CallSteps \cup RunSteps]
           /\ todo' \in [Clients -> Seq(CoreCommands \cup EngineCommands)]
<1> DEFINE Places == {"idle"} \cup CallSteps \cup RunSteps
           Command == CoreCommands \cup EngineCommands
<1>1. ASSUME NEW s \in Seq(Command), s # <<>>, Begin(c, s)
      PROVE  pc' \in [Clients -> Places] /\ todo' \in [Clients -> Seq(Command)]
  <2>1. \A command \in Command : First(command) \in Places
    BY DEF First, CallSteps, CoreCommands, EngineCommands, RunSteps, Sections, StartSteps
  <2>2. PICK command \in Command :
           /\ pc' = [pc EXCEPT ![c] = First(command)] \/ pc' = pc
           /\ todo' \in [Clients -> Seq(Command)]
    BY <1>1, BeginCases
  <2>3. pc' \in [Clients -> Places]
    BY <2>1, <2>2 DEF CoreTypeOK
  <2> QED
    BY <2>2, <2>3
<1>2. CASE \/ CoreStartup(c) \/ CoreShutdown(c) \/ OpenRom(c) \/ CloseRom(c)
           \/ ChangePlugin(c) \/ AsItIs(c) \/ Toggle(c) \/ Flip(c) \/ Settle(c)
           \/ Advance(c) \/ Stop(c) \/ Compare(c) \/ RunStep(c)
  <2>1. \E l \in Places : pc' = [pc EXCEPT ![c] = l]
    <3>1. {"idle", "flip", "settle", "lift", "tellAdvance", "tellRunning", "halt",
           "flag", "announce", "arm", "rearm", "loop", "shut", "wait", "instruction",
           "vi", "frameEnd", "tellPaused", "paused", "finish", "tellStopped"} \subseteq Places
      BY DEF CallSteps, RunSteps, Sections, StartSteps, FrameSteps, EndSteps, Executing
    <3> QED
      BY <1>2, <3>1 DEF CoreStartup, CoreShutdown, OpenRom, CloseRom, ChangePlugin, AsItIs,
         Toggle, Flip, Settle, Advance, Stop, Compare, RunStep, Boot, Start, Loop, Wait,
         OneInstruction, Retire, FrameEnd, PauseLoop, Finish, Return, Goto
  <2>2. todo' = todo \/ todo' = [todo EXCEPT ![c] = <<>>]
    BY <1>2 DEF CoreStartup, CoreShutdown, OpenRom, CloseRom, ChangePlugin, AsItIs,
       Toggle, Flip, Settle, Advance, Stop, Compare, RunStep, Boot, Start, Loop, Wait,
       OneInstruction, Retire, FrameEnd, PauseLoop, Finish, Return, Goto
  <2>3. <<>> \in Seq(Command)
    BY EmptySeq
  <2> QED
    BY <2>1, <2>2, <2>3 DEF CoreTypeOK
<1> QED
  BY <1>1, <1>2, StepCases

\* The flags, the plugins and what is told of them.
LEMMA FlagsTyped ==
    ASSUME CoreTypeOK, NEW c \in Clients, Step(c)
    PROVE  /\ build' \in Builds
           /\ coreInit' \in BOOLEAN /\ romOpen' \in BOOLEAN /\ gfxOpen' \in BOOLEAN
           /\ gfx' \in {"real", "dummy"}
           /\ running' \in BOOLEAN /\ stop' \in BOOLEAN
           /\ rompause' \in BOOLEAN /\ frameAdvance' \in BOOLEAN
           /\ reported' \in {"stopped", "running", "paused"}
           /\ callback' \in BOOLEAN /\ event' \in {"reset", "set", "closed"}
           /\ asked' \in {"none", "pause", "resume", "advance"} \cup Stops
<1>1. ASSUME NEW s \in Seq(CoreCommands \cup EngineCommands), s # <<>>, Begin(c, s)
      PROVE  UNCHANGED <<setup, gfxOpen, flags, reported, compare, asked>>
  BY <1>1, BeginCases
<1>2. CASE UNCHANGED <<setup, gfxOpen, flags, reported, compare, asked>>
  BY <1>2 DEF CoreTypeOK, setup, flags, compare
<1>3. CASE \/ CoreStartup(c) \/ CoreShutdown(c) \/ OpenRom(c) \/ CloseRom(c)
           \/ ChangePlugin(c) \/ AsItIs(c) \/ Toggle(c) \/ Flip(c) \/ Settle(c)
           \/ Advance(c) \/ Stop(c) \/ Compare(c) \/ RunStep(c)
  <2> USE <1>3 DEF CoreTypeOK, setup, flags, compare, CoreStartup, CoreShutdown,
       OpenRom, CloseRom, ChangePlugin, AsItIs, Toggle, Flip, Settle, Advance, Stop,
       Compare, RunStep, Boot, Start, Loop, Wait, OneInstruction, FrameEnd, PauseLoop,
       Finish, Stops
  <2>1. build' \in Builds /\ gfx' \in {"real", "dummy"}
    OBVIOUS
  <2>2. coreInit' \in BOOLEAN /\ romOpen' \in BOOLEAN
    OBVIOUS
  <2>3. gfxOpen' \in BOOLEAN
    OBVIOUS
  <2>4. running' \in BOOLEAN /\ stop' \in BOOLEAN
    OBVIOUS
  <2>5. rompause' \in BOOLEAN /\ frameAdvance' \in BOOLEAN
    OBVIOUS
  <2>6. reported' \in {"stopped", "running", "paused"}
    OBVIOUS
  <2>7. callback' \in BOOLEAN /\ event' \in {"reset", "set", "closed"}
    OBVIOUS
  <2>8. asked' \in {"none", "pause", "resume", "advance"} \cup Stops
    OBVIOUS
  <2> QED
    BY <2>1, <2>2, <2>3, <2>4, <2>5, <2>6, <2>7, <2>8
<1> QED
  BY <1>1, <1>2, <1>3, StepCases

LEMMA TypeStep == CoreTypeOK /\ [CoreNext]_coreVars => CoreTypeOK'
<1> SUFFICES ASSUME CoreTypeOK, [CoreNext]_coreVars PROVE CoreTypeOK'
  OBVIOUS
<1>1. ASSUME NEW c \in Clients, Step(c), overlap' = (overlap \/ Overlapping')
      PROVE  CoreTypeOK'
  <2>1. overlap' \in BOOLEAN
    BY <1>1 DEF CoreTypeOK
  <2> QED
    BY <1>1, <2>1, PlacesTyped, FlagsTyped DEF CoreTypeOK
<1>2. CASE UNCHANGED coreVars
  BY <1>2 DEF coreVars, setup, flags, compare, CoreTypeOK
<1> QED
  BY <1>1, <1>2 DEF CoreNext, Step

LEMMA InitTyped == CoreInitial => CoreTypeOK
<1>1. <<>> \in Seq(CoreCommands \cup EngineCommands)
  BY EmptySeq
<1> QED
  BY <1>1 DEF CoreInitial, CoreTypeOK

\* The flags, the threads' places and their scripts are what they should be.
THEOREM TypeCorrect == CoreSpec => []CoreTypeOK
BY InitTyped, TypeStep, PTL DEF CoreSpec

------------------------------------------------------------------------------
(* The invariant                                                             *)

\* The steps of a run and of calls, listed.
LEMMA StepSets ==
    /\ CallSteps = {"startup", "shutdown", "open", "close", "attach", "attachNone",
                    "detach", "stop", "advance", "setCompare", "clearCompare", "unlock",
                    "closeEvent", "asItIs", "toggle", "flip", "settle", "lift",
                    "tellAdvance", "unpause", "tellRunning", "halt"}
    /\ Sections = {"boot", "flag", "announce", "arm", "rearm", "frameEnd", "tellPaused",
                   "shut", "finish", "tellStopped"}
    /\ RunSteps = Sections \cup {"loop", "wait", "instruction", "vi", "paused"}
    /\ MarkedSteps = {"announce", "arm", "rearm", "frameEnd", "tellPaused", "shut",
                      "finish", "loop", "wait", "instruction", "vi", "paused"}
    /\ PluginSteps = {"flag", "announce", "arm", "rearm", "frameEnd", "tellPaused", "shut",
                      "loop", "wait", "instruction", "vi", "paused"}
<1>1. CallSteps = {"startup", "shutdown", "open", "close", "attach", "attachNone",
                   "detach", "stop", "advance", "setCompare", "clearCompare", "unlock",
                   "closeEvent", "asItIs", "toggle", "flip", "settle", "lift",
                   "tellAdvance", "unpause", "tellRunning", "halt"}
  BY DEF CallSteps, CoreCommands, EngineCommands
<1>2. Sections = {"boot", "flag", "announce", "arm", "rearm", "frameEnd", "tellPaused",
                  "shut", "finish", "tellStopped"}
  BY DEF Sections, StartSteps, FrameSteps, EndSteps
<1>3. RunSteps = Sections \cup {"loop", "wait", "instruction", "vi", "paused"}
  BY DEF RunSteps, Sections, Executing, FrameSteps
<1>4. MarkedSteps = {"announce", "arm", "rearm", "frameEnd", "tellPaused", "shut",
                     "finish", "loop", "wait", "instruction", "vi", "paused"}
  BY <1>2, <1>3 DEF MarkedSteps
<1>5. PluginSteps = {"flag", "announce", "arm", "rearm", "frameEnd", "tellPaused", "shut",
                     "loop", "wait", "instruction", "vi", "paused"}
  BY <1>2, <1>3 DEF PluginSteps
<1> QED
  BY <1>1, <1>2, <1>3, <1>4, <1>5

\* A step of a call that leaves the run, the ROM and the plugins alone.
LEMMA CallKeepsOwned ==
    ASSUME CoreTypeOK, Owned, NEW c \in Clients, NEW l, pc' = [pc EXCEPT ![c] = l],
           UNCHANGED <<romOpen, running, gfx, gfxOpen>>,
           pc[c] \notin RunSteps, l \notin RunSteps,
           l \in Between => ~running, l \in During => running
    PROVE  Owned'
<1>1. MarkedSteps \subseteq RunSteps /\ PluginSteps \subseteq RunSteps
  BY DEF MarkedSteps, PluginSteps
<1>2. pc'[c] = l /\ \A d \in Clients : d # c => pc'[d] = pc[d]
  BY DEF CoreTypeOK
<1>3. \A a, b \in Clients : pc'[a] \in RunSteps /\ pc'[b] \in RunSteps => a = b
  BY <1>2 DEF Owned, InRun
<1>4. \A d \in Clients : /\ pc'[d] \in RunSteps => romOpen'
                         /\ pc'[d] \in MarkedSteps => running'
                         /\ pc'[d] \in Between => ~running'
                         /\ pc'[d] \in During => running'
  BY <1>1, <1>2 DEF Owned, InRun
<1>5. running' => \E d \in Clients : pc'[d] \in MarkedSteps
  BY <1>1, <1>2 DEF Owned
<1>6. gfxOpen' => gfx' = "real" /\ \E d \in Clients : pc'[d] \in PluginSteps
  BY <1>1, <1>2 DEF Owned
<1> QED
  BY <1>3, <1>4, <1>5, <1>6 DEF Owned, InRun

\* A step of a run that is marked before and after it.
LEMMA RunKeepsOwned ==
    ASSUME CoreTypeOK, Owned, NEW c \in Clients,
           NEW l \in MarkedSteps \cap PluginSteps, pc' = [pc EXCEPT ![c] = l],
           UNCHANGED <<romOpen, running, gfx, gfxOpen>>,
           pc[c] \in MarkedSteps \cap PluginSteps
    PROVE  Owned'
<1>1. MarkedSteps \subseteq RunSteps /\ l \notin Between /\ l \notin During
  BY StepSets DEF MarkedSteps, Between, During
<1>2. pc'[c] = l /\ \A d \in Clients : d # c => pc'[d] = pc[d]
  BY DEF CoreTypeOK
<1>3. \A a, b \in Clients : pc'[a] \in RunSteps /\ pc'[b] \in RunSteps => a = b
  BY <1>1, <1>2 DEF Owned, InRun
<1>4. \A d \in Clients : /\ pc'[d] \in RunSteps => romOpen'
                         /\ pc'[d] \in MarkedSteps => running'
                         /\ pc'[d] \in Between => ~running'
                         /\ pc'[d] \in During => running'
  BY <1>1, <1>2 DEF Owned, InRun
<1>5. running' => \E d \in Clients : pc'[d] \in MarkedSteps
  BY <1>2
<1>6. gfxOpen' => gfx' = "real" /\ \E d \in Clients : pc'[d] \in PluginSteps
  BY <1>2 DEF Owned
<1> QED
  BY <1>3, <1>4, <1>5, <1>6 DEF Owned, InRun

\* A step that keeps apart keeps the core with its run.
LEMMA OwnedStep ==
    ASSUME CoreTypeOK, Alone, Owned, Alone', NEW c \in Clients, Step(c)
    PROVE  Owned'
<1> USE DEF At, setup, flags, compare, Return, Goto
<1>1. ASSUME NEW s \in Seq(CoreCommands \cup EngineCommands), s # <<>>, Begin(c, s)
      PROVE  Owned'
  <2>1. PICK command \in CoreCommands \cup EngineCommands :
           /\ At(c, "idle")
           /\ \/ Accepted(command) /\ pc' = [pc EXCEPT ![c] = First(command)]
              \/ pc' = pc
           /\ UNCHANGED <<setup, gfxOpen, flags, reported, compare, asked>>
    BY <1>1, BeginCases
  <2>2. CASE pc' = pc
    BY <2>1, <2>2 DEF Owned, InRun
  <2>3. CASE /\ Accepted(command) /\ command # "execute"
             /\ pc' = [pc EXCEPT ![c] = First(command)]
    <3>1. /\ First(command) \in CallSteps
          /\ First(command) \in Between => ~running
          /\ First(command) \in During => running
      BY <2>1, <2>3, StepSets DEF Accepted, First, CoreCommands, EngineCommands,
         Between, During
    <3>2. CallSteps \cap RunSteps = {} /\ "idle" \notin RunSteps
      BY StepSets
    <3> QED
      BY <2>1, <2>3, <3>1, <3>2, CallKeepsOwned
  <2>4. CASE Accepted("execute") /\ pc' = [pc EXCEPT ![c] = "boot"]
    BY <2>1, <2>4, StepSets DEF Accepted, CoreTypeOK, Alone, Owned, Busy, InRun,
       Between, During, EngineCommands
  <2> QED
    BY <2>1, <2>2, <2>3, <2>4 DEF First
<1>2. CASE CoreStartup(c) \/ CoreShutdown(c)
  BY <1>2, StepSets DEF CoreTypeOK, Alone, Owned, Busy, InRun, Between, During,
     CoreStartup, CoreShutdown
<1>3. CASE OpenRom(c) \/ CloseRom(c)
  BY <1>3, StepSets DEF CoreTypeOK, Alone, Owned, Busy, InRun, Between, During,
     OpenRom, CloseRom
<1>4. CASE ChangePlugin(c)
  BY <1>4, StepSets DEF CoreTypeOK, Alone, Owned, Busy, InRun, Between, During,
     ChangePlugin
<1>5. CASE AsItIs(c) \/ Toggle(c) \/ Flip(c) \/ Settle(c) \/ Advance(c) \/ Stop(c) \/ Compare(c)
  <2>1. PICK l \in {"idle", "flip", "settle", "lift", "tellAdvance", "tellRunning", "halt"} :
           /\ pc' = [pc EXCEPT ![c] = l]
           /\ pc[c] \in During \/ l = "idle"
           /\ pc[c] \in CallSteps
           /\ UNCHANGED <<romOpen, running, gfx, gfxOpen>>
    BY <1>5, StepSets DEF AsItIs, Toggle, Flip, Settle, Advance, Stop, Compare, During
  <2>2. l \in During => running
    BY <2>1 DEF Owned, During
  <2>3. l \notin Between /\ l \notin RunSteps /\ pc[c] \notin RunSteps
    BY <2>1, StepSets DEF Between
  <2> QED
    BY <2>1, <2>2, <2>3, CallKeepsOwned
<1>6. CASE \/ Start(c) /\ pc[c] # "flag"
           \/ Loop(c) /\ ~stop
           \/ Wait(c) \/ OneInstruction(c) \/ FrameEnd(c) \/ PauseLoop(c)
  <2>1. PICK l \in {"arm", "rearm", "loop", "wait", "instruction", "vi", "frameEnd",
                    "tellPaused", "paused"} :
           /\ pc' = [pc EXCEPT ![c] = l]
           /\ pc[c] \in {"announce", "arm", "rearm", "loop", "wait", "instruction", "vi",
                         "frameEnd", "tellPaused", "paused"}
           /\ UNCHANGED <<romOpen, running, gfx, gfxOpen>>
    BY <1>6 DEF Start, Loop, Wait, OneInstruction, Retire, FrameEnd, PauseLoop
  <2> QED
    BY <2>1, RunKeepsOwned, StepSets
<1>7. CASE Boot(c)
  BY <1>7, StepSets DEF CoreTypeOK, Alone, Owned, Busy, InRun, Between, During, Boot
<1>8. CASE Start(c) /\ pc[c] = "flag"
  BY <1>8, StepSets DEF CoreTypeOK, Alone, Owned, Busy, InRun, Between, During, Start
<1>9. CASE Loop(c) /\ stop
  BY <1>9, StepSets DEF CoreTypeOK, Alone, Owned, Busy, InRun, Between, During, Loop
<1>10. CASE Finish(c)
  <2>1. CASE pc[c] = "shut"
    <3>1. ~gfxOpen' /\ pc' = [pc EXCEPT ![c] = "finish"] /\ UNCHANGED <<romOpen, running>>
      BY <1>10, <2>1 DEF Finish, Owned
    <3>2. /\ {"shut", "finish"} \subseteq MarkedSteps \cap RunSteps
          /\ "finish" \notin Between \cup During
      BY StepSets DEF Between, During
    <3> QED
      BY <2>1, <3>1, <3>2 DEF CoreTypeOK, Owned, InRun
  <2>2. CASE pc[c] = "finish"
    BY <1>10, <2>2, StepSets DEF CoreTypeOK, Alone, Owned, Busy, InRun, Between, During,
       Finish
  <2>3. CASE pc[c] = "tellStopped"
    BY <1>10, <2>3, StepSets DEF CoreTypeOK, Alone, Owned, Busy, InRun, Between, During,
       Finish
  <2> QED
    BY <1>10, <2>1, <2>2, <2>3 DEF Finish
<1> QED
  BY <1>1, <1>2, <1>3, <1>4, <1>5, <1>6, <1>7, <1>8, <1>9, <1>10, StepCases DEF RunStep

\* ... and what is told of it right, or about to be.
LEMMA ToldStep ==
    ASSUME CoreTypeOK, Alone, Owned, Told, Held, Alone', NEW c \in Clients, Step(c)
    PROVE  Told'
<1> USE StepSets DEF CoreTypeOK, Alone, Owned, Told, Query, Busy, InRun, At,
        Between, During, setup, flags, compare, Return, Goto
<1>1. ASSUME NEW s \in Seq(CoreCommands \cup EngineCommands), s # <<>>, Begin(c, s)
      PROVE  Told'
  <2>1. PICK command \in CoreCommands \cup EngineCommands :
           /\ At(c, "idle")
           /\ \/ Accepted(command) /\ pc' = [pc EXCEPT ![c] = First(command)]
              \/ pc' = pc
           /\ UNCHANGED <<setup, gfxOpen, flags, reported, compare, asked>>
    BY <1>1, BeginCases
  <2> QED
    BY <2>1 DEF Accepted, First, CoreCommands, EngineCommands
<1>2. CASE CoreStartup(c)
  BY <1>2 DEF CoreStartup
<1>3. CASE CoreShutdown(c)
  BY <1>3 DEF CoreShutdown
<1>4. CASE OpenRom(c)
  BY <1>4 DEF OpenRom
<1>5. CASE CloseRom(c)
  BY <1>5 DEF CloseRom
<1>6. CASE ChangePlugin(c)
  BY <1>6 DEF ChangePlugin
<1>7. CASE AsItIs(c)
  BY <1>7 DEF AsItIs
<1>8. CASE Toggle(c)
  BY <1>8 DEF Toggle
<1>9. CASE Flip(c)
  <2>1. CASE rompause
    <3>1. ~rompause'
      BY <1>9, <2>1, Zenon DEF Flip
    <3>2. /\ asked' = "resume" /\ pc[c] = "flip" /\ pc'[c] = "settle"
          /\ pc' = [pc EXCEPT ![c] = "settle"]
          /\ UNCHANGED <<running, reported, stop, frameAdvance>>
      BY <1>9, <2>1 DEF Flip
    <3>3. running /\ reported = "running"
      BY <3>2, <2>1
    <3> QED
      BY <3>1, <3>2, <3>3
  <2>2. CASE ~rompause
    BY <1>9, <2>2 DEF Flip
  <2> QED
    BY <1>9, <2>1, <2>2 DEF Flip
<1>10. CASE Settle(c)
  BY <1>10 DEF Settle
<1>11. CASE Advance(c)
  BY <1>11 DEF Advance
<1>12. CASE Stop(c)
  BY <1>12 DEF Stop
<1>13. CASE Compare(c)
  BY <1>13 DEF Compare
<1>14. CASE Boot(c)
  BY <1>14 DEF Boot
<1>15. CASE Start(c)
  BY <1>15 DEF Start
<1>16. CASE Loop(c)
  BY <1>16 DEF Loop
<1>17. CASE Wait(c)
  BY <1>17 DEF Wait
<1>18. CASE OneInstruction(c)
  <2>1. At(c, "instruction") /\ UNCHANGED <<running, frameAdvance, reported, asked>>
    BY <1>18 DEF OneInstruction
  <2>2. CASE Retire(c) /\ stop' \in {stop, TRUE} /\ UNCHANGED rompause
    <3>1. PICK l \in {"loop", "vi"} : pc' = [pc EXCEPT ![c] = l]
      BY <2>2 DEF Retire
    <3>2. stop => stop'
      BY <2>2, Zenon
    <3> QED
      BY <2>1, <2>2, <3>1, <3>2
  <2>3. CASE frameAdvance /\ Goto(c, "frameEnd") /\ rompause' = TRUE /\ UNCHANGED stop
    BY <2>1, <2>3
  <2> QED
    BY <1>18, <2>2, <2>3, Zenon DEF OneInstruction
<1>19. CASE FrameEnd(c)
  BY <1>19 DEF FrameEnd, Retire
<1>20. CASE PauseLoop(c)
  BY <1>20 DEF PauseLoop
<1>21. CASE Finish(c)
  BY <1>21 DEF Finish
<1> QED
  BY <1>1, <1>2, <1>3, <1>4, <1>5, <1>6, <1>7, <1>8, <1>9, <1>10, <1>11,
     <1>12, <1>13, <1>14, <1>15, <1>16, <1>17, <1>18, <1>19, <1>20, <1>21, StepCases DEF RunStep

\* ... and the last command in force, or about to be replaced.
LEMMA HeldStep ==
    ASSUME CoreTypeOK, Alone, Owned, Held, Alone', NEW c \in Clients, Step(c)
    PROVE  Held'
<1> USE StepSets DEF CoreTypeOK, Alone, Owned, Held, Busy, InRun, At,
        Between, During, setup, flags, compare, Return, Goto, Stops
<1>1. ASSUME NEW s \in Seq(CoreCommands \cup EngineCommands), s # <<>>, Begin(c, s)
      PROVE  Held'
  <2>1. PICK command \in CoreCommands \cup EngineCommands :
           /\ At(c, "idle")
           /\ \/ Accepted(command) /\ pc' = [pc EXCEPT ![c] = First(command)]
              \/ pc' = pc
           /\ UNCHANGED <<setup, gfxOpen, flags, reported, compare, asked>>
    BY <1>1, BeginCases
  <2> QED
    BY <2>1 DEF Accepted, First, CoreCommands, EngineCommands
<1>2. CASE CoreStartup(c)
  BY <1>2 DEF CoreStartup
<1>3. CASE CoreShutdown(c)
  BY <1>3 DEF CoreShutdown
<1>4. CASE OpenRom(c)
  BY <1>4 DEF OpenRom
<1>5. CASE CloseRom(c)
  BY <1>5 DEF CloseRom
<1>6. CASE ChangePlugin(c)
  BY <1>6 DEF ChangePlugin
<1>7. CASE AsItIs(c)
  BY <1>7 DEF AsItIs
<1>8. CASE Toggle(c)
  BY <1>8 DEF Toggle
<1>9. CASE Flip(c)
  <2>1. CASE rompause
    <3>1. ~rompause'
      BY <1>9, <2>1, Zenon DEF Flip
    <3>2. /\ asked' = "resume" /\ pc[c] = "flip" /\ pc'[c] = "settle"
          /\ pc' = [pc EXCEPT ![c] = "settle"]
          /\ UNCHANGED stop
      BY <1>9, <2>1 DEF Flip
    <3> QED
      BY <3>1, <3>2
  <2>2. CASE ~rompause
    BY <1>9, <2>2 DEF Flip
  <2> QED
    BY <1>9, <2>1, <2>2 DEF Flip
<1>10. CASE Settle(c)
  BY <1>10 DEF Settle
<1>11. CASE Advance(c)
  BY <1>11 DEF Advance
<1>12. CASE Stop(c)
  BY <1>12 DEF Stop
<1>13. CASE Compare(c)
  BY <1>13 DEF Compare
<1>14. CASE Boot(c)
  BY <1>14 DEF Boot
<1>15. CASE Start(c)
  BY <1>15 DEF Start
<1>16. CASE Loop(c)
  BY <1>16 DEF Loop
<1>17. CASE Wait(c)
  BY <1>17 DEF Wait
<1>18. CASE OneInstruction(c)
  <2>1. At(c, "instruction") /\ UNCHANGED <<running, frameAdvance, reported, asked>>
    BY <1>18 DEF OneInstruction
  <2>2. CASE Retire(c) /\ stop' \in {stop, TRUE} /\ UNCHANGED rompause
    <3>1. PICK l \in {"loop", "vi"} : pc' = [pc EXCEPT ![c] = l]
      BY <2>2 DEF Retire
    <3>2. stop => stop'
      BY <2>2, Zenon
    <3> QED
      BY <2>1, <2>2, <3>1, <3>2
  <2>3. CASE frameAdvance /\ Goto(c, "frameEnd") /\ rompause' = TRUE /\ UNCHANGED stop
    BY <2>1, <2>3
  <2> QED
    BY <1>18, <2>2, <2>3, Zenon DEF OneInstruction
<1>19. CASE FrameEnd(c)
  BY <1>19 DEF FrameEnd, Retire
<1>20. CASE PauseLoop(c)
  BY <1>20 DEF PauseLoop
<1>21. CASE Finish(c)
  BY <1>21 DEF Finish
<1> QED
  BY <1>1, <1>2, <1>3, <1>4, <1>5, <1>6, <1>7, <1>8, <1>9, <1>10, <1>11,
     <1>12, <1>13, <1>14, <1>15, <1>16, <1>17, <1>18, <1>19, <1>20, <1>21, StepCases DEF RunStep

LEMMA InitInv == CoreInitial => CoreInv
BY StepSets DEF CoreInitial, CoreInv, Alone, Owned, Told, Held, Busy, InRun, At, Query,
   Between, During, Stops

LEMMA StepInv == CoreTypeOK /\ CoreInv /\ [CoreNext]_coreVars => CoreInv'
<1> SUFFICES ASSUME CoreTypeOK, CoreInv, [CoreNext]_coreVars PROVE CoreInv'
  OBVIOUS
<1>1. ASSUME NEW c \in Clients, Step(c), overlap' = (overlap \/ Overlapping'), ~overlap'
      PROVE  Alone' /\ Owned' /\ Told' /\ Held'
  <2>1. ~overlap /\ ~Overlapping'
    BY <1>1
  <2>2. Alone'
    BY <2>1 DEF Alone, Overlapping
  <2>3. Alone /\ Owned /\ Told /\ Held
    BY <2>1 DEF CoreInv
  <2> QED
    BY <1>1, <2>2, <2>3, OwnedStep, ToldStep, HeldStep
<1>2. CASE UNCHANGED coreVars
  BY <1>2 DEF coreVars, setup, flags, compare, CoreInv, Alone, Owned, Told, Held,
     Busy, InRun, At, Query
<1> QED
  BY <1>1, <1>2 DEF CoreNext, Step, CoreInv

\* While calls keep apart, each part of the core is what the threads in their
\* commands and in the run have made of it.
THEOREM CoreInvHolds == CoreSpec => []CoreInv
<1>1. CoreInitial => CoreTypeOK /\ CoreInv
  BY InitTyped, InitInv
<1>2. CoreTypeOK /\ CoreInv /\ [CoreNext]_coreVars => (CoreTypeOK /\ CoreInv)'
  BY TypeStep, StepInv
<1> QED
  BY <1>1, <1>2, PTL DEF CoreSpec

------------------------------------------------------------------------------
(* What the front ends may rely on                                           *)

\* One run at a time, its ROM open under it, and a plugin told of the ROM
\* told of its end: for any number of threads that start and run the core.
THEOREM RunsOwnCore == CoreSpec => []RunOwnsCore
<1>1. CoreInv => RunOwnsCore
  BY DEF CoreInv, Owned, RunOwnsCore, InRun, PluginSteps
<1> QED
  BY <1>1, CoreInvHolds, PTL

\* Between calls the front end's callback was last told what a query answers.
THEOREM ReportsAreTrue == CoreSpec => []ReportedTruth
<1>1. CoreInv => ReportedTruth
  BY StepSets DEF CoreInv, Told, ReportedTruth, Quiet, Busy
<1> QED
  BY <1>1, CoreInvHolds, PTL

\* The last command of a run is in force between calls, also over the end of
\* a frame advance.
THEOREM LastCommandsHold == CoreSpec => []LastCommandHolds
<1>1. CoreInv => LastCommandHolds
  BY StepSets DEF CoreInv, Held, LastCommandHolds, Quiet, Busy
<1> QED
  BY <1>1, CoreInvHolds, PTL
=============================================================================
