---------------------------- MODULE CoreControl ----------------------------
(***************************************************************************)
(* The control of the emulator core that the compare engine runs: the API  *)
(* commands of api/frontend.c, the run itself (main_run in main/main.c)    *)
(* with its pause loop and frame advance, and the engine that drives it    *)
(* (MupenEngine.cpp), whose compare event holds the core back before each  *)
(* instruction.                                                            *)
(*                                                                         *)
(* A client is a thread of the front end.  It issues scripts of commands;  *)
(* the client that issues "execute" runs the core until it stops, as       *)
(* main_run returns only then.  No lock guards the core's variables: each  *)
(* step of a client is one access that the others may see, so a command    *)
(* checks in one step and acts in the next.                                *)
(***************************************************************************)
EXTENDS Naturals, Sequences

CONSTANTS
    Clients,        \* threads of the front end
    Scripts,        \* for each client, the scripts it may issue
    Failures,       \* plugins whose RomOpen may refuse
    Builds          \* "reread": the pause loop loads rompause every time;
                    \* "hoisted": once, for rompause is not volatile

CoreCommands == {"startup", "shutdown", "open", "close", "attach",
                 "attachNone", "detach", "execute", "stop", "pause",
                 "resume", "advance"}

EngineCommands == {"setCompare", "clearCompare", "unlock", "closeEvent"}

ASSUME ScriptsAssumption ==
    /\ DOMAIN Scripts = Clients
    /\ \A c \in Clients : \A s \in Scripts[c] :
            s \in Seq(CoreCommands \cup EngineCommands) /\ s # <<>>

ASSUME BuildsAssumption ==
    Builds \subseteq {"reread", "hoisted"} /\ Failures \subseteq {"gfx", "audio"}

VARIABLES
    build,
    coreInit,       \* l_CoreInit
    romOpen,        \* l_ROMOpen
    gfx,            \* the video plugin in the table: "real" or the "dummy"
    gfxOpen,        \* the real one has had RomOpen and not RomClosed
    running,        \* g_EmulatorRunning
    stop,
    rompause,
    frameAdvance,   \* l_FrameAdvance
    reported,       \* the state last given to the front end's callback
    callback,       \* whether callback_core_compare is set
    event,          \* m_CompareWaitEvent, reset by the wait it lets go
    pc,             \* where each client is: idle, in a command or in a run
    todo,           \* what is left of its script
    asked,          \* history: the last command of this run that acted,
                    \* a stop told apart when a frame advance was pending
    overlap         \* history: two clients have been in each other's way

setup == <<build, coreInit, romOpen, gfx>>
flags == <<running, stop, rompause, frameAdvance>>
compare == <<callback, event>>
coreVars == <<setup, gfxOpen, flags, reported, compare, pc, todo, asked, overlap>>

\* Where a command has passed its check and not yet returned.
CallSteps == (CoreCommands \ {"execute", "pause", "resume"}) \cup EngineCommands
             \cup {"asItIs", "toggle", "flip", "settle", "lift", "tellAdvance",
                   "unpause", "tellRunning", "halt"}

\* Where a run writes what the commands read.
StartSteps == {"boot", "flag", "announce", "arm", "rearm"}
FrameSteps == {"frameEnd", "tellPaused"}
EndSteps == {"shut", "finish", "tellStopped"}
Sections == StartSteps \cup FrameSteps \cup EndSteps

Stops == {"stop", "stopMidFrame"}

Executing == {"loop", "wait", "instruction", "vi", "paused"} \cup FrameSteps

RunSteps == Sections \cup Executing

At(c, l) == pc[c] = l

Goto(c, l) == pc' = [pc EXCEPT ![c] = l] /\ UNCHANGED todo

Return(c) == Goto(c, "idle")

Busy(c) == pc[c] \in CallSteps \cup Sections

InRun(c) == pc[c] \in RunSteps

\* Two calls in progress, a call at a section of the run, or a core started
\* anew, after a shutdown, under a run.
Overlapping ==
    \E c, d \in Clients :
        /\ c # d
        /\ Busy(c)
        /\ Busy(d) \/ (At(c, "startup") /\ InRun(d))

CoreInitial ==
    /\ build \in Builds
    /\ coreInit = FALSE /\ romOpen = FALSE
    /\ gfx = "dummy" /\ gfxOpen = FALSE
    /\ running = FALSE /\ stop = FALSE /\ rompause = FALSE /\ frameAdvance = FALSE
    /\ reported = "stopped"
    /\ callback = FALSE /\ event = "reset"
    /\ pc = [c \in Clients |-> "idle"] /\ todo = [c \in Clients |-> <<>>]
    /\ asked = "none" /\ overlap = FALSE

------------------------------------------------------------------------------
(* Commands                                                                  *)

\* The checks a command makes before it does anything.
Accepted(command) ==
    \/ command \in EngineCommands
    \/ command = "startup" /\ ~coreInit
    \/ command = "shutdown" /\ coreInit
    \/ command = "open" /\ coreInit /\ ~running /\ ~romOpen
    \/ command \in {"close", "attach", "attachNone", "execute"}
       /\ coreInit /\ ~running /\ romOpen
    \/ command = "detach" /\ coreInit /\ ~running
    \/ command \in {"stop", "pause", "resume", "advance"} /\ coreInit /\ running

\* Faulty variant: STOP leaves a pause alone.
First_StopKeepsPause(command) ==
    IF command = "execute" THEN "boot"
    ELSE IF command \in {"pause", "resume"}
    THEN IF rompause = (command = "pause") THEN "asItIs" ELSE "toggle"
    ELSE IF command = "stop" THEN "halt"
    ELSE command

\* Where an accepted command goes on.  RESUME and PAUSE turn into a toggle
\* when the emulator is not as they want it; STOP lifts a pause first.
First(command) ==
    IF command = "execute" THEN "boot"
    ELSE IF command \in {"pause", "resume"}
    THEN IF rompause = (command = "pause") THEN "asItIs" ELSE "toggle"
    ELSE IF command = "stop" THEN IF rompause THEN "unpause" ELSE "halt"
    ELSE command

\* A refused command returns its error; the engine throws when it cannot
\* start the core or open the ROM, and does not go on.
Begin(c, script) ==
    LET command == Head(script)
    IN  /\ At(c, "idle")
        /\ IF Accepted(command)
           THEN /\ pc' = [pc EXCEPT ![c] = First(command)]
                /\ todo' = [todo EXCEPT ![c] = Tail(script)]
           ELSE /\ UNCHANGED pc
                /\ todo' = [todo EXCEPT ![c] =
                     IF command \in {"startup", "open"} THEN <<>> ELSE Tail(script)]
        /\ UNCHANGED <<setup, gfxOpen, flags, reported, compare, asked>>

\* CoreStartup connects the dummy plugins and loads the configuration.
CoreStartup(c) ==
    /\ At(c, "startup") /\ Return(c)
    /\ coreInit' = TRUE /\ gfx' = "dummy"
    /\ UNCHANGED <<build, romOpen, gfxOpen, flags, reported, compare, asked>>

\* It looks neither at the emulator nor at the ROM.
CoreShutdown(c) ==
    /\ At(c, "shutdown") /\ Return(c)
    /\ coreInit' = FALSE
    /\ UNCHANGED <<build, romOpen, gfx, gfxOpen, flags, reported, compare, asked>>

\* open_rom fails on an image it does not know.
OpenRom(c) ==
    /\ At(c, "open")
    /\ \/ /\ romOpen' = TRUE /\ Return(c)
       \/ /\ romOpen' = romOpen
          /\ pc' = [pc EXCEPT ![c] = "idle"] /\ todo' = [todo EXCEPT ![c] = <<>>]
    /\ UNCHANGED <<build, coreInit, gfx, gfxOpen, flags, reported, compare, asked>>

CloseRom(c) ==
    /\ At(c, "close") /\ Return(c)
    /\ romOpen' = FALSE
    /\ UNCHANGED <<build, coreInit, gfx, gfxOpen, flags, reported, compare, asked>>

\* A plugin is attached or taken off; a handle of NULL puts the dummy back.
\* Attaching a second one is refused, and one that fails to start stays.
ChangePlugin(c) ==
    /\ pc[c] \in {"attach", "attachNone", "detach"} /\ Return(c)
    /\ gfx' = IF At(c, "attach") THEN "real" ELSE "dummy"
    /\ UNCHANGED <<build, coreInit, romOpen, gfxOpen, flags, reported, compare, asked>>

\* A PAUSE or RESUME that finds the emulator as it wants it.
AsItIs(c) ==
    /\ At(c, "asItIs") /\ Return(c)
    /\ asked' = IF rompause THEN "pause" ELSE asked
    /\ UNCHANGED <<setup, gfxOpen, flags, reported, compare>>

\* main_toggle_pause: the state is announced, then rompause is turned over.
Toggle(c) ==
    /\ At(c, "toggle")
    /\ IF running
       THEN /\ reported' = IF rompause THEN "running" ELSE "paused"
            /\ Goto(c, "flip")
       ELSE Return(c) /\ UNCHANGED reported
    /\ UNCHANGED <<setup, gfxOpen, flags, compare, asked>>

Flip(c) ==
    /\ At(c, "flip") /\ Goto(c, "settle")
    /\ rompause' = ~rompause
    /\ asked' = IF rompause THEN "resume" ELSE "pause"
    /\ UNCHANGED <<setup, gfxOpen, running, stop, frameAdvance, reported, compare>>

\* Faulty variant: a pause or resume leaves a frame advance pending.
Settle_KeepsAdvance(c) ==
    /\ At(c, "settle") /\ Return(c)
    /\ frameAdvance' = frameAdvance
    /\ UNCHANGED <<setup, gfxOpen, running, stop, rompause, reported, compare, asked>>

Settle(c) ==
    /\ At(c, "settle") /\ Return(c)
    /\ frameAdvance' = FALSE
    /\ UNCHANGED <<setup, gfxOpen, running, stop, rompause, reported, compare, asked>>

\* main_advance_one.
Advance(c) ==
    \/ /\ At(c, "advance") /\ Goto(c, "lift")
       /\ frameAdvance' = TRUE
       /\ UNCHANGED <<setup, gfxOpen, running, stop, rompause, reported, compare, asked>>
    \/ /\ At(c, "lift") /\ Goto(c, "tellAdvance")
       /\ rompause' = FALSE /\ asked' = "advance"
       /\ UNCHANGED <<setup, gfxOpen, running, stop, frameAdvance, reported, compare>>
    \/ /\ At(c, "tellAdvance") /\ Return(c)
       /\ reported' = "running"
       /\ UNCHANGED <<setup, gfxOpen, flags, compare, asked>>

\* main_stop.
Stop(c) ==
    \/ /\ At(c, "unpause") /\ Goto(c, "tellRunning")
       /\ rompause' = FALSE
       /\ UNCHANGED <<setup, gfxOpen, running, stop, frameAdvance, reported, compare, asked>>
    \/ /\ At(c, "tellRunning") /\ Goto(c, "halt")
       /\ reported' = "running"
       /\ UNCHANGED <<setup, gfxOpen, flags, compare, asked>>
    \/ /\ At(c, "halt") /\ Return(c)
       /\ stop' = TRUE /\ asked' = IF frameAdvance THEN "stopMidFrame" ELSE "stop"
       /\ UNCHANGED <<setup, gfxOpen, running, rompause, frameAdvance, reported, compare>>

\* The compare engine installs and removes its callback, lets the core go
\* on by one instruction, and closes the event when it is finalized.
Compare(c) ==
    /\ Return(c)
    /\ \/ /\ At(c, "setCompare") /\ callback' = TRUE /\ UNCHANGED event
       \/ /\ At(c, "clearCompare") /\ callback' = FALSE /\ UNCHANGED event
       \/ /\ At(c, "unlock") /\ UNCHANGED callback
          /\ event' = IF event = "closed" THEN event ELSE "set"
       \/ /\ At(c, "closeEvent") /\ event' = "closed" /\ UNCHANGED callback
    /\ UNCHANGED <<setup, gfxOpen, flags, reported, asked>>

------------------------------------------------------------------------------
(* The run                                                                   *)

\* Faulty variant: the video plugin is not told when the sound fails.
Boot_GfxNotClosed(c) ==
    /\ At(c, "boot")
    /\ \/ Goto(c, "flag") /\ gfxOpen' = (gfxOpen \/ gfx = "real")
       \/ /\ "gfx" \in Failures /\ gfx = "real"
          /\ Return(c) /\ UNCHANGED gfxOpen
       \/ /\ "audio" \in Failures
          /\ Return(c) /\ gfxOpen' = (gfxOpen \/ gfx = "real")
    /\ UNCHANGED <<setup, flags, reported, compare, asked>>

\* main_run up to the plugins: a plugin that refuses ends it, and the video
\* plugin is told when the sound fails after it.
Boot(c) ==
    /\ At(c, "boot")
    /\ \/ Goto(c, "flag") /\ gfxOpen' = (gfxOpen \/ gfx = "real")
       \/ /\ "gfx" \in Failures /\ gfx = "real"
          /\ Return(c) /\ UNCHANGED gfxOpen
       \/ /\ "audio" \in Failures
          /\ Return(c) /\ gfxOpen' = (gfxOpen /\ gfx # "real")
    /\ UNCHANGED <<setup, flags, reported, compare, asked>>

\* The emulator counts as running from here: commands are taken, although
\* r4300_execute and pure_interpreter have yet to clear what they set.
Start(c) ==
    \/ /\ At(c, "flag") /\ Goto(c, "announce")
       /\ running' = TRUE /\ asked' = "none"
       /\ UNCHANGED <<setup, gfxOpen, stop, rompause, frameAdvance, reported, compare>>
    \/ /\ At(c, "announce") /\ Goto(c, "arm")
       /\ reported' = "running"
       /\ UNCHANGED <<setup, gfxOpen, flags, compare, asked>>
    \/ /\ At(c, "arm") /\ Goto(c, "rearm")
       /\ stop' = FALSE /\ rompause' = FALSE
       /\ UNCHANGED <<setup, gfxOpen, running, frameAdvance, reported, compare, asked>>
    \/ /\ At(c, "rearm") /\ Goto(c, "loop")
       /\ stop' = FALSE
       /\ UNCHANGED <<setup, gfxOpen, running, rompause, frameAdvance, reported, compare, asked>>

\* while (!stop), the compare callback before each instruction.
Loop(c) ==
    /\ At(c, "loop")
    /\ Goto(c, IF stop THEN "shut" ELSE IF callback THEN "wait" ELSE "instruction")
    /\ UNCHANGED <<setup, gfxOpen, flags, reported, compare, asked>>

\* CompareCoreWait: the event resets itself as it lets the thread go.  Once it
\* is closed, a wait that has begun lasts for ever; one that begins later
\* throws, and so does the unlock: no instruction follows either way.
Wait(c) ==
    /\ At(c, "wait") /\ event = "set" /\ Goto(c, "instruction")
    /\ event' = "reset"
    /\ UNCHANGED <<setup, gfxOpen, flags, reported, callback, asked>>

\* The end of an iteration.  A jump ends with gen_interupt, which takes the
\* vertical interrupt whether or not the run is to stop.
Retire(c) == Goto(c, "loop") \/ Goto(c, "vi")

\* An instruction, or a jump with its delay slot, may end the run (a reserved
\* one) or finish a graphics task, and with it a frame.
OneInstruction(c) ==
    /\ At(c, "instruction")
    /\ \/ Retire(c) /\ stop' \in {stop, TRUE} /\ UNCHANGED rompause
       \/ /\ frameAdvance
          /\ Goto(c, "frameEnd") /\ rompause' = TRUE /\ UNCHANGED stop
    /\ UNCHANGED <<setup, gfxOpen, running, frameAdvance, reported, compare, asked>>

\* Faulty variant: the pause at the end of a frame is not announced.
FrameEnd_Untold(c) ==
    \/ /\ At(c, "frameEnd") /\ Goto(c, "tellPaused")
       /\ frameAdvance' = FALSE
       /\ UNCHANGED <<setup, gfxOpen, running, stop, rompause, reported, compare, asked>>
    \/ /\ At(c, "tellPaused") /\ Retire(c)
       /\ UNCHANGED <<setup, gfxOpen, flags, reported, compare, asked>>

\* new_frame, after it has set rompause.
FrameEnd(c) ==
    \/ /\ At(c, "frameEnd") /\ Goto(c, "tellPaused")
       /\ frameAdvance' = FALSE
       /\ UNCHANGED <<setup, gfxOpen, running, stop, rompause, reported, compare, asked>>
    \/ /\ At(c, "tellPaused") /\ Retire(c)
       /\ reported' = "paused"
       /\ UNCHANGED <<setup, gfxOpen, flags, compare, asked>>

\* new_vi and its pause loop.
PauseLoop(c) ==
    /\ \/ At(c, "vi") /\ Goto(c, IF rompause THEN "paused" ELSE "loop")
       \/ At(c, "paused") /\ build = "reread" /\ ~rompause /\ Goto(c, "loop")
    /\ UNCHANGED <<setup, gfxOpen, flags, reported, compare, asked>>

\* The end of main_run.
Finish(c) ==
    \/ /\ At(c, "shut") /\ Goto(c, "finish")
       /\ gfxOpen' = (gfxOpen /\ gfx # "real")
       /\ UNCHANGED <<setup, flags, reported, compare, asked>>
    \/ /\ At(c, "finish") /\ Goto(c, "tellStopped")
       /\ running' = FALSE
       /\ UNCHANGED <<setup, gfxOpen, stop, rompause, frameAdvance, reported, compare, asked>>
    \/ /\ At(c, "tellStopped") /\ Return(c)
       /\ reported' = "stopped"
       /\ UNCHANGED <<setup, gfxOpen, flags, compare, asked>>

\* A client that has nothing left to do issues a script, or does not.
Issue(c) ==
    todo[c] = <<>> /\ \E script \in Scripts[c] : Begin(c, script)

Continue(c) ==
    todo[c] # <<>> /\ Begin(c, todo[c])

CallStep(c) ==
    \/ Continue(c) \/ CoreStartup(c) \/ CoreShutdown(c) \/ OpenRom(c) \/ CloseRom(c)
    \/ ChangePlugin(c) \/ AsItIs(c) \/ Toggle(c) \/ Flip(c) \/ Settle(c)
    \/ Advance(c) \/ Stop(c) \/ Compare(c)

RunStep(c) ==
    \/ Boot(c) \/ Start(c) \/ Loop(c) \/ Wait(c) \/ OneInstruction(c)
    \/ FrameEnd(c) \/ PauseLoop(c) \/ Finish(c)

CoreNext ==
    /\ \E c \in Clients : Issue(c) \/ CallStep(c) \/ RunStep(c)
    /\ overlap' = (overlap \/ Overlapping')

CoreSpec == CoreInitial /\ [][CoreNext]_coreVars

\* Threads are scheduled: a call or a run that can take a step takes it.
\* Nobody has to issue another script.
ScriptStep(c) ==
    (CallStep(c) \/ RunStep(c)) /\ overlap' = (overlap \/ Overlapping')

CoreFairSpec == CoreSpec /\ \A c \in Clients : WF_coreVars(ScriptStep(c))

------------------------------------------------------------------------------
(* Properties                                                                *)

\* What main_core_state_query answers.
Query == IF ~running THEN "stopped" ELSE IF rompause THEN "paused" ELSE "running"

Quiet == \A c \in Clients : ~Busy(c)

CoreTypeOK ==
    /\ build \in Builds
    /\ coreInit \in BOOLEAN /\ romOpen \in BOOLEAN /\ gfxOpen \in BOOLEAN
    /\ gfx \in {"real", "dummy"}
    /\ running \in BOOLEAN /\ stop \in BOOLEAN
    /\ rompause \in BOOLEAN /\ frameAdvance \in BOOLEAN
    /\ reported \in {"stopped", "running", "paused"}
    /\ callback \in BOOLEAN /\ event \in {"reset", "set", "closed"}
    /\ asked \in {"none", "pause", "resume", "advance"} \cup Stops
    /\ overlap \in BOOLEAN
    /\ pc \in [Clients -> {"idle"} \cup CallSteps \cup RunSteps]
    /\ todo \in [Clients -> Seq(CoreCommands \cup EngineCommands)]

\* A run has the core to itself and its ROM: there is one run at a time, the
\* ROM stays open under it, and a plugin told of the ROM belongs to a run in
\* progress.  The flag that protects a run is set late in main_run, so this
\* is so only as long as no call overlapped another or a run's start, and
\* nobody shut the core down and started it again under a run.
RunOwnsCore ==
    ~overlap =>
        /\ \A c, d \in Clients : InRun(c) /\ InRun(d) => c = d
        /\ \A c \in Clients : InRun(c) => romOpen
        /\ gfxOpen => \E c \in Clients : InRun(c)

\* The front end knows the state: between calls, what its callback was last
\* told is what a query answers.
ReportedTruth == Quiet /\ ~overlap => reported = Query

\* The last command of a run is in force: a pause holds until something
\* else is asked for, a resume is not undone by an old frame advance, and a
\* stop is not forgotten.
LastCommandHolds ==
    Quiet /\ ~overlap /\ running =>
        /\ asked = "pause" => rompause
        /\ asked = "resume" => ~rompause /\ ~frameAdvance
        /\ asked \in Stops => stop

\* The core is held back by the compare event.
Waiting == \E c \in Clients : At(c, "wait") /\ event # "set"

\* A stop ends the run, also out of a pause, when no frame advance is pending:
\* unless another command follows it, a call overlapped something, or the
\* compare event holds the core for good.  One that lands while a frame is
\* being advanced may be lost, with no two calls overlapping: the frame ends in
\* a delay slot, and the jump's vertical interrupt finds the pause it has set.
StopEndsRun ==
    build = "reread" =>
        (asked = "stop" ~> (~running \/ asked # "stop" \/ overlap \/ []Waiting))

\* The documentation's promise for M64CMD_STOP, without those conditions:
\* "This will stop the emulator, if it is currently running."
StopHonoured == asked \in Stops ~> ~running
============================================================================
