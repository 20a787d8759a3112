------------------------------ MODULE MCParts ------------------------------
(***************************************************************************)
(* Four parts that share no state, checked in one run: unified streams,    *)
(* the instruction flow of user programs in the interpreter, and of the    *)
(* emulator the compare engine runs its memory dispatch and its control.   *)
(* A behaviour runs one of them, chosen at the start, and leaves the       *)
(* others as they are initially.                                           *)
(***************************************************************************)
EXTENDS MCUnifiedStream, MCInterpreter, MCMemoryMap, MCCoreControl

VARIABLE part

partsVars == <<part, streamVars, vars, memoryVars, coreVars>>

PartsInit ==
    /\ part \in {"streams", "flow", "memory", "core"}
    /\ StreamInit /\ Init /\ MemoryInit /\ CoreInitial
    /\ part # "core" => build = "reread"
    /\ part # "flow" => PC = 0 /\ ra = 0

PartsNext ==
    /\ UNCHANGED part
    /\ \/ part = "streams" /\ StreamNext /\ UNCHANGED <<vars, memoryVars, coreVars>>
       \/ part = "flow" /\ Next /\ UNCHANGED <<streamVars, memoryVars, coreVars>>
       \/ part = "memory" /\ MemoryNext /\ UNCHANGED <<streamVars, vars, coreVars>>
       \/ part = "core" /\ CoreNext /\ UNCHANGED <<streamVars, vars, memoryVars>>

\* The fairness of CoreFairSpec, in the part it is about.
Scheduled(c) ==
    part = "core" /\ ScriptStep(c) /\ UNCHANGED <<part, streamVars, vars, memoryVars>>

PartsSpec ==
    PartsInit /\ [][PartsNext]_partsVars /\ \A c \in Clients : WF_partsVars(Scheduled(c))
============================================================================
