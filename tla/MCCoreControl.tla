--------------------------- MODULE MCCoreControl ---------------------------
(***************************************************************************)
(* Instances of CoreControl.  The first client is the compare engine's     *)
(* task, which starts the core and runs it; the second is the user         *)
(* interface, which may try to run it too; the third finalizes the engine. *)
(***************************************************************************)
EXTENDS CoreControl

CONSTANTS engine, ui, finalizer

MCFree(commands) == {<<k>> : k \in commands}

\* MupenEngine.Init and Run, or a front end with a plugin of its own.
MCEngineScripts ==
    {<<"startup", "setCompare", "open", "attachNone", "execute">>,
     <<"startup", "open", "attach", "execute">>, <<"execute">>}

MCScripts ==
    [c \in Clients |->
        CASE c = engine -> MCEngineScripts
          [] c = ui -> MCFree({"stop", "pause", "resume", "advance", "unlock",
                               "detach", "close", "execute", "startup"})
          [] c = finalizer ->
                {<<"closeEvent", "stop", "clearCompare", "close", "shutdown">>}]

\* Without the engine: a front end that only runs, advances and stops.
MCPlainScripts ==
    [c \in Clients |->
        IF c = engine THEN {<<"startup", "open", "execute">>}
        ELSE MCFree({"advance", "stop"})]

\* Every property is about executions without an overlap: what follows one
\* need not be explored.
MCApart == ~overlap
============================================================================
