--------------------------- MODULE MCInterpreter ---------------------------
(***************************************************************************)
(* Instances of Interpreter.  Six words for user programs: a branch, its   *)
(* slot and the instruction after it, a target apart from them and one     *)
(* beyond the wrap.  Four for handlers, the vector being the last.         *)
(***************************************************************************)
EXTENDS Interpreter

MCTargets == {0, 12}

MCBoot == {0, 4, 8, 12, 16, 20}

MCReset == {0}

Of(op) == [Nop EXCEPT !.op = op]

MCBranches == [op : {"branch"}, likely : BOOLEAN, link : BOOLEAN, target : MCTargets]

MCJumps == [op : {"jump"}, likely : {FALSE}, link : BOOLEAN, target : MCTargets]

\* User programs: branches of every kind, calls and returns.
FlowInstructions == MCBranches \cup MCJumps \cup {Nop, Of("return")}

\* Handlers: traps, returns from exceptions and writes to the registers.
SystemInstructions ==
    {Nop, Of("trap"), Of("eret"), Of("mtc0Status"), Of("mtc0EPC"),
     Of("mtc0ErrorEPC"), [Of("branch") EXCEPT !.likely = TRUE]}

SystemSlots == {Nop, Of("trap")}

\* Interrupts masked and open, with the level set and clear, and the
\* coprocessor given up.
MCStatus == {[CU0 |-> c, IE |-> i, EXL |-> x, ERL |-> FALSE] :
                c \in {TRUE}, i \in BOOLEAN, x \in BOOLEAN}
            \cup {[CU0 |-> FALSE, IE |-> TRUE, EXL |-> FALSE, ERL |-> FALSE],
                  [CU0 |-> TRUE, IE |-> TRUE, EXL |-> FALSE, ERL |-> TRUE]}

NoStatus == {}

NoAddress == {}

MCAddresses == {8}

MCNopSlot == {Nop}
=============================================================================
