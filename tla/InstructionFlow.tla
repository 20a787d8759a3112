-------------------------- MODULE InstructionFlow --------------------------
(***************************************************************************)
(* What the interpreter promises of a program of plain instructions,       *)
(* branches and jumps: the order in which they are executed, with the      *)
(* address of the next instruction and of the one after it as the whole    *)
(* state.  It is the order of the reference the repository keeps           *)
(* (src/Docs/n64ops/N64OPS#B2.txt, "Jump and Branch Instructions").        *)
(***************************************************************************)
EXTENDS MipsCode

CONSTANTS Instructions,       \* what a fetch may return
          BootAddresses,      \* where execution may start
          SlotInstructions    \* what programs put into a delay slot

VARIABLES pc, npc, ra, last

flowVars == <<pc, npc, ra, last>>

Init == /\ pc \in BootAddresses
        /\ npc = Plus(pc, 4)
        /\ ra \in BootAddresses
        /\ last = [at |-> pc, inst |-> Nop, taken |-> FALSE]

Target(inst) == IF inst.op = "return" THEN ra ELSE inst.target

Fetched == IF LeavesSlot(last) THEN SlotInstructions ELSE Instructions

Follow(e) ==
    IF SkipsSlot(e)
    THEN /\ pc' = Plus(npc, 4)
         /\ npc' = Plus(npc, 8)
    ELSE /\ pc' = npc
         /\ npc' = IF Transfers(e.inst) /\ e.taken THEN Target(e.inst)
                                                   ELSE Plus(npc, 4)

Run(inst, taken) ==
    LET e == [at |-> pc, inst |-> inst, taken |-> taken]
    IN  /\ last' = e
        /\ inst \in Fetched
        /\ Follow(e)
        /\ ra' = IF inst.link THEN Plus(pc, 8) ELSE ra

Next == \E inst \in Instructions \cup SlotInstructions, taken \in BOOLEAN :
            /\ Run(inst, taken)
            /\ inst.op # "branch" => taken

Spec == Init /\ [][Next]_flowVars
=============================================================================
