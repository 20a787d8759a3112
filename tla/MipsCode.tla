------------------------------ MODULE MipsCode ------------------------------
(***************************************************************************)
(* Addresses and instructions as the control flow of the interpreter sees  *)
(* them.  An instruction keeps what decides where execution goes next; the *)
(* values a branch compares are a choice of the step that executes it.     *)
(***************************************************************************)
EXTENDS Integers

CONSTANT AddressSpace   \* number of byte addresses: 2^64 in the program

ASSUME AddressSpaceAssumption ==
    AddressSpace \in Nat /\ AddressSpace > 8 /\ AddressSpace % 4 = 0

Address == 0 .. AddressSpace - 1

\* Where instructions are.
WordAddress == {a \in Address : a % 4 = 0}

\* Int64 addition wraps around.
Plus(a, d) == IF a + d < AddressSpace THEN a + d ELSE a + d - AddressSpace

Minus4(a) == IF a >= 4 THEN a - 4 ELSE a - 4 + AddressSpace

\* "branch" is every conditional branch, "jump" is J, JAL and JALR, "return"
\* is JR to the link register, "trap" stands for SYSCALL, BREAK and the taken
\* conditional traps, "plain" for the instructions that only compute.  A target
\* is that of the field, which counts words, or of a register that holds the
\* address of an instruction.
Ops == {"plain", "branch", "jump", "return", "trap", "eret",
        "mtc0Status", "mtc0EPC", "mtc0ErrorEPC"}

Instruction == [op : Ops, likely : BOOLEAN, link : BOOLEAN, target : WordAddress]

Nop == [op |-> "plain", likely |-> FALSE, link |-> FALSE, target |-> 0]

Transfers(inst) == inst.op \in {"branch", "jump", "return"}

\* An executed instruction: where it stood and whether its condition held.
Execution == [at : Address, inst : Instruction, taken : BOOLEAN]

\* A likely branch that is not taken skips its delay slot.
SkipsSlot(e) == e.inst.op = "branch" /\ e.inst.likely /\ ~e.taken

\* The next instruction is the delay slot of e.
LeavesSlot(e) == Transfers(e.inst) /\ ~SkipsSlot(e)
=============================================================================
