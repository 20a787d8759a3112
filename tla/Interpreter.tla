---------------------------- MODULE Interpreter ----------------------------
(***************************************************************************)
(* The step of the CPU interpreter: MipsR4300/Interpreter.cs with the      *)
(* branches of Interpreter_Branch.cs, ERET of Interpreter_TLB.cs, the      *)
(* instructions that report an exception, MTC0, and the interrupt entry of *)
(* MipsR4300Core.cs.  A branch is split over two calls of Step: the first  *)
(* records a pending branch, the second goes to its target and executes or *)
(* skips the delay slot.                                                   *)
(*                                                                         *)
(* Left out: Count and BranchPC, which no other code reads to decide       *)
(* anything, and the opcodes the tables do not implement, which throw and  *)
(* end the emulation.                                                      *)
(***************************************************************************)
EXTENDS MipsCode

CONSTANTS Instructions,       \* what a fetch may return
          SlotInstructions,   \* what programs put into a delay slot
          BootAddresses,      \* PC and ra as the boot snapshot sets them
          WrittenStatus,      \* values programs write to Status
          WrittenAddresses,   \* values programs write to EPC and ErrorEPC
          DeviceInterrupts,   \* whether a device calls RaiseInterrupt
          Vector,             \* 0x80000180
          ResetEPC            \* 0xFFFFFFFF

\* CU0: coprocessor 0 usable; IE: interrupts enabled and not masked.
StatusRegister == [CU0 : BOOLEAN, IE : BOOLEAN, EXL : BOOLEAN, ERL : BOOLEAN]

ASSUME InterpreterAssumption ==
    /\ Instructions \subseteq Instruction
    /\ SlotInstructions \subseteq Instruction
    /\ BootAddresses \subseteq WordAddress
    /\ WrittenStatus \subseteq StatusRegister
    /\ WrittenAddresses \subseteq Address
    /\ DeviceInterrupts \in BOOLEAN
    /\ Vector \in Address /\ ResetEPC \in Address

VARIABLES
    PC, BranchEnabled, NullifyEnabled, BranchTarget, BranchDelaySlot,
    ra,                  \* GPR 31
    Status, EPC, ErrorEPC,
    ExcCode,             \* whether Cause reports an instruction's exception
    BD,                  \* Cause: the interrupt came with a branch pending
    last                 \* history: the instruction executed last

branchVars == <<BranchEnabled, NullifyEnabled, BranchTarget, BranchDelaySlot>>
cp0Vars == <<Status, EPC, ErrorEPC, ExcCode, BD>>
vars == <<PC, branchVars, ra, cp0Vars, last>>

\* ExecutionState as constructed, SetInitialState and the boot that follows:
\* PC and ra come from the boot snapshot.
Init ==
    /\ PC \in BootAddresses
    /\ BranchEnabled = FALSE /\ NullifyEnabled = FALSE
    /\ BranchTarget = 0 /\ BranchDelaySlot = 0
    /\ ra \in BootAddresses
    /\ Status = [CU0 |-> TRUE, IE |-> FALSE, EXL |-> FALSE, ERL |-> FALSE]
    /\ EPC = ResetEPC /\ ErrorEPC = ResetEPC
    /\ ExcCode = FALSE /\ BD = FALSE
    /\ last = [at |-> PC, inst |-> Nop, taken |-> FALSE]

-----------------------------------------------------------------------------
(* CallInstruction: cur is MipsState.PC while the instruction runs, which  *)
(* in a delay slot is already the target of the branch.  BranchEnabled and *)
(* PC are assigned by the step, below.                                     *)

\* Faulty variant: the target field of the instruction is not shifted left by
\* two.
Destination_Unshifted(inst) == IF inst.op = "return" THEN ra ELSE inst.target \div 4

Destination(inst) == IF inst.op = "return" THEN ra ELSE inst.target

\* Faulty variant: a branch that is not taken goes to its delay slot.
NewTarget_Slot(inst, taken, cur) ==
    IF inst.op = "branch" /\ ~taken THEN Plus(cur, 4) ELSE Destination(inst)

\* DoBranch and DoJump.
NewTarget(inst, taken, cur) ==
    IF inst.op = "branch" /\ ~taken THEN Plus(cur, 8) ELSE Destination(inst)

\* Faulty variant: DoBranchLikely sets the flag and never clears it.
NewNullify_Always(inst, taken) ==
    NullifyEnabled \/ (inst.op = "branch" /\ inst.likely)

\* DoBranchLikely assigns NullifyEnabled, the other branches leave it alone.
NewNullify(inst, taken) ==
    IF inst.op = "branch" /\ inst.likely THEN ~taken ELSE NullifyEnabled

SetBranch(inst, taken, cur) ==
    IF Transfers(inst)
    THEN /\ BranchTarget' = NewTarget(inst, taken, cur)
         /\ BranchDelaySlot' = Plus(cur, 4)
         /\ NullifyEnabled' = NewNullify(inst, taken)
    ELSE UNCHANGED <<BranchTarget, BranchDelaySlot, NullifyEnabled>>

\* ERET: the return address depends on EXL.
ReturnAddress == IF Status.EXL THEN ErrorEPC ELSE EPC

PcAfter(inst, cur) == IF inst.op = "eret" THEN ReturnAddress ELSE cur

Eret ==
    /\ Status' = [Status EXCEPT !.EXL = FALSE]
    /\ ExcCode' = (ExcCode \/ Status.CU0)
    /\ UNCHANGED <<EPC, ErrorEPC, BD>>

\* SYSCALL, BREAK and the traps only record a cause.
Trap == ExcCode' = TRUE /\ UNCHANGED <<Status, EPC, ErrorEPC, BD>>

Mtc0(inst) ==
    IF ~Status.CU0 THEN Trap
    ELSE /\ IF inst.op = "mtc0Status" THEN Status' \in WrittenStatus
                                      ELSE Status' = Status
         /\ IF inst.op = "mtc0EPC" THEN EPC' \in WrittenAddresses
                                   ELSE EPC' = EPC
         /\ IF inst.op = "mtc0ErrorEPC" THEN ErrorEPC' \in WrittenAddresses
                                        ELSE ErrorEPC' = ErrorEPC
         /\ UNCHANGED <<ExcCode, BD>>

SystemEffect(inst) ==
    CASE inst.op = "eret" -> Eret
      [] inst.op = "trap" -> Trap
      [] inst.op \in {"mtc0Status", "mtc0EPC", "mtc0ErrorEPC"} -> Mtc0(inst)
      [] OTHER -> UNCHANGED cp0Vars

CallInstruction(inst, taken, addr, cur) ==
    /\ inst.op # "branch" => taken
    /\ SetBranch(inst, taken, cur)
    /\ SystemEffect(inst)
    /\ ra' = IF inst.link THEN Plus(addr, 8) ELSE ra
    /\ last' = [at |-> addr, inst |-> inst, taken |-> taken]

-----------------------------------------------------------------------------
(* DoInterpreterStep *)

\* No branch pending: execute at PC, then skip the slot if one is now.
PlainStep(inst, taken) ==
    /\ ~BranchEnabled
    /\ inst \in Instructions
    /\ CallInstruction(inst, taken, PC, PC)
    /\ BranchEnabled' = Transfers(inst)
    /\ PC' = Plus(PcAfter(inst, PC), IF Transfers(inst) THEN 8 ELSE 4)

\* A branch is pending: go to its target and execute the delay slot.  A
\* branch in the slot is forgotten, except for what SetBranch assigned.
SlotStep(inst, taken) ==
    /\ BranchEnabled /\ ~NullifyEnabled
    /\ inst \in SlotInstructions
    /\ CallInstruction(inst, taken, BranchDelaySlot, BranchTarget)
    /\ BranchEnabled' = FALSE
    /\ PC' = PcAfter(inst, BranchTarget)

\* The slot of a likely branch that was not taken is skipped.
NullifyStep ==
    /\ BranchEnabled /\ NullifyEnabled
    /\ PC' = BranchTarget
    /\ BranchEnabled' = FALSE /\ NullifyEnabled' = FALSE
    /\ UNCHANGED <<BranchTarget, BranchDelaySlot, ra, cp0Vars, last>>

\* MipsInterface.RaiseInterrupt, MipsR4300Core.RaiseMaskableInterrupt and
\* CP0_GeneralException, between two steps.  The exception code is cleared
\* with the rest of Cause, and a pending branch stays pending.
InterruptsOpen_Nested == Status.IE /\ ~Status.ERL   \* faulty variant: EXL ignored

InterruptsOpen == Status.IE /\ ~Status.EXL /\ ~Status.ERL

RaiseInterrupt ==
    /\ DeviceInterrupts
    /\ ExcCode' = FALSE
    /\ IF InterruptsOpen
       THEN /\ Status' = [Status EXCEPT !.EXL = TRUE]
            /\ EPC' = IF BranchEnabled THEN Minus4(PC) ELSE PC
            /\ BD' = BranchEnabled
            /\ PC' = Vector
       ELSE UNCHANGED <<Status, EPC, BD, PC>>
    /\ UNCHANGED <<branchVars, ra, ErrorEPC, last>>

Next ==
    \/ \E inst \in Instructions, taken \in BOOLEAN : PlainStep(inst, taken)
    \/ \E inst \in SlotInstructions, taken \in BOOLEAN : SlotStep(inst, taken)
    \/ NullifyStep
    \/ RaiseInterrupt

Spec == Init /\ [][Next]_vars

-----------------------------------------------------------------------------
(* Properties *)

\* Programs of the architecture's user level: no ERET, no branch in a delay
\* slot (undefined by the architecture), and no device that interrupts.
FlowPrograms ==
    /\ \A inst \in Instructions : inst.op # "eret"
    /\ \A inst \in SlotInstructions : inst.op # "eret" /\ ~Transfers(inst)
    /\ ~DeviceInterrupts

\* Every variable keeps its type; the addresses of instructions that a user
\* program makes the interpreter compute are those of words, across the wrap
\* too.
TypeOK ==
    /\ {PC, BranchTarget, BranchDelaySlot, ra, EPC, ErrorEPC} \subseteq Address
    /\ FlowPrograms => {PC, BranchTarget, BranchDelaySlot, ra} \subseteq WordAddress
    /\ BranchEnabled \in BOOLEAN /\ NullifyEnabled \in BOOLEAN
    /\ Status \in StatusRegister
    /\ ExcCode \in BOOLEAN /\ BD \in BOOLEAN
    /\ last \in Execution

\* The address the architecture would execute next, and the one after it.
NextPC == IF BranchEnabled /\ ~NullifyEnabled THEN BranchDelaySlot
          ELSE IF BranchEnabled THEN BranchTarget ELSE PC

NextNextPC == IF BranchEnabled /\ ~NullifyEnabled THEN BranchTarget
                                                ELSE Plus(NextPC, 4)

Flow == INSTANCE InstructionFlow WITH pc <- NextPC, npc <- NextNextPC

\* Two steps of the interpreter to a branch make one instruction and its
\* delay slot of the reference: nothing is executed twice, skipped or out of
\* order, whatever mix of branches, likely branches and calls is run.
ImplementsFlow == Flow!Spec

\* Between the two steps of a branch the recorded slot and PC belong to the
\* branch executed last, and a slot is skipped for a likely branch only: no
\* flag of an earlier branch survives to be applied to a later one.
PendingBranch ==
    /\ NullifyEnabled => BranchEnabled
    /\ BranchEnabled =>
          /\ BranchDelaySlot = Plus(last.at, 4)
          /\ PC = Plus(last.at, 8)
          /\ Transfers(last.inst)
          /\ NullifyEnabled <=> SkipsSlot(last)
          /\ NullifyEnabled => BranchTarget = PC
    /\ ~BranchEnabled => ~LeavesSlot(last)

\* An interrupt never overwrites the address a handler returns to: while the
\* exception level is set only the program itself changes EPC.
HandlerKeepsEPC ==
    [][ (Status.EXL /\ EPC' # EPC) => last'.inst.op = "mtc0EPC" ]_vars

\* An ERET executed outside a delay slot.
ReturnsFromException == ~BranchEnabled /\ last' # last /\ last'.inst.op = "eret"

\* The reference: "Unlike a branch or jump instruction, ERET does not execute
\* the next instruction"; the next one executed is at the saved address.
EretResumes ==
    [][ ReturnsFromException => PC' \in {EPC, ErrorEPC} ]_vars
=============================================================================
