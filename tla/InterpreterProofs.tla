------------------------- MODULE InterpreterProofs -------------------------
(***************************************************************************)
(* Proofs about Interpreter, for every address space and every program:    *)
(* addresses stay within the space, the two-step branch machinery executes *)
(* user programs as the reference does, and an interrupt never overwrites  *)
(* the address a handler returns to.                                       *)
(***************************************************************************)
EXTENDS Interpreter, TLAPS

\* Addition stays in the address space and wraps like one sum.
LEMMA PlusTyped ==
    ASSUME NEW a \in Address, NEW d \in {4, 8} PROVE Plus(a, d) \in Address
  BY AddressSpaceAssumption DEF Plus, Address

\* Words stay words.
LEMMA PlusWord ==
    ASSUME NEW a \in WordAddress, NEW d \in {4, 8} PROVE Plus(a, d) \in WordAddress
  BY AddressSpaceAssumption DEF Plus, Address, WordAddress

LEMMA PlusSums ==
    ASSUME NEW a \in Address
    PROVE  /\ Plus(Plus(a, 4), 4) = Plus(a, 8)
           /\ Plus(Plus(a, 4), 8) = Plus(Plus(a, 8), 4)
  BY AddressSpaceAssumption DEF Plus, Address

LEMMA Minus4Typed == ASSUME NEW a \in Address PROVE Minus4(a) \in Address
  BY AddressSpaceAssumption DEF Minus4, Address

LEMMA ZeroIsWord == 0 \in WordAddress /\ WordAddress \subseteq Address
  BY AddressSpaceAssumption DEF WordAddress, Address

LEMMA NopTyped == Nop \in Instruction
  BY ZeroIsWord DEF Nop, Instruction, Ops

-----------------------------------------------------------------------------
(* Types *)

\* What an instruction leaves in the registers it may change.
LEMMA CallTyped ==
    ASSUME TypeOK, NEW inst \in Instruction, NEW taken \in BOOLEAN,
           NEW addr \in Address, NEW cur \in Address,
           CallInstruction(inst, taken, addr, cur)
    PROVE  /\ BranchTarget' \in Address /\ BranchDelaySlot' \in Address
           /\ ra' \in Address /\ NullifyEnabled' \in BOOLEAN
           /\ Status' \in StatusRegister
           /\ EPC' \in Address /\ ErrorEPC' \in Address
           /\ ExcCode' \in BOOLEAN /\ BD' \in BOOLEAN
           /\ last' \in Execution
           /\ PcAfter(inst, cur) \in Address
  <1>1. inst.target \in Address /\ inst.likely \in BOOLEAN
    BY ZeroIsWord DEF Instruction
  <1>2. /\ Plus(cur, 4) \in Address /\ Plus(cur, 8) \in Address
        /\ Plus(addr, 8) \in Address
    BY PlusTyped
  <1>3. BranchTarget' \in Address /\ BranchDelaySlot' \in Address
    BY <1>1, <1>2 DEF CallInstruction, SetBranch, NewTarget, Destination, TypeOK
  <1>4. NullifyEnabled' \in BOOLEAN
    BY <1>1 DEF CallInstruction, SetBranch, NewNullify, TypeOK
  <1>5. ra' \in Address
    BY <1>2 DEF CallInstruction, TypeOK
  <1>6. last' \in Execution
    BY DEF CallInstruction, Execution
  <1>7. PcAfter(inst, cur) \in Address
    BY DEF PcAfter, ReturnAddress, TypeOK
  <1>8. /\ Status' \in StatusRegister
        /\ EPC' \in Address /\ ErrorEPC' \in Address
        /\ ExcCode' \in BOOLEAN /\ BD' \in BOOLEAN
    <2>1. SystemEffect(inst)
      BY DEF CallInstruction
    <2>2. CASE Eret
      <3>1. Status' \in StatusRegister
        BY <2>2 DEF Eret, TypeOK, StatusRegister
      <3>2. ExcCode' \in BOOLEAN /\ BD' \in BOOLEAN
        BY <2>2, Zenon DEF Eret, TypeOK
      <3> QED BY <2>2, <3>1, <3>2 DEF Eret, TypeOK
    <2>3. CASE Trap
      BY <2>3 DEF Trap, TypeOK
    <2>4. CASE Mtc0(inst) /\ ~Trap
      BY <2>4, InterpreterAssumption DEF Mtc0, TypeOK
    <2>5. CASE UNCHANGED cp0Vars
      BY <2>5 DEF cp0Vars, TypeOK
    <2> QED BY <2>1, <2>2, <2>3, <2>4, <2>5 DEF SystemEffect
  <1> QED BY <1>3, <1>4, <1>5, <1>6, <1>7, <1>8

\* What a user program leaves there are words.
LEMMA CallWords ==
    ASSUME FlowPrograms, TypeOK, NEW inst \in Instruction, NEW taken \in BOOLEAN,
           NEW addr \in WordAddress, NEW cur \in WordAddress,
           CallInstruction(inst, taken, addr, cur), inst.op # "eret"
    PROVE  /\ {BranchTarget, BranchDelaySlot, ra}' \subseteq WordAddress
           /\ PcAfter(inst, cur) = cur
  <1>1. inst.target \in WordAddress /\ ra \in WordAddress
    BY DEF Instruction, TypeOK
  <1>2. /\ Plus(cur, 4) \in WordAddress /\ Plus(cur, 8) \in WordAddress
        /\ Plus(addr, 8) \in WordAddress
    BY PlusWord
  <1>3. BranchTarget' \in WordAddress /\ BranchDelaySlot' \in WordAddress
    BY <1>1, <1>2 DEF CallInstruction, SetBranch, NewTarget, Destination, TypeOK
  <1>4. ra' \in WordAddress
    BY <1>1, <1>2 DEF CallInstruction
  <1> QED BY <1>3, <1>4 DEF PcAfter

\* The types, apart from the words.
Typed ==
    /\ {PC, BranchTarget, BranchDelaySlot, ra, EPC, ErrorEPC} \subseteq Address
    /\ BranchEnabled \in BOOLEAN /\ NullifyEnabled \in BOOLEAN
    /\ Status \in StatusRegister
    /\ ExcCode \in BOOLEAN /\ BD \in BOOLEAN
    /\ last \in Execution

Words == {PC, BranchTarget, BranchDelaySlot, ra} \subseteq WordAddress

LEMMA Types == TypeOK <=> Typed /\ (FlowPrograms => Words)
  BY DEF TypeOK, Typed, Words

\* Every step keeps the types.
LEMMA TypedInductive == TypeOK /\ [Next]_vars => Typed'
  <1> SUFFICES ASSUME TypeOK, [Next]_vars PROVE Typed'
    OBVIOUS
  <1>1. ASSUME NEW inst \in Instructions, NEW taken \in BOOLEAN,
               PlainStep(inst, taken)
        PROVE Typed'
    <2>1. inst \in Instruction
      BY InterpreterAssumption
    <2>2. /\ CallInstruction(inst, taken, PC, PC) /\ PC \in Address
          /\ BranchEnabled' = Transfers(inst)
      BY <1>1 DEF PlainStep, TypeOK
    <2>3. PC' \in Address
      BY <1>1, <2>1, <2>2, CallTyped, PlusTyped DEF PlainStep
    <2>4. BranchEnabled' \in BOOLEAN
      BY <2>2 DEF Transfers
    <2> QED BY <2>1, <2>2, <2>3, <2>4, CallTyped DEF Typed
  <1>2. ASSUME NEW inst \in SlotInstructions, NEW taken \in BOOLEAN,
               SlotStep(inst, taken)
        PROVE Typed'
    <2>1. inst \in Instruction
      BY InterpreterAssumption
    <2>2. /\ CallInstruction(inst, taken, BranchDelaySlot, BranchTarget)
          /\ BranchDelaySlot \in Address /\ BranchTarget \in Address
          /\ BranchEnabled' \in BOOLEAN /\ PC' = PcAfter(inst, BranchTarget)
      BY <1>2 DEF SlotStep, TypeOK
    <2> QED BY <2>1, <2>2, CallTyped DEF Typed
  <1>3. CASE NullifyStep
    BY <1>3 DEF NullifyStep, TypeOK, Typed, cp0Vars
  <1>4. CASE RaiseInterrupt
    <2>1. PC' \in Address /\ EPC' \in Address
      BY <1>4, InterpreterAssumption, Minus4Typed DEF RaiseInterrupt, TypeOK
    <2>2. Status' \in StatusRegister
      BY <1>4 DEF RaiseInterrupt, TypeOK, StatusRegister
    <2>3. BD' \in BOOLEAN /\ ExcCode' \in BOOLEAN
      BY <1>4, Zenon DEF RaiseInterrupt, TypeOK
    <2> QED BY <1>4, <2>1, <2>2, <2>3 DEF RaiseInterrupt, TypeOK, Typed, branchVars
  <1>5. CASE UNCHANGED vars
    BY <1>5 DEF TypeOK, Typed, vars, branchVars, cp0Vars
  <1> QED BY <1>1, <1>2, <1>3, <1>4, <1>5 DEF Next

\* Every step of a user program leaves the addresses of words.
LEMMA WordsInductive == FlowPrograms /\ TypeOK /\ [Next]_vars => Words'
  <1> SUFFICES ASSUME FlowPrograms, TypeOK, [Next]_vars PROVE Words'
    OBVIOUS
  <1>0. Words
    BY DEF TypeOK, Words
  <1>1. ASSUME NEW inst \in Instructions, NEW taken \in BOOLEAN,
               PlainStep(inst, taken)
        PROVE Words'
    <2>1. inst \in Instruction /\ inst.op # "eret" /\ PC \in WordAddress
      BY <1>0, InterpreterAssumption DEF FlowPrograms, Words
    <2>2. CallInstruction(inst, taken, PC, PC)
      BY <1>1 DEF PlainStep
    <2>3. {BranchTarget, BranchDelaySlot, ra}' \subseteq WordAddress
          /\ PcAfter(inst, PC) = PC
      BY <2>1, <2>2, CallWords
    <2>4. PC' \in WordAddress
      BY <1>1, <2>1, <2>3, PlusWord DEF PlainStep
    <2> QED BY <2>3, <2>4 DEF Words
  <1>2. ASSUME NEW inst \in SlotInstructions, NEW taken \in BOOLEAN,
               SlotStep(inst, taken)
        PROVE Words'
    <2>1. /\ inst \in Instruction /\ inst.op # "eret"
          /\ BranchDelaySlot \in WordAddress /\ BranchTarget \in WordAddress
      BY <1>0, InterpreterAssumption DEF FlowPrograms, Words
    <2>2. CallInstruction(inst, taken, BranchDelaySlot, BranchTarget)
          /\ PC' = PcAfter(inst, BranchTarget)
      BY <1>2 DEF SlotStep
    <2>3. {BranchTarget, BranchDelaySlot, ra}' \subseteq WordAddress
          /\ PcAfter(inst, BranchTarget) = BranchTarget
      BY <2>1, <2>2, CallWords
    <2> QED BY <2>1, <2>2, <2>3 DEF Words
  <1>3. CASE NullifyStep
    BY <1>0, <1>3 DEF NullifyStep, Words
  <1>4. CASE RaiseInterrupt
    BY <1>4 DEF RaiseInterrupt, FlowPrograms
  <1>5. CASE UNCHANGED vars
    BY <1>0, <1>5 DEF Words, vars, branchVars
  <1> QED BY <1>1, <1>2, <1>3, <1>4, <1>5 DEF Next

LEMMA TypeInductive == TypeOK /\ [Next]_vars => TypeOK'
  <1> SUFFICES ASSUME TypeOK, [Next]_vars PROVE TypeOK'
    OBVIOUS
  <1>1. Typed' /\ (FlowPrograms => Words')
    BY TypedInductive, WordsInductive
  <1> QED BY <1>1 DEF TypeOK, Typed, Words, FlowPrograms

\* All addresses the interpreter computes, across the wrap too, are in the
\* address space, whatever the program, and those of words as long as it is a
\* user program.
THEOREM TypeCorrect == Spec => []TypeOK
  <1>1. Init => TypeOK
    <2> SUFFICES ASSUME Init PROVE TypeOK
      OBVIOUS
    <2>1. /\ PC \in Address /\ ra \in Address
          /\ PC \in WordAddress /\ ra \in WordAddress
      BY InterpreterAssumption, ZeroIsWord DEF Init
    <2>2. last \in Execution
      BY <2>1, NopTyped DEF Init, Execution
    <2>3. /\ BranchTarget \in Address /\ BranchDelaySlot \in Address
          /\ EPC \in Address /\ ErrorEPC \in Address
      BY AddressSpaceAssumption, InterpreterAssumption DEF Init, Address
    <2>4. Status \in StatusRegister
      BY DEF Init, StatusRegister
    <2> QED BY <2>1, <2>2, <2>3, <2>4, ZeroIsWord DEF Init, TypeOK
  <1> QED BY <1>1, TypeInductive, PTL DEF Spec

-----------------------------------------------------------------------------
(* The pending branch *)

\* Every step of a user program keeps the record of the pending branch.
LEMMA PendingInductive ==
    ASSUME FlowPrograms
    PROVE  TypeOK /\ PendingBranch /\ [Next]_vars => PendingBranch'
  <1> SUFFICES ASSUME TypeOK, PendingBranch, [Next]_vars PROVE PendingBranch'
    OBVIOUS
  <1>1. ASSUME NEW inst \in Instructions, NEW taken \in BOOLEAN,
               PlainStep(inst, taken)
        PROVE PendingBranch'
    <2>1. /\ last' = [at |-> PC, inst |-> inst, taken |-> taken]
          /\ SetBranch(inst, taken, PC) /\ ~NullifyEnabled
          /\ BranchEnabled' = Transfers(inst)
          /\ inst.op # "branch" => taken
          /\ PC' = Plus(PC, IF Transfers(inst) THEN 8 ELSE 4)
      BY <1>1 DEF PlainStep, CallInstruction, PendingBranch, PcAfter,
                  FlowPrograms
    <2>2. inst.likely \in BOOLEAN
      BY InterpreterAssumption DEF Instruction
    <2>3. CASE Transfers(inst)
      <3>1. /\ BranchDelaySlot' = Plus(PC, 4)
            /\ NullifyEnabled' = NewNullify(inst, taken)
            /\ BranchTarget' = NewTarget(inst, taken, PC)
        BY <2>1, <2>3 DEF SetBranch
      <3>2. NullifyEnabled' <=> SkipsSlot(last')
        BY <2>1, <2>2, <3>1, Zenon DEF NewNullify, SkipsSlot
      <3>3. SkipsSlot(last') => BranchTarget' = PC'
        BY <2>1, <2>3, <3>1 DEF SkipsSlot, NewTarget, Destination
      <3> QED BY <2>1, <2>3, <3>1, <3>2, <3>3 DEF PendingBranch
    <2>4. CASE ~Transfers(inst)
      BY <2>1, <2>4 DEF SetBranch, PendingBranch, LeavesSlot
    <2> QED BY <2>3, <2>4
  <1>2. ASSUME NEW inst \in SlotInstructions, NEW taken \in BOOLEAN,
               SlotStep(inst, taken)
        PROVE PendingBranch'
    <2>1. ~Transfers(inst)
      BY DEF FlowPrograms
    <2>2. /\ last'.inst = inst /\ BranchEnabled' = FALSE
          /\ NullifyEnabled' = NullifyEnabled /\ ~NullifyEnabled
      BY <1>2, <2>1 DEF SlotStep, CallInstruction, SetBranch
    <2> QED BY <2>1, <2>2 DEF PendingBranch, LeavesSlot
  <1>3. CASE NullifyStep
    BY <1>3 DEF NullifyStep, PendingBranch, LeavesSlot
  <1>4. CASE RaiseInterrupt
    BY <1>4 DEF RaiseInterrupt, FlowPrograms
  <1>5. CASE UNCHANGED vars
    BY <1>5 DEF PendingBranch, vars, branchVars
  <1> QED BY <1>1, <1>2, <1>3, <1>4, <1>5 DEF Next

\* For every user program, slot and target recorded between the two steps of
\* a branch are those of the branch executed last.
THEOREM PendingBranchHolds ==
    ASSUME FlowPrograms PROVE Spec => []PendingBranch
  <1>1. Init => PendingBranch
    BY DEF Init, PendingBranch, LeavesSlot, Transfers, Nop
  <1> QED BY <1>1, TypeCorrect, PendingInductive, PTL DEF Spec

-----------------------------------------------------------------------------
(* Refinement *)

\* The reference reads the same instructions and addresses as the interpreter.
LEMMA FlowPlus == \A a, d : Flow!Plus(a, d) = Plus(a, d)
  BY DEF Flow!Plus, Plus

LEMMA FlowCode ==
    /\ Flow!Nop = Nop
    /\ \A inst : Flow!Transfers(inst) <=> Transfers(inst)
    /\ \A e : Flow!SkipsSlot(e) <=> SkipsSlot(e)
    /\ \A e : Flow!LeavesSlot(e) <=> LeavesSlot(e)
  BY DEF Flow!Nop, Nop, Flow!Transfers, Transfers, Flow!SkipsSlot, SkipsSlot,
         Flow!LeavesSlot, LeavesSlot

\* The first step of a branch, or any other instruction outside a slot, is one
\* instruction of the reference.
LEMMA PlainStepFlows ==
    ASSUME FlowPrograms, TypeOK, PendingBranch,
           NEW inst \in Instructions, NEW taken \in BOOLEAN,
           PlainStep(inst, taken)
    PROVE  Flow!Run(inst, taken)
  <1> DEFINE e == [at |-> PC, inst |-> inst, taken |-> taken]
  <1>1. /\ ~BranchEnabled /\ PC \in Address /\ ~NullifyEnabled
        /\ last' = e /\ SetBranch(inst, taken, PC)
        /\ ra' = IF inst.link THEN Plus(PC, 8) ELSE ra
        /\ BranchEnabled' = Transfers(inst)
        /\ inst.op # "branch" => taken
        /\ PC' = Plus(PC, IF Transfers(inst) THEN 8 ELSE 4)
    BY DEF PlainStep, CallInstruction, PendingBranch, PcAfter, FlowPrograms,
           TypeOK
  <1>2. inst.likely \in BOOLEAN
    BY InterpreterAssumption DEF Instruction
  <1>3. NextPC = PC /\ NextNextPC = Plus(PC, 4)
    BY <1>1 DEF NextPC, NextNextPC
  <1>4. /\ Plus(Plus(PC, 4), 4) = Plus(PC, 8)
        /\ Plus(Plus(PC, 4), 8) = Plus(Plus(PC, 8), 4)
    BY <1>1, PlusSums
  <1>5. Flow!Follow(e)
    <2>1. CASE ~Transfers(inst)
      <3>1. ~SkipsSlot(e) /\ ~Transfers(e.inst)
        BY <2>1 DEF SkipsSlot, Transfers
      <3>2. NextPC' = Plus(PC, 4) /\ NextNextPC' = Plus(Plus(PC, 4), 4)
        BY <1>1, <2>1 DEF NextPC, NextNextPC, Transfers
      <3> QED BY <1>3, <3>1, <3>2, FlowPlus, FlowCode DEF Flow!Follow
    <2>2. CASE Transfers(inst)
      <3>1. /\ BranchDelaySlot' = Plus(PC, 4) /\ BranchEnabled'
            /\ NullifyEnabled' = NewNullify(inst, taken)
            /\ BranchTarget' = NewTarget(inst, taken, PC)
        BY <1>1, <2>2 DEF SetBranch
      <3>2. NullifyEnabled' <=> SkipsSlot(e)
        BY <1>1, <1>2, <3>1, Zenon DEF NewNullify, SkipsSlot
      <3>3. CASE SkipsSlot(e)
        BY <1>3, <1>4, <3>1, <3>2, <3>3, FlowPlus, FlowCode
           DEF Flow!Follow, NextPC, NextNextPC, SkipsSlot, NewTarget, Destination
      <3>4. CASE ~SkipsSlot(e)
        BY <1>1, <1>3, <1>4, <2>2, <3>1, <3>2, <3>4, FlowPlus, FlowCode
           DEF Flow!Follow, Flow!Target, NextPC, NextNextPC, NewTarget, Destination,
               Transfers
      <3> QED BY <3>3, <3>4
    <2> QED BY <2>1, <2>2
  <1>6. inst \in Flow!Fetched
    BY <1>1, FlowCode DEF Flow!Fetched, PendingBranch
  <1> QED BY <1>1, <1>3, <1>5, <1>6, FlowPlus DEF Flow!Run

\* The delay slot executed by the second step of a branch is one instruction
\* of the reference.
LEMMA SlotStepFlows ==
    ASSUME FlowPrograms, TypeOK, PendingBranch,
           NEW inst \in SlotInstructions, NEW taken \in BOOLEAN,
           SlotStep(inst, taken)
    PROVE  Flow!Run(inst, taken)
  <1> DEFINE e == [at |-> BranchDelaySlot, inst |-> inst, taken |-> taken]
  <1>1. inst.op # "eret" /\ ~Transfers(inst)
    BY DEF FlowPrograms
  <1>2. /\ BranchEnabled /\ ~NullifyEnabled /\ ~BranchEnabled'
        /\ last' = e /\ PC' = BranchTarget
        /\ ra' = IF inst.link THEN Plus(BranchDelaySlot, 8) ELSE ra
    BY <1>1 DEF SlotStep, CallInstruction, PcAfter
  <1>3. NextPC = BranchDelaySlot /\ NextNextPC = BranchTarget
    BY <1>2 DEF NextPC, NextNextPC
  <1>4. Flow!Follow(e)
    BY <1>1, <1>2, <1>3, FlowPlus, FlowCode
       DEF Flow!Follow, NextPC, NextNextPC, SkipsSlot, Transfers
  <1>5. inst \in Flow!Fetched
    BY <1>2, FlowCode DEF Flow!Fetched, PendingBranch, LeavesSlot
  <1> QED BY <1>2, <1>3, <1>4, <1>5, FlowPlus DEF Flow!Run

\* Skipping a slot is no step of the reference.
LEMMA NullifyStutters ==
    ASSUME PendingBranch, NullifyStep
    PROVE  UNCHANGED <<NextPC, NextNextPC, ra, last>>
  BY DEF NullifyStep, PendingBranch, NextPC, NextNextPC

\* For every user program and every address space the interpreter executes the
\* instructions the reference names, in its order, each exactly once.
THEOREM InterpreterImplementsFlow ==
    ASSUME FlowPrograms PROVE Spec => ImplementsFlow
  <1>1. Init => Flow!Init
    BY FlowPlus, FlowCode DEF Init, Flow!Init, NextPC, NextNextPC
  <1>2. ASSUME TypeOK, PendingBranch, [Next]_vars
        PROVE  [Flow!Next]_(Flow!flowVars)
    <2>1. ASSUME NEW inst \in Instructions, NEW taken \in BOOLEAN,
                 PlainStep(inst, taken)
          PROVE Flow!Next
      <3>1. Flow!Run(inst, taken) /\ (inst.op # "branch" => taken)
        BY <1>2, <2>1, PlainStepFlows DEF PlainStep, CallInstruction
      <3> QED BY <3>1, Zenon DEF Flow!Next
    <2>2. ASSUME NEW inst \in SlotInstructions, NEW taken \in BOOLEAN,
                 SlotStep(inst, taken)
          PROVE Flow!Next
      <3>1. Flow!Run(inst, taken) /\ (inst.op # "branch" => taken)
        BY <1>2, <2>2, SlotStepFlows DEF SlotStep, CallInstruction
      <3> QED BY <3>1, Zenon DEF Flow!Next
    <2>3. CASE NullifyStep
      BY <1>2, <2>3, NullifyStutters DEF Flow!flowVars
    <2>4. CASE RaiseInterrupt
      BY <2>4 DEF RaiseInterrupt, FlowPrograms
    <2>5. CASE UNCHANGED vars
      BY <2>5 DEF vars, branchVars, Flow!flowVars, NextPC, NextNextPC
    <2> QED BY <1>2, <2>1, <2>2, <2>3, <2>4, <2>5 DEF Next
  <1> QED BY <1>1, <1>2, TypeCorrect, PendingBranchHolds, PTL
          DEF Spec, ImplementsFlow, Flow!Spec

-----------------------------------------------------------------------------
(* Interrupts *)

\* With the exception level set, only a write of the program changes EPC.
THEOREM HandlersKeepEPC == Spec => HandlerKeepsEPC
  <1>1. [Next]_vars => [Status.EXL /\ EPC' # EPC => last'.inst.op = "mtc0EPC"]_vars
    <2> SUFFICES ASSUME Next, Status.EXL, EPC' # EPC
                 PROVE  last'.inst.op = "mtc0EPC"
      OBVIOUS
    <2>1. ASSUME NEW inst, NEW taken, NEW addr, NEW cur,
                 CallInstruction(inst, taken, addr, cur)
          PROVE  last'.inst.op = "mtc0EPC"
      <3>1. Eret \/ Trap \/ Mtc0(inst) \/ UNCHANGED cp0Vars
        BY <2>1 DEF CallInstruction, SystemEffect
      <3>2. inst.op = "mtc0EPC" /\ last'.inst = inst
        BY <2>1, <3>1 DEF CallInstruction, Eret, Trap, Mtc0, cp0Vars
      <3> QED BY <3>2
    <2>2. CASE NullifyStep
      BY <2>2 DEF NullifyStep, cp0Vars
    <2>3. CASE RaiseInterrupt
      BY <2>3 DEF RaiseInterrupt, InterruptsOpen
    <2> QED BY <2>1, <2>2, <2>3 DEF Next, PlainStep, SlotStep
  <1> QED BY <1>1, PTL DEF Spec, HandlerKeepsEPC
=============================================================================
