------------------------ MODULE StackDisciplineProofs ------------------------
(***************************************************************************)
(* The operand stack never runs empty and callees leave the operands of    *)
(* their callers alone: for all balanced programs, while each call keeps   *)
(* to the exception contexts that it made itself and no native method      *)
(* calls back.  Calls do keep to their contexts when try blocks are        *)
(* bracketed and exceptions are handled where they are raised.             *)
(***************************************************************************)
EXTENDS StackDiscipline, ProcessProofs

Inv == ProgramOK /\ TypeOK /\ Discipline

\* A turn leaves the operands of the callers alone.
CallersKept == \A n \in 1 .. Base : stack'[n] = stack[n]

-----------------------------------------------------------------------------
(* What an opcode does to the depth of the stack.                          *)

Replacing == BinaryOps \cup ElementIncOps
             \cup {"GetElement", "DeleteElement", "In", "SetProperty"}
             \cup UnaryOps \cup PropertyIncOps \cup IncOps
             \cup {"Typeof", "GetProperty", "LogicalNot", "DeleteProperty",
                   "SetElement", "NewArray", "NewObject", "PushLiteral",
                   "LoadVariable", "LoadCapture", "LoadGlobal", "PushFunction",
                   "ForOfIterator"}
Keeping == NextOps \cup {"Jump", "PushExceptionContext", "PopExceptionContext",
                          "FinallyComplete", "StoreVariableKeep", "StoreGlobal",
                          "StoreCaptureKeep", "Return", "Throw"}

LEMMA EffectValues ==
  ASSUME NEW op
  PROVE  /\ op.op \in Replacing => Effect(op) = 1 - Needs(op)
         /\ op.op \in {"Dup", "ForInKeys"} \cup HasMoreOps => Effect(op) = 1
         /\ op.op \in {"Pop", "JumpIfFalse", "JumpIfTrue", "JumpIfFalseOrPop",
                       "JumpIfTrueOrPop", "StoreVariable", "StoreCapture"}
              => Effect(op) = -1
         /\ op.op \in Keeping => Effect(op) = 0
         /\ op.op \in Cleanups => Effect(op) = -2 /\ Required(op) = 2
         /\ op.op \notin Cleanups => Required(op) = Needs(op)
         /\ op.op = "Call" => Effect(op) = 0 - op.arg
         /\ op.op = "MethodCall" => Effect(op) = -1 - op.arg
         /\ op.op \in {"JumpIfFalse", "JumpIfTrue"} => JumpEffect(op) = -1
         /\ op.op \in {"Jump", "JumpIfFalseOrPop", "JumpIfTrueOrPop"} => JumpEffect(op) = 0
  BY NeedsValues DEF Effect, JumpEffect, Required, Replacing, Keeping, Pushing, Popping,
     Cleanups, TwoOps, OneOps, NoneOps, BinaryOps, ArithmeticOps, ShiftOps, RelationalOps,
     EqualityOps, BitwiseOps, UnaryOps, ElementIncOps, PropertyIncOps, IncOps, NextOps,
     HasMoreOps

\* The depths of the program that runs
LEMMA DepthsOfProgram ==
  ASSUME ProgramOK, NEW b \in DOMAIN prog
  PROVE  /\ Len(prog[b].code) \in Nat
         /\ Depth(b, 0) = 0
         /\ \A p \in 0 .. Len(prog[b].code) : Depth(b, p) \in Nat
         /\ \A p \in 0 .. Len(prog[b].code) - 1 : FlowsFrom(prog[b], p)
         /\ prog[b].varCount \in Nat
  <1>1. IsBalanced(prog[b])
    BY BalancedAssumption DEF ProgramOK
  <1>2. Len(prog[b].code) \in Nat /\ prog[b].varCount \in Nat
    BY ProgramIsProgram, MaxSlotAssumption DEF IsProgram, IsFunction
  <1>. QED
    BY <1>1, <1>2 DEF IsBalanced, Depth

LEMMA BaseIsNat ==
  ASSUME TypeOK
  PROVE  Base \in Nat
  <1>1. CASE callStack = <<>>
    BY <1>1 DEF Base
  <1>2. CASE callStack # <<>>
    <2>1. Len(callStack) \in DOMAIN callStack
      BY <1>2 DEF TypeOK, FramesOK
    <2>. QED
      BY <1>2, <2>1, DepthsAreNat DEF Base, TopFrame
  <1>. QED
    BY <1>1, <1>2

\* What the function that runs has of its own when it fetches an opcode
LEMMA AtOpcode ==
  ASSUME Inv, NEW names, Fetch(names)
  PROVE  /\ Base \in Nat /\ sp \in Nat /\ pc \in 0 .. Len(Code) - 1 /\ Len(Code) \in Nat
         /\ Depth(body, pc) \in Nat /\ sp >= Base + Depth(body, pc)
         /\ FlowsFrom(prog[body], pc) /\ Depth(body, pc) >= Required(Op)
         /\ IsOpcode(Op, prog) /\ Op.op \in names /\ body \in DOMAIN prog
  <1>1. body \in DOMAIN prog /\ pc \in Int /\ sp \in Nat
    BY DEF Inv, TypeOK, FramesOK, StackOK
  <1>2. Len(Code) \in Nat /\ pc \in 0 .. Len(Code) - 1
    BY <1>1, DepthsOfProgram DEF Inv, Fetch, InRange, Code
  <1>3. FlowsFrom(prog[body], pc) /\ Depth(body, pc) \in Nat
    BY <1>1, <1>2, DepthsOfProgram DEF Inv, Code
  <1>4. sp >= Base + Depth(body, pc)
    BY <1>2, SMTT(40) DEF Inv, Discipline, RunningDepth, Fetch
  <1>5. Depth(body, pc) >= Required(Op)
    BY <1>3 DEF FlowsFrom, Depth, Op, Code
  <1>. QED
    BY <1>1, <1>2, <1>3, <1>4, <1>5, BaseIsNat, FetchType DEF Inv

\* Where it goes on, it finds the depth that is noted there.
LEMMA Onward ==
  ASSUME Inv, NEW names, Fetch(names), Op.op \notin {"Jump", "Return", "Throw"},
         Effect(Op) \in Int
  PROVE  /\ pc + 1 \in 0 .. Len(Code) /\ Depth(body, pc + 1) \in Nat
         /\ sp + Effect(Op) >= Base + Depth(body, pc + 1)
  <1>1. pc + 1 \in 0 .. Len(Code) /\ Depth(body, pc + 1) <= Depth(body, pc) + Effect(Op)
    BY AtOpcode DEF FlowsFrom, Depth, Op, Code
  <1>2. Depth(body, pc + 1) \in Nat
    BY <1>1, AtOpcode, DepthsOfProgram DEF Inv, Code
  <1>. QED
    BY <1>1, <1>2, AtOpcode, SMTT(30)

LEMMA Across ==
  ASSUME Inv, NEW names, Fetch(names), Op.op \in JumpOps, JumpEffect(Op) \in Int
  PROVE  /\ Op.arg \in 0 .. Len(Code) /\ Depth(body, Op.arg) \in Nat
         /\ sp + JumpEffect(Op) >= Base + Depth(body, Op.arg)
  <1>1. Op.arg \in 0 .. Len(Code) /\ Depth(body, Op.arg) <= Depth(body, pc) + JumpEffect(Op)
    BY AtOpcode DEF FlowsFrom, Depth, Op, Code
  <1>2. Depth(body, Op.arg) \in Nat
    BY <1>1, AtOpcode, DepthsOfProgram DEF Inv, Code
  <1>. QED
    BY <1>1, <1>2, AtOpcode, SMTT(40)

-----------------------------------------------------------------------------
(* Turns that stay in the function.                                        *)

\* Writing an operand above those of the callers leaves theirs alone.
LEMMA PushKeeps ==
  ASSUME TypeOK, NEW m \in 0 .. Len(stack), m >= Base, NEW v, PushAt(m, v)
  PROVE  CallersKept
  <1>1. stack \in Seq(Existing) /\ Base \in Nat /\ Len(stack) \in Nat
    BY BaseIsNat DEF TypeOK, StackOK
  <1>. QED
    BY <1>1 DEF PushAt, Put, CallersKept

\* What a turn of the machine does to the function that runs and to the try
\* blocks that are open: it stays in the function, with the same try blocks,
Special == {"Jump", "Return", "Throw", "PushExceptionContext", "PopExceptionContext"}
Goes == /\ status = "running" /\ InRange /\ sp' \in Int
        /\ UNCHANGED <<prog, body, callStack, exceptionCtx, status>>
        /\ Len(locals') = Len(locals)
        /\ \/ /\ pc' = pc + 1 /\ Op.op \notin Special
              /\ Effect(Op) \in Int /\ sp' >= sp + Effect(Op)
           \/ /\ pc' = Op.arg /\ Op.op \in JumpOps
              /\ JumpEffect(Op) \in Int /\ sp' >= sp + JumpEffect(Op)
\* ends the run or raises an exception,
Halts == /\ UNCHANGED <<prog, pc, body, callStack, exceptionCtx, locals>>
         /\ \/ status' = "raising" /\ status = "running" /\ InRange
            \/ status' = "done" /\ LoopEnds
            \/ status' \notin {"running", "raising", "done", "underflow"}
\* enters a function, n operands left under its arguments,
EntersOn(n) ==
  /\ status = "running" /\ InRange /\ Op.op \notin Special
  /\ UNCHANGED <<prog, exceptionCtx, status>>
  /\ n <= sp /\ Effect(Op) \in Int /\ n + 1 = sp + Effect(Op)
  /\ Required(Op) \in Int /\ sp - Required(Op) <= n
  /\ callStack' = Append(callStack, Frame(body, pc, n)) /\ sp' = n
  /\ body' \in DOMAIN prog \ {1} /\ pc' = 0 /\ Len(locals') = prog[body'].varCount
Enters == \E n \in Nat : EntersOn(n)
\* or is one of the actions about returns and try blocks.
Moves == \/ Goes \/ Halts \/ Enters \/ ReturnFromMain \/ ReturnToScript
         \/ PushExceptionContext \/ PopExceptionContext \/ Catch \/ CatchPanic \/ Finally

USE DEF Special

LEMMA Turn ==
  ASSUME NEW names, Fetch(names),
         UNCHANGED <<prog, body, callStack, exceptionCtx, status>>,
         Len(locals') = Len(locals), sp' \in Int,
         \/ /\ pc' = pc + 1 /\ Op.op \notin Special
            /\ Effect(Op) \in Int /\ sp' >= sp + Effect(Op)
         \/ /\ pc' = Op.arg /\ Op.op \in JumpOps
            /\ JumpEffect(Op) \in Int /\ sp' >= sp + JumpEffect(Op)
  PROVE  Moves
  <1>1. Goes
    BY DEF Goes, Fetch
  <1>. QED
    BY <1>1 DEF Moves

\* A result takes the place of m - sp operands.
LEMMA PushTurn ==
  ASSUME Inv, NEW names, Fetch(names), Op.op \notin Special,
         NEW m \in Int, NEW v, PushAt(m, v),
         Effect(Op) \in Int, m + 1 = sp + Effect(Op),
         Required(Op) \in Int, sp - Required(Op) <= m, m <= sp,
         LoopNext(pc), UNCHANGED <<frameVars, exceptionCtx>>, Len(locals') = Len(locals)
  PROVE  CallersKept /\ Moves
  <1>1. m >= Base /\ m \in 0 .. Len(stack)
    BY AtOpcode, SMTT(40) DEF Inv, TypeOK, StackOK
  <1>2. CallersKept
    BY <1>1, PushKeeps DEF Inv
  <1>3. sp' = m + 1 /\ pc' = pc + 1 /\ UNCHANGED <<prog, body, callStack, status>>
    BY DEF PushAt, LoopNext, frameVars, endVars
  <1>. QED
    BY <1>2, <1>3, Turn

\* Operands are dropped.
LEMMA DropTurn ==
  ASSUME Inv, NEW names, Fetch(names), NEW k \in Int, Drop(k),
         NEW p \in Int, LoopNext(p),
         \/ /\ p = pc /\ Op.op \notin Special
            /\ Effect(Op) \in Int /\ 0 - k >= Effect(Op)
         \/ /\ p = Op.arg - 1 /\ Op.op \in JumpOps
            /\ JumpEffect(Op) \in Int /\ 0 - k >= JumpEffect(Op),
         UNCHANGED <<frameVars, exceptionCtx>>, Len(locals') = Len(locals)
  PROVE  CallersKept /\ Moves
  <1>1. stack' = stack /\ sp' = sp - k /\ sp' \in Int
    BY AtOpcode DEF Drop
  <1>2. pc' = p + 1 /\ UNCHANGED <<prog, body, callStack, status>>
    BY DEF LoopNext, frameVars, endVars
  <1>3. IsOpcode(Op, prog) /\ sp \in Nat
    BY AtOpcode
  <1>4. Op.op \in JumpOps => Op.arg \in Nat
    BY <1>3 DEF IsOpcode
  <1>5. \/ /\ pc' = pc + 1 /\ Op.op \notin Special
           /\ Effect(Op) \in Int /\ sp' >= sp + Effect(Op)
        \/ /\ pc' = Op.arg /\ Op.op \in JumpOps
           /\ JumpEffect(Op) \in Int /\ sp' >= sp + JumpEffect(Op)
    BY <1>1, <1>2, <1>3, <1>4, SMTT(40)
  <1>6. Moves
    BY <1>1, <1>2, <1>5, Turn
  <1>. QED
    BY <1>1, <1>6 DEF CallersKept

-----------------------------------------------------------------------------
(* The operations that replace operands by a result.                       *)

LEMMA ReplacingValues ==
  ASSUME NEW op, op.op \in Replacing
  PROVE  /\ op.op \notin Special
         /\ Effect(op) = 1 - Needs(op) /\ Required(op) = Needs(op)
         /\ op.op \notin {"NewArray", "NewObject"} => Needs(op) \in Nat
         /\ op.op \in {"NewArray", "NewObject"} => Needs(op) = op.arg
  BY EffectValues, NeedsValues DEF Replacing, Popping, Cleanups, TwoOps, OneOps, NoneOps,
     BinaryOps, ArithmeticOps, ShiftOps, RelationalOps, EqualityOps, BitwiseOps, UnaryOps,
     ElementIncOps, PropertyIncOps, IncOps

LEMMA ReplaceTurn ==
  ASSUME Inv, NEW names, Fetch(names), Op.op \in Replacing,
         NEW m, NEW v, PushAt(m, v), m = sp - Needs(Op), LoopNext(pc),
         UNCHANGED <<frameVars, exceptionCtx>>, Len(locals') = Len(locals)
  PROVE  CallersKept /\ Moves
  <1>1. IsOpcode(Op, prog) /\ sp \in Nat
    BY AtOpcode
  <1>2. Needs(Op) \in Nat
    BY <1>1, ReplacingValues DEF IsOpcode, CountOps
  <1>. QED
    BY <1>1, <1>2, ReplacingValues, PushTurn, SMTT(40)

LEMMA OperateTurn ==
  ASSUME Inv, NEW names, NEW results, Operate(names, results), names \subseteq Replacing
  PROVE  CallersKept /\ Moves
  <1>1. PICK r \in results : PushAt(sp - Needs(Op), r)
    BY DEF Operate
  <1>2. Fetch(names) /\ Op.op \in Replacing
    BY DEF Operate, Fetch
  <1>3. LoopNext(pc) /\ UNCHANGED <<frameVars, exceptionCtx, locals>>
    BY DEF Operate, excVars, varVars
  <1>. QED
    BY <1>1, <1>2, <1>3, ReplaceTurn

\* A turn that ends the run, or raises
LEMMA HaltTurn ==
  ASSUME UNCHANGED <<prog, pc, stack, frameVars, exceptionCtx, locals>>,
         status' \notin {"underflow", "running"},
         status' = "raising" => status = "running" /\ InRange,
         status' = "done" => LoopEnds
  PROVE  CallersKept /\ Moves
  <1>1. Halts
    BY DEF Halts, frameVars
  <1>. QED
    BY <1>1 DEF frameVars, CallersKept, Moves

LEMMA OperatorsTurn ==
  ASSUME Inv, Operators
  PROVE  CallersKept /\ Moves
  <1>1. CASE \/ Arithmetic \/ Shift \/ Relational \/ Equality \/ Bitwise \/ Unary
             \/ IncElement \/ IncProperty \/ TypeTest \/ GetElement \/ DeleteMember
    <2>1. /\ ArithmeticOps \subseteq Replacing /\ ShiftOps \subseteq Replacing
          /\ RelationalOps \subseteq Replacing /\ EqualityOps \subseteq Replacing
          /\ BitwiseOps \subseteq Replacing /\ UnaryOps \subseteq Replacing
          /\ ElementIncOps \subseteq Replacing /\ PropertyIncOps \subseteq Replacing
          /\ {"Typeof", "Instanceof", "In"} \subseteq Replacing
          /\ {"GetElement"} \subseteq Replacing
          /\ {"DeleteElement", "DeleteProperty"} \subseteq Replacing
      BY DEF Replacing, BinaryOps, ArithmeticOps, ShiftOps, RelationalOps,
         EqualityOps, BitwiseOps, ElementIncOps
    <2>. QED
      BY <1>1, <2>1, OperateTurn DEF Arithmetic, Shift, Relational, Equality, Bitwise, Unary,
         IncElement, IncProperty, TypeTest, GetElement, DeleteMember
  <1>2. CASE PushLiteral
    <2>1. Fetch({"PushLiteral"}) /\ Op.op \in {"PushLiteral"}
      BY <1>2 DEF PushLiteral, Fetch
    <2>2. Op.op \in Replacing /\ Needs(Op) = 0
      BY <2>1, NeedsValues DEF Replacing, NoneOps
    <2>3. PICK v : PushAt(sp, v)
      BY <1>2 DEF PushLiteral
    <2>4. sp = sp - Needs(Op)
      BY <2>1, <2>2, AtOpcode
    <2>5. LoopNext(pc) /\ UNCHANGED <<frameVars, exceptionCtx, locals>>
      BY <1>2 DEF PushLiteral, excVars, varVars
    <2>. QED
      BY <2>1, <2>2, <2>3, <2>4, <2>5, ReplaceTurn
  <1>3. CASE StrictEqual
    <2>1. Fetch({"StrictEqual", "StrictNotEqual"}) /\ Op.op \in {"StrictEqual", "StrictNotEqual"}
      BY <1>3 DEF StrictEqual, Fetch
    <2>2. Op.op \in Replacing /\ Needs(Op) = 2
      BY <2>1, NeedsValues DEF Replacing, TwoOps, BinaryOps
    <2>3. PICK v : PushAt(sp - 2, v)
      BY <1>3 DEF StrictEqual
    <2>4. sp - 2 = sp - Needs(Op)
      BY <2>1, <2>2, AtOpcode
    <2>5. LoopNext(pc) /\ UNCHANGED <<frameVars, exceptionCtx, locals>>
      BY <1>3 DEF StrictEqual, excVars, varVars
    <2>. QED
      BY <2>1, <2>2, <2>3, <2>4, <2>5, ReplaceTurn
  <1>4. CASE LogicalNot
    <2>1. Fetch({"LogicalNot"}) /\ Op.op \in {"LogicalNot"}
      BY <1>4 DEF LogicalNot, Fetch
    <2>2. Op.op \in Replacing /\ Needs(Op) = 1
      BY <2>1, NeedsValues DEF Replacing, OneOps
    <2>3. PICK v : PushAt(sp - 1, v)
      BY <1>4 DEF LogicalNot
    <2>4. sp - 1 = sp - Needs(Op)
      BY <2>1, <2>2, AtOpcode
    <2>5. LoopNext(pc) /\ UNCHANGED <<frameVars, exceptionCtx, locals>>
      BY <1>4 DEF LogicalNot, excVars, varVars
    <2>. QED
      BY <2>1, <2>2, <2>3, <2>4, <2>5, ReplaceTurn
  <1>5. CASE GetProperty
    <2>1. Fetch({"GetProperty"}) /\ Op.op \in {"GetProperty"}
      BY <1>5 DEF GetProperty, Fetch
    <2>2. Op.op \in Replacing /\ Needs(Op) = 1
      BY <2>1, NeedsValues DEF Replacing, OneOps
    <2>3. PICK v : PushAt(sp - 1, v)
      BY <1>5 DEF GetProperty
    <2>4. sp - 1 = sp - Needs(Op)
      BY <2>1, <2>2, AtOpcode
    <2>5. LoopNext(pc) /\ UNCHANGED <<frameVars, exceptionCtx, locals>>
      BY <1>5 DEF GetProperty, excVars, varVars
    <2>. QED
      BY <2>1, <2>2, <2>3, <2>4, <2>5, ReplaceTurn
  <1>6. CASE SetMember
    <2>1. Fetch({"SetElement", "SetProperty"}) /\ Op.op \in {"SetElement", "SetProperty"}
      BY <1>6 DEF SetMember, Fetch
    <2>2. Op.op \in Replacing /\ Needs(Op) \in {2, 3}
      BY <2>1, NeedsValues DEF Replacing, TwoOps
    <2>3. PICK v : PushAt(sp - Needs(Op), v)
      BY <1>6 DEF SetMember
    <2>4. sp - Needs(Op) = sp - Needs(Op)
      BY <2>1, <2>2, AtOpcode
    <2>5. LoopNext(pc) /\ UNCHANGED <<frameVars, exceptionCtx, locals>>
      BY <1>6 DEF SetMember, excVars, varVars
    <2>. QED
      BY <2>1, <2>2, <2>3, <2>4, <2>5, ReplaceTurn
  <1>7. CASE NewObjects
    <2>1. Fetch({"NewArray", "NewObject"}) /\ Op.op \in {"NewArray", "NewObject"}
      BY <1>7 DEF NewObjects, Fetch
    <2>2. Op.op \in Replacing /\ Needs(Op) = Op.arg
      BY <2>1, NeedsValues DEF Replacing
    <2>3. PICK v : PushAt(sp - Op.arg, v)
      BY <1>7 DEF NewObjects
    <2>4. sp - Op.arg = sp - Needs(Op)
      BY <2>1, <2>2, AtOpcode
    <2>5. LoopNext(pc) /\ UNCHANGED <<frameVars, exceptionCtx, locals>>
      BY <1>7 DEF NewObjects, excVars, varVars
    <2>. QED
      BY <2>1, <2>2, <2>3, <2>4, <2>5, ReplaceTurn
  <1>8. CASE Pop
    <2>1. Fetch({"Pop"}) /\ Op.op = "Pop" /\ Effect(Op) = -1
      BY <1>8, EffectValues DEF Pop, Fetch
    <2>2. pc \in Int
      BY <2>1, AtOpcode
    <2>. QED
      BY <1>8, <2>1, <2>2, DropTurn DEF Pop, excVars, varVars
  <1>9. CASE Dup
    <2>1. Fetch({"Dup"}) /\ Op.op = "Dup" /\ Effect(Op) = 1 /\ Required(Op) = 1
      BY <1>9, EffectValues, NeedsValues DEF Dup, Fetch, OneOps, Cleanups
    <2>2. sp \in Nat
      BY <2>1, AtOpcode
    <2>3. PushAt(sp, Top(0)) /\ LoopNext(pc) /\ UNCHANGED <<frameVars, exceptionCtx, locals>>
      BY <1>9 DEF Dup, excVars, varVars
    <2>. QED
      BY <2>1, <2>2, <2>3, PushTurn
  <1>10. CASE ElementPanic
    BY <1>10, HaltTurn DEF ElementPanic, Stop, excVars, varVars
  <1>. QED
    BY <1>1, <1>2, <1>3, <1>4, <1>5, <1>6, <1>7, <1>8, <1>9, <1>10 DEF Operators

-----------------------------------------------------------------------------
(* Variables.                                                              *)

LEMMA StoreKeepsLocals ==
  ASSUME TypeOK, NEW s, NEW v, Assign(s, v)
  PROVE  Len(locals') = Len(locals)
  BY DEF Assign, TypeOK, VariablesOK, Locals

LEMMA VariablesTurn ==
  ASSUME Inv, Variables
  PROVE  CallersKept /\ Moves
  <1>1. CASE LoadVariable
    <2>1. Fetch({"LoadVariable"}) /\ Op.op \in {"LoadVariable"}
      BY <1>1 DEF LoadVariable, Fetch
    <2>2. Op.op \in Replacing /\ Needs(Op) = 0
      BY <2>1, NeedsValues DEF Replacing, NoneOps
    <2>3. PICK v : PushAt(sp, v)
      BY <1>1 DEF LoadVariable
    <2>4. sp = sp - Needs(Op)
      BY <2>1, <2>2, AtOpcode
    <2>5. LoopNext(pc) /\ UNCHANGED <<frameVars, exceptionCtx, locals>>
      BY <1>1 DEF LoadVariable, excVars, varVars
    <2>. QED
      BY <2>1, <2>2, <2>3, <2>4, <2>5, ReplaceTurn
  <1>2. CASE LoadCapture
    <2>1. Fetch({"LoadCapture"}) /\ Op.op \in {"LoadCapture"}
      BY <1>2 DEF LoadCapture, Fetch
    <2>2. Op.op \in Replacing /\ Needs(Op) = 0
      BY <2>1, NeedsValues DEF Replacing, NoneOps
    <2>3. PICK v : PushAt(sp, v)
      BY <1>2 DEF LoadCapture
    <2>4. sp = sp - Needs(Op)
      BY <2>1, <2>2, AtOpcode
    <2>5. LoopNext(pc) /\ UNCHANGED <<frameVars, exceptionCtx, locals>>
      BY <1>2 DEF LoadCapture, excVars, varVars
    <2>. QED
      BY <2>1, <2>2, <2>3, <2>4, <2>5, ReplaceTurn
  <1>3. CASE LoadGlobal
    <2>1. Fetch({"LoadGlobal"}) /\ Op.op \in {"LoadGlobal"}
      BY <1>3 DEF LoadGlobal, Fetch
    <2>2. Op.op \in Replacing /\ Needs(Op) = 0
      BY <2>1, NeedsValues DEF Replacing, NoneOps
    <2>3. PICK v : PushAt(sp, v)
      BY <1>3 DEF LoadGlobal
    <2>4. sp = sp - Needs(Op)
      BY <2>1, <2>2, AtOpcode
    <2>5. LoopNext(pc) /\ UNCHANGED <<frameVars, exceptionCtx, locals>>
      BY <1>3 DEF LoadGlobal, excVars, varVars
    <2>. QED
      BY <2>1, <2>2, <2>3, <2>4, <2>5, ReplaceTurn
  <1>4. CASE PushFunction
    <2>1. Fetch({"PushFunction"}) /\ Op.op \in {"PushFunction"}
      BY <1>4 DEF PushFunction, Fetch
    <2>2. Op.op \in Replacing /\ Needs(Op) = 0
      BY <2>1, NeedsValues DEF Replacing, NoneOps
    <2>3. PICK v : PushAt(sp, v)
      BY <1>4 DEF PushFunction
    <2>4. sp = sp - Needs(Op)
      BY <2>1, <2>2, AtOpcode
    <2>5. LoopNext(pc) /\ UNCHANGED <<frameVars, exceptionCtx, locals>>
      BY <1>4 DEF PushFunction, excVars, varVars
    <2>. QED
      BY <2>1, <2>2, <2>3, <2>4, <2>5, ReplaceTurn
  <1>5. CASE StoreVariable
    <2>1. /\ Fetch({"StoreVariable", "StoreVariableKeep"})
          /\ Op.op \in {"StoreVariable", "StoreVariableKeep"}
      BY <1>5 DEF StoreVariable, Fetch
    <2>2. PICK k \in {0, 1} : Drop(k) /\ (k = 1 <=> Op.op = "StoreVariable")
      BY <1>5, <2>1 DEF StoreVariable
    <2>3. Effect(Op) \in Int /\ 0 - k >= Effect(Op)
      BY <2>1, <2>2, EffectValues DEF Keeping
    <2>4. Len(locals') = Len(locals)
      BY <1>5, StoreKeepsLocals DEF StoreVariable, Inv
    <2>5. LoopNext(pc) /\ UNCHANGED <<frameVars, exceptionCtx>> /\ pc \in Int
      BY <1>5, <2>1, AtOpcode DEF StoreVariable, excVars
    <2>. QED
      BY <2>1, <2>2, <2>3, <2>4, <2>5, DropTurn
  <1>6. CASE IncVariable
    <2>1. Fetch(IncOps) /\ Op.op \in IncOps
      BY <1>6 DEF IncVariable, Fetch
    <2>2. Op.op \in Replacing /\ Needs(Op) = 0
      BY <2>1, NeedsValues DEF Replacing, NoneOps
    <2>3. HasSlot(Op.arg) /\ Op.arg \in Nat
      <3>1. Op.arg < prog[body].varCount /\ Op.arg \in 0 .. MaxSlot
        BY <2>1, AtOpcode DEF FlowsFrom, Op, Code, IsOpcode, SlotOps
      <3>. QED
        BY <3>1, SMTT(30) DEF Inv, Discipline, HasSlot
    <2>4. PICK v : PushAt(sp, v)
      BY <1>6, <2>3 DEF IncVariable
    <2>5. PICK x : locals' = [locals EXCEPT ![Op.arg + 1] = x]
      BY <1>6, <2>3 DEF IncVariable
    <2>6. Len(locals') = Len(locals)
      BY <2>5 DEF Inv, TypeOK, VariablesOK, Locals
    <2>7. sp = sp - Needs(Op)
      BY <2>1, <2>2, AtOpcode
    <2>8. LoopNext(pc) /\ UNCHANGED <<frameVars, exceptionCtx>>
      BY <1>6 DEF IncVariable, excVars
    <2>. QED
      BY <2>1, <2>2, <2>4, <2>6, <2>7, <2>8, ReplaceTurn
  <1>7. CASE StoreCapture
    <2>1. /\ Fetch({"StoreCapture", "StoreCaptureKeep"})
          /\ Op.op \in {"StoreCapture", "StoreCaptureKeep"}
      BY <1>7 DEF StoreCapture, Fetch
    <2>2. PICK k \in {0, 1} : Drop(k) /\ (k = 1 <=> Op.op = "StoreCapture")
      BY <1>7, <2>1 DEF StoreCapture
    <2>3. Effect(Op) \in Int /\ 0 - k >= Effect(Op)
      BY <2>1, <2>2, EffectValues DEF Keeping
    <2>4. LoopNext(pc) /\ UNCHANGED <<frameVars, exceptionCtx, locals>> /\ pc \in Int
      BY <1>7, <2>1, AtOpcode DEF StoreCapture, excVars
    <2>. QED
      BY <2>1, <2>2, <2>3, <2>4, DropTurn
  <1>8. CASE StoreGlobal
    <2>1. Fetch({"StoreGlobal"}) /\ Op.op = "StoreGlobal" /\ Drop(0) /\ LoopNext(pc)
      BY <1>8 DEF StoreGlobal, Fetch
    <2>2. Effect(Op) = 0 /\ pc \in Int
      BY <2>1, EffectValues, AtOpcode DEF Keeping
    <2>3. UNCHANGED <<frameVars, exceptionCtx, locals>>
      BY <1>8 DEF StoreGlobal, excVars
    <2>. QED
      BY <2>1, <2>2, <2>3, DropTurn
  <1>. QED
    BY <1>1, <1>2, <1>3, <1>4, <1>5, <1>6, <1>7, <1>8 DEF Variables

-----------------------------------------------------------------------------
(* Jumps and iteration.                                                    *)

LEMMA JumpsTurn ==
  ASSUME Inv, Jump \/ JumpIf \/ JumpIfOrPop
  PROVE  CallersKept /\ Moves
  <1>1. CASE Jump
    <2>1. Fetch({"Jump"}) /\ Op.op = "Jump"
      BY <1>1 DEF Jump, Fetch
    <2>2. IsOpcode(Op, prog) /\ sp \in Nat /\ JumpEffect(Op) = 0
      BY <2>1, AtOpcode, EffectValues
    <2>3. Op.op \in JumpOps /\ Op.arg - 1 \in Int
      BY <2>1, <2>2 DEF IsOpcode, JumpOps
    <2>4. Drop(0) /\ LoopNext(Op.arg - 1) /\ UNCHANGED <<frameVars, exceptionCtx, locals>>
      BY <1>1, <2>2 DEF Jump, Drop, excVars, varVars
    <2>. QED
      BY <2>1, <2>2, <2>3, <2>4, DropTurn
  <1>2. CASE JumpIf
    <2>1. Fetch({"JumpIfFalse", "JumpIfTrue"}) /\ Op.op \in {"JumpIfFalse", "JumpIfTrue"}
      BY <1>2 DEF JumpIf, Fetch
    <2>2. /\ IsOpcode(Op, prog) /\ pc \in Int
          /\ JumpEffect(Op) = -1 /\ Effect(Op) = -1
      BY <2>1, AtOpcode, EffectValues
    <2>3. Op.op \in JumpOps /\ Op.arg - 1 \in Int
      BY <2>1, <2>2 DEF IsOpcode, JumpOps
    <2>4. PICK p \in {Op.arg - 1, pc} : LoopNext(p)
      BY <1>2 DEF JumpIf
    <2>5. Drop(1) /\ UNCHANGED <<frameVars, exceptionCtx, locals>>
      BY <1>2 DEF JumpIf, excVars, varVars
    <2>. QED
      BY <2>1, <2>2, <2>3, <2>4, <2>5, DropTurn
  <1>3. CASE JumpIfOrPop
    <2>1. /\ Fetch({"JumpIfFalseOrPop", "JumpIfTrueOrPop"})
          /\ Op.op \in {"JumpIfFalseOrPop", "JumpIfTrueOrPop"}
      BY <1>3 DEF JumpIfOrPop, Fetch
    <2>2. /\ IsOpcode(Op, prog) /\ pc \in Int
          /\ JumpEffect(Op) = 0 /\ Effect(Op) = -1
      BY <2>1, AtOpcode, EffectValues
    <2>3. Op.op \in JumpOps /\ Op.arg - 1 \in Int
      BY <2>1, <2>2 DEF IsOpcode, JumpOps
    <2>4. \/ Drop(0) /\ LoopNext(Op.arg - 1)
          \/ Drop(1) /\ LoopNext(pc)
      BY <1>3 DEF JumpIfOrPop
    <2>5. UNCHANGED <<frameVars, exceptionCtx, locals>>
      BY <1>3 DEF JumpIfOrPop, excVars, varVars
    <2>. QED
      BY <2>1, <2>2, <2>3, <2>4, <2>5, DropTurn
  <1>. QED
    BY <1>1, <1>2, <1>3

LEMMA IterationTurn ==
  ASSUME Inv, ForInKeys \/ ForOfIterator \/ ForHasMore \/ ForNext \/ ForNextPanic \/ ForCleanup
  PROVE  CallersKept /\ Moves
  <1>1. CASE ForInKeys
    <2>1. Fetch({"ForInKeys"}) /\ Op.op = "ForInKeys" /\ Effect(Op) = 1 /\ Required(Op) = 1
      BY <1>1, EffectValues, NeedsValues DEF ForInKeys, Fetch, OneOps, Cleanups
    <2>2. sp \in Nat /\ Base \in Nat /\ sp - 1 >= Base
      BY <2>1, AtOpcode
    <2>3. PICK n : stack' = Put(Put(stack, sp - 1, n), sp, IntVal(0))
      BY <1>1 DEF ForInKeys
    <2>4. sp \in 0 .. Len(stack) /\ stack \in Seq(Existing) /\ Len(stack) \in Nat
      BY DEF Inv, TypeOK, StackOK
    <2>5. CallersKept
      BY <2>2, <2>3, <2>4 DEF Put, CallersKept
    <2>6. sp' = sp + 1 /\ pc' = pc + 1
          /\ UNCHANGED <<prog, body, callStack, exceptionCtx, status, locals>>
      BY <1>1 DEF ForInKeys, LoopNext, frameVars, excVars, varVars, endVars
    <2>. QED
      BY <2>1, <2>2, <2>5, <2>6, Turn
  <1>2. CASE ForOfIterator
    <2>1. Fetch({"ForOfIterator"}) /\ Op.op = "ForOfIterator"
      BY <1>2 DEF ForOfIterator, Fetch
    <2>2. Op.op \in Replacing /\ Needs(Op) = 0
      BY <2>1, NeedsValues DEF Replacing, NoneOps
    <2>3. sp = sp - Needs(Op)
      BY <2>1, <2>2, AtOpcode
    <2>4. PushAt(sp, IntVal(0)) /\ LoopNext(pc) /\ UNCHANGED <<frameVars, exceptionCtx, locals>>
      BY <1>2 DEF ForOfIterator, excVars, varVars
    <2>. QED
      BY <2>1, <2>2, <2>3, <2>4, ReplaceTurn
  <1>3. CASE ForHasMore
    <2>1. Fetch(HasMoreOps) /\ Op.op \in HasMoreOps /\ Effect(Op) = 1 /\ Required(Op) = 2
      BY <1>3, EffectValues, NeedsValues DEF ForHasMore, Fetch, TwoOps, HasMoreOps, Cleanups
    <2>2. sp \in Nat /\ Op.op \notin Special
      BY <2>1, AtOpcode DEF HasMoreOps
    <2>3. /\ PushAt(sp, BoolVal(MoreElements)) /\ LoopNext(pc)
          /\ UNCHANGED <<frameVars, exceptionCtx, locals>>
      BY <1>3 DEF ForHasMore, excVars, varVars
    <2>. QED
      BY <2>1, <2>2, <2>3, PushTurn
  <1>4. CASE ForNext
    <2>1. Fetch(NextOps) /\ Op.op \in NextOps /\ Effect(Op) = 0 /\ Required(Op) = 2
      BY <1>4, EffectValues, NeedsValues DEF ForNext, Fetch, TwoOps, NextOps, Cleanups, Keeping
    <2>2. sp \in Nat /\ Op.op \notin Special
      BY <2>1, AtOpcode DEF NextOps
    <2>3. PICK v : PushAt(sp - 1, v)
      BY <1>4 DEF ForNext
    <2>4. LoopNext(pc) /\ UNCHANGED <<frameVars, exceptionCtx>>
      BY <1>4 DEF ForNext, excVars
    <2>5. Len(locals') = Len(locals)
      BY <1>4 DEF ForNext, Inv, TypeOK, VariablesOK, Locals
    <2>. QED
      BY <2>1, <2>2, <2>3, <2>4, <2>5, PushTurn
  <1>5. CASE ForNextPanic
    BY <1>5, HaltTurn DEF ForNextPanic, Stop, excVars, varVars
  <1>6. CASE ForCleanup
    <2>1. Fetch(Cleanups) /\ Op.op \in Cleanups
      BY <1>6 DEF ForCleanup, Fetch, Cleanups
    <2>2. Effect(Op) = -2 /\ Required(Op) = 2 /\ Op.op \notin Special
      BY <2>1, EffectValues DEF Cleanups
    <2>3. sp >= 2 /\ sp \in Nat /\ pc \in Int
      BY <2>1, <2>2, AtOpcode
    <2>4. Drop(2) /\ LoopNext(pc) /\ UNCHANGED <<frameVars, exceptionCtx, locals>>
      BY <1>6, <2>3 DEF ForCleanup, excVars, varVars
    <2>. QED
      BY <2>1, <2>2, <2>3, <2>4, DropTurn
  <1>. QED
    BY <1>1, <1>2, <1>3, <1>4, <1>5, <1>6

-----------------------------------------------------------------------------
(* Calls and returns.                                                      *)

LEMMA EnterTurn ==
  ASSUME Inv, NEW names, Fetch(names), Op.op \notin Special,
         NEW fn \in Existing, fn.t = "function", NEW thisVal, NEW args,
         NEW n \in Nat, Effect(Op) \in Int, n + 1 = sp + Effect(Op), n <= sp,
         Required(Op) \in Int, sp - Required(Op) <= n,
         setupScriptCall(fn, thisVal, args, n)
  PROVE  CallersKept /\ Moves
  <1>1. /\ fn.v \in DOMAIN prog \ {1} /\ sp \in Nat
    BY DEF Inv, TypeOK, StackOK, Existing
  <1>2. /\ callStack' = Append(callStack, Frame(body, pc, n))
        /\ body' = fn.v /\ locals' = Bind(prog[fn.v], thisVal, args)
        /\ stack' = stack /\ sp' = n /\ pc' = 0 /\ prog' = prog /\ status' = status
        /\ exceptionCtx' = exceptionCtx
    BY <1>1 DEF setupScriptCall, Enter, Drop, LoopNext, endVars, excVars
  <1>3. Len(locals') = prog[body'].varCount
    <2>1. prog[fn.v].varCount \in Nat
      BY <1>1, DepthsOfProgram DEF Inv
    <2>. QED
      BY <1>2, <2>1 DEF Bind
  <1>4. EntersOn(n)
    BY <1>1, <1>2, <1>3 DEF EntersOn, Fetch
  <1>. QED
    BY <1>2, <1>4 DEF Enters, CallersKept, Moves

\* A call of any function value; n operands are left under the arguments.
LEMMA CallTurn ==
  ASSUME Inv, NEW names, Fetch(names), Op.op \notin Special,
         NoCallbacks', NEW fn \in Existing, NEW thisVal, NEW args,
         NEW n \in Int, Effect(Op) \in Int, n + 1 = sp + Effect(Op),
         Required(Op) \in Int, sp - Required(Op) <= n, n <= sp,
         callFunctionWithThis(fn, thisVal, args, n)
  PROVE  CallersKept /\ Moves
  <1>1. n \in Nat
    BY AtOpcode, SMTT(40)
  <1>2. CASE fn.t = "function" /\ setupScriptCall(fn, thisVal, args, n)
    BY <1>1, <1>2, EnterTurn
  <1>3. CASE callAsk(n)
    BY <1>3, PushTurn DEF callAsk, excVars, varVars
  <1>4. CASE callLog(args, n)
    BY <1>4, PushTurn DEF callLog, excVars, varVars
  <1>5. CASE callFail(n)
    BY <1>5, HaltTurn DEF callFail, Raise, Drop, varVars, Fetch
  <1>6. CASE callEach(thisVal, args, n)
    <2>1. ASSUME PushAt(n, Undefined), LoopNext(pc), UNCHANGED <<frameVars, excVars, varVars>>
          PROVE  CallersKept /\ Moves
      BY <2>1, PushTurn DEF excVars, varVars
    <2>2. ASSUME NEW a, goStack' = Append(goStack, a)
          PROVE  FALSE
      BY <2>2 DEF NoCallbacks, Inv, TypeOK, FramesOK
    <2>3. ASSUME Stop("typeerror"), UNCHANGED <<stack, sp, frameVars, excVars, varVars>>
          PROVE  CallersKept /\ Moves
      BY <2>3, HaltTurn DEF Stop, excVars, varVars
    <2>. QED
      BY <1>6, <2>1, <2>2, <2>3 DEF callEach
  <1>7. CASE /\ Stop("typeerror")
             /\ UNCHANGED <<stack, sp, frameVars, excVars, varVars, hostVars>>
    BY <1>7, HaltTurn DEF Stop, excVars, varVars
  <1>. QED
    BY <1>2, <1>3, <1>4, <1>5, <1>6, <1>7 DEF callFunctionWithThis

LEMMA CallsTurn ==
  ASSUME Inv, NoCallbacks', Call \/ MethodCall
  PROVE  CallersKept /\ Moves
  <1>1. CASE Call
    <2>1. Fetch({"Call"}) /\ Op.op = "Call"
      BY <1>1 DEF Call, Fetch
    <2>2. /\ Effect(Op) = 0 - Op.arg /\ Required(Op) = Op.arg + 1
          /\ Op.arg \in Nat /\ sp \in Nat /\ sp >= Op.arg + 1
      BY <2>1, EffectValues, NeedsValues, AtOpcode DEF Cleanups, IsOpcode, CountOps, Fetch
    <2>3. Top(Op.arg) \in Existing
      BY <2>2, TopType DEF Inv, TypeOK
    <2>4. callFunctionWithThis(Top(Op.arg), Undefined, Args(Op.arg), sp - Op.arg - 1)
      BY <1>1 DEF Call
    <2>. QED
      BY <2>1, <2>2, <2>3, <2>4, CallTurn
  <1>2. CASE MethodCall
    <2>1. Fetch({"MethodCall"}) /\ Op.op = "MethodCall"
      BY <1>2 DEF MethodCall, Fetch
    <2>2. /\ Effect(Op) = -1 - Op.arg /\ Required(Op) = Op.arg + 2
          /\ Op.arg \in Nat /\ sp \in Nat /\ sp >= Op.arg + 2
      BY <2>1, EffectValues, NeedsValues, AtOpcode DEF Cleanups, IsOpcode, CountOps, Fetch
    <2>3. Top(Op.arg) \in Existing
      BY <2>2, TopType DEF Inv, TypeOK
    <2>4. callFunctionWithThis(Top(Op.arg), Top(Op.arg + 1), Args(Op.arg), sp - Op.arg - 2)
      BY <1>2 DEF MethodCall
    <2>. QED
      BY <2>1, <2>2, <2>3, <2>4, CallTurn
  <1>. QED
    BY <1>1, <1>2

LEMMA ReturnsTurn ==
  ASSUME Inv, ReturnFromMain \/ ReturnToScript \/ ReturnToNative
  PROVE  CallersKept /\ Moves
  <1>1. CASE ReturnFromMain
    <2>1. callStack = <<>>
      BY <1>1 DEF ReturnFromMain
    <2>2. CallersKept
      BY <2>1 DEF CallersKept, Base
    <2>. QED
      BY <1>1, <2>2 DEF Moves
  <1>2. CASE callStack # <<>> /\ (ReturnToScript \/ ReturnToNative)
    <2>1. Len(callStack) \in DOMAIN callStack /\ TopFrame \in Frames
      BY <1>2, FrontType, ElementType DEF TopFrame, Inv, TypeOK, FramesOK
    <2>2. FrameDepth(Len(callStack))
      BY <2>1 DEF Inv, Discipline, FrameDepths
    <2>3. TopFrame.body # NativeBody
      <3>1. DOMAIN prog = 1 .. Len(prog) /\ Len(prog) \in Nat
        BY ProgramIsProgram DEF Inv, IsProgram
      <3>. QED
        BY <2>2, <3>1 DEF FrameDepth, TopFrame, NativeBody
    <2>4. ReturnToScript
      BY <1>2, <2>3 DEF ReturnToNative
    <2>5. TopFrame.sp = Base /\ TopFrame.sp \in 0 .. Len(stack)
      BY <1>2, <2>1 DEF Base, Frames, Inv, TypeOK, StackOK, TopFrame
    <2>6. PushAt(TopFrame.sp, ReturnValue)
      BY <2>4 DEF ReturnToScript, Leave
    <2>. QED
      BY <2>4, <2>5, <2>6, PushKeeps DEF Inv, Moves
  <1>. QED
    BY <1>1, <1>2 DEF ReturnToScript, ReturnToNative

-----------------------------------------------------------------------------
(* Exceptions and the ends of the loops.                                   *)

LEMMA ExceptionsTurn ==
  ASSUME Inv, Exceptions
  PROVE  CallersKept /\ Moves
  <1>1. CASE PushExceptionContext \/ PopExceptionContext
    BY <1>1 DEF PushExceptionContext, PopExceptionContext, CallersKept, Moves
  <1>2. CASE Catch \/ CatchPanic \/ Finally
    BY <1>2 DEF Catch, CatchPanic, Finally, Unwind, CallersKept, Moves
  <1>3. CASE Throw
    BY <1>3, HaltTurn DEF Throw, Raise, Drop, varVars, Fetch
  <1>4. CASE FinallyComplete
    <2>1. Fetch({"FinallyComplete"}) /\ Op.op = "FinallyComplete"
      BY <1>4 DEF FinallyComplete, Fetch
    <2>2. UNCHANGED <<stack, sp, frameVars, exceptionCtx, locals>>
      BY <1>4 DEF FinallyComplete, varVars
    <2>3. CASE Raise
      BY <2>1, <2>2, <2>3, HaltTurn DEF Raise, Fetch
    <2>4. CASE LoopNext(pc)
      <3>1. Effect(Op) = 0 /\ sp \in Nat /\ pc \in Int
        BY <2>1, EffectValues, AtOpcode DEF Keeping
      <3>2. Drop(0)
        BY <2>2, <3>1 DEF Drop
      <3>. QED
        BY <2>1, <2>2, <2>4, <3>1, <3>2, DropTurn
    <2>. QED
      BY <1>4, <2>3, <2>4 DEF FinallyComplete
  <1>5. CASE Uncaught
    BY <1>5, HaltTurn DEF Uncaught, Stop, excVars, varVars
  <1>. QED
    BY <1>1, <1>2, <1>3, <1>4, <1>5 DEF Exceptions

LEMMA RequiredIsNat ==
  ASSUME ProgramOK, NEW b \in DOMAIN prog, NEW p \in 0 .. Len(prog[b].code) - 1,
         NEW op, op = prog[b].code[p + 1]
  PROVE  /\ Required(op) \in Nat /\ Needs(op) \in Nat /\ Required(op) >= Needs(op)
  <1>1. Len(prog[b].code) \in Nat
    BY DepthsOfProgram
  <1>2. IsOpcode(op, prog)
    BY <1>1, ProgramIsProgram, SMTT(40) DEF IsProgram, IsFunction
  <1>3. Needs(op) \in Nat
    BY <1>2 DEF Needs, IsOpcode, CountOps
  <1>. QED
    BY <1>3, EffectValues, NeedsValues DEF Cleanups, NoneOps

\* An opcode finds the operands it pops.
LEMMA FindsOperands ==
  ASSUME Inv, status = "running", InRange
  PROVE  sp >= Needs(Op) /\ ~(sp < Needs(Op))
  <1>1. body \in DOMAIN prog /\ pc \in Int /\ sp \in Nat /\ Base \in Nat
    BY BaseIsNat DEF Inv, TypeOK, FramesOK, StackOK
  <1>2. Len(Code) \in Nat /\ pc \in 0 .. Len(Code) - 1
    BY <1>1, DepthsOfProgram DEF Inv, InRange, Code
  <1>3. /\ FlowsFrom(prog[body], pc) /\ Depth(body, pc) \in Nat
        /\ sp >= Base + Depth(body, pc)
    BY <1>1, <1>2, DepthsOfProgram, SMTT(40) DEF Inv, Code, Discipline, RunningDepth
  <1>4. Depth(body, pc) >= Required(Op)
    BY <1>3 DEF FlowsFrom, Depth, Op, Code
  <1>5. Required(Op) \in Nat /\ Needs(Op) \in Nat /\ Required(Op) >= Needs(Op)
    BY <1>1, <1>2, RequiredIsNat DEF Inv, Op, Code
  <1>. QED
    BY <1>1, <1>3, <1>4, <1>5

LEMMA LoopsTurn ==
  ASSUME Inv, NoCallbacks, Loops
  PROVE  CallersKept /\ Moves
  <1>1. CASE ExecReturns
    BY <1>1, HaltTurn DEF ExecReturns, LoopEnds, excVars, varVars
  <1>2. ~CallbackReturns /\ ~IterationReturns
    BY DEF CallbackReturns, IterationReturns, NoCallbacks
  <1>3. ~Underflow
    BY FindsOperands DEF Underflow
  <1>. QED
    BY <1>1, <1>2, <1>3 DEF Loops

LEMMA StepMoves ==
  ASSUME Inv, Step, NoCallbacks, NoCallbacks'
  PROVE  CallersKept /\ Moves
  <1>1. ASSUME Control PROVE CallersKept /\ Moves
    BY <1>1, JumpsTurn, IterationTurn, CallsTurn, ReturnsTurn DEF Control
  <1>. QED
    BY <1>1, OperatorsTurn, VariablesTurn, ExceptionsTurn, LoopsTurn DEF Step

-----------------------------------------------------------------------------
(* Moves keep the discipline.                                              *)

LEMMA MarkTypes ==
  ASSUME Inv
  PROVE  /\ callStack \in Seq(Frames) /\ Len(callStack) \in Nat
         /\ DOMAIN callStack = 1 .. Len(callStack)
         /\ marks \in Seq(Nat) /\ Len(marks) = Len(callStack)
         /\ DOMAIN marks = 1 .. Len(callStack)
         /\ exceptionCtx \in Seq(Contexts) /\ Len(exceptionCtx) \in Nat
         /\ DOMAIN exceptionCtx = 1 .. Len(exceptionCtx)
         /\ Outer \in Nat /\ Outer <= Len(exceptionCtx)
         /\ \A i \in DOMAIN marks : /\ marks[i] \in Nat /\ OuterOf(i) \in Nat
                                    /\ OuterOf(i) <= marks[i] /\ marks[i] <= Outer
  <1>1. /\ callStack \in Seq(Frames) /\ exceptionCtx \in Seq(Contexts)
        /\ marks \in Seq(Nat) /\ Len(marks) = Len(callStack) /\ Outer <= Len(exceptionCtx)
    BY DEF Inv, TypeOK, FramesOK, ExceptionsOK, Discipline, MarksInOrder
  <1>2. PICK n \in Nat : n = Len(marks) /\ DOMAIN marks = 1 .. n
    BY <1>1
  <1>3. Outer \in Nat
    BY <1>1, <1>2 DEF Outer
  <1>4. ASSUME NEW i \in 1 .. n
        PROVE  /\ marks[i] \in Nat /\ OuterOf(i) \in Nat
               /\ OuterOf(i) <= marks[i] /\ marks[i] <= Outer
    <2>1. \A j, k \in 1 .. n : j <= k => marks[j] <= marks[k]
      BY <1>2 DEF Inv, Discipline, MarksInOrder
    <2>2. \A j \in 1 .. n : marks[j] \in Nat
      BY <1>1, <1>2
    <2>3. i # 1 => i - 1 \in 1 .. n /\ i - 1 <= i
      BY <1>2
    <2>4. Outer = marks[n] /\ n \in 1 .. n
      BY <1>1, <1>2 DEF Outer
    <2>. QED
      BY <1>2, <2>1, <2>2, <2>3, <2>4 DEF OuterOf
  <1>. QED
    BY <1>1, <1>2, <1>3, <1>4

LEMMA SameMarks ==
  ASSUME Inv, Mark, UNCHANGED callStack
  PROVE  marks' = marks /\ Outer' = Outer /\ \A i : OuterOf(i)' = OuterOf(i)
  <1>1. marks' = marks
    <2>1. PICK n \in Nat : n = Len(callStack) /\ n = Len(callStack')
      BY MarkTypes
    <2>. QED
      BY <2>1, SMTT(40) DEF Mark
  <1>. QED
    BY <1>1 DEF Outer, OuterOf

\* The frames stay the same, and so do the contexts, but for new ones.
LEMMA SameFrames ==
  ASSUME Inv, Mark, Len(exceptionCtx') >= Outer', UNCHANGED <<prog, body, callStack>>,
         Len(locals') = Len(locals), status' # "underflow", RunningDepth',
         NEW n \in Nat, n = Len(exceptionCtx'),
         \A k \in 1 .. n : \/ k \in 1 .. Len(exceptionCtx) /\ exceptionCtx'[k] = exceptionCtx[k]
                           \/ k > Len(exceptionCtx) /\ ContextDepth(exceptionCtx'[k], body, Base)
  PROVE  Discipline'
  <1>1. /\ marks' = marks /\ Outer' = Outer /\ (\A i : OuterOf(i)' = OuterOf(i))
    BY SameMarks
  <1>2. Base' = Base /\ \A i : BaseOf(i)' = BaseOf(i)
    BY DEF Base, BaseOf, TopFrame
  <1>3. \A c, b, x : ContextDepth(c, b, x)' = ContextDepth(c, b, x)
    BY DEF ContextDepth, Depth
  <1>4. FrameDepths'
    <2>1. ASSUME NEW i \in DOMAIN callStack
          PROVE  FrameDepth(i)'
      <3>1. FrameDepth(i)
        BY DEF Inv, Discipline, FrameDepths
      <3>2. ASSUME NEW k \in OuterOf(i) + 1 .. marks[i]
            PROVE  exceptionCtx'[k] = exceptionCtx[k]
        <4>1. PICK o \in Nat, m \in Nat, t \in Nat, l \in Nat :
                o = OuterOf(i) /\ m = marks[i] /\ t = Outer /\ l = Len(exceptionCtx)
          BY MarkTypes
        <4>2. m <= t /\ t <= l /\ t <= n
          BY <1>1, <4>1, MarkTypes
        <4>3. k \in 1 .. n /\ ~(k > l)
          BY <3>2, <4>1, <4>2
        <4>. QED
          BY <4>1, <4>3, SMTT(40)
      <3>. QED
        BY <1>1, <1>2, <1>3, <3>1, <3>2 DEF FrameDepth, Depth
    <2>. QED
      BY <2>1 DEF Inv, Discipline, FrameDepths
  <1>5. ContextDepths'
    <2>1. ASSUME NEW k \in Outer + 1 .. n
          PROVE  ContextDepth(exceptionCtx'[k], body, Base)
      <3>1. k \in 1 .. n
        BY MarkTypes
      <3>2. k \in 1 .. Len(exceptionCtx) => ContextDepth(exceptionCtx[k], body, Base)
        BY MarkTypes DEF Inv, Discipline, ContextDepths
      <3>. QED
        BY <3>1, <3>2
    <2>2. \A k \in Outer + 1 .. n : ContextDepth(exceptionCtx[k], body, Base)'
      BY <1>2, <2>1 DEF ContextDepth, Depth
    <2>. QED
      BY <1>1, <2>2 DEF ContextDepths
  <1>6. MarksInOrder'
    BY <1>1 DEF Inv, Discipline, MarksInOrder, OuterOf
  <1>. QED
    BY <1>4, <1>5, <1>6 DEF Inv, Discipline, NeverUnderflows

LEMMA SameDepths ==
  ASSUME Inv, Mark, UNCHANGED <<prog, body, callStack, exceptionCtx>>,
         Len(locals') = Len(locals), status' # "underflow", RunningDepth'
  PROVE  Discipline'
  <1>1. PICK n \in Nat : n = Len(exceptionCtx)
    BY MarkTypes
  <1>2. Len(exceptionCtx') >= Outer'
    BY <1>1, SameMarks, MarkTypes
  <1>. QED
    BY <1>1, <1>2, SameFrames, SMTT(40)

\* On to the next opcode, or to the target of a jump
LEMMA TurnDepth ==
  ASSUME Inv, NEW names, Fetch(names),
         UNCHANGED <<prog, body, callStack, status>>,
         sp' \in Int,
         \/ /\ pc' = pc + 1 /\ Op.op \notin {"Jump", "Return", "Throw"}
            /\ Effect(Op) \in Int /\ sp' >= sp + Effect(Op)
         \/ /\ pc' = Op.arg /\ Op.op \in JumpOps
            /\ JumpEffect(Op) \in Int /\ sp' >= sp + JumpEffect(Op)
  PROVE  RunningDepth'
  <1>1. Base \in Nat /\ sp \in Nat
    BY AtOpcode
  <1>2. /\ pc' \in 0 .. Len(Code) /\ Depth(body, pc') \in Nat
        /\ sp' >= Base + Depth(body, pc')
    <2>1. CASE /\ pc' = pc + 1 /\ Op.op \notin {"Jump", "Return", "Throw"}
               /\ Effect(Op) \in Int /\ sp' >= sp + Effect(Op)
      <3>1. /\ pc + 1 \in 0 .. Len(Code) /\ Depth(body, pc + 1) \in Nat
            /\ sp + Effect(Op) >= Base + Depth(body, pc + 1)
        BY <2>1, Onward
      <3>. QED
        BY <1>1, <2>1, <3>1
    <2>2. CASE /\ pc' = Op.arg /\ Op.op \in JumpOps
               /\ JumpEffect(Op) \in Int /\ sp' >= sp + JumpEffect(Op)
      <3>1. /\ Op.arg \in 0 .. Len(Code) /\ Depth(body, Op.arg) \in Nat
            /\ sp + JumpEffect(Op) >= Base + Depth(body, Op.arg)
        BY <2>2, Across
      <3>. QED
        BY <1>1, <2>2, <3>1
    <2>. QED
      BY <2>1, <2>2
  <1>3. Base' = Base /\ Code' = Code /\ Depth(body, pc') = Depth(body, pc)'
    BY DEF Base, TopFrame, Code, Depth
  <1>. QED
    BY <1>1, <1>2, <1>3 DEF RunningDepth

LEMMA GoesDiscipline ==
  ASSUME Inv, Mark, Goes
  PROVE  Discipline'
  <1>1. RunningDepth'
    <2>1. Fetch({Op.op})
      BY FindsOperands DEF Goes, Fetch
    <2>. QED
      BY <2>1, TurnDepth DEF Goes
  <1>. QED
    BY <1>1, SameDepths DEF Goes

LEMMA HaltsDiscipline ==
  ASSUME Inv, Mark, Halts
  PROVE  Discipline'
  <1>1. RunningDepth' /\ status' # "underflow"
    BY DEF RunningDepth, Halts
  <1>. QED
    BY <1>1, SameDepths DEF Halts

\* What a call finds and what it does to the frames and the marks
LEMMA EntersBooks ==
  ASSUME Inv, Mark, NEW n \in Nat, EntersOn(n), NEW top \in Nat, top = Len(callStack)
  PROVE  /\ Base \in Nat /\ n >= Base /\ body \in DOMAIN prog
         /\ pc + 1 \in 0 .. Len(Code) /\ n + 1 >= Base + Depth(body, pc + 1)
         /\ DOMAIN callStack' = 1 .. top + 1 /\ Len(callStack') = top + 1
         /\ callStack'[top + 1] = Frame(body, pc, n)
         /\ \A i \in 1 .. top : callStack'[i] = callStack[i]
         /\ DOMAIN marks' = 1 .. top + 1 /\ Len(marks') = top + 1 /\ marks' \in Seq(Nat)
         /\ marks'[top + 1] = Len(exceptionCtx)
         /\ \A i \in 1 .. top : marks'[i] = marks[i]
         /\ Outer' = Len(exceptionCtx) /\ Base' = n
         /\ \A i \in 1 .. top : OuterOf(i)' = OuterOf(i) /\ BaseOf(i)' = BaseOf(i)
         /\ OuterOf(top + 1)' = Outer /\ BaseOf(top + 1)' = Base
  <1>1. /\ status = "running" /\ InRange /\ Op.op \notin Special
        /\ UNCHANGED <<prog, exceptionCtx, status>>
        /\ n <= sp /\ Effect(Op) \in Int /\ n + 1 = sp + Effect(Op)
        /\ Required(Op) \in Int /\ sp - Required(Op) <= n
        /\ callStack' = Append(callStack, Frame(body, pc, n)) /\ sp' = n
        /\ body' \in DOMAIN prog \ {1} /\ pc' = 0 /\ Len(locals') = prog[body'].varCount
    BY DEF EntersOn
  <1>2. Fetch({Op.op})
    BY <1>1, FindsOperands DEF Fetch
  <1>3. /\ Base \in Nat /\ n >= Base /\ body \in DOMAIN prog
        /\ pc + 1 \in 0 .. Len(Code) /\ n + 1 >= Base + Depth(body, pc + 1)
    <2>1. /\ Base \in Nat /\ sp \in Nat /\ Depth(body, pc) \in Nat /\ body \in DOMAIN prog
          /\ sp >= Base + Depth(body, pc) /\ Depth(body, pc) >= Required(Op)
      BY <1>2, AtOpcode
    <2>2. /\ pc + 1 \in 0 .. Len(Code) /\ n + 1 >= Base + Depth(body, pc + 1)
      BY <1>1, <1>2, Onward
    <2>3. PICK s \in Nat, r \in Int, b \in Nat, d \in Nat :
            s = sp /\ r = Required(Op) /\ b = Base /\ d = Depth(body, pc)
      BY <1>1, <2>1
    <2>4. n >= b
      BY <1>1, <2>1, <2>3, SMTT(40)
    <2>. QED
      BY <2>1, <2>2, <2>3, <2>4
  <1>4. /\ DOMAIN callStack' = 1 .. top + 1 /\ Len(callStack') = top + 1
        /\ callStack'[top + 1] = Frame(body, pc, n)
        /\ \A i \in 1 .. top : callStack'[i] = callStack[i]
    BY <1>1, MarkTypes
  <1>5. marks' = Append(marks, Len(exceptionCtx))
    BY <1>4 DEF Mark
  <1>6. /\ DOMAIN marks' = 1 .. top + 1 /\ Len(marks') = top + 1 /\ marks' \in Seq(Nat)
        /\ marks'[top + 1] = Len(exceptionCtx)
        /\ \A i \in 1 .. top : marks'[i] = marks[i]
    BY <1>5, MarkTypes
  <1>7. Outer' = Len(exceptionCtx) /\ Base' = n
    BY <1>4, <1>6 DEF Outer, Base, TopFrame, Frame
  <1>8. ASSUME NEW i \in 1 .. top
        PROVE  OuterOf(i)' = OuterOf(i) /\ BaseOf(i)' = BaseOf(i)
    <2>1. i # 1 => i - 1 \in 1 .. top
      OBVIOUS
    <2>. QED
      BY <1>4, <1>6, <2>1 DEF OuterOf, BaseOf
  <1>9. OuterOf(top + 1)' = Outer /\ BaseOf(top + 1)' = Base
    <2>1. CASE top = 0
      <3>1. callStack = <<>> /\ marks = <<>>
        BY <2>1, MarkTypes
      <3>. QED
        BY <2>1, <3>1 DEF OuterOf, BaseOf, Outer, Base
    <2>2. CASE top # 0
      <3>1. /\ callStack # <<>> /\ marks # <<>> /\ top \in 1 .. top /\ top + 1 # 1
            /\ top + 1 - 1 = top
        BY <2>2, MarkTypes
      <3>. QED
        BY <1>4, <1>6, <3>1, MarkTypes DEF OuterOf, BaseOf, Outer, Base, TopFrame
    <2>. QED
      BY <2>1, <2>2
  <1>. QED
    BY <1>3, <1>4, <1>6, <1>7, <1>8, <1>9

LEMMA EntersDiscipline ==
  ASSUME Inv, Mark, Enters, TypeOK'
  PROVE  Discipline'
  <1>1. PICK n \in Nat : EntersOn(n)
    BY DEF Enters
  <1>2. /\ status = "running" /\ UNCHANGED <<prog, exceptionCtx, status>> /\ sp' = n
        /\ body' \in DOMAIN prog \ {1} /\ pc' = 0 /\ Len(locals') = prog[body'].varCount
    BY <1>1, SMTT(40) DEF EntersOn
  <1>3. PICK top \in Nat : top = Len(callStack)
    BY MarkTypes
  <1>4. /\ Base \in Nat /\ n >= Base /\ body \in DOMAIN prog
        /\ pc + 1 \in 0 .. Len(Code) /\ n + 1 >= Base + Depth(body, pc + 1)
    BY <1>1, <1>3, EntersBooks
  <1>5. /\ DOMAIN callStack' = 1 .. top + 1 /\ Len(callStack') = top + 1
        /\ callStack'[top + 1] = Frame(body, pc, n)
        /\ \A i \in 1 .. top : callStack'[i] = callStack[i]
    BY <1>1, <1>3, EntersBooks
  <1>6. /\ DOMAIN marks' = 1 .. top + 1 /\ Len(marks') = top + 1 /\ marks' \in Seq(Nat)
        /\ marks'[top + 1] = Len(exceptionCtx)
        /\ \A i \in 1 .. top : marks'[i] = marks[i]
    BY <1>1, <1>3, EntersBooks
  <1>7. Outer' = Len(exceptionCtx) /\ Base' = n
    BY <1>1, <1>3, EntersBooks
  <1>8. \A i \in 1 .. top : OuterOf(i)' = OuterOf(i) /\ BaseOf(i)' = BaseOf(i)
    BY <1>1, <1>3, EntersBooks
  <1>9. OuterOf(top + 1)' = Outer /\ BaseOf(top + 1)' = Base
    BY <1>1, <1>3, EntersBooks
  <1>10. \A c, b, x : ContextDepth(c, b, x)' = ContextDepth(c, b, x)
    BY <1>2 DEF ContextDepth, Depth
  <1>11. ASSUME NEW i \in 1 .. top + 1
         PROVE  FrameDepth(i)'
    <2>1. CASE i \in 1 .. top
      <3>1. FrameDepth(i)
        BY <1>3, <2>1, MarkTypes DEF Inv, Discipline, FrameDepths
      <3>. QED
        BY <1>2, <1>5, <1>6, <1>8, <1>10, <2>1, <3>1 DEF FrameDepth, Depth
    <2>2. CASE i = top + 1
      <3>1. \A k \in Outer + 1 .. Len(exceptionCtx) : ContextDepth(exceptionCtx[k], body, Base)
        BY DEF Inv, Discipline, ContextDepths
      <3>2. Len(locals) = prog[body].varCount
        BY DEF Inv, Discipline
      <3>3. /\ body \in DOMAIN prog' /\ pc + 1 \in 0 .. Len(prog'[body].code)
            /\ n + 1 >= BaseOf(top + 1)' + prog'[body].depths[pc + 1]
            /\ Len(locals) = prog'[body].varCount
        BY <1>2, <1>4, <1>9, <3>2 DEF Depth, Code
      <3>4. ASSUME NEW k \in OuterOf(top + 1)' + 1 .. marks'[top + 1]
            PROVE  ContextDepth(exceptionCtx[k], body, Base)
        BY <1>6, <1>9, <3>1
      <3>5. \A k \in OuterOf(top + 1)' + 1 .. marks'[top + 1] :
              ContextDepth(exceptionCtx'[k], body, BaseOf(top + 1)')
        BY <1>2, <1>9, <3>4
      <3>. QED
        BY <1>5, <1>10, <2>2, <3>3, <3>5 DEF FrameDepth, Frame, Depth
    <2>. QED
      BY <1>3, <2>1, <2>2
  <1>12. ASSUME NEW i \in 1 .. top + 1, NEW j \in 1 .. top + 1, i <= j
         PROVE  callStack'[i].sp <= callStack'[j].sp /\ marks'[i] <= marks'[j]
    <2>1. CASE j \in 1 .. top
      <3>1. i \in 1 .. top
        BY <1>3, <1>12, <2>1
      <3>2. callStack[i].sp <= callStack[j].sp /\ marks[i] <= marks[j]
        BY <1>3, <1>12, <2>1, <3>1, MarkTypes
           DEF Inv, Discipline, FrameDepths, MarksInOrder
      <3>. QED
        BY <1>5, <1>6, <2>1, <3>1, <3>2
    <2>2. CASE j = top + 1 /\ i \in 1 .. top
      <3>1. marks[i] <= Outer /\ Outer <= Len(exceptionCtx) /\ marks[i] \in Nat
            /\ Outer \in Nat /\ Len(exceptionCtx) \in Nat
        BY <1>3, <2>2, MarkTypes
      <3>2. /\ top \in DOMAIN callStack /\ i <= top
            /\ callStack # <<>> /\ i \in DOMAIN callStack
        BY <1>3, <2>2, MarkTypes
      <3>3. callStack[i].sp <= callStack[top].sp /\ callStack[top].sp = Base
        BY <1>3, <3>2 DEF Inv, Discipline, FrameDepths, Base, TopFrame
      <3>4. callStack[i].sp \in Nat
        BY <3>2, DepthsAreNat DEF Inv
      <3>5. callStack[i].sp <= n
        BY <1>4, <3>3, <3>4
      <3>6. marks[i] <= Len(exceptionCtx)
        BY <3>1
      <3>. QED
        BY <1>5, <1>6, <2>2, <3>5, <3>6 DEF Frame
    <2>3. CASE i = top + 1 /\ j = top + 1
      BY <1>5, <1>6, <2>3, MarkTypes DEF Frame
    <2>. QED
      BY <1>3, <1>12, <2>1, <2>2, <2>3
  <1>13. FrameDepths'
    BY <1>3, <1>5, <1>11, <1>12, SMTT(40) DEF FrameDepths
  <1>14. MarksInOrder'
    BY <1>2, <1>5, <1>6, <1>7, <1>12, MarkTypes DEF MarksInOrder
  <1>15. ContextDepths'
    BY <1>2, <1>7, MarkTypes DEF ContextDepths
  <1>16. RunningDepth'
    <2>1. Depth(body, 0)' = 0
      BY <1>2, DepthsOfProgram, SMTT(40) DEF Inv, Depth
    <2>. QED
      BY <1>2, <1>7, <2>1 DEF RunningDepth
  <1>17. Len(locals') = prog'[body'].varCount /\ status' # "underflow"
    BY <1>2
  <1>. QED
    BY <1>13, <1>14, <1>15, <1>16, <1>17 DEF Discipline, NeverUnderflows

\* What a return does to the frames and the marks
LEMMA ReturnsBooks ==
  ASSUME Inv, Mark, KeepsToItsOwn, ReturnToScript, NEW top \in Nat, top = Len(callStack)
  PROVE  /\ callStack # <<>> /\ locals' = TopFrame.locals
         /\ body' = TopFrame.body /\ pc' = TopFrame.pc + 1 /\ sp' = TopFrame.sp + 1
         /\ UNCHANGED <<prog, exceptionCtx, status>> /\ status = "running"
         /\ top # 0 /\ TopFrame = callStack[top] /\ TopFrame \in Frames
         /\ Len(callStack') = top - 1 /\ DOMAIN callStack' = 1 .. top - 1 /\ top - 1 \in Nat
         /\ \A i \in 1 .. top - 1 : callStack'[i] = callStack[i]
         /\ marks' \in Seq(Nat) /\ Len(marks') = top - 1 /\ DOMAIN marks' = 1 .. top - 1
         /\ \A i \in 1 .. top - 1 : marks'[i] = marks[i]
         /\ Outer' = OuterOf(top) /\ Base' = BaseOf(top) /\ BaseOf(top) \in Nat
         /\ \A i \in 1 .. top - 1 : OuterOf(i)' = OuterOf(i) /\ BaseOf(i)' = BaseOf(i)
         /\ Len(exceptionCtx) = marks[top] /\ Outer' <= Len(exceptionCtx')
  <1>1. /\ callStack # <<>> /\ callStack' = Front(callStack) /\ locals' = TopFrame.locals
        /\ body' = TopFrame.body /\ pc' = TopFrame.pc + 1 /\ sp' = TopFrame.sp + 1
        /\ UNCHANGED <<prog, exceptionCtx, status>> /\ status = "running"
    BY DEF ReturnToScript, Leave, PushAt, LoopNext, Fetch, excVars, endVars
  <1>2. /\ callStack' \in Seq(Frames) /\ Len(callStack') = top - 1
        /\ \A i \in 1 .. top - 1 : callStack'[i] = callStack[i]
        /\ top # 0 /\ TopFrame = callStack[top] /\ TopFrame \in Frames
    BY <1>1, MarkTypes, FrontType, ElementType, SMTT(40) DEF TopFrame
  <1>3. DOMAIN callStack' = 1 .. top - 1 /\ top - 1 \in Nat
    BY <1>2
  <1>4. marks' = Front(marks)
    BY <1>2 DEF Mark
  <1>5. /\ marks' \in Seq(Nat) /\ Len(marks') = top - 1
        /\ \A i \in 1 .. top - 1 : marks'[i] = marks[i]
    BY <1>2, <1>4, MarkTypes, FrontType, SMTT(40)
  <1>6. DOMAIN marks' = 1 .. top - 1
    BY <1>3, <1>5
  <1>7. Outer' = OuterOf(top) /\ Base' = BaseOf(top)
    <2>1. CASE top = 1
      BY <1>2, <1>5, <2>1 DEF Outer, OuterOf, Base, BaseOf
    <2>2. CASE top # 1
      <3>1. callStack' # <<>> /\ marks' # <<>> /\ top - 1 \in 1 .. top - 1
        BY <1>2, <1>5, <2>2
      <3>. QED
        BY <1>2, <1>5, <2>2, <3>1 DEF Outer, OuterOf, Base, BaseOf, TopFrame
    <2>. QED
      BY <2>1, <2>2
  <1>8. BaseOf(top) \in Nat
    <2>1. \A i \in 1 .. top : callStack[i].sp \in Nat
      BY MarkTypes, DepthsAreNat DEF Inv
    <2>2. top # 1 => top - 1 \in 1 .. top
      BY <1>2
    <2>. QED
      BY <2>1, <2>2 DEF BaseOf
  <1>9. ASSUME NEW i \in 1 .. top - 1
         PROVE  OuterOf(i)' = OuterOf(i) /\ BaseOf(i)' = BaseOf(i)
    <2>1. i # 1 => i - 1 \in 1 .. top - 1
      OBVIOUS
    <2>. QED
      BY <1>2, <1>5, <2>1 DEF OuterOf, BaseOf
  <1>10. Len(exceptionCtx) = marks[top] /\ Outer' <= Len(exceptionCtx')
    <2>1. Len(exceptionCtx) = Outer
      BY <1>2 DEF KeepsToItsOwn
    <2>2. Outer = marks[top] /\ top \in DOMAIN marks
      BY <1>2, MarkTypes, SMTT(40) DEF Outer
    <2>. QED
      BY <1>1, <1>7, <2>1, <2>2, MarkTypes
  <1>. QED
    BY <1>1, <1>2, <1>3, <1>5, <1>6, <1>7, <1>8, <1>9, <1>10

LEMMA ReturnsDiscipline ==
  ASSUME Inv, Mark, KeepsToItsOwn, ReturnToScript, TypeOK'
  PROVE  Discipline'
  <1>1. PICK top \in Nat : top = Len(callStack)
    BY MarkTypes
  <1>2. /\ locals' = TopFrame.locals
        /\ body' = TopFrame.body /\ pc' = TopFrame.pc + 1 /\ sp' = TopFrame.sp + 1
        /\ UNCHANGED <<prog, exceptionCtx, status>> /\ status = "running"
    BY <1>1, ReturnsBooks
  <1>3. /\ Len(callStack') = top - 1 /\ DOMAIN callStack' = 1 .. top - 1 /\ top - 1 \in Nat
        /\ \A i \in 1 .. top - 1 : callStack'[i] = callStack[i]
        /\ top # 0 /\ TopFrame = callStack[top] /\ TopFrame \in Frames
    BY <1>1, ReturnsBooks
  <1>4. /\ marks' \in Seq(Nat) /\ Len(marks') = top - 1 /\ DOMAIN marks' = 1 .. top - 1
        /\ \A i \in 1 .. top - 1 : marks'[i] = marks[i]
    BY <1>1, ReturnsBooks
  <1>5. Outer' = OuterOf(top) /\ Base' = BaseOf(top) /\ BaseOf(top) \in Nat
    BY <1>1, ReturnsBooks
  <1>6. \A i \in 1 .. top - 1 : OuterOf(i)' = OuterOf(i) /\ BaseOf(i)' = BaseOf(i)
    BY <1>1, ReturnsBooks
  <1>7. \A c, b, x : ContextDepth(c, b, x)' = ContextDepth(c, b, x)
    BY <1>2 DEF ContextDepth, Depth
  <1>8. ASSUME NEW i \in 1 .. top - 1
         PROVE  FrameDepth(i)'
    <2>1. FrameDepth(i)
      BY <1>1, MarkTypes DEF Inv, Discipline, FrameDepths
    <2>. QED
      BY <1>2, <1>3, <1>4, <1>6, <1>7, <2>1 DEF FrameDepth, Depth
  <1>9. ASSUME NEW i \in 1 .. top - 1, NEW j \in 1 .. top - 1, i <= j
         PROVE  callStack'[i].sp <= callStack'[j].sp /\ marks'[i] <= marks'[j]
    <2>1. i \in 1 .. top /\ j \in 1 .. top
      BY <1>1
    <2>2. callStack[i].sp <= callStack[j].sp /\ marks[i] <= marks[j]
      BY <1>1, <1>9, <2>1, MarkTypes DEF Inv, Discipline, FrameDepths, MarksInOrder
    <2>. QED
      BY <1>3, <1>4, <2>2
  <1>10. FrameDepths'
    BY <1>3, <1>8, <1>9 DEF FrameDepths
  <1>11. Len(exceptionCtx) = marks[top] /\ Outer' <= Len(exceptionCtx')
    BY <1>1, ReturnsBooks
  <1>12. MarksInOrder'
    BY <1>3, <1>4, <1>9, <1>11 DEF MarksInOrder
  <1>13. FrameDepth(top)
    BY <1>1, <1>3, MarkTypes DEF Inv, Discipline, FrameDepths
  <1>14. ContextDepths'
    <2>1. ASSUME NEW k \in OuterOf(top) + 1 .. Len(exceptionCtx)
          PROVE  ContextDepth(exceptionCtx[k], TopFrame.body, BaseOf(top))
      BY <1>3, <1>11, <1>13 DEF FrameDepth
    <2>2. \A k \in OuterOf(top) + 1 .. Len(exceptionCtx) :
            ContextDepth(exceptionCtx'[k], body', Base')
      BY <1>2, <1>5, <2>1
    <2>. QED
      BY <1>2, <1>5, <1>7, <2>2 DEF ContextDepths, ContextDepth, Depth
  <1>15. RunningDepth' /\ Len(locals') = prog'[body'].varCount
    <2>1. /\ TopFrame.body \in DOMAIN prog
          /\ TopFrame.pc + 1 \in 0 .. Len(prog[TopFrame.body].code)
          /\ TopFrame.sp + 1 >= Base' + Depth(TopFrame.body, TopFrame.pc + 1)
          /\ Len(TopFrame.locals) = prog[TopFrame.body].varCount
      BY <1>3, <1>5, <1>13 DEF FrameDepth
    <2>2. Depth(TopFrame.body, TopFrame.pc + 1) \in Nat /\ TopFrame.sp \in Nat
      BY <1>3, <2>1, DepthsOfProgram DEF Inv, Frames
    <2>3. Depth(body, pc)' = Depth(TopFrame.body, TopFrame.pc + 1)
      BY <1>2 DEF Depth
    <2>4. TopFrame.pc + 1 >= 0
      BY <1>3, <2>1 DEF Frames
    <2>. QED
      BY <1>2, <1>5, <2>1, <2>2, <2>3, <2>4 DEF RunningDepth
  <1>. QED
    BY <1>2, <1>10, <1>12, <1>14, <1>15, SMTT(40) DEF Discipline, NeverUnderflows

\* The contexts that are left when one is taken off
LEMMA PoppedContext ==
  ASSUME Inv, exceptionCtx # <<>>, exceptionCtx' = Front(exceptionCtx)
  PROVE  /\ Len(exceptionCtx) \in Nat \ {0} /\ Len(exceptionCtx') = Len(exceptionCtx) - 1
         /\ \A k \in 1 .. Len(exceptionCtx') : /\ k \in 1 .. Len(exceptionCtx)
                                               /\ exceptionCtx'[k] = exceptionCtx[k]
  <1>1. PICK n \in Nat : n = Len(exceptionCtx) /\ DOMAIN exceptionCtx = 1 .. n
    BY MarkTypes
  <1>2. n # 0
    BY <1>1, MarkTypes
  <1>3. /\ exceptionCtx' \in Seq(Contexts) /\ Len(exceptionCtx') = n - 1
        /\ \A k \in DOMAIN exceptionCtx' : exceptionCtx'[k] = exceptionCtx[k]
    BY <1>1, MarkTypes, FrontType
  <1>4. DOMAIN exceptionCtx' = 1 .. n - 1
    BY <1>3
  <1>. QED
    BY <1>1, <1>2, <1>3, <1>4, SMTT(40)

\* The handler of the innermost context starts with the operands it needs.
LEMMA HandlerDiscipline ==
  ASSUME Inv, Mark, KeepsToItsOwn,
         Unwind, NEW target \in {TopCtx.CatchTarget, TopCtx.FinallyTarget},
         target >= 0, pc' = (target - 1) + 1, status' = "running", Len(locals') = Len(locals)
  PROVE  Discipline'
  <1>1. /\ exceptionCtx # <<>> /\ exceptionCtx' = Front(exceptionCtx)
        /\ sp' = TopCtx.StackDepth
        /\ UNCHANGED <<prog, stack, body, callStack>>
    BY DEF Unwind, HandlerDepth, frameVars
  <1>2. PICK n \in Nat : n = Len(exceptionCtx) /\ n # 0
    BY <1>1, PoppedContext
  <1>3. Outer <= n - 1 /\ Outer \in Nat
    BY <1>1, <1>2, PoppedContext, SameMarks, MarkTypes DEF KeepsToItsOwn
  <1>4. TopCtx \in Contexts /\ TopCtx = exceptionCtx[n] /\ n \in Outer + 1 .. Len(exceptionCtx)
    BY <1>2, <1>3, MarkTypes, ElementType DEF TopCtx
  <1>5. target \in Int /\ TopCtx.StackDepth \in Nat
    BY <1>4 DEF Contexts
  <1>6. /\ TopCtx.StackDepth >= Base
        /\ target <= Len(Code) /\ TopCtx.StackDepth >= Base + Depth(body, target)
    <2>1. ContextDepth(TopCtx, body, Base)
      BY <1>4 DEF Inv, Discipline, ContextDepths
    <2>. QED
      BY <2>1 DEF ContextDepth, Code
  <1>7. RunningDepth'
    <2>1. pc' = target /\ Base' = Base /\ Depth(body, pc)' = Depth(body, target)
      BY <1>1, <1>5 DEF Base, TopFrame, Depth
    <2>. QED
      BY <1>1, <1>5, <1>6, <2>1 DEF RunningDepth
  <1>8. n - 1 \in Nat /\ n - 1 = Len(exceptionCtx') /\ Len(exceptionCtx') >= Outer'
    BY <1>1, <1>2, PoppedContext DEF KeepsToItsOwn
  <1>. QED
    BY <1>1, <1>7, <1>8, PoppedContext, SameFrames

LEMMA ExceptionsDiscipline ==
  ASSUME Inv, Mark, KeepsToItsOwn, TypeOK',
         \/ PushExceptionContext \/ PopExceptionContext \/ Catch \/ CatchPanic \/ Finally
  PROVE  Discipline'
  <1>1. CASE PushExceptionContext
    <2>1. Fetch({"PushExceptionContext"}) /\ Op.op = "PushExceptionContext"
      BY <1>1 DEF PushExceptionContext, Fetch
    <2>2. /\ Effect(Op) = 0 /\ IsOpcode(Op, prog) /\ sp \in Nat /\ Base \in Nat
          /\ sp >= Base + Depth(body, pc) /\ Depth(body, pc) \in Nat
      BY <2>1, EffectValues, AtOpcode DEF Keeping
    <2>3. /\ exceptionCtx' = Append(exceptionCtx, NewContext(Op.arg)) /\ sp' = sp
          /\ pc' = pc + 1 /\ UNCHANGED <<prog, stack, body, callStack, status, locals>>
      BY <1>1 DEF PushExceptionContext, LoopNext, frameVars, varVars, endVars
    <2>4. ContextDepth(NewContext(Op.arg), body, Base)
      <3>1. ASSUME NEW target \in {Op.arg.CatchTarget, Op.arg.FinallyTarget}, target >= 0
            PROVE  target <= Len(Code) /\ sp >= Base + Depth(body, target)
        <4>1. target \in 0 .. Len(Code) /\ Depth(body, target) <= Depth(body, pc)
          BY <2>1, <3>1, AtOpcode DEF FlowsFrom, Depth, Op, Code
        <4>2. Depth(body, target) \in Nat /\ Len(Code) \in Nat
          BY <2>1, <4>1, AtOpcode, DepthsOfProgram DEF Inv, Code
        <4>. QED
          BY <2>2, <4>1, <4>2, SMTT(40)
      <3>2. Op.arg.CatchVarSlot < prog[body].varCount
        BY <2>1, AtOpcode DEF FlowsFrom, Op, Code
      <3>3. sp >= Base
        BY <2>2, SMTT(40)
      <3>. QED
        BY <3>1, <3>2, <3>3 DEF ContextDepth, NewContext, ContextAt, Code
    <2>5. PICK n \in Nat : n = Len(exceptionCtx) /\ DOMAIN exceptionCtx = 1 .. n
      BY MarkTypes
    <2>6. Len(exceptionCtx') = n + 1 /\ exceptionCtx'[n + 1] = NewContext(Op.arg)
          /\ \A k \in 1 .. n : exceptionCtx'[k] = exceptionCtx[k]
      BY <2>3, <2>5, MarkTypes
    <2>7. \A k \in 1 .. n + 1 :
            \/ k \in 1 .. Len(exceptionCtx) /\ exceptionCtx'[k] = exceptionCtx[k]
            \/ k > Len(exceptionCtx) /\ ContextDepth(exceptionCtx'[k], body, Base)
      BY <2>4, <2>5, <2>6
    <2>8. RunningDepth'
      BY <2>1, <2>2, <2>3, TurnDepth
    <2>9. status' # "underflow"
      BY <2>1, <2>3 DEF Fetch
    <2>10. n + 1 \in Nat /\ Len(exceptionCtx') >= Outer' /\ Len(locals') = Len(locals)
      BY <2>3, <2>5 DEF KeepsToItsOwn
    <2>. QED
      BY <2>3, <2>6, <2>7, <2>8, <2>9, <2>10, SameFrames
  <1>2. CASE PopExceptionContext
    <2>1. Fetch({"PopExceptionContext"}) /\ Op.op = "PopExceptionContext"
      BY <1>2 DEF PopExceptionContext, Fetch
    <2>2. Effect(Op) = 0 /\ sp \in Nat
      BY <2>1, EffectValues, AtOpcode DEF Keeping
    <2>3. /\ sp' = sp /\ pc' = pc + 1
          /\ UNCHANGED <<prog, stack, body, callStack, status, locals>>
      BY <1>2 DEF PopExceptionContext, LoopNext, frameVars, varVars, endVars
    <2>4. RunningDepth'
      BY <2>1, <2>2, <2>3, TurnDepth
    <2>5. status' # "underflow"
      BY <2>1, <2>3 DEF Fetch
    <2>6. CASE exceptionCtx = <<>>
      <3>1. exceptionCtx' = exceptionCtx
        BY <1>2, <2>6 DEF PopExceptionContext
      <3>. QED
        BY <2>3, <2>4, <2>5, <3>1, SameDepths
    <2>7. CASE exceptionCtx # <<>>
      <3>1. exceptionCtx' = Front(exceptionCtx)
        BY <1>2, <2>7 DEF PopExceptionContext
      <3>2. PICK n \in Nat : n = Len(exceptionCtx')
        BY <2>7, <3>1, PoppedContext
      <3>3. Len(exceptionCtx') >= Outer'
        BY DEF KeepsToItsOwn
      <3>. QED
        BY <2>3, <2>4, <2>5, <2>7, <3>1, <3>2, <3>3, PoppedContext, SameFrames
    <2>. QED
      BY <2>6, <2>7
  <1>3. CASE Catch
    <2>1. /\ Unwind /\ TopCtx.CatchTarget >= 0 /\ pc' = (TopCtx.CatchTarget - 1) + 1
          /\ status' = "running"
      BY <1>3 DEF Catch
    <2>2. Len(locals') = Len(locals)
      BY <1>3 DEF Catch, Inv, TypeOK, VariablesOK, Locals
    <2>. QED
      BY <2>1, <2>2, HandlerDiscipline
  <1>4. CASE CatchPanic
    <2>1. /\ exceptionCtx # <<>> /\ exceptionCtx' = Front(exceptionCtx) /\ status' = "panic"
          /\ UNCHANGED <<prog, stack, body, callStack, locals>>
      BY <1>4 DEF CatchPanic, Unwind, frameVars
    <2>2. PICK n \in Nat : n = Len(exceptionCtx')
      BY <2>1, PoppedContext
    <2>3. Len(exceptionCtx') >= Outer' /\ RunningDepth'
      BY <2>1 DEF KeepsToItsOwn, RunningDepth
    <2>. QED
      BY <2>1, <2>2, <2>3, PoppedContext, SameFrames
  <1>5. CASE Finally
    <2>1. /\ Unwind /\ TopCtx.FinallyTarget >= 0 /\ pc' = (TopCtx.FinallyTarget - 1) + 1
          /\ status' = "running" /\ locals' = locals
      BY <1>5 DEF Finally
    <2>. QED
      BY <2>1, HandlerDiscipline
  <1>. QED
    BY <1>1, <1>2, <1>3, <1>4, <1>5

LEMMA MoveDiscipline ==
  ASSUME Inv, Moves, Mark, KeepsToItsOwn, TypeOK'
  PROVE  Discipline'
  <1>1. CASE ReturnFromMain
    <2>1. /\ callStack = <<>> /\ sp' = 0 + 1 /\ pc' = Len(Code) + 1
          /\ UNCHANGED <<prog, body, callStack, exceptionCtx, status, locals>>
          /\ status = "running"
      BY <1>1 DEF ReturnFromMain, PushAt, LoopNext, Fetch, frameVars, excVars, varVars, endVars
    <2>2. RunningDepth'
      <3>1. Len(Code) \in Nat
        BY DepthsOfProgram DEF Inv, TypeOK, FramesOK, Code
      <3>. QED
        BY <2>1, <3>1 DEF RunningDepth, Base, Code
    <2>. QED
      BY <2>1, <2>2, SameDepths
  <1>. QED
    BY <1>1, GoesDiscipline, HaltsDiscipline, EntersDiscipline, ReturnsDiscipline,
       ExceptionsDiscipline DEF Moves

-----------------------------------------------------------------------------
(* The theorems.                                                           *)

LEMMA InitDiscipline ==
  ASSUME MarkedInit
  PROVE  Inv
  <1>1. TypeOK /\ ProgramOK
    BY InitType DEF MarkedInit
  <1>2. 1 \in DOMAIN prog
    BY <1>1, ProgramIsProgram DEF IsProgram
  <1>3. /\ Depth(1, 0) = 0 /\ prog[1].varCount \in Nat
    BY <1>1, <1>2, DepthsOfProgram
  <1>4. RunningDepth /\ FrameDepths /\ ContextDepths /\ MarksInOrder
    BY <1>3 DEF MarkedInit, Init, Boot, RunningDepth, FrameDepths, ContextDepths, Base, Depth,
                MarksInOrder, Outer
  <1>5. Len(locals) = prog[body].varCount
    BY <1>3 DEF MarkedInit, Init, Boot
  <1>. QED
    BY <1>1, <1>4, <1>5 DEF Inv, Discipline, NeverUnderflows, MarkedInit, Init, Boot

LEMMA NextMoves ==
  ASSUME Inv, [MarkedNext]_<<vars, marks>>, NoCallbacks, NoCallbacks'
  PROVE  /\ [CallersKept /\ Moves /\ Mark]_<<vars, marks>>
         /\ (TypeOK /\ ProgramOK)'
  <1>1. [Next]_vars
    BY DEF MarkedNext
  <1>2. (TypeOK /\ ProgramOK)'
    BY <1>1, NextType DEF Inv
  <1>3. CASE Step /\ Mark
    <2>1. CallersKept /\ Moves
      BY <1>3, StepMoves
    <2>. QED
      BY <1>2, <1>3, <2>1
  <1>4. CASE Finished /\ Mark
    <2>1. UNCHANGED vars
      BY <1>4 DEF Finished
    <2>2. UNCHANGED callStack
      BY <2>1 DEF vars, frameVars
    <2>3. UNCHANGED marks
      BY <1>4, <2>2, SameMarks
    <2>. QED
      BY <1>2, <2>1, <2>3
  <1>. QED
    BY <1>2, <1>3, <1>4 DEF MarkedNext, Next

LEMMA NextDiscipline ==
  ASSUME Inv, [MarkedNext]_<<vars, marks>>, [KeepsToItsOwn]_<<vars, marks>>,
         NoCallbacks, NoCallbacks'
  PROVE  Inv'
  <1>1. [Moves /\ Mark]_<<vars, marks>> /\ (TypeOK /\ ProgramOK)'
    BY NextMoves
  <1>2. CASE Moves /\ Mark /\ KeepsToItsOwn
    BY <1>1, <1>2, MoveDiscipline DEF Inv
  <1>3. CASE UNCHANGED <<vars, marks>>
    <2>1. UNCHANGED <<prog, body, callStack, exceptionCtx, locals, pc, sp, status>>
      BY <1>3 DEF vars, frameVars, excVars, varVars, endVars
    <2>2. Mark
      <3>1. PICK n \in Nat : n = Len(callStack) /\ n = Len(callStack')
        BY <2>1, MarkTypes
      <3>. QED
        BY <1>3, <3>1, SMTT(40) DEF Mark
    <2>3. RunningDepth'
      BY <2>1 DEF RunningDepth, Inv, Discipline, Base, TopFrame, Depth, Code
    <2>4. Discipline'
      BY <2>1, <2>2, <2>3, SameDepths DEF Inv, Discipline, NeverUnderflows
    <2>. QED
      BY <1>1, <2>4 DEF Inv
  <1>. QED
    BY <1>1, <1>2, <1>3

\* Callees write above the operands of all callers, not of the last one only.
LEMMA AllCallersKept ==
  ASSUME Inv, CallersKept
  PROVE  KeepsOperands
  <1>. SUFFICES ASSUME NEW i \in DOMAIN callStack, NEW n \in 1 .. callStack[i].sp
                PROVE  stack'[n] = stack[n]
    BY DEF KeepsOperands
  <1>1. callStack # <<>> /\ Len(callStack) \in DOMAIN callStack /\ i <= Len(callStack)
    BY DEF Inv, TypeOK, FramesOK
  <1>2. callStack[i].sp <= Base
    BY <1>1 DEF Inv, Discipline, FrameDepths, Base, TopFrame
  <1>3. callStack[i].sp \in Nat /\ Base \in Nat
    BY DepthsAreNat, BaseIsNat DEF Inv
  <1>. QED
    BY <1>2, <1>3 DEF CallersKept

\* While every call keeps to the exception contexts that it made itself and no
\* native method calls back, every function has at each of its opcodes the
\* operands that the parser's code counts on, its callers will have theirs when
\* it returns, and a handler, of whichever of them, finds those that its try
\* statement began with.
THEOREM DisciplineIsKept ==
  MarkedSpec /\ TriesAreLocal /\ []NoCallbacks => []Discipline
  <1>1. MarkedInit => Inv
    BY InitDiscipline
  <1>2. Inv /\ [MarkedNext]_<<vars, marks>> /\ [KeepsToItsOwn]_<<vars, marks>>
          /\ NoCallbacks /\ NoCallbacks' => Inv'
    BY NextDiscipline
  <1>3. Inv => Discipline
    BY DEF Inv
  <1>. QED
    BY <1>1, <1>2, <1>3, PTL DEF MarkedSpec, TriesAreLocal

\* The operand stack never runs empty: pop and peek do not meet what
\* engine.go expects never to happen, while every call keeps to the exception
\* contexts that it made itself and no native method calls back.
THEOREM StackNeverUnderflows ==
  MarkedSpec /\ TriesAreLocal /\ []NoCallbacks => []NeverUnderflows
  <1>1. Discipline => NeverUnderflows
    BY DEF Discipline
  <1>. QED
    BY <1>1, DisciplineIsKept, PTL

\* Under the same conditions callees, and the handlers that run in them,
\* leave the operands of every caller as they were (setupScriptCall, Return).
THEOREM OperandsAreKept ==
  MarkedSpec /\ TriesAreLocal /\ []NoCallbacks => CallersKeepOperands
  <1>1. MarkedInit => Inv
    BY InitDiscipline
  <1>2. Inv /\ [MarkedNext]_<<vars, marks>> /\ [KeepsToItsOwn]_<<vars, marks>>
          /\ NoCallbacks /\ NoCallbacks' => Inv'
    BY NextDiscipline
  <1>3. Inv /\ [MarkedNext]_<<vars, marks>> /\ NoCallbacks /\ NoCallbacks'
          => [KeepsOperands]_vars
    BY NextMoves, AllCallersKept
  <1>. QED
    BY <1>1, <1>2, <1>3, PTL DEF MarkedSpec, TriesAreLocal, CallersKeepOperands

-----------------------------------------------------------------------------
(* No Go panic.                                                            *)

\* Only a handler and an iteration write a local that may not be there, and
\* only an assignment to an element writes at an index that may have no place.
LEMMA OnlyThesePanic ==
  ASSUME NeverPanics, Next
  PROVE  NeverPanics' \/ CatchPanic \/ ForNextPanic \/ ElementPanic
  <1>. USE DEF NeverPanics, LoopNext, endVars
  <1>1. ASSUME NEW names, NEW results, Operate(names, results)
        PROVE  NeverPanics'
    BY <1>1 DEF Operate
  <1>2. CASE Operators
    BY <1>1, <1>2 DEF Operators, PushLiteral, Arithmetic, Shift, Relational, Equality,
       StrictEqual, Bitwise, Unary, IncElement, IncProperty, LogicalNot, TypeTest, GetElement,
       GetProperty, DeleteMember, SetMember, ElementPanic, NewObjects, Pop, Dup
  <1>3. CASE Variables
    BY <1>3 DEF Variables, LoadVariable, StoreVariable, IncVariable, LoadCapture,
       StoreCapture, LoadGlobal, StoreGlobal, PushFunction
  <1>4. ASSUME NEW fn, NEW thisVal, NEW args, NEW n, callFunctionWithThis(fn, thisVal, args, n)
        PROVE  NeverPanics'
    BY <1>4 DEF callFunctionWithThis, setupScriptCall, callAsk, callLog, callFail, callEach,
       CallWithThis, Raise, Stop
  <1>5. CASE Control
    BY <1>4, <1>5 DEF Control, Call, MethodCall, Jump, JumpIf, JumpIfOrPop, ReturnFromMain,
       ReturnToScript, ReturnToNative, Leave, ForInKeys, ForOfIterator, ForHasMore, ForNext,
       ForCleanup
  <1>6. CASE Exceptions
    BY <1>6 DEF Exceptions, PushExceptionContext, PopExceptionContext, Throw, FinallyComplete,
       Raise, Catch, Finally, Uncaught, Stop
  <1>7. CASE Loops
    BY <1>7 DEF Loops, ExecReturns, CallbackReturns, IterationReturns, Underflow,
       CallWithThis, Stop
  <1>8. CASE Finished
    BY <1>8 DEF Finished, vars
  <1>. QED
    BY <1>2, <1>3, <1>5, <1>6, <1>7, <1>8 DEF Next, Step

LEMMA HandlersFindTheirs ==
  ASSUME Inv, PendingInv, Mark, KeepsToItsOwn
  PROVE  ~CatchPanic
  <1>. SUFFICES ASSUME CatchPanic PROVE FALSE
    OBVIOUS
  <1>1. /\ status = "raising" /\ exceptionCtx # <<>> /\ CatchPanics
        /\ exceptionCtx' = Front(exceptionCtx) /\ UNCHANGED callStack
    BY DEF CatchPanic, Unwind, frameVars
  <1>2. exception # NoValue
    BY <1>1 DEF PendingInv, OneException
  <1>3. PICK n \in Nat : n = Len(exceptionCtx) /\ n # 0
    BY <1>1, PoppedContext
  <1>4. Outer <= n - 1 /\ Outer \in Nat
    BY <1>1, <1>3, PoppedContext, SameMarks, MarkTypes DEF KeepsToItsOwn
  <1>5. TopCtx \in Contexts /\ TopCtx = exceptionCtx[n] /\ n \in Outer + 1 .. Len(exceptionCtx)
    BY <1>3, <1>4, MarkTypes, ElementType DEF TopCtx
  <1>6. TopCtx.CatchVarSlot < prog[body].varCount
    BY <1>5 DEF Inv, Discipline, ContextDepths, ContextDepth
  <1>. QED
    BY <1>1, <1>2, <1>6 DEF CatchPanics, HasSlot, Inv, Discipline

LEMMA IterationsFindTheirs ==
  ASSUME Inv
  PROVE  ~ForNextPanic
  <1>. SUFFICES ASSUME ForNextPanic PROVE FALSE
    OBVIOUS
  <1>1. Fetch(NextOps) /\ ~HasSlot(Op.arg)
    BY SMTT(40) DEF ForNextPanic
  <1>2. Op.arg < prog[body].varCount
    BY <1>1, AtOpcode DEF FlowsFrom, Op, Code
  <1>. QED
    BY <1>1, <1>2 DEF HasSlot, Inv, Discipline

LEMMA ElementsFindTheirs ==
  ASSUME Inv, WritesHavePlaces
  PROVE  ~ElementPanic
  <1>. SUFFICES ASSUME ElementPanic PROVE FALSE
    OBVIOUS
  <1>1. Fetch(ElementWrites) /\ WritesToArray /\ \E i \in WrittenIndices : i < 0
    BY DEF ElementPanic
  <1>2. Op.op \in ElementWrites /\ sp \in Nat /\ sp >= Needs(Op) /\ StackOK
    BY <1>1 DEF Fetch, Inv, TypeOK, StackOK
  <1>3. Needs(Op) \in {2, 3}
    <2>1. ElementIncOps \subseteq TwoOps
      BY DEF TwoOps, ElementIncOps
    <2>. QED
      BY <1>2, <2>1, NeedsValues DEF ElementWrites
  <1>4. Needs(Op) - 2 \in Nat /\ Needs(Op) - 2 < sp
    BY <1>2, <1>3
  <1>5. Top(Needs(Op) - 2) \in Existing
    BY <1>2, <1>4, TopType
  <1>6. Top(Needs(Op) - 2).v \in Int
    BY <1>5 DEF Existing
  <1>7. WrittenIndices \subseteq Int
    BY <1>6 DEF WrittenIndices
  <1>. QED
    BY <1>1, <1>7 DEF WritesHavePlaces

\* The operations of the machine never panic, under the conditions above, as
\* long as no finally block raises an exception while another is on its way
\* and no script assigns to an element before the first of an array: the local
\* that a handler or an iteration writes is one of the function that runs, and
\* the exception that a handler stores has not been taken by another one.
THEOREM NothingPanics ==
  MarkedSpec /\ TriesAreLocal /\ []NoCallbacks /\ FinallyIsQuiet /\ []WritesHavePlaces => []NeverPanics
  <1>1. MarkedInit => Inv /\ PendingInv /\ NeverPanics
    BY InitDiscipline, InitPending DEF NeverPanics, MarkedInit, Init, Boot
  <1>2. Inv /\ [MarkedNext]_<<vars, marks>> /\ [KeepsToItsOwn]_<<vars, marks>>
          /\ NoCallbacks /\ NoCallbacks' => Inv'
    BY NextDiscipline
  <1>3. PendingInv /\ [MarkedNext]_<<vars, marks>> /\ [RaisesOne]_vars => PendingInv'
    <2>1. [MarkedNext]_<<vars, marks>> => [Next]_vars
      BY DEF MarkedNext
    <2>. QED
      BY <2>1, NextPending
  <1>4. Inv /\ PendingInv /\ NeverPanics /\ [MarkedNext]_<<vars, marks>>
          /\ [KeepsToItsOwn]_<<vars, marks>> /\ WritesHavePlaces => NeverPanics'
    <2>1. Inv /\ PendingInv /\ NeverPanics /\ Next /\ Mark /\ KeepsToItsOwn /\ WritesHavePlaces
            => NeverPanics'
      BY OnlyThesePanic, HandlersFindTheirs, IterationsFindTheirs, ElementsFindTheirs
    <2>2. NeverPanics /\ UNCHANGED <<vars, marks>> => NeverPanics'
      BY DEF NeverPanics, vars, endVars
    <2>. QED
      BY <2>1, <2>2 DEF MarkedNext
  <1>. QED
    BY <1>1, <1>2, <1>3, <1>4, PTL DEF MarkedSpec, TriesAreLocal, FinallyIsQuiet

-----------------------------------------------------------------------------
(* Try blocks.  The exception contexts of a call are at each opcode those  *)
(* of the try blocks of its function that are open there, and what they    *)
(* note of the stack differs as the depths of the function do.             *)

TriesOf(b) == CHOOSE tries : IsBracketed(b, prog[b], tries)

\* The contexts that the function that runs made, and those that a caller did
Segment(ctxs, from, to) == [i \in 1 .. to - from |-> ctxs[from + i]]
Own == Segment(exceptionCtx, Outer, Len(exceptionCtx))
OwnOf(i) == Segment(exceptionCtx, OuterOf(i), marks[i])

\* A context was made by the opcode at a of function b; between q, where the
\* stack had m operands, and p, where it has n, they became at least as many
\* more as the depths say.
OpenedAt(b, ctx, a) == /\ ctx.CatchTarget = prog[b].code[a + 1].arg.CatchTarget
                       /\ ctx.FinallyTarget = prog[b].code[a + 1].arg.FinallyTarget
Above(b, n, p, m, q) == n - m >= Depth(b, p) - Depth(b, q)
Chain(b, ctxs, open) ==
  /\ ctxs \in [1 .. Len(open) -> Contexts]
  /\ \A i \in 1 .. Len(open) : OpenedAt(b, ctxs[i], open[i])
  /\ \A i, j \in 1 .. Len(open) :
       i <= j => Above(b, ctxs[j].StackDepth, open[j], ctxs[i].StackDepth, open[i])
AllBelow(b, ctxs, n, p, open) ==
  \A i \in 1 .. Len(open) : Above(b, n, p, ctxs[i].StackDepth, open[i])

\* Control is at p of function b, with n operands and the contexts ctxs of its
\* own; while an exception is on its way, the number of operands does not matter.
InTries(b, p, ctxs) == p \in DOMAIN TriesOf(b) /\ Chain(b, ctxs, TriesOf(b)[p])
Inside(b, p, n, ctxs) == InTries(b, p, ctxs) /\ AllBelow(b, ctxs, n, p, TriesOf(b)[p])

\* Only the bottom of the call stack is the main script.
Bodies == /\ body = 1 <=> callStack = <<>>
          /\ \A i \in DOMAIN callStack : callStack[i].body = 1 <=> i = 1

Past == pc > Len(Code) /\ exceptionCtx = <<>> /\ body = 1
Running == status = "running" => Past \/ Inside(body, pc, sp, Own)
Raising == status = "raising" => pc < Len(Code) /\ InTries(body, pc, Own)

\* Every caller goes on in the try blocks that were open when it called, and
\* they began with no more operands than it has without those of the call.
FramesInside ==
  \A i \in DOMAIN callStack :
    Inside(callStack[i].body, callStack[i].pc + 1, callStack[i].sp + 1, OwnOf(i))
BelowFrames ==
  \A i \in DOMAIN callStack : \A k \in 1 .. marks[i] :
    exceptionCtx[k].StackDepth <= callStack[i].sp

Ascending == \A i, j \in DOMAIN exceptionCtx :
               i <= j => exceptionCtx[i].StackDepth <= exceptionCtx[j].StackDepth
Ended == status = "done" => exceptionCtx = <<>> /\ callStack = <<>>

Nesting == Bodies /\ FramesInside /\ BelowFrames /\ Running /\ Raising /\ Ascending /\ Ended
NInv == Inv /\ TriesAreBracketed /\ Nesting

LEMMA HigherStill ==
  ASSUME NEW b, NEW n \in Int, NEW m \in Int, NEW l \in Int, NEW p, NEW q, NEW r,
         Depth(b, p) \in Nat, Depth(b, q) \in Nat, Depth(b, r) \in Nat,
         Above(b, n, p, m, q), Above(b, m, q, l, r)
  PROVE  Above(b, n, p, l, r)
  <1>1. PICK x \in Nat, y \in Nat, z \in Nat :
          x = Depth(b, p) /\ y = Depth(b, q) /\ z = Depth(b, r)
    OBVIOUS
  <1>2. n - m >= x - y /\ m - l >= y - z
    BY <1>1 DEF Above
  <1>3. n - l >= x - z
    BY ONLY <1>2
  <1>. QED
    BY <1>1, <1>3 DEF Above

\* What is static of the try blocks that are open at p
LEMMA OpenAt ==
  ASSUME ProgramOK, TriesAreBracketed, NEW b \in DOMAIN prog, NEW p \in DOMAIN TriesOf(b)
  PROVE  /\ p \in 0 .. Len(prog[b].code) /\ Len(prog[b].code) \in Nat /\ Depth(b, p) \in Nat
         /\ TriesOf(b)[p] \in Seq(Nat) /\ Len(TriesOf(b)[p]) \in Nat
         /\ \A i \in 1 .. Len(TriesOf(b)[p]) :
              LET a == TriesOf(b)[p][i]
              IN /\ a \in DOMAIN TriesOf(b) /\ a \in 0 .. Len(prog[b].code) - 1
                 /\ prog[b].code[a + 1].op = "PushExceptionContext"
                 /\ TriesOf(b)[a] = SubSeq(TriesOf(b)[p], 1, i - 1)
                 /\ Depth(b, a) \in Nat
                 /\ Required(prog[b].code[p + 1]) \in Nat
                 /\ Depth(b, a) + Required(prog[b].code[p + 1]) <= Depth(b, p)
         /\ p # Len(prog[b].code) => CarriesTries(prog[b], TriesOf(b), p)
         /\ p = Len(prog[b].code) => b = 1 /\ TriesOf(b)[p] = <<>>
  <1> DEFINE T == TriesOf(b)
             open == TriesOf(b)[p]
  <1>1. IsBracketed(b, prog[b], T)
    BY DEF TriesAreBracketed, TriesOf
  <1>2. Len(prog[b].code) \in Nat /\ \A q \in 0 .. Len(prog[b].code) : Depth(b, q) \in Nat
    BY DepthsOfProgram
  <1>3. DOMAIN T \subseteq 0 .. Len(prog[b].code) /\ NestsTries(prog[b], T, p)
    BY <1>1 DEF IsBracketed, ClosesTries
  <1>4. open \in Seq(DOMAIN T)
    BY <1>3 DEF NestsTries
  <1>5. open \in Seq(Nat)
    <2>1. DOMAIN T \subseteq Nat
      BY <1>2, <1>3
    <2>. HIDE DEF T, open
    <2>. QED
      BY <1>4, <2>1
  <1>6. p # Len(prog[b].code) => CarriesTries(prog[b], T, p)
    BY <1>1 DEF IsBracketed, ClosesTries
  <1>7. p = Len(prog[b].code) => b = 1 /\ open = <<>>
    BY <1>1 DEF IsBracketed, EndsInOrder
  <1>8. ASSUME NEW i \in 1 .. Len(open)
        PROVE  /\ open[i] \in DOMAIN T /\ open[i] \in 0 .. Len(prog[b].code) - 1
               /\ prog[b].code[open[i] + 1].op = "PushExceptionContext"
               /\ T[open[i]] = SubSeq(open, 1, i - 1)
               /\ Depth(b, open[i]) \in Nat
               /\ Required(prog[b].code[p + 1]) \in Nat
               /\ Depth(b, open[i]) + Required(prog[b].code[p + 1]) <= Depth(b, p)
    <2>1. i \in DOMAIN open /\ open[i] \in DOMAIN T /\ open # <<>>
      BY <1>4
    <2>2. /\ open[i] < Len(prog[b].code)
          /\ prog[b].code[open[i] + 1].op = "PushExceptionContext"
          /\ T[open[i]] = SubSeq(open, 1, i - 1)
          /\ prog[b].depths[open[i]] + Required(prog[b].code[p + 1]) <= prog[b].depths[p]
      BY <1>3, <2>1 DEF NestsTries
    <2>3. open[i] \in 0 .. Len(prog[b].code)
      BY <1>3, <2>1
    <2>4. Depth(b, open[i]) \in Nat
      BY <1>2, <2>3
    <2>5. p \in 0 .. Len(prog[b].code) - 1
      BY <1>2, <1>3, <1>7, <2>1
    <2>6. Required(prog[b].code[p + 1]) \in Nat
      BY <2>5, RequiredIsNat
    <2>. HIDE DEF T, open
    <2>. QED
      BY <1>2, <2>1, <2>2, <2>3, <2>4, <2>6 DEF Depth
  <1>. QED
    BY <1>2, <1>3, <1>5, <1>6, <1>7, <1>8, SMTT(40)

\* The contexts of the try blocks that are open
LEMMA ContextsInTries ==
  ASSUME ProgramOK, TriesAreBracketed, NEW b \in DOMAIN prog, NEW p, NEW ctxs, InTries(b, p, ctxs)
  PROVE  /\ p \in DOMAIN TriesOf(b) /\ DOMAIN ctxs = 1 .. Len(TriesOf(b)[p])
         /\ Len(TriesOf(b)[p]) \in Nat
         /\ \A i \in 1 .. Len(TriesOf(b)[p]) :
              /\ ctxs[i] \in Contexts /\ ctxs[i].StackDepth \in Nat
              /\ TriesOf(b)[p][i] \in Nat /\ Depth(b, TriesOf(b)[p][i]) \in Nat
              /\ OpenedAt(b, ctxs[i], TriesOf(b)[p][i])
         /\ \A i, j \in 1 .. Len(TriesOf(b)[p]) :
              i <= j => Above(b, ctxs[j].StackDepth, TriesOf(b)[p][j],
                              ctxs[i].StackDepth, TriesOf(b)[p][i])
  <1>1. p \in DOMAIN TriesOf(b) /\ Chain(b, ctxs, TriesOf(b)[p])
    BY DEF InTries
  <1>2. PICK open : open = TriesOf(b)[p]
    OBVIOUS
  <1>3. /\ open \in Seq(Nat) /\ Len(open) \in Nat
        /\ \A i \in 1 .. Len(open) : Depth(b, open[i]) \in Nat
    BY <1>1, <1>2, OpenAt
  <1>4. Chain(b, ctxs, open)
    BY <1>1, <1>2
  <1>5. \A i \in 1 .. Len(open) : ctxs[i] \in Contexts /\ open[i] \in Nat
    BY <1>3, <1>4 DEF Chain
  <1>6. \A i \in 1 .. Len(open) : ctxs[i].StackDepth \in Nat
    BY <1>5 DEF Contexts
  <1>. QED
    BY <1>1, <1>2, <1>3, <1>4, <1>5, <1>6 DEF Chain

\* Control goes on within the same try blocks.
LEMMA InsideOn ==
  ASSUME ProgramOK, TriesAreBracketed, NEW b \in DOMAIN prog, NEW p, NEW n \in Int, NEW ctxs,
         Inside(b, p, n, ctxs),
         NEW q \in DOMAIN TriesOf(b), TriesOf(b)[q] = TriesOf(b)[p], NEW m \in Int,
         Above(b, m, q, n, p)
  PROVE  Inside(b, q, m, ctxs)
  <1>1. InTries(b, p, ctxs) /\ AllBelow(b, ctxs, n, p, TriesOf(b)[p])
    BY DEF Inside
  <1>2. p \in DOMAIN TriesOf(b) /\ Depth(b, p) \in Nat /\ Depth(b, q) \in Nat
    BY <1>1, ContextsInTries, OpenAt
  <1>3. InTries(b, q, ctxs)
    BY <1>1 DEF InTries
  <1>4. ASSUME NEW i \in 1 .. Len(TriesOf(b)[q])
        PROVE  Above(b, m, q, ctxs[i].StackDepth, TriesOf(b)[q][i])
    <2>1. Above(b, n, p, ctxs[i].StackDepth, TriesOf(b)[p][i])
      BY <1>1 DEF AllBelow
    <2>2. ctxs[i].StackDepth \in Nat /\ Depth(b, TriesOf(b)[p][i]) \in Nat
      BY <1>1, ContextsInTries
    <2>3. ctxs[i].StackDepth \in Int
      BY <2>2
    <2>. QED
      BY <1>2, <2>1, <2>2, <2>3, HigherStill
  <1>. QED
    BY <1>3, <1>4 DEF Inside, AllBelow

\* The try blocks that are open began with fewer operands than there are, those
\* of the next opcode not counted.
LEMMA UnderOperands ==
  ASSUME ProgramOK, TriesAreBracketed, NEW b \in DOMAIN prog, NEW p, NEW n \in Nat, NEW ctxs,
         Inside(b, p, n, ctxs), NEW i \in 1 .. Len(TriesOf(b)[p])
  PROVE  /\ Required(prog[b].code[p + 1]) \in Nat
         /\ ctxs[i].StackDepth <= n - Required(prog[b].code[p + 1])
         /\ ctxs[i].StackDepth <= n
  <1>1. InTries(b, p, ctxs) /\ AllBelow(b, ctxs, n, p, TriesOf(b)[p])
    BY DEF Inside
  <1>2. /\ p \in DOMAIN TriesOf(b) /\ ctxs[i].StackDepth \in Nat
        /\ Depth(b, TriesOf(b)[p][i]) \in Nat
    BY <1>1, ContextsInTries
  <1>3. /\ Required(prog[b].code[p + 1]) \in Nat /\ Depth(b, p) \in Nat
        /\ Depth(b, TriesOf(b)[p][i]) + Required(prog[b].code[p + 1]) <= Depth(b, p)
    BY <1>2, OpenAt
  <1>4. n - ctxs[i].StackDepth >= Depth(b, p) - Depth(b, TriesOf(b)[p][i])
    BY <1>1 DEF AllBelow, Above
  <1>5. PICK s \in Nat, d \in Nat, a \in Nat, r \in Nat :
          /\ s = ctxs[i].StackDepth /\ d = Depth(b, p) /\ a = Depth(b, TriesOf(b)[p][i])
          /\ r = Required(prog[b].code[p + 1])
    BY <1>2, <1>3
  <1>6. a + r <= d /\ n - s >= d - a
    BY <1>3, <1>4, <1>5
  <1>7. s <= n - r /\ s <= n
    BY ONLY <1>6
  <1>. QED
    BY <1>3, <1>5, <1>7

\* A try block begins: it lies within those around it, and by what is noted of
\* them has no fewer operands below it.
LEMMA InsideNewTry ==
  ASSUME ProgramOK, TriesAreBracketed, NEW b \in DOMAIN prog, NEW p, NEW n \in Nat, NEW ctxs,
         Inside(b, p, n, ctxs), p # Len(prog[b].code),
         prog[b].code[p + 1].op = "PushExceptionContext",
         NEW ctx \in Contexts, OpenedAt(b, ctx, p), ctx.StackDepth = n,
         NEW more \in [1 .. Len(TriesOf(b)[p]) + 1 -> Contexts],
         more[Len(TriesOf(b)[p]) + 1] = ctx,
         \A i \in 1 .. Len(TriesOf(b)[p]) : more[i] = ctxs[i]
  PROVE  Inside(b, p + 1, n, more)
  <1>1. InTries(b, p, ctxs) /\ AllBelow(b, ctxs, n, p, TriesOf(b)[p])
    BY DEF Inside
  <1>2. /\ p \in DOMAIN TriesOf(b) /\ Depth(b, p) \in Nat /\ TriesOf(b)[p] \in Seq(Nat)
        /\ p \in 0 .. Len(prog[b].code) - 1 /\ p \in Nat /\ CarriesTries(prog[b], TriesOf(b), p)
    BY <1>1, ContextsInTries, OpenAt
  <1>3. PICK old \in Seq(Nat), k \in Nat : old = TriesOf(b)[p] /\ k = Len(old)
    BY <1>2
  <1>4. PICK open, q : open = Append(old, p) /\ q = p + 1
    OBVIOUS
  <1>5. q \in DOMAIN TriesOf(b) /\ TriesOf(b)[q] = open
    BY <1>2, <1>3, <1>4 DEF CarriesTries
  <1>6. /\ Len(open) = k + 1 /\ open[k + 1] = p
        /\ \A i \in 1 .. k : open[i] = old[i]
    BY <1>2, <1>3, <1>4
  <1>7. \A i \in 1 .. k : /\ OpenedAt(b, ctxs[i], old[i])
                          /\ Above(b, n, p, ctxs[i].StackDepth, old[i])
                          /\ ctxs[i].StackDepth \in Nat /\ Depth(b, old[i]) \in Nat
    BY <1>1, <1>3, ContextsInTries DEF AllBelow
  <1>8. Above(b, n, p, n, p)
    BY <1>2 DEF Above
  <1>9. ASSUME NEW i \in 1 .. k + 1
        PROVE  /\ OpenedAt(b, more[i], open[i])
               /\ Above(b, n, p, more[i].StackDepth, open[i])
               /\ more[i].StackDepth \in Nat /\ Depth(b, open[i]) \in Nat
    <2>1. CASE i \in 1 .. k
      BY <1>3, <1>6, <1>7, <2>1
    <2>2. CASE i = k + 1
      BY <1>2, <1>3, <1>6, <1>8, <2>2
    <2>3. i \in 1 .. k \/ i = k + 1
      OBVIOUS
    <2>. QED
      BY <2>1, <2>2, <2>3
  <1>10. ASSUME NEW i \in 1 .. k + 1, NEW j \in 1 .. k + 1, i <= j
        PROVE  Above(b, more[j].StackDepth, open[j], more[i].StackDepth, open[i])
    <2>1. CASE j = k + 1
      BY <1>3, <1>6, <1>9, <2>1
    <2>2. CASE i \in 1 .. k /\ j \in 1 .. k
      <3>1. Above(b, ctxs[j].StackDepth, old[j], ctxs[i].StackDepth, old[i])
        BY <1>1, <1>3, <1>10, <2>2, ContextsInTries
      <3>. QED
        BY <1>3, <1>6, <2>2, <3>1
    <2>3. j = k + 1 \/ (i \in 1 .. k /\ j \in 1 .. k)
      BY <1>10
    <2>. QED
      BY <2>1, <2>2, <2>3
  <1>11. InTries(b, q, more)
    BY <1>3, <1>5, <1>6, <1>9, <1>10 DEF InTries, Chain
  <1>12. Depth(b, q) \in Nat /\ Above(b, n, q, n, p)
    <2>1. FlowsFrom(prog[b], p) /\ Effect(prog[b].code[p + 1]) = 0
      BY <1>2, DepthsOfProgram, EffectValues, SMTT(40) DEF Keeping
    <2>2. Depth(b, q) <= Depth(b, p) + 0
      BY <1>4, <2>1 DEF FlowsFrom, Depth
    <2>3. Depth(b, q) \in Nat
      BY <1>5, OpenAt
    <2>4. PICK x \in Nat, y \in Nat : x = Depth(b, q) /\ y = Depth(b, p)
      BY <1>2, <2>3
    <2>. QED
      BY <2>2, <2>3, <2>4 DEF Above
  <1>13. AllBelow(b, more, n, q, TriesOf(b)[q])
    <2>1. ASSUME NEW i \in 1 .. k + 1
          PROVE  Above(b, n, q, more[i].StackDepth, open[i])
      <3>1. /\ more[i].StackDepth \in Int /\ n \in Int /\ Depth(b, open[i]) \in Nat
            /\ Above(b, n, p, more[i].StackDepth, open[i])
        BY <1>9
      <3>. QED
        BY <1>2, <1>12, <3>1, HigherStill
    <2>. QED
      BY <1>5, <1>6, <2>1 DEF AllBelow
  <1>. QED
    BY <1>4, <1>11, <1>13 DEF Inside

\* What is left of the contexts when the innermost one goes
LEMMA FewerTries ==
  ASSUME ProgramOK, TriesAreBracketed, NEW b \in DOMAIN prog, NEW p, NEW ctxs, InTries(b, p, ctxs),
         Len(TriesOf(b)[p]) # 0,
         NEW fewer \in [1 .. Len(TriesOf(b)[p]) - 1 -> Contexts],
         \A i \in 1 .. Len(TriesOf(b)[p]) - 1 : fewer[i] = ctxs[i]
  PROVE  /\ Chain(b, fewer, Front(TriesOf(b)[p]))
         /\ Len(TriesOf(b)[p]) \in Nat \ {0}
         /\ Len(Front(TriesOf(b)[p])) = Len(TriesOf(b)[p]) - 1
         /\ \A i \in 1 .. Len(TriesOf(b)[p]) - 1 : Front(TriesOf(b)[p])[i] = TriesOf(b)[p][i]
  <1>1. p \in DOMAIN TriesOf(b) /\ TriesOf(b)[p] \in Seq(Nat)
    BY ContextsInTries, OpenAt
  <1>2. PICK old \in Seq(Nat), k \in Nat : old = TriesOf(b)[p] /\ k = Len(old) /\ k # 0
    BY <1>1
  <1>3. PICK open : open = Front(old)
    OBVIOUS
  <1>4. /\ open \in Seq(Nat) /\ Len(open) = k - 1
        /\ \A i \in 1 .. k - 1 : open[i] = old[i]
    <2>1. old # <<>>
      BY <1>2
    <2>2. open \in Seq(Nat) /\ Len(open) = k - 1 /\ \A i \in DOMAIN open : open[i] = old[i]
      BY <1>2, <1>3, <2>1, FrontType
    <2>3. DOMAIN open = 1 .. k - 1
      BY <2>2
    <2>. QED
      BY <2>2, <2>3
  <1>5. \A i \in 1 .. k - 1 : OpenedAt(b, fewer[i], open[i])
    <2>. SUFFICES ASSUME NEW i \in 1 .. k - 1 PROVE OpenedAt(b, fewer[i], open[i])
      OBVIOUS
    <2>1. i \in 1 .. k
      BY <1>2
    <2>2. OpenedAt(b, ctxs[i], old[i])
      BY <1>2, <2>1, ContextsInTries
    <2>. QED
      BY <1>2, <1>4, <2>2
  <1>6. ASSUME NEW i \in 1 .. k - 1, NEW j \in 1 .. k - 1, i <= j
        PROVE  Above(b, fewer[j].StackDepth, open[j], fewer[i].StackDepth, open[i])
    <2>1. i \in 1 .. k /\ j \in 1 .. k
      BY <1>2
    <2>2. Above(b, ctxs[j].StackDepth, old[j], ctxs[i].StackDepth, old[i])
      BY <1>2, <1>6, <2>1, ContextsInTries
    <2>. QED
      BY <1>2, <1>4, <2>2
  <1>7. Chain(b, fewer, open)
    BY <1>2, <1>4, <1>5, <1>6 DEF Chain
  <1>. QED
    BY <1>2, <1>4, <1>7, <1>3

\* A try block ends.
LEMMA InsideFewerTries ==
  ASSUME ProgramOK, TriesAreBracketed, NEW b \in DOMAIN prog, NEW p, NEW n \in Nat, NEW ctxs,
         Inside(b, p, n, ctxs), p # Len(prog[b].code),
         prog[b].code[p + 1].op = "PopExceptionContext",
         NEW fewer \in [1 .. Len(TriesOf(b)[p]) - 1 -> Contexts],
         \A i \in 1 .. Len(TriesOf(b)[p]) - 1 : fewer[i] = ctxs[i]
  PROVE  Inside(b, p + 1, n, fewer)
  <1>1. InTries(b, p, ctxs) /\ AllBelow(b, ctxs, n, p, TriesOf(b)[p])
    BY DEF Inside
  <1>2. /\ p \in DOMAIN TriesOf(b) /\ Depth(b, p) \in Nat /\ TriesOf(b)[p] \in Seq(Nat)
        /\ p \in 0 .. Len(prog[b].code) - 1 /\ CarriesTries(prog[b], TriesOf(b), p)
    BY <1>1, ContextsInTries, OpenAt
  <1>3. PICK open : open = Front(TriesOf(b)[p])
    OBVIOUS
  <1>4. /\ TriesOf(b)[p] # <<>> /\ p + 1 \in DOMAIN TriesOf(b) /\ TriesOf(b)[p + 1] = open
    BY <1>2, <1>3 DEF CarriesTries
  <1>5. PICK k \in Nat : k = Len(TriesOf(b)[p]) /\ k # 0
    BY <1>2, <1>4
  <1>6. /\ Chain(b, fewer, open) /\ Len(open) = k - 1
        /\ \A i \in 1 .. k - 1 : open[i] = TriesOf(b)[p][i]
    BY <1>1, <1>3, <1>5, FewerTries
  <1>7. Depth(b, p + 1) \in Nat /\ Above(b, n, p + 1, n, p)
    <2>1. FlowsFrom(prog[b], p) /\ Effect(prog[b].code[p + 1]) = 0
      BY <1>2, DepthsOfProgram, EffectValues DEF Keeping
    <2>2. Depth(b, p + 1) <= Depth(b, p) + 0
      BY <2>1 DEF FlowsFrom, Depth
    <2>3. Depth(b, p + 1) \in Nat
      BY <1>4, OpenAt
    <2>4. PICK x \in Nat, y \in Nat : x = Depth(b, p + 1) /\ y = Depth(b, p)
      BY <1>2, <2>3
    <2>. QED
      BY <2>2, <2>3, <2>4 DEF Above
  <1>8. ASSUME NEW i \in 1 .. k - 1
        PROVE  Above(b, n, p + 1, fewer[i].StackDepth, open[i])
    <2>1. i \in 1 .. k
      BY <1>5
    <2>2. Above(b, n, p, ctxs[i].StackDepth, TriesOf(b)[p][i])
      BY <1>1, <1>5, <2>1 DEF AllBelow
    <2>3. ctxs[i].StackDepth \in Int /\ Depth(b, TriesOf(b)[p][i]) \in Nat /\ n \in Int
      BY <1>1, <1>5, <2>1, ContextsInTries
    <2>4. Above(b, n, p + 1, ctxs[i].StackDepth, TriesOf(b)[p][i])
      BY <1>2, <1>7, <2>2, <2>3, HigherStill
    <2>. QED
      BY <1>5, <1>6, <2>4
  <1>. QED
    BY <1>4, <1>6, <1>8 DEF Inside, InTries, AllBelow

\* A handler goes on where the try block of the innermost context began.
LEMMA InsideHandler ==
  ASSUME ProgramOK, TriesAreBracketed, NEW b \in DOMAIN prog, NEW p, NEW ctxs, InTries(b, p, ctxs),
         NEW k \in Nat, k = Len(TriesOf(b)[p]), k # 0,
         NEW fewer \in [1 .. k - 1 -> Contexts], \A i \in 1 .. k - 1 : fewer[i] = ctxs[i],
         NEW target, target >= 0,
         target = ctxs[k].CatchTarget \/ target = ctxs[k].FinallyTarget
  PROVE  Inside(b, target, ctxs[k].StackDepth, fewer)
  <1>1. PICK open : open = Front(TriesOf(b)[p])
    OBVIOUS
  <1>2. /\ Chain(b, fewer, open) /\ Len(open) = k - 1
        /\ \A i \in 1 .. k - 1 : open[i] = TriesOf(b)[p][i]
    BY <1>1, FewerTries
  <1>3. PICK a : a = TriesOf(b)[p][k]
    OBVIOUS
  <1>4. /\ a \in DOMAIN TriesOf(b) /\ a \in 0 .. Len(prog[b].code) - 1
        /\ prog[b].code[a + 1].op = "PushExceptionContext"
        /\ TriesOf(b)[a] = SubSeq(TriesOf(b)[p], 1, k - 1) /\ Depth(b, a) \in Nat
    <2>1. p \in DOMAIN TriesOf(b) /\ k \in 1 .. Len(TriesOf(b)[p])
      BY ContextsInTries
    <2>. QED
      BY <1>3, <2>1, OpenAt, ZenonT(40)
  <1>5. TriesOf(b)[a] = open
    BY <1>1, <1>4 DEF Front
  <1>6. /\ CarriesTries(prog[b], TriesOf(b), a) /\ FlowsFrom(prog[b], a)
        /\ Len(prog[b].code) \in Nat
    <2>1. a # Len(prog[b].code)
      BY <1>4, DepthsOfProgram
    <2>. QED
      BY <1>4, <2>1, OpenAt, DepthsOfProgram
  <1>7. OpenedAt(b, ctxs[k], a) /\ ctxs[k].StackDepth \in Nat
    BY <1>3, ContextsInTries
  <1>8. target \in {prog[b].code[a + 1].arg.CatchTarget, prog[b].code[a + 1].arg.FinallyTarget}
    BY <1>7 DEF OpenedAt
  <1>9. target \in DOMAIN TriesOf(b) /\ TriesOf(b)[target] = open
    BY <1>4, <1>5, <1>6, <1>8 DEF CarriesTries
  <1>10. Depth(b, target) <= Depth(b, a)
    BY <1>4, <1>6, <1>8 DEF FlowsFrom, Depth
  <1>11. Depth(b, target) \in Nat
    BY <1>9, OpenAt
  <1>12. PICK n \in Nat : n = ctxs[k].StackDepth
    BY <1>7
  <1>13. Above(b, n, target, n, a)
    <2>1. PICK x \in Nat, y \in Nat : x = Depth(b, target) /\ y = Depth(b, a)
      BY <1>4, <1>11
    <2>. QED
      BY <1>10, <2>1 DEF Above
  <1>14. ASSUME NEW i \in 1 .. k - 1
         PROVE  Above(b, n, target, fewer[i].StackDepth, open[i])
    <2>1. i \in 1 .. k /\ k \in 1 .. k /\ i <= k
      OBVIOUS
    <2>2. Above(b, n, a, ctxs[i].StackDepth, TriesOf(b)[p][i])
      BY <1>3, <1>12, <2>1, ContextsInTries
    <2>3. ctxs[i].StackDepth \in Int /\ Depth(b, TriesOf(b)[p][i]) \in Nat /\ n \in Int
      BY <2>1, ContextsInTries
    <2>4. Above(b, n, target, ctxs[i].StackDepth, TriesOf(b)[p][i])
      BY <1>4, <1>11, <1>13, <2>2, <2>3, HigherStill
    <2>. QED
      BY <1>2, <2>4
  <1>. QED
    BY <1>2, <1>9, <1>12, <1>14 DEF Inside, InTries, AllBelow

\* Where a function begins and ends, no try block of it is open.
LEMMA InsideAtStart ==
  ASSUME ProgramOK, TriesAreBracketed, NEW b \in DOMAIN prog, NEW n, NEW ctxs, ctxs = <<>>
  PROVE  Inside(b, 0, n, ctxs)
  <1>1. IsBracketed(b, prog[b], TriesOf(b))
    BY DEF TriesAreBracketed, TriesOf
  <1>2. 0 \in DOMAIN TriesOf(b) /\ TriesOf(b)[0] = <<>>
    BY <1>1 DEF IsBracketed, ClosesTries
  <1>. QED
    BY <1>2 DEF Inside, InTries, Chain, AllBelow

-----------------------------------------------------------------------------
(* The machine keeps to the try blocks of its functions.                   *)

\* What all steps start from
LEMMA NestingTypes ==
  ASSUME NInv
  PROVE  /\ Inv /\ ProgramOK /\ TypeOK /\ TriesAreBracketed /\ Base \in Nat
         /\ body \in DOMAIN prog /\ pc \in Int /\ sp \in Nat
         /\ Len(Code) \in Nat /\ Code = prog[body].code /\ 1 \in DOMAIN prog
         /\ \A k \in DOMAIN exceptionCtx : exceptionCtx[k].StackDepth \in Nat
         /\ \A i \in DOMAIN callStack : /\ callStack[i].body \in DOMAIN prog
                                        /\ callStack[i].pc \in Int /\ callStack[i].sp \in Nat
  <1>1. /\ Inv /\ ProgramOK /\ TypeOK /\ TriesAreBracketed
        /\ body \in DOMAIN prog /\ pc \in Int /\ sp \in Nat
    BY DEF NInv, Inv, TypeOK, FramesOK, StackOK
  <1>2. Len(Code) \in Nat /\ Code = prog[body].code /\ Base \in Nat
    BY <1>1, DepthsOfProgram, BaseIsNat DEF Code
  <1>3. \A k \in DOMAIN exceptionCtx : exceptionCtx[k].StackDepth \in Nat
    BY <1>1, DepthsAreNat
  <1>4. ASSUME NEW i \in DOMAIN callStack
        PROVE  /\ callStack[i].body \in DOMAIN prog
               /\ callStack[i].pc \in Int /\ callStack[i].sp \in Nat
    <2>1. FrameDepth(i)
      BY <1>1 DEF Inv, Discipline, FrameDepths
    <2>2. callStack[i] \in Frames
      BY <1>1, ElementType DEF TypeOK, FramesOK
    <2>. QED
      BY <2>1, <2>2 DEF FrameDepth, Frames
  <1>5. 1 \in DOMAIN prog
    BY <1>1, ProgramIsProgram DEF IsProgram
  <1>. QED
    BY <1>1, <1>2, <1>3, <1>4, <1>5

\* What the machine knows of its try blocks when it fetches an opcode
LEMMA TriesAtOpcode ==
  ASSUME NInv, status \in {"running", "raising"}, InRange
  PROVE  /\ InTries(body, pc, Own) /\ (status = "running" => Inside(body, pc, sp, Own))
         /\ pc \in DOMAIN TriesOf(body) /\ pc \in 0 .. Len(Code) - 1
         /\ pc # Len(prog[body].code) /\ Depth(body, pc) \in Nat
         /\ CarriesTries(prog[body], TriesOf(body), pc) /\ FlowsFrom(prog[body], pc)
  <1>1. pc \in 0 .. Len(Code) - 1 /\ ~Past /\ pc # Len(prog[body].code)
    BY NestingTypes DEF InRange, Past
  <1>2. InTries(body, pc, Own) /\ (status = "running" => Inside(body, pc, sp, Own))
    BY <1>1 DEF NInv, Nesting, Running, Raising, Inside
  <1>3. pc \in DOMAIN TriesOf(body)
    BY <1>2 DEF InTries
  <1>4. CarriesTries(prog[body], TriesOf(body), pc)
    BY <1>1, <1>3, NestingTypes, OpenAt
  <1>5. FlowsFrom(prog[body], pc) /\ Depth(body, pc) \in Nat
    BY <1>1, NestingTypes, DepthsOfProgram
  <1>. QED
    BY <1>1, <1>2, <1>3, <1>4, <1>5

LEMMA SegmentDomain ==
  ASSUME NEW from \in Nat, NEW to \in Nat, from <= to, NEW ctxs, NEW k \in Nat,
         DOMAIN Segment(ctxs, from, to) = 1 .. k
  PROVE  to = from + k /\ \A i \in 1 .. k : Segment(ctxs, from, to)[i] = ctxs[from + i]
  <1>1. PICK n \in Nat : n = to - from
    OBVIOUS
  <1>2. 1 .. n = 1 .. k
    BY <1>1 DEF Segment
  <1>3. n = k
    <2>1. ASSUME n < k PROVE FALSE
      <3>1. k \in 1 .. k /\ k \notin 1 .. n
        BY <2>1
      <3>. QED
        BY <1>2, <3>1
    <2>2. ASSUME k < n PROVE FALSE
      <3>1. n \in 1 .. n /\ n \notin 1 .. k
        BY <2>2
      <3>. QED
        BY <1>2, <3>1
    <2>. QED
      BY <2>1, <2>2
  <1>. QED
    BY <1>1, <1>3 DEF Segment

\* The contexts of the function that runs are as many as its open try blocks.
LEMMA OwnContexts ==
  ASSUME NInv, InTries(body, pc, Own), NEW k \in Nat, k = Len(TriesOf(body)[pc])
  PROVE  Len(exceptionCtx) = Outer + k /\ \A i \in 1 .. k : Own[i] = exceptionCtx[Outer + i]
  <1>1. DOMAIN Own = 1 .. k
    BY NestingTypes, ContextsInTries, SMTT(40)
  <1>2. PICK o \in Nat, l \in Nat : o = Outer /\ l = Len(exceptionCtx) /\ o <= l
    BY NestingTypes, MarkTypes
  <1>3. Own = Segment(exceptionCtx, o, l)
    BY <1>2 DEF Own
  <1>4. l = o + k /\ \A i \in 1 .. k : Segment(exceptionCtx, o, l)[i] = exceptionCtx[o + i]
    BY <1>1, <1>2, <1>3, SegmentDomain, SMTT(40)
  <1>. QED
    BY <1>2, <1>3, <1>4

\* The program does not change, so what a formula says of it after a step it
\* says before.
LEMMA StillInside ==
  ASSUME prog' = prog
  PROVE  /\ \A b : TriesOf(b)' = TriesOf(b)
         /\ \A b, p, n, ctxs : Inside(b, p, n, ctxs)' = Inside(b, p, n, ctxs)
         /\ \A b, p, ctxs : InTries(b, p, ctxs)' = InTries(b, p, ctxs)
  <1>1. \A b : TriesOf(b)' = TriesOf(b)
    BY DEF TriesOf
  <1>2. \A b, n, p, m, q : Above(b, n, p, m, q)' = Above(b, n, p, m, q)
    BY DEF Above, Depth
  <1>3. \A b, ctx, a : OpenedAt(b, ctx, a)' = OpenedAt(b, ctx, a)
    BY DEF OpenedAt
  <1>4. \A b, ctxs, open : Chain(b, ctxs, open)' = Chain(b, ctxs, open)
    BY <1>2, <1>3 DEF Chain, Contexts
  <1>5. \A b, ctxs, n, p, open : AllBelow(b, ctxs, n, p, open)' = AllBelow(b, ctxs, n, p, open)
    BY <1>2 DEF AllBelow
  <1>6. \A b, p, ctxs : InTries(b, p, ctxs)' = InTries(b, p, ctxs)
    BY <1>1, <1>4 DEF InTries
  <1>. QED
    BY <1>1, <1>5, <1>6 DEF Inside

LEMMA SameOwn ==
  ASSUME NInv, Mark, UNCHANGED <<callStack, exceptionCtx>>
  PROVE  Own' = Own /\ marks' = marks /\ Outer' = Outer
  BY NestingTypes, SameMarks DEF Own, Segment

\* The frames stay the same, and so do the contexts of the callers.
LEMMA SameCallers ==
  ASSUME NInv, Mark, UNCHANGED <<prog, body, callStack>>,
         \A k \in 1 .. Outer : exceptionCtx'[k] = exceptionCtx[k]
  PROVE  Bodies' /\ FramesInside' /\ BelowFrames' /\ TriesAreBracketed'
  <1>1. marks' = marks /\ (\A i : OuterOf(i)' = OuterOf(i))
    BY NestingTypes, SameMarks
  <1>2. ASSUME NEW i \in DOMAIN callStack, NEW k \in 1 .. marks[i]
        PROVE  exceptionCtx'[k] = exceptionCtx[k]
    <2>1. k \in 1 .. Outer
      BY NestingTypes, MarkTypes
    <2>. QED
      BY <2>1
  <1>3. ASSUME NEW i \in DOMAIN callStack
        PROVE  OwnOf(i)' = OwnOf(i)
    <2>1. PICK o \in Nat, m \in Nat : o = OuterOf(i) /\ m = marks[i]
      BY NestingTypes, MarkTypes
    <2>2. \A j \in 1 .. m - o : exceptionCtx'[o + j] = exceptionCtx[o + j]
      <3>. SUFFICES ASSUME NEW j \in 1 .. m - o
                    PROVE  exceptionCtx'[o + j] = exceptionCtx[o + j]
        OBVIOUS
      <3>1. o + j \in 1 .. m
        OBVIOUS
      <3>. QED
        BY <1>2, <2>1, <3>1
    <2>3. OwnOf(i)' = [j \in 1 .. m - o |-> exceptionCtx'[o + j]]
      BY <1>1, <2>1 DEF OwnOf, Segment
    <2>4. OwnOf(i) = [j \in 1 .. m - o |-> exceptionCtx[o + j]]
      BY <2>1 DEF OwnOf, Segment
    <2>. QED
      BY <2>2, <2>3, <2>4
  <1>4. FramesInside'
    <2>1. \A i \in DOMAIN callStack :
            Inside(callStack[i].body, callStack[i].pc + 1, callStack[i].sp + 1, OwnOf(i)')
      BY <1>3 DEF NInv, Nesting, FramesInside
    <2>. QED
      BY <2>1, StillInside DEF FramesInside
  <1>5. BelowFrames'
    BY <1>1, <1>2 DEF NInv, Nesting, BelowFrames
  <1>. QED
    BY <1>4, <1>5 DEF NInv, Nesting, Bodies, TriesAreBracketed

LEMMA StillNested ==
  ASSUME NInv, Mark, UNCHANGED <<prog, body, callStack, exceptionCtx>>, Running', Raising', Ended'
  PROVE  Nesting' /\ TriesAreBracketed'
  BY SameCallers DEF NInv, Nesting, Ascending

\* No try block that is open began with more operands than an opcode leaves.
LEMMA AllUnder ==
  ASSUME NInv, Inside(body, pc, sp, Own), NEW k \in DOMAIN exceptionCtx
  PROVE  \/ exceptionCtx[k].StackDepth <= Base
         \/ Required(Op) \in Nat /\ exceptionCtx[k].StackDepth <= sp - Required(Op)
  <1>1. InTries(body, pc, Own)
    BY DEF Inside
  <1>2. PICK n \in Nat, o \in Nat : n = Len(TriesOf(body)[pc]) /\ o = Outer
    BY <1>1, NestingTypes, ContextsInTries, MarkTypes
  <1>3. Len(exceptionCtx) = o + n /\ \A i \in 1 .. n : Own[i] = exceptionCtx[o + i]
    BY <1>1, <1>2, OwnContexts
  <1>4. k \in 1 .. o + n
    BY <1>3, NestingTypes, MarkTypes
  <1>5. CASE k \in 1 .. o
    <2>1. marks # <<>> /\ callStack # <<>> /\ Len(marks) = Len(callStack)
      BY <1>2, <1>5, NestingTypes, MarkTypes DEF Outer
    <2>2. Len(callStack) \in DOMAIN callStack
      BY <2>1, NestingTypes, MarkTypes
    <2>3. marks[Len(callStack)] = o /\ Base = callStack[Len(callStack)].sp
      BY <1>2, <2>1 DEF Outer, Base, TopFrame
    <2>. QED
      BY <1>5, <2>2, <2>3 DEF NInv, Nesting, BelowFrames
  <1>6. CASE k \notin 1 .. o
    <2>1. PICK i \in 1 .. n : k = o + i
      BY <1>4, <1>6
    <2>2. Own[i].StackDepth <= sp - Required(prog[body].code[pc + 1])
            /\ Required(prog[body].code[pc + 1]) \in Nat
      BY <1>2, NestingTypes, UnderOperands
    <2>. QED
      BY <1>3, <2>1, <2>2 DEF Op, Code
  <1>. QED
    BY <1>5, <1>6

\* Control stays in the function and in its try blocks.
LEMMA GoesInside ==
  ASSUME NInv, Mark, Goes
  PROVE  Nesting' /\ TriesAreBracketed'
  <1>1. /\ status = "running" /\ InRange /\ sp' \in Int
        /\ UNCHANGED <<prog, body, callStack, exceptionCtx, status>>
    BY DEF Goes
  <1>2. /\ Inside(body, pc, sp, Own) /\ pc \in 0 .. Len(Code) - 1 /\ Depth(body, pc) \in Nat
        /\ CarriesTries(prog[body], TriesOf(body), pc) /\ FlowsFrom(prog[body], pc)
    BY <1>1, TriesAtOpcode
  <1>3. /\ pc' \in DOMAIN TriesOf(body) /\ TriesOf(body)[pc'] = TriesOf(body)[pc]
        /\ sp' - sp >= Depth(body, pc') - Depth(body, pc)
    <2>1. CASE /\ pc' = pc + 1 /\ Op.op \notin Special
               /\ Effect(Op) \in Int /\ sp' >= sp + Effect(Op)
      <3>1. pc + 1 \in DOMAIN TriesOf(body) /\ TriesOf(body)[pc + 1] = TriesOf(body)[pc]
        BY <1>2, <2>1 DEF CarriesTries, Op, Code
      <3>2. Depth(body, pc + 1) <= Depth(body, pc) + Effect(Op)
        BY <1>2, <2>1 DEF FlowsFrom, Depth, Op, Code
      <3>3. Depth(body, pc + 1) \in Nat
        BY <3>1, NestingTypes, OpenAt
      <3>. QED
        BY <1>1, <1>2, <2>1, <3>1, <3>2, <3>3, NestingTypes, SMTT(40)
    <2>2. CASE /\ pc' = Op.arg /\ Op.op \in JumpOps
               /\ JumpEffect(Op) \in Int /\ sp' >= sp + JumpEffect(Op)
      <3>1. Op.arg \in DOMAIN TriesOf(body) /\ TriesOf(body)[Op.arg] = TriesOf(body)[pc]
        BY <1>2, <2>2, SMTT(40) DEF CarriesTries, Op, Code
      <3>2. Depth(body, Op.arg) <= Depth(body, pc) + JumpEffect(Op)
        BY <1>2, <2>2 DEF FlowsFrom, Depth, Op, Code
      <3>3. Depth(body, Op.arg) \in Nat
        BY <3>1, NestingTypes, OpenAt
      <3>. QED
        BY <1>1, <1>2, <2>2, <3>1, <3>2, <3>3, NestingTypes, SMTT(40)
    <2>. QED
      BY <2>1, <2>2 DEF Goes
  <1>4. Inside(body, pc', sp', Own)
    <2>1. Above(body, sp', pc', sp, pc) /\ sp \in Int
      BY <1>3, NestingTypes DEF Above
    <2>. QED
      BY <1>1, <1>2, <1>3, <2>1, NestingTypes, InsideOn
  <1>5. Inside(body, pc, sp, Own)'
    <2>1. Own' = Own
      BY <1>1, SameOwn
    <2>. QED
      BY <1>1, <1>4, <2>1, StillInside
  <1>. QED
    BY <1>1, <1>5, StillNested DEF Running, Raising, Ended

\* The main script has no context when it is done.
LEMMA NoneLeft ==
  ASSUME NInv, body = 1, InTries(body, pc, Own), TriesOf(body)[pc] = <<>>
  PROVE  exceptionCtx = <<>> /\ callStack = <<>>
  <1>1. callStack = <<>>
    BY DEF NInv, Nesting, Bodies
  <1>2. Outer = 0
    BY <1>1, NestingTypes, MarkTypes DEF Outer
  <1>3. Len(exceptionCtx) = Outer + 0
    BY OwnContexts
  <1>. QED
    BY <1>1, <1>2, <1>3, NestingTypes, MarkTypes

LEMMA HaltsInside ==
  ASSUME NInv, Mark, Halts
  PROVE  Nesting' /\ TriesAreBracketed'
  <1>1. UNCHANGED <<prog, pc, body, callStack, exceptionCtx>>
    BY DEF Halts
  <1>2. CASE status' = "raising" /\ status = "running" /\ InRange
    <2>1. InTries(body, pc, Own) /\ pc < Len(Code)
      BY <1>2, TriesAtOpcode, NestingTypes
    <2>2. Own' = Own
      BY <1>1, SameOwn
    <2>3. InTries(body, pc, Own)'
      BY <1>1, <2>1, <2>2, StillInside
    <2>. QED
      BY <1>1, <1>2, <2>1, <2>3, StillNested DEF Running, Raising, Ended, Code
  <1>3. CASE status' = "done" /\ LoopEnds
    <2>1. status = "running" /\ pc >= Len(Code)
      BY <1>3, NestingTypes DEF LoopEnds, InRange, Inv, Discipline, RunningDepth
    <2>2. exceptionCtx = <<>> /\ callStack = <<>>
      <3>1. CASE Past
        BY <3>1 DEF Past, NInv, Nesting, Bodies
      <3>2. CASE Inside(body, pc, sp, Own)
        <4>1. InTries(body, pc, Own) /\ pc \in DOMAIN TriesOf(body)
          BY <3>2 DEF Inside, InTries
        <4>2. pc = Len(prog[body].code)
          BY <2>1, <4>1, NestingTypes, OpenAt
        <4>3. body = 1 /\ TriesOf(body)[pc] = <<>>
          BY <4>1, <4>2, NestingTypes, OpenAt
        <4>. QED
          BY <4>1, <4>3, NoneLeft
      <3>. QED
        BY <2>1, <3>1, <3>2 DEF NInv, Nesting, Running
    <2>. QED
      BY <1>1, <1>3, <2>2, StillNested DEF Running, Raising, Ended
  <1>4. CASE status' \notin {"running", "raising", "done"}
    BY <1>1, <1>4, StillNested DEF Running, Raising, Ended
  <1>. QED
    BY <1>2, <1>3, <1>4 DEF Halts

\* A function begins outside of its try blocks; its caller goes on in those
\* that were open when it called.
LEMMA EntersInside ==
  ASSUME NInv, Mark, Enters
  PROVE  Nesting' /\ TriesAreBracketed'
  <1>1. PICK n \in Nat : EntersOn(n)
    BY DEF Enters
  <1>2. /\ status = "running" /\ InRange /\ Op.op \notin Special
        /\ UNCHANGED <<prog, exceptionCtx, status>>
        /\ n <= sp /\ Effect(Op) \in Int /\ n + 1 = sp + Effect(Op)
        /\ Required(Op) \in Int /\ sp - Required(Op) <= n /\ sp' = n
        /\ body' \in DOMAIN prog \ {1} /\ pc' = 0
    BY <1>1, SMTT(40) DEF EntersOn
  <1>3. PICK top \in Nat, l \in Nat : top = Len(callStack) /\ l = Len(exceptionCtx)
    BY NestingTypes, MarkTypes
  <1>4. /\ Base \in Nat /\ n >= Base
        /\ DOMAIN callStack' = 1 .. top + 1 /\ Len(callStack') = top + 1
        /\ callStack'[top + 1] = Frame(body, pc, n)
        /\ \A i \in 1 .. top : callStack'[i] = callStack[i]
        /\ marks'[top + 1] = l
        /\ \A i \in 1 .. top : marks'[i] = marks[i]
        /\ Outer' = l
        /\ \A i \in 1 .. top : OuterOf(i)' = OuterOf(i)
        /\ OuterOf(top + 1)' = Outer
    BY <1>1, <1>3, NestingTypes, EntersBooks
  <1>5. DOMAIN callStack = 1 .. top
    BY <1>3, NestingTypes, MarkTypes
  <1>6. Inside(body, pc, sp, Own)
    BY <1>2, TriesAtOpcode
  <1>7. Inside(body, pc + 1, n + 1, Own)
    <2>1. /\ CarriesTries(prog[body], TriesOf(body), pc) /\ FlowsFrom(prog[body], pc)
          /\ Depth(body, pc) \in Nat
      BY <1>2, TriesAtOpcode
    <2>2. pc + 1 \in DOMAIN TriesOf(body) /\ TriesOf(body)[pc + 1] = TriesOf(body)[pc]
      BY <1>2, <2>1, SMTT(40) DEF CarriesTries, Op, Code
    <2>3. Depth(body, pc + 1) <= Depth(body, pc) + Effect(Op)
      BY <1>2, <2>1 DEF FlowsFrom, Depth, Op, Code
    <2>4. Depth(body, pc + 1) \in Nat
      BY <2>2, NestingTypes, OpenAt
    <2>5. Above(body, n + 1, pc + 1, sp, pc)
      <3>1. PICK x \in Nat, y \in Nat, e \in Int :
              x = Depth(body, pc + 1) /\ y = Depth(body, pc) /\ e = Effect(Op)
        BY <1>2, <2>1, <2>4
      <3>2. x <= y + e /\ n + 1 = sp + e /\ sp \in Nat
        BY <1>2, <2>3, <3>1, NestingTypes
      <3>3. n + 1 - sp >= x - y
        BY ONLY <3>2
      <3>4. pc \in Int
        BY NestingTypes
      <3>. QED
        BY <2>1, <2>4, <3>1, <3>2, <3>3, <3>4 DEF Above
    <2>6. n + 1 \in Int /\ sp \in Int
      BY NestingTypes
    <2>. QED
      BY <1>6, <2>2, <2>5, <2>6, NestingTypes, InsideOn
  <1>8. FramesInside'
    <2>1. ASSUME NEW i \in 1 .. top + 1
          PROVE  Inside(callStack'[i].body, callStack'[i].pc + 1, callStack'[i].sp + 1, OwnOf(i)')
      <3>1. CASE i = top + 1
        <4>1. OwnOf(i)' = Own
          BY <1>2, <1>3, <1>4, <3>1 DEF OwnOf, Own, Segment
        <4>2. callStack'[i].body = body /\ callStack'[i].pc = pc /\ callStack'[i].sp = n
          BY <1>4, <3>1 DEF Frame
        <4>. QED
          BY <1>7, <4>1, <4>2
      <3>2. CASE i \in 1 .. top
        <4>1. OwnOf(i)' = OwnOf(i)
          BY <1>2, <1>4, <3>2 DEF OwnOf, Segment
        <4>2. Inside(callStack[i].body, callStack[i].pc + 1, callStack[i].sp + 1, OwnOf(i))
          BY <1>5, <3>2 DEF NInv, Nesting, FramesInside
        <4>. QED
          BY <1>4, <3>2, <4>1, <4>2
      <3>. QED
        BY <3>1, <3>2
    <2>. QED
      BY <1>2, <1>4, <2>1, StillInside DEF FramesInside
  <1>9. BelowFrames'
    <2>1. ASSUME NEW k \in 1 .. l
          PROVE  exceptionCtx[k].StackDepth <= n
      <3>1. k \in DOMAIN exceptionCtx
        BY <1>3, NestingTypes, MarkTypes
      <3>2. PICK s \in Nat : s = exceptionCtx[k].StackDepth
        BY <3>1, NestingTypes
      <3>3. s <= Base \/ (Required(Op) \in Nat /\ s <= sp - Required(Op))
        BY <1>6, <3>1, <3>2, AllUnder
      <3>4. sp \in Nat
        BY NestingTypes
      <3>. QED
        BY <1>2, <1>4, <3>2, <3>3, <3>4, SMTT(40)
    <2>2. ASSUME NEW i \in 1 .. top + 1, NEW k \in 1 .. marks'[i]
          PROVE  exceptionCtx[k].StackDepth <= callStack'[i].sp
      <3>1. CASE i = top + 1
        BY <1>4, <2>1, <3>1 DEF Frame
      <3>2. CASE i \in 1 .. top
        BY <1>4, <1>5, <3>2 DEF NInv, Nesting, BelowFrames
      <3>. QED
        BY <3>1, <3>2
    <2>. QED
      BY <1>2, <1>4, <2>2 DEF BelowFrames
  <1>10. Bodies'
    <2>1. body' # 1 /\ callStack' # <<>>
      BY <1>2, <1>4
    <2>2. \A i \in 1 .. top : callStack[i].body = 1 <=> i = 1
      BY <1>5 DEF NInv, Nesting, Bodies
    <2>3. body = 1 <=> top + 1 = 1
      BY <1>3, <1>5, NestingTypes, MarkTypes DEF NInv, Nesting, Bodies
    <2>4. \A i \in 1 .. top + 1 : callStack'[i].body = 1 <=> i = 1
      BY <1>4, <2>2, <2>3 DEF Frame
    <2>. QED
      BY <1>4, <2>1, <2>4 DEF Bodies
  <1>11. Running'
    <2>1. Own' = <<>>
      BY <1>2, <1>3, <1>4 DEF Own, Segment
    <2>2. Inside(body', pc', sp', Own')
      BY <1>2, <2>1, NestingTypes, InsideAtStart
    <2>. QED
      BY <1>2, <2>2, StillInside DEF Running
  <1>. QED
    BY <1>2, <1>8, <1>9, <1>10, <1>11
       DEF NInv, Nesting, Raising, Ended, Ascending, TriesAreBracketed

\* A function that returns leaves its caller the contexts that it had.
LEMMA ReturnsInside ==
  ASSUME NInv, Mark, KeepsToItsOwn, ReturnFromMain \/ ReturnToScript
  PROVE  Nesting' /\ TriesAreBracketed'
  <1>1. CASE ReturnFromMain
    <2>1. /\ status = "running" /\ InRange /\ Op.op = "Return" /\ callStack = <<>>
          /\ UNCHANGED <<prog, body, callStack, exceptionCtx, status>> /\ pc' = Len(Code) + 1
      BY <1>1 DEF ReturnFromMain, LoopNext, Fetch, frameVars, excVars, endVars
    <2>2. body = 1 /\ InTries(body, pc, Own) /\ TriesOf(body)[pc] = <<>>
      BY <2>1, TriesAtOpcode DEF CarriesTries, Op, Code, NInv, Nesting, Bodies
    <2>3. exceptionCtx = <<>>
      BY <2>2, NoneLeft
    <2>4. Past'
      BY <2>1, <2>2, <2>3, NestingTypes DEF Past, Code
    <2>. QED
      BY <2>1, <2>4, StillNested DEF Running, Raising, Ended
  <1>2. CASE ReturnToScript
    <2>1. PICK top \in Nat : top = Len(callStack) /\ DOMAIN callStack = 1 .. top
      BY NestingTypes, MarkTypes
    <2>2. /\ body' = TopFrame.body /\ pc' = TopFrame.pc + 1 /\ sp' = TopFrame.sp + 1
          /\ UNCHANGED <<prog, exceptionCtx, status>> /\ status = "running"
          /\ top # 0 /\ TopFrame = callStack[top]
          /\ Len(callStack') = top - 1 /\ DOMAIN callStack' = 1 .. top - 1
          /\ \A i \in 1 .. top - 1 : callStack'[i] = callStack[i]
          /\ \A i \in 1 .. top - 1 : marks'[i] = marks[i]
          /\ Outer' = OuterOf(top) /\ Len(exceptionCtx) = marks[top]
          /\ \A i \in 1 .. top - 1 : OuterOf(i)' = OuterOf(i)
      BY <1>2, <2>1, NestingTypes, ReturnsBooks
    <2>3. FramesInside'
      <3>1. ASSUME NEW i \in 1 .. top - 1
            PROVE  Inside(callStack'[i].body, callStack'[i].pc + 1, callStack'[i].sp + 1,
                          OwnOf(i)')
        <4>1. OwnOf(i)' = OwnOf(i)
          BY <2>2 DEF OwnOf, Segment
        <4>2. i \in DOMAIN callStack
          BY <2>1
        <4>. QED
          BY <2>2, <4>1, <4>2 DEF NInv, Nesting, FramesInside
      <3>. QED
        BY <2>2, <3>1, StillInside DEF FramesInside
    <2>4. BelowFrames'
      <3>1. \A i \in 1 .. top - 1 : i \in DOMAIN callStack
        BY <2>1
      <3>. QED
        BY <2>2, <3>1 DEF NInv, Nesting, BelowFrames
    <2>5. Bodies'
      <3>1. \A i \in 1 .. top : callStack[i].body = 1 <=> i = 1
        BY <2>1 DEF NInv, Nesting, Bodies
      <3>2. callStack' = <<>> <=> top = 1
        BY <2>1, <2>2
      <3>3. body' = 1 <=> top = 1
        BY <2>1, <2>2, <3>1
      <3>. QED
        BY <2>2, <3>1, <3>2, <3>3 DEF Bodies
    <2>6. Running'
      <3>1. Own' = OwnOf(top)
        BY <2>2 DEF Own, OwnOf, Segment
      <3>2. Inside(TopFrame.body, TopFrame.pc + 1, TopFrame.sp + 1, OwnOf(top))
        BY <2>1, <2>2 DEF NInv, Nesting, FramesInside
      <3>3. Inside(body', pc', sp', Own')
        BY <2>2, <3>1, <3>2
      <3>. QED
        BY <2>2, <3>3, StillInside DEF Running
    <2>. QED
      BY <2>2, <2>3, <2>4, <2>5, <2>6
         DEF NInv, Nesting, Raising, Ended, Ascending, TriesAreBracketed
  <1>. QED
    BY <1>1, <1>2

\* A try block begins with all the operands that there are.
LEMMA BeginsInside ==
  ASSUME NInv, Mark, PushExceptionContext
  PROVE  Nesting' /\ TriesAreBracketed'
  <1>1. /\ status = "running" /\ InRange /\ Op.op = "PushExceptionContext"
        /\ exceptionCtx' = Append(exceptionCtx, NewContext(Op.arg)) /\ sp' = sp /\ pc' = pc + 1
        /\ UNCHANGED <<prog, body, callStack, status>>
    BY DEF PushExceptionContext, LoopNext, Fetch, frameVars, endVars
  <1>2. /\ Inside(body, pc, sp, Own) /\ InTries(body, pc, Own) /\ pc # Len(prog[body].code)
        /\ pc \in 0 .. Len(Code) - 1
    BY <1>1, TriesAtOpcode DEF Inside
  <1>3. PICK o \in Nat, k \in Nat : o = Outer /\ k = Len(TriesOf(body)[pc])
    BY <1>2, NestingTypes, ContextsInTries, MarkTypes
  <1>4. Len(exceptionCtx) = o + k /\ \A i \in 1 .. k : Own[i] = exceptionCtx[o + i]
    BY <1>2, <1>3, OwnContexts
  <1>5. /\ Len(exceptionCtx') = o + k + 1 /\ DOMAIN exceptionCtx' = 1 .. o + k + 1
        /\ exceptionCtx'[o + k + 1] = NewContext(Op.arg)
        /\ \A i \in 1 .. o + k : exceptionCtx'[i] = exceptionCtx[i]
    <2>1. exceptionCtx \in Seq(Contexts)
      BY NestingTypes, MarkTypes
    <2>2. PICK l \in Nat : l = o + k /\ l = Len(exceptionCtx)
      BY <1>4
    <2>3. PICK ctx : ctx = NewContext(Op.arg)
      OBVIOUS
    <2>4. exceptionCtx' = Append(exceptionCtx, ctx)
      BY <1>1, <2>3
    <2>5. /\ Len(exceptionCtx') = l + 1 /\ DOMAIN exceptionCtx' = 1 .. l + 1
          /\ exceptionCtx'[l + 1] = ctx /\ \A i \in 1 .. l : exceptionCtx'[i] = exceptionCtx[i]
      BY <2>1, <2>2, <2>4
    <2>. QED
      BY <2>2, <2>3, <2>5
  <1>6. Outer' = o
    BY <1>1, <1>3, NestingTypes, SameMarks
  <1>7. /\ DOMAIN Own' = 1 .. k + 1 /\ Own'[k + 1] = NewContext(Op.arg)
        /\ \A i \in 1 .. k : Own'[i] = Own[i]
    <2>1. Own' = [i \in 1 .. k + 1 |-> exceptionCtx'[o + i]]
      BY <1>5, <1>6 DEF Own, Segment
    <2>. QED
      BY <1>4, <1>5, <2>1
  <1>8. /\ NewContext(Op.arg) \in Contexts /\ NewContext(Op.arg).StackDepth = sp
        /\ OpenedAt(body, NewContext(Op.arg), pc)
    <2>1. Op.arg \in Context
      <3>1. IsOpcode(Op, prog)
        BY <1>2, NestingTypes, ProgramIsProgram DEF IsProgram, IsFunction, Op, Code
      <3>. QED
        BY <1>1, <3>1 DEF IsOpcode
    <2>. QED
      BY <2>1, NestingTypes DEF NewContext, ContextAt, OpenedAt, Op, Code, Contexts, Context
  <1>9. Own' \in [1 .. k + 1 -> Contexts]
    <2>1. \A i \in 1 .. k : Own[i] \in Contexts
      BY <1>2, <1>3, NestingTypes, ContextsInTries
    <2>2. \A i \in 1 .. k + 1 : Own'[i] \in Contexts
      BY <1>7, <1>8, <2>1
    <2>3. Own' = [i \in DOMAIN Own' |-> Own'[i]]
      BY DEF Own, Segment
    <2>. QED
      BY <1>7, <2>2, <2>3
  <1>10. Running'
    <2>1. Inside(body, pc + 1, sp, Own')
      BY <1>1, <1>2, <1>3, <1>7, <1>8, <1>9, NestingTypes, InsideNewTry DEF Op, Code
    <2>. QED
      BY <1>1, <2>1, StillInside DEF Running
  <1>11. ASSUME NEW i \in 1 .. o + k
         PROVE  exceptionCtx[i].StackDepth <= sp
    <2>1. i \in DOMAIN exceptionCtx
      BY <1>4, NestingTypes, MarkTypes
    <2>2. PICK s \in Nat : s = exceptionCtx[i].StackDepth
      BY <2>1, NestingTypes
    <2>3. s <= Base \/ (Required(Op) \in Nat /\ s <= sp - Required(Op))
      BY <1>2, <2>1, <2>2, AllUnder
    <2>4. Base <= sp
      BY <1>1, NestingTypes DEF Inv, Discipline, RunningDepth
    <2>. QED
      BY <2>2, <2>3, <2>4, NestingTypes
  <1>12. Ascending'
    <2>1. ASSUME NEW i \in 1 .. o + k + 1, NEW j \in 1 .. o + k + 1, i <= j
          PROVE  exceptionCtx'[i].StackDepth <= exceptionCtx'[j].StackDepth
      <3>1. CASE j = o + k + 1 /\ i = o + k + 1
        BY <1>5, <1>8, <3>1, NestingTypes
      <3>2. CASE j = o + k + 1 /\ i \in 1 .. o + k
        BY <1>5, <1>8, <1>11, <3>2
      <3>3. CASE i \in 1 .. o + k /\ j \in 1 .. o + k
        <4>1. i \in DOMAIN exceptionCtx /\ j \in DOMAIN exceptionCtx
          BY <1>4, <3>3, NestingTypes, MarkTypes
        <4>2. exceptionCtx[i].StackDepth <= exceptionCtx[j].StackDepth
          BY <2>1, <4>1 DEF NInv, Nesting, Ascending
        <4>. QED
          BY <1>5, <3>3, <4>2
      <3>4. \/ j = o + k + 1 /\ i = o + k + 1
            \/ j = o + k + 1 /\ i \in 1 .. o + k
            \/ i \in 1 .. o + k /\ j \in 1 .. o + k
        BY <2>1
      <3>. QED
        BY <3>1, <3>2, <3>3, <3>4
    <2>. QED
      BY <1>5, <2>1 DEF Ascending
  <1>13. \A i \in 1 .. Outer : exceptionCtx'[i] = exceptionCtx[i]
    BY <1>3, <1>5
  <1>. QED
    BY <1>1, <1>10, <1>12, <1>13, SameCallers DEF NInv, Nesting, Raising, Ended

\* The innermost context goes, and it is one of the function that runs.
LEMMA FewerContexts ==
  ASSUME NInv, Mark, KeepsToItsOwn, InTries(body, pc, Own), exceptionCtx # <<>>,
         exceptionCtx' = Front(exceptionCtx), UNCHANGED <<prog, body, callStack>>,
         NEW k \in Nat, k = Len(TriesOf(body)[pc])
  PROVE  /\ k # 0 /\ Own' \in [1 .. k - 1 -> Contexts]
         /\ \A i \in 1 .. k - 1 : Own'[i] = Own[i]
         /\ TopCtx = Own[k]
         /\ Bodies' /\ FramesInside' /\ BelowFrames' /\ TriesAreBracketed' /\ Ascending'
  <1>1. PICK o \in Nat : o = Outer
    BY NestingTypes, MarkTypes
  <1>2. Len(exceptionCtx) = o + k /\ \A i \in 1 .. k : Own[i] = exceptionCtx[o + i]
    BY <1>1, OwnContexts
  <1>3. /\ Len(exceptionCtx') = o + k - 1
        /\ \A i \in 1 .. o + k - 1 : exceptionCtx'[i] = exceptionCtx[i]
    BY <1>2, NestingTypes, PoppedContext
  <1>4. Outer' = o
    BY <1>1, NestingTypes, SameMarks
  <1>5. k # 0
    BY <1>3, <1>4 DEF KeepsToItsOwn
  <1>6. Own' = [i \in 1 .. k - 1 |-> exceptionCtx'[o + i]]
    BY <1>3, <1>4 DEF Own, Segment
  <1>7. ASSUME NEW i \in 1 .. k - 1
        PROVE  Own'[i] = Own[i] /\ Own'[i] \in Contexts
    <2>1. Own[i] \in Contexts /\ i \in 1 .. k
      BY NestingTypes, ContextsInTries
    <2>2. o + i \in 1 .. o + k - 1
      OBVIOUS
    <2>3. Own'[i] = Own[i]
      BY <1>2, <1>3, <1>6, <2>1, <2>2
    <2>. QED
      BY <2>1, <2>3
  <1>8. TopCtx = Own[k]
    BY <1>2, <1>5 DEF TopCtx
  <1>9. Own' \in [1 .. k - 1 -> Contexts]
    BY <1>6, <1>7
  <1>10. \A i \in 1 .. Outer : exceptionCtx'[i] = exceptionCtx[i]
    BY <1>1, <1>3, <1>5
  <1>11. Ascending'
    <2>1. DOMAIN exceptionCtx = 1 .. o + k /\ DOMAIN exceptionCtx' = 1 .. o + k - 1
      <3>1. exceptionCtx \in Seq(Contexts) /\ exceptionCtx' \in Seq(Contexts)
        BY NestingTypes, MarkTypes, FrontType
      <3>. QED
        BY <1>2, <1>3, <3>1
    <2>2. ASSUME NEW i \in 1 .. o + k - 1, NEW j \in 1 .. o + k - 1, i <= j
          PROVE  exceptionCtx'[i].StackDepth <= exceptionCtx'[j].StackDepth
      <3>1. i \in DOMAIN exceptionCtx /\ j \in DOMAIN exceptionCtx
        BY <2>1
      <3>2. exceptionCtx[i].StackDepth <= exceptionCtx[j].StackDepth
        BY <2>2, <3>1 DEF NInv, Nesting, Ascending
      <3>. QED
        BY <1>3, <3>2
    <2>. QED
      BY <2>1, <2>2 DEF Ascending
  <1>. QED
    BY <1>5, <1>7, <1>8, <1>9, <1>10, <1>11, SameCallers

LEMMA ClosesInside ==
  ASSUME NInv, Mark, KeepsToItsOwn, PopExceptionContext
  PROVE  Nesting' /\ TriesAreBracketed'
  <1>1. /\ status = "running" /\ InRange /\ Op.op = "PopExceptionContext"
        /\ exceptionCtx' = (IF exceptionCtx = <<>> THEN <<>> ELSE Front(exceptionCtx))
        /\ sp' = sp /\ pc' = pc + 1 /\ UNCHANGED <<prog, body, callStack, status>>
    BY DEF PopExceptionContext, LoopNext, Fetch, frameVars, endVars
  <1>2. /\ Inside(body, pc, sp, Own) /\ InTries(body, pc, Own) /\ pc # Len(prog[body].code)
        /\ CarriesTries(prog[body], TriesOf(body), pc)
    BY <1>1, TriesAtOpcode DEF Inside
  <1>3. PICK k \in Nat : k = Len(TriesOf(body)[pc]) /\ TriesOf(body)[pc] \in Seq(Nat)
    BY <1>2, NestingTypes, ContextsInTries, OpenAt
  <1>4. k # 0
    BY <1>1, <1>2, <1>3 DEF CarriesTries, Op, Code
  <1>5. exceptionCtx # <<>>
    BY <1>2, <1>3, <1>4, OwnContexts, NestingTypes, MarkTypes
  <1>6. /\ Own' \in [1 .. k - 1 -> Contexts] /\ \A i \in 1 .. k - 1 : Own'[i] = Own[i]
        /\ Bodies' /\ FramesInside' /\ BelowFrames' /\ TriesAreBracketed' /\ Ascending'
    BY <1>1, <1>2, <1>3, <1>5, FewerContexts
  <1>7. Running'
    <2>1. Inside(body, pc + 1, sp, Own')
      BY <1>1, <1>2, <1>3, <1>6, NestingTypes, InsideFewerTries DEF Op, Code
    <2>. QED
      BY <1>1, <2>1, StillInside DEF Running
  <1>. QED
    BY <1>1, <1>6, <1>7 DEF NInv, Nesting, Raising, Ended

LEMMA HandlesInside ==
  ASSUME NInv, Mark, KeepsToItsOwn, Catch \/ CatchPanic \/ Finally
  PROVE  Nesting' /\ TriesAreBracketed'
  <1>1. /\ status = "raising" /\ exceptionCtx # <<>> /\ exceptionCtx' = Front(exceptionCtx)
        /\ sp' = TopCtx.StackDepth /\ UNCHANGED <<prog, body, callStack>>
    BY DEF Catch, CatchPanic, Finally, Unwind, HandlerDepth, frameVars
  <1>2. InTries(body, pc, Own)
    BY <1>1 DEF NInv, Nesting, Raising
  <1>3. PICK k \in Nat : k = Len(TriesOf(body)[pc])
    BY <1>2, NestingTypes, ContextsInTries
  <1>4. /\ k # 0 /\ Own' \in [1 .. k - 1 -> Contexts] /\ \A i \in 1 .. k - 1 : Own'[i] = Own[i]
        /\ TopCtx = Own[k]
        /\ Bodies' /\ FramesInside' /\ BelowFrames' /\ TriesAreBracketed' /\ Ascending'
    BY <1>1, <1>2, <1>3, FewerContexts
  <1>5. ASSUME NEW target \in {TopCtx.CatchTarget, TopCtx.FinallyTarget}, target >= 0,
               pc' = (target - 1) + 1, status' = "running"
        PROVE  Nesting'
    <2>1. Inside(body, target, TopCtx.StackDepth, Own')
      <3>1. PICK fewer \in [1 .. k - 1 -> Contexts] : fewer = Own'
        BY <1>4
      <3>2. /\ \A i \in 1 .. k - 1 : fewer[i] = Own[i]
            /\ target >= 0 /\ (target = Own[k].CatchTarget \/ target = Own[k].FinallyTarget)
        BY <1>4, <1>5, <3>1
      <3>3. ProgramOK /\ TriesAreBracketed /\ body \in DOMAIN prog /\ k # 0
        BY <1>4, NestingTypes
      <3>4. Inside(body, target, Own[k].StackDepth, fewer)
        BY <1>2, <1>3, <3>2, <3>3, InsideHandler
      <3>. QED
        BY <1>4, <3>1, <3>4
    <2>2. pc' = target
      <3>1. TopCtx \in Contexts
        BY <1>2, <1>3, <1>4, NestingTypes, ContextsInTries
      <3>. QED
        BY <1>5, <3>1 DEF Contexts
    <2>3. Running'
      BY <1>1, <2>1, <2>2, StillInside DEF Running
    <2>. QED
      BY <1>4, <1>5, <2>3 DEF Nesting, Raising, Ended
  <1>6. CASE Catch
    BY <1>4, <1>5, <1>6 DEF Catch
  <1>7. CASE Finally
    BY <1>4, <1>5, <1>7 DEF Finally
  <1>8. CASE CatchPanic
    BY <1>4, <1>8 DEF CatchPanic, Nesting, Running, Raising, Ended
  <1>. QED
    BY <1>6, <1>7, <1>8

LEMMA InitNesting ==
  ASSUME MarkedInit, TriesAreBracketed
  PROVE  NInv
  <1>1. Inv
    BY InitDiscipline
  <1>2. /\ pc = 0 /\ body = 1 /\ callStack = <<>> /\ exceptionCtx = <<>> /\ status = "running"
        /\ marks = <<>>
    BY DEF MarkedInit, Init, Boot
  <1>3. ProgramOK /\ 1 \in DOMAIN prog
    BY <1>1, ProgramIsProgram DEF Inv, IsProgram
  <1>4. Own = <<>>
    BY <1>2 DEF Own, Segment, Outer
  <1>5. Inside(body, pc, sp, Own)
    BY <1>2, <1>3, <1>4, InsideAtStart
  <1>. QED
    BY <1>1, <1>2, <1>5 DEF NInv, Nesting, Bodies, FramesInside, BelowFrames, Running, Raising,
                            Ascending, Ended

LEMMA MoveNesting ==
  ASSUME NInv, Moves, Mark, KeepsToItsOwn
  PROVE  Nesting' /\ TriesAreBracketed'
  BY GoesInside, HaltsInside, EntersInside, ReturnsInside, BeginsInside, ClosesInside,
     HandlesInside DEF Moves

LEMMA NextNesting ==
  ASSUME NInv, [MarkedNext]_<<vars, marks>>, [KeepsToItsOwn]_<<vars, marks>>,
         NoCallbacks, NoCallbacks'
  PROVE  NInv'
  <1>1. Inv' /\ [Moves /\ Mark]_<<vars, marks>>
    BY NextDiscipline, NextMoves DEF NInv
  <1>2. CASE Moves /\ Mark /\ KeepsToItsOwn
    BY <1>1, <1>2, MoveNesting DEF NInv
  <1>3. CASE UNCHANGED <<vars, marks>>
    <2>1. UNCHANGED <<prog, body, callStack, exceptionCtx, pc, sp, status, marks>>
      BY <1>3 DEF vars, frameVars, excVars, endVars
    <2>2. Mark
      <3>1. PICK n \in Nat : n = Len(callStack) /\ n = Len(callStack')
        BY <2>1, NestingTypes, MarkTypes
      <3>. QED
        BY <2>1, <3>1, SMTT(40) DEF Mark
    <2>3. Own' = Own
      BY <2>1, <2>2, SameOwn
    <2>4. /\ Inside(body, pc, sp, Own)' = Inside(body, pc, sp, Own)
          /\ InTries(body, pc, Own)' = InTries(body, pc, Own)
      BY <2>1, <2>3, StillInside
    <2>5. Running' /\ Raising' /\ Ended'
      BY <2>1, <2>4 DEF NInv, Nesting, Running, Raising, Ended, Past, Code
    <2>. QED
      BY <1>1, <2>1, <2>2, <2>5, StillNested DEF NInv
  <1>. QED
    BY <1>1, <1>2, <1>3

\* A call takes off the contexts that it made and those only, as long as
\* exceptions are handled at home: PopExceptionContext closes a try block of
\* the function it is in, and Return is in none.
LEMMA MoveStaysLocal ==
  ASSUME NInv, Moves, Mark, HandledAtHome
  PROVE  KeepsToItsOwn
  <1>1. PICK o \in Nat, l \in Nat, top \in Nat :
          o = Outer /\ l = Len(exceptionCtx) /\ top = Len(callStack) /\ o <= l
    BY NestingTypes, MarkTypes
  <1>2. CASE UNCHANGED callStack
    <2>1. Outer' = o /\ ~(Len(callStack') < Len(callStack))
      BY <1>1, <1>2, NestingTypes, SameMarks
    <2>2. CASE UNCHANGED exceptionCtx
      BY <1>1, <2>1, <2>2 DEF KeepsToItsOwn
    <2>3. CASE PushExceptionContext
      <3>1. exceptionCtx' = Append(exceptionCtx, NewContext(Op.arg))
        BY <2>3 DEF PushExceptionContext
      <3>2. Len(exceptionCtx') = l + 1
        BY <1>1, <3>1, NestingTypes, MarkTypes
      <3>. QED
        BY <1>1, <2>1, <3>2 DEF KeepsToItsOwn
    <2>4. ASSUME o < l, exceptionCtx # <<>>, exceptionCtx' = Front(exceptionCtx)
          PROVE  KeepsToItsOwn
      BY <1>1, <2>1, <2>4, NestingTypes, PoppedContext DEF KeepsToItsOwn
    <2>5. CASE PopExceptionContext
      <3>1. /\ status = "running" /\ InRange /\ Op.op = "PopExceptionContext"
            /\ exceptionCtx' = (IF exceptionCtx = <<>> THEN <<>> ELSE Front(exceptionCtx))
        BY <2>5 DEF PopExceptionContext, Fetch
      <3>2. InTries(body, pc, Own) /\ CarriesTries(prog[body], TriesOf(body), pc)
        BY <3>1, TriesAtOpcode
      <3>3. PICK k \in Nat : k = Len(TriesOf(body)[pc]) /\ TriesOf(body)[pc] \in Seq(Nat)
        BY <3>2, NestingTypes, ContextsInTries, OpenAt
      <3>4. k # 0
        BY <3>1, <3>2, <3>3 DEF CarriesTries, Op, Code
      <3>5. l = o + k
        BY <1>1, <3>2, <3>3, OwnContexts
      <3>6. o < l /\ l # 0
        BY <3>4, <3>5
      <3>7. exceptionCtx # <<>>
        BY <1>1, <3>6
      <3>. QED
        BY <2>4, <3>1, <3>6, <3>7
    <2>6. CASE Catch \/ CatchPanic \/ Finally
      <3>1. /\ status = "raising" /\ exceptionCtx # <<>> /\ exceptionCtx' = Front(exceptionCtx)
        BY <2>6 DEF Catch, CatchPanic, Finally, Unwind
      <3>2. o < l
        BY <1>1, <3>1 DEF HandledAtHome
      <3>. QED
        BY <2>4, <3>1, <3>2
    <2>7. CASE Goes \/ Halts \/ ReturnFromMain
      BY <2>2, <2>7 DEF Goes, Halts, ReturnFromMain, excVars
    <2>8. CASE Enters
      <3>1. PICK n \in Nat : EntersOn(n)
        BY <2>8 DEF Enters
      <3>. QED
        BY <2>2, <3>1 DEF EntersOn
    <2>9. CASE ReturnToScript
      BY <2>2, <2>9 DEF ReturnToScript, Leave, excVars
    <2>. QED
      BY <2>3, <2>5, <2>6, <2>7, <2>8, <2>9 DEF Moves
  <1>3. CASE Enters
    <2>1. PICK n \in Nat : EntersOn(n)
      BY <1>3 DEF Enters
    <2>2. Outer' = l /\ Len(callStack') = top + 1
      BY <1>1, <2>1, NestingTypes, EntersBooks
    <2>3. Len(exceptionCtx') = l
      BY <1>1, <2>1 DEF EntersOn
    <2>. QED
      BY <1>1, <2>2, <2>3 DEF KeepsToItsOwn
  <1>4. CASE ReturnToScript
    <2>1. /\ status = "running" /\ InRange /\ Op.op = "Return" /\ UNCHANGED exceptionCtx
          /\ callStack # <<>> /\ callStack' = Front(callStack)
      BY <1>4 DEF ReturnToScript, Leave, Fetch, excVars
    <2>2. InTries(body, pc, Own) /\ TriesOf(body)[pc] = <<>>
      BY <2>1, TriesAtOpcode DEF CarriesTries, Op, Code
    <2>3. l = o
      <3>1. Len(exceptionCtx) = Outer + 0
        BY <2>2, OwnContexts
      <3>. QED
        BY <1>1, <3>1
    <2>4. top # 0 /\ Len(callStack') = top - 1
      BY <1>1, <2>1, NestingTypes, MarkTypes, FrontType
    <2>5. marks' = Front(marks)
      BY <1>1, <2>4 DEF Mark
    <2>6. Outer' <= o
      <3>1. /\ Len(marks') = top - 1 /\ \A i \in 1 .. top - 1 : marks'[i] = marks[i]
        <4>1. marks \in Seq(Nat) /\ Len(marks) = top /\ marks # <<>>
          BY <1>1, <2>4, NestingTypes, MarkTypes
        <4>2. /\ marks' \in Seq(Nat) /\ Len(marks') = top - 1
              /\ \A i \in DOMAIN marks' : marks'[i] = marks[i]
          BY <2>5, <4>1, FrontType
        <4>3. DOMAIN marks' = 1 .. top - 1
          BY <4>2
        <4>. QED
          BY <4>2, <4>3
      <3>2. CASE top = 1
        BY <1>1, <3>1, <3>2 DEF Outer
      <3>3. CASE top # 1
        <4>1. Outer' = marks[top - 1]
          BY <1>1, <2>4, <3>1, <3>3 DEF Outer
        <4>2. top - 1 \in DOMAIN marks
          BY <1>1, <2>4, <3>3, NestingTypes, MarkTypes, SMTT(40)
        <4>. QED
          BY <1>1, <4>1, <4>2, NestingTypes, MarkTypes
      <3>. QED
        BY <3>2, <3>3
    <2>. QED
      BY <1>1, <2>1, <2>3, <2>6 DEF KeepsToItsOwn
  <1>5. CASE Goes \/ Halts \/ ReturnFromMain \/ PushExceptionContext \/ PopExceptionContext
             \/ Catch \/ CatchPanic \/ Finally
    <2>1. UNCHANGED callStack
      BY <1>5 DEF Goes, Halts, ReturnFromMain, PushExceptionContext, PopExceptionContext,
                  Catch, CatchPanic, Finally, Unwind, frameVars
    <2>. QED
      BY <1>2, <2>1
  <1>. QED
    BY <1>3, <1>4, <1>5 DEF Moves

LEMMA NestingMeans ==
  ASSUME NInv
  PROVE  ContextsAreNested
  <1>1. ASSUME status = "running", NEW k \in DOMAIN exceptionCtx
        PROVE  exceptionCtx[k].StackDepth <= sp
    <2>1. CASE Past
      BY <1>1, <2>1 DEF Past
    <2>2. CASE Inside(body, pc, sp, Own)
      <3>1. PICK s \in Nat : s = exceptionCtx[k].StackDepth
        BY <1>1, NestingTypes
      <3>2. s <= Base \/ (Required(Op) \in Nat /\ s <= sp - Required(Op))
        BY <1>1, <2>2, <3>1, AllUnder
      <3>3. Base <= sp
        BY <1>1, NestingTypes DEF Inv, Discipline, RunningDepth
      <3>. QED
        BY <3>1, <3>2, <3>3, NestingTypes
    <2>. QED
      BY <1>1, <2>1, <2>2 DEF NInv, Nesting, Running
  <1>. QED
    BY <1>1 DEF ContextsAreNested, NInv, Nesting, Ascending, Ended

\* A call keeps to the exception contexts that it made itself, which the other
\* theorems here assume, for all code whose every way closes the try blocks it
\* opens: whatever the calls inside of its try blocks do, it finds its contexts
\* there when it goes on (PopExceptionContext, Return).  What that takes of an
\* exception is that it is handled in the function that raises it, or nowhere;
\* handleException would go on in the wrong function.
THEOREM TriesStayLocal ==
  MarkedSpec /\ TriesAreBracketed /\ []HandledAtHome /\ []NoCallbacks => TriesAreLocal
  <1>1. MarkedInit /\ TriesAreBracketed => NInv
    BY InitNesting
  <1>2. NInv /\ [MarkedNext]_<<vars, marks>> /\ HandledAtHome /\ NoCallbacks /\ NoCallbacks'
          => [KeepsToItsOwn]_<<vars, marks>>
    BY NextMoves, MoveStaysLocal DEF NInv
  <1>3. NInv /\ [MarkedNext]_<<vars, marks>> /\ [KeepsToItsOwn]_<<vars, marks>>
          /\ NoCallbacks /\ NoCallbacks' => NInv'
    BY NextNesting
  <1>. QED
    BY <1>1, <1>2, <1>3, PTL DEF MarkedSpec, TriesAreLocal

\* Try blocks nest at run time as they do in the source: what an open one
\* notes of the operand stack is no more than what those within it do, those of
\* the functions it calls included, nor than there is, so a handler only ever
\* cuts the stack back; and no try block is open when the script is done
\* (PushExceptionContext, PopExceptionContext, handleException).  Its conditions
\* are those of the theorem above.
THEOREM TriesAreNested ==
  MarkedSpec /\ TriesAreBracketed /\ []HandledAtHome /\ []NoCallbacks => []ContextsAreNested
  <1>1. MarkedInit /\ TriesAreBracketed => NInv
    BY InitNesting
  <1>2. NInv /\ [MarkedNext]_<<vars, marks>> /\ [KeepsToItsOwn]_<<vars, marks>>
          /\ NoCallbacks /\ NoCallbacks' => NInv'
    BY NextNesting
  <1>3. NInv => ContextsAreNested
    BY NestingMeans
  <1>. QED
    BY <1>1, <1>2, <1>3, TriesStayLocal, PTL DEF MarkedSpec, TriesAreLocal

\* What the theorems about operands conclude, from conditions on the code alone
\* and on where exceptions are handled: pop and peek find their operands, and
\* those of callers stay as they were.
THEOREM BracketedCodeKeepsOperands ==
  MarkedSpec /\ TriesAreBracketed /\ []HandledAtHome /\ []NoCallbacks =>
    []Discipline /\ CallersKeepOperands
  BY TriesStayLocal, DisciplineIsKept, OperandsAreKept, PTL

=============================================================================
