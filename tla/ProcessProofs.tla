---------------------------- MODULE ProcessProofs ----------------------------
(* Type correctness of the machine, for every set of programs.             *)
EXTENDS Process, SequenceTheorems, TLAPS

\* What the proofs assume of the constants
ProgramOK == prog \in Programs

LEMMA ProgramIsProgram ==
  ASSUME ProgramOK
  PROVE  IsProgram(prog)
  BY ProgramsAssumption DEF ProgramOK

\* A value that is no function and has no cells always exists.
LEMMA PlainExists ==
  \A k \in Kinds \ {"none", "function"}, n \in Int : Val(k, n) \in Existing
  <1>1. <<>> \in Seq(Address)
    OBVIOUS
  <1>. QED
    BY <1>1 DEF Val, Existing, Kinds

LEMMA ValuesExist ==
  /\ NoValue \in Optional /\ Undefined0 \in Existing /\ NaN \in Existing
  /\ Booleans \subseteq Existing /\ Scalars \subseteq Existing
  /\ \A b \in BOOLEAN : BoolVal(b) \in Existing
  /\ \A n \in Int : IntVal(n) \in Existing /\ ArrVal(n) \in Existing /\ ObjVal(n) \in Existing
  /\ Ask \in Existing /\ Log \in Existing /\ Fail \in Existing /\ Each \in Existing
  BY PlainExists DEF Kinds, Optional, NoValue, Undefined0, NaN, Booleans, Scalars, BoolVal,
     IntVal, ArrVal, ObjVal, Ask, Log, Fail, Each

\* Writing an operand at depth n keeps the stack a stack.
LEMMA PushAtType ==
  ASSUME StackOK, NEW n \in 0 .. Len(stack), NEW v \in Existing, PushAt(n, v)
  PROVE  /\ stack' \in Seq(Existing) /\ sp' \in 0 .. Len(stack')
         /\ Len(stack') >= Len(stack)
  BY DEF StackOK, PushAt, Put

LEMMA TopType ==
  ASSUME StackOK, NEW k \in Nat, k < sp
  PROVE  Top(k) \in Existing
  BY DEF StackOK, Top

\* The opcode that a turn of the loop fetches
LEMMA FetchType ==
  ASSUME ProgramOK, TypeOK, NEW names, Fetch(names)
  PROVE  /\ Op.op \in names /\ IsOpcode(Op, prog)
         /\ sp >= Needs(Op) /\ sp \in 0 .. Len(stack) /\ status = "running"
  <1>1. IsFunction(prog[body], prog)
    BY ProgramIsProgram DEF TypeOK, FramesOK, IsProgram
  <1>2. pc + 1 \in DOMAIN Code
    BY <1>1 DEF Fetch, InRange, Code, IsFunction, TypeOK, FramesOK
  <1>. QED
    BY <1>1, <1>2 DEF Fetch, Op, Code, IsFunction, TypeOK, StackOK

\* While the heap keeps its size, the types of values stay what they are.
LEMMA SameTypes ==
  ASSUME Len(heap') = Len(heap), prog' = prog
  PROVE  /\ Address' = Address /\ Existing' = Existing /\ Optional' = Optional /\ Locals' = Locals
         /\ Cells' = Cells /\ Frames' = Frames /\ Activations' = Activations
  <1>1. Address' = Address
    BY DEF Address
  <1>2. Existing' = Existing
    BY <1>1 DEF Existing
  <1>. QED
    BY <1>1, <1>2 DEF Optional, Locals, Cells, Frames, Activations

LEMMA ElementType ==
  ASSUME NEW S, NEW s \in Seq(S), NEW i \in DOMAIN s
  PROVE  s[i] \in S
  OBVIOUS

LEMMA DepthsAreNat ==
  ASSUME TypeOK
  PROVE  /\ \A i \in DOMAIN callStack : callStack[i].sp \in Nat
         /\ \A i \in DOMAIN exceptionCtx : exceptionCtx[i].StackDepth \in Nat
  <1>1. ASSUME NEW i \in DOMAIN callStack
        PROVE  callStack[i].sp \in Nat
    <2>1. callStack[i] \in Frames
      BY ElementType DEF TypeOK, FramesOK
    <2>. QED
      BY <2>1 DEF Frames
  <1>2. ASSUME NEW i \in DOMAIN exceptionCtx
        PROVE  exceptionCtx[i].StackDepth \in Nat
    <2>1. exceptionCtx[i] \in Contexts
      BY ElementType DEF TypeOK, ExceptionsOK
    <2>. QED
      BY <2>1 DEF Contexts
  <1>. QED
    BY <1>1, <1>2

\* What has to be shown of a turn that allocates no cell
LEMMA TurnType ==
  ASSUME TypeOK, prog' = prog, Len(heap') = Len(heap),
         stack' \in Seq(Existing), sp' \in 0 .. Len(stack'),
         Len(stack') >= Len(stack),
         heap' \in Seq(Existing), locals' \in Locals, cells' \in Cells,
         closure' \in Seq(Address), globals' \in [GlobalNames -> Optional],
         body' \in DOMAIN prog, pc' \in Int, callStack' \in Seq(Frames),
         \A i \in DOMAIN callStack' : callStack'[i].sp <= Len(stack'),
         goStack' \in Seq(Activations), exceptionCtx' \in Seq(Contexts),
         \A i \in DOMAIN exceptionCtx' : exceptionCtx'[i].StackDepth <= Len(stack'),
         exception' \in Optional, finallyRethrow' \in BOOLEAN, HostOK',
         status' \in {"running", "raising", "done", "uncaught", "typeerror",
                     "underflow", "panic"},
         result' \in Optional
  PROVE  TypeOK'
  <1>1. /\ Address' = Address /\ Existing' = Existing /\ Optional' = Optional /\ Locals' = Locals
        /\ Cells' = Cells /\ Frames' = Frames /\ Activations' = Activations
    BY SameTypes
  <1>2. StackOK'
    BY <1>1 DEF StackOK
  <1>3. heap # <<>> /\ heap \in Seq(Existing)
    BY DEF TypeOK, VariablesOK
  <1>4. VariablesOK'
    BY <1>1, <1>3 DEF VariablesOK
  <1>5. FramesOK' /\ ExceptionsOK' /\ EndOK'
    BY <1>1 DEF FramesOK, ExceptionsOK, EndOK
  <1>. QED
    BY <1>2, <1>4, <1>5 DEF TypeOK

\* The frames and contexts that there are do not mind a longer stack.
LEMMA NotedDepths ==
  ASSUME TypeOK, Len(stack') >= Len(stack), Len(stack') \in Nat
  PROVE  /\ \A i \in DOMAIN callStack : callStack[i].sp <= Len(stack')
         /\ \A i \in DOMAIN exceptionCtx : exceptionCtx[i].StackDepth <= Len(stack')
  BY DepthsAreNat DEF TypeOK, StackOK

\* The effect of an operation on operands and variables
LEMMA NoTransfer ==
  ASSUME TypeOK, prog' = prog, pc' \in Int, Len(heap') = Len(heap),
         stack' \in Seq(Existing), sp' \in 0 .. Len(stack'), Len(stack') >= Len(stack),
         heap' \in Seq(Existing), locals' \in Locals, cells' \in Cells,
         globals' \in [GlobalNames -> Optional],
         UNCHANGED <<frameVars, excVars, hostVars, endVars>>
  PROVE  TypeOK'
  <1>1. Len(stack') \in Nat
    OBVIOUS
  <1>2. /\ \A i \in DOMAIN callStack : callStack[i].sp <= Len(stack')
        /\ \A i \in DOMAIN exceptionCtx : exceptionCtx[i].StackDepth <= Len(stack')
    BY <1>1, NotedDepths
  <1>3. /\ UNCHANGED <<body, callStack, closure, goStack, exceptionCtx, exception,
                       finallyRethrow, input, output, status, result>>
    BY DEF frameVars, excVars, hostVars, endVars
  <1>4. HostOK'
    BY <1>3 DEF TypeOK, HostOK
  <1>. QED
    BY <1>2, <1>3, <1>4, TurnType DEF TypeOK, VariablesOK, FramesOK, ExceptionsOK, EndOK

\* The effect of an operation that only replaces operands
LEMMA OperandsOnly ==
  ASSUME TypeOK, prog' = prog, pc' \in Int, stack' \in Seq(Existing),
         sp' \in 0 .. Len(stack'), Len(stack') >= Len(stack),
         UNCHANGED <<frameVars, excVars, varVars, hostVars, endVars>>
  PROVE  TypeOK'
  BY NoTransfer DEF TypeOK, VariablesOK, varVars

LEMMA PushType ==
  ASSUME TypeOK, NEW n \in 0 .. Len(stack), NEW v \in Existing, PushAt(n, v),
         NEW p \in Int, LoopNext(p),
         UNCHANGED <<frameVars, excVars, varVars, hostVars>>
  PROVE  TypeOK'
  <1>1. pc' \in Int /\ prog' = prog /\ UNCHANGED endVars
    BY DEF LoopNext
  <1>. QED
    BY <1>1, PushAtType, OperandsOnly DEF TypeOK

LEMMA DropType ==
  ASSUME TypeOK, NEW k \in 0 .. sp, Drop(k), NEW p \in Int, LoopNext(p),
         UNCHANGED <<frameVars, excVars, varVars, hostVars>>
  PROVE  TypeOK'
  <1>1. pc' \in Int /\ prog' = prog /\ UNCHANGED endVars
    BY DEF LoopNext
  <1>2. stack' \in Seq(Existing) /\ sp' \in 0 .. Len(stack') /\ Len(stack') >= Len(stack)
    BY DEF TypeOK, StackOK, Drop
  <1>. QED
    BY <1>1, <1>2, OperandsOnly

LEMMA OperateType ==
  ASSUME TypeOK, NEW names, NEW results \in SUBSET Existing,
         Operate(names, results), Needs(Op) \in Nat
  PROVE  TypeOK'
  <1>1. PICK r \in results : PushAt(sp - Needs(Op), r)
    BY DEF Operate
  <1>2. sp >= Needs(Op)
    BY DEF Operate, Fetch
  <1>3. sp - Needs(Op) \in 0 .. Len(stack)
    BY <1>2 DEF TypeOK, StackOK
  <1>4. pc \in Int
    BY DEF TypeOK, FramesOK
  <1>. QED
    BY <1>1, <1>3, <1>4, PushType DEF Operate

\* How many operands each operation takes
TwoOps == BinaryOps \cup ElementIncOps \cup NextOps \cup HasMoreOps
          \cup {"GetElement", "DeleteElement", "In", "SetProperty"}
OneOps == UnaryOps \cup PropertyIncOps
          \cup {"LogicalNot", "Typeof", "GetProperty", "DeleteProperty", "Pop",
                "Dup", "JumpIfFalse", "JumpIfTrue", "JumpIfFalseOrPop",
                "JumpIfTrueOrPop", "StoreVariable", "StoreVariableKeep",
                "StoreGlobal", "StoreCapture", "StoreCaptureKeep", "Throw",
                "ForInKeys"}
NoneOps == {"PushLiteral", "LoadVariable", "LoadCapture", "LoadGlobal", "PushFunction",
            "Jump", "PushExceptionContext", "PopExceptionContext",
            "FinallyComplete", "ForOfIterator", "ForInCleanup", "ForOfCleanup"}
           \cup IncOps

LEMMA NeedsValues ==
  ASSUME NEW op
  PROVE  /\ op.op \in TwoOps => Needs(op) = 2
         /\ op.op \in OneOps => Needs(op) = 1
         /\ op.op \in NoneOps => Needs(op) = 0
         /\ op.op = "SetElement" => Needs(op) = 3
         /\ op.op \in {"NewArray", "NewObject"} => Needs(op) = op.arg
         /\ op.op = "Call" => Needs(op) = op.arg + 1
         /\ op.op = "MethodCall" => Needs(op) = op.arg + 2
         /\ op.op = "Return" => Needs(op) = IF op.arg THEN 1 ELSE 0
  BY DEF Needs, TwoOps, OneOps, NoneOps, BinaryOps, ArithmeticOps, ShiftOps,
     RelationalOps, EqualityOps, BitwiseOps, UnaryOps, ElementIncOps,
     PropertyIncOps, IncOps, NextOps, HasMoreOps

LEMMA UndefinedExists ==
  ASSUME TypeOK
  PROVE  Undefined \in Existing
  BY DEF TypeOK, VariablesOK, Undefined, UndefCell

\* What a member access yields
LEMMA MembersExist ==
  ASSUME TypeOK
  PROVE  Members \in SUBSET Existing
  <1>1. Scalars \subseteq Existing /\ Undefined \in Existing
    BY ValuesExist, UndefinedExists
  <1>2. ASSUME NEW i \in DOMAIN locals
        PROVE  locals[i] \in Existing
    BY ElementType DEF TypeOK, VariablesOK, Locals
  <1>3. ASSUME NEW n \in GlobalNames, globals[n] # NoValue
        PROVE  globals[n] \in Existing
    BY <1>3 DEF TypeOK, VariablesOK, Optional
  <1>. QED
    BY <1>1, <1>2, <1>3 DEF Members

Statuses == {"running", "raising", "done", "uncaught", "typeerror", "underflow", "panic"}

\* The effect of a turn that ends the run
LEMMA StopType ==
  ASSUME TypeOK, NEW why \in Statuses, Stop(why),
         UNCHANGED <<stack, sp, frameVars, excVars, varVars, hostVars>>
  PROVE  TypeOK'
  <1>1. UNCHANGED <<stack, sp, locals, cells, heap, globals, body, callStack, closure,
                    goStack, exceptionCtx, exception, finallyRethrow, input,
                    output, prog, result, pc>> /\ status' \in Statuses
    BY DEF Stop, frameVars, excVars, varVars, hostVars
  <1>2. HostOK'
    BY <1>1 DEF TypeOK, HostOK
  <1>3. Len(stack) \in Nat
    BY DEF TypeOK, StackOK
  <1>. QED
    BY <1>1, <1>2, <1>3, TurnType DEF TypeOK, StackOK, VariablesOK, FramesOK, ExceptionsOK,
       EndOK, Statuses

\* The operations that only work on operands
LEMMA OperatorsType ==
  ASSUME ProgramOK, TypeOK, Operators
  PROVE  TypeOK'
  <1>0. pc \in Int /\ sp \in 0 .. Len(stack)
    BY DEF TypeOK, FramesOK, StackOK
  <1>1. CASE PushLiteral
    <2>1. IsOpcode(Op, prog) /\ Op.op = "PushLiteral"
      BY <1>1, FetchType DEF PushLiteral
    <2>2. Op.arg \in Existing
      BY <2>1 DEF IsOpcode, Value, Existing
    <2>. QED
      BY <1>0, <1>1, <2>2, PushType DEF PushLiteral
  <1>2. CASE Arithmetic
    <2>1. Needs(Op) = 2
      BY <1>2, FetchType, NeedsValues DEF Arithmetic, Operate, TwoOps, ArithmeticOps, BinaryOps
    <2>. QED
      BY <1>2, <2>1, OperateType, ValuesExist DEF Arithmetic
  <1>3. CASE Shift
    <2>1. Needs(Op) = 2
      BY <1>3, FetchType, NeedsValues DEF Shift, Operate, TwoOps, ShiftOps, BinaryOps
    <2>. QED
      BY <1>3, <2>1, OperateType, ValuesExist DEF Shift
  <1>4. CASE Relational
    <2>1. Needs(Op) = 2
      BY <1>4, FetchType, NeedsValues DEF Relational, Operate, TwoOps, RelationalOps, BinaryOps
    <2>. QED
      BY <1>4, <2>1, OperateType, ValuesExist DEF Relational
  <1>5. CASE Equality
    <2>1. Needs(Op) = 2
      BY <1>5, FetchType, NeedsValues DEF Equality, Operate, TwoOps, EqualityOps, BinaryOps
    <2>. QED
      BY <1>5, <2>1, OperateType, ValuesExist DEF Equality
  <1>6. CASE Bitwise
    <2>1. Needs(Op) = 2
      BY <1>6, FetchType, NeedsValues DEF Bitwise, Operate, TwoOps, BitwiseOps, BinaryOps
    <2>. QED
      BY <1>6, <2>1, OperateType, ValuesExist DEF Bitwise
  <1>7. CASE Unary
    <2>1. Needs(Op) = 1
      BY <1>7, FetchType, NeedsValues DEF Unary, Operate, OneOps
    <2>. QED
      BY <1>7, <2>1, OperateType, ValuesExist DEF Unary
  <1>8. CASE IncElement
    <2>1. Needs(Op) = 2
      BY <1>8, FetchType, NeedsValues DEF IncElement, Operate, TwoOps, BinaryOps
    <2>. QED
      BY <1>8, <2>1, OperateType, ValuesExist DEF IncElement
  <1>9. CASE IncProperty
    <2>1. Needs(Op) = 1
      BY <1>9, FetchType, NeedsValues DEF IncProperty, Operate, OneOps
    <2>. QED
      BY <1>9, <2>1, OperateType, ValuesExist DEF IncProperty
  <1>10. CASE GetElement
    <2>1. Needs(Op) = 2
      BY <1>10, FetchType, NeedsValues DEF GetElement, Operate, TwoOps
    <2>. QED
      BY <1>10, <2>1, OperateType, MembersExist DEF GetElement
  <1>11. CASE TypeTest
    <2>1. Needs(Op) \in {1, 2}
      BY <1>11, FetchType, NeedsValues DEF TypeTest, Operate, TwoOps, OneOps, BinaryOps
    <2>. QED
      BY <1>11, <2>1, OperateType, ValuesExist DEF TypeTest
  <1>12. CASE DeleteMember
    <2>1. Needs(Op) \in {1, 2}
      BY <1>12, FetchType, NeedsValues DEF DeleteMember, Operate, TwoOps, OneOps
    <2>. QED
      BY <1>12, <2>1, OperateType, ValuesExist DEF DeleteMember
  <1>13. CASE StrictEqual
    <2>1. Needs(Op) = 2 /\ sp >= Needs(Op)
      BY <1>13, FetchType, NeedsValues DEF StrictEqual, TwoOps, BinaryOps
    <2>2. PICK eq : PushAt(sp - 2, BoolVal(eq = (Op.op = "StrictEqual")))
      BY <1>13 DEF StrictEqual
    <2>3. BoolVal(eq = (Op.op = "StrictEqual")) \in Existing
      BY ValuesExist
    <2>4. sp - 2 \in 0 .. Len(stack)
      BY <1>0, <2>1
    <2>. QED
      BY <1>0, <1>13, <2>2, <2>3, <2>4, PushType DEF StrictEqual
  <1>14. CASE LogicalNot
    <2>1. Needs(Op) = 1 /\ sp >= Needs(Op)
      BY <1>14, FetchType, NeedsValues DEF LogicalNot, OneOps
    <2>2. BoolVal(~IsTruthy(Top(0))) \in Existing
      BY <1>0, <2>1, ValuesExist
    <2>3. sp - 1 \in 0 .. Len(stack)
      BY <1>0, <2>1
    <2>. QED
      BY <1>0, <1>14, <2>1, <2>2, <2>3, PushType DEF LogicalNot
  <1>15. CASE Dup
    <2>1. Needs(Op) = 1 /\ sp >= Needs(Op)
      BY <1>15, FetchType, NeedsValues DEF Dup, OneOps
    <2>2. Top(0) \in Existing
      BY <1>0, <2>1, TopType DEF TypeOK
    <2>3. sp \in 0 .. Len(stack)
      BY <1>0, <2>1
    <2>. QED
      BY <1>0, <1>15, <2>1, <2>2, <2>3, PushType DEF Dup
  <1>16. CASE SetMember
    <2>1. Needs(Op) \in {2, 3} /\ sp >= Needs(Op)
      BY <1>16, FetchType, NeedsValues DEF SetMember, TwoOps
    <2>2. Top(0) \in Existing
      BY <1>0, <2>1, TopType DEF TypeOK
    <2>3. sp - Needs(Op) \in 0 .. Len(stack)
      BY <1>0, <2>1
    <2>. QED
      BY <1>0, <1>16, <2>1, <2>2, <2>3, PushType DEF SetMember
  <1>17. CASE GetProperty
    <2>1. Needs(Op) = 1 /\ sp >= Needs(Op)
      BY <1>17, FetchType, NeedsValues DEF GetProperty, OneOps
    <2>2. PICK r \in IF IsForEach THEN {Each} ELSE Members : PushAt(sp - 1, r)
      BY <1>17 DEF GetProperty
    <2>3. r \in Existing /\ sp - 1 \in 0 .. Len(stack)
      BY <1>0, <2>1, ValuesExist, MembersExist
    <2>. QED
      BY <1>0, <1>17, <2>2, <2>3, PushType DEF GetProperty
  <1>18. CASE NewObjects
    <2>1. Needs(Op) = Op.arg /\ sp >= Needs(Op) /\ IsOpcode(Op, prog)
          /\ Op.op \in {"NewArray", "NewObject"}
      BY <1>18, FetchType, NeedsValues DEF NewObjects
    <2>2. Op.arg \in Nat
      BY <2>1 DEF IsOpcode, CountOps
    <2>3. /\ ArrVal(Op.arg) \in Existing /\ ObjVal(Op.arg) \in Existing
          /\ sp - Op.arg \in 0 .. Len(stack)
      BY <1>0, <2>1, <2>2, ValuesExist
    <2>. QED
      BY <1>0, <1>18, <2>3, PushType DEF NewObjects
  <1>19. CASE Pop
    <2>1. Needs(Op) = 1 /\ sp >= Needs(Op)
      BY <1>19, FetchType, NeedsValues DEF Pop, OneOps
    <2>. QED
      BY <1>0, <1>19, <2>1, DropType DEF Pop
  <1>20. CASE ElementPanic
    BY <1>20, StopType DEF ElementPanic, Statuses
  <1>. QED
    BY <1>1, <1>2, <1>3, <1>4, <1>5, <1>6, <1>7, <1>8, <1>9, <1>10, <1>11,
       <1>12, <1>13, <1>14, <1>15, <1>16, <1>17, <1>18, <1>19, <1>20 DEF Operators

-----------------------------------------------------------------------------
(* Variables.                                                              *)

LEMMA CellValueExists ==
  ASSUME TypeOK, NEW a \in Address
  PROVE  heap[a] \in Existing
  BY DEF TypeOK, VariablesOK, Address

LEMMA LocalExists ==
  ASSUME TypeOK, NEW s \in Nat, HasSlot(s)
  PROVE  locals[s + 1] \in Existing
  BY DEF TypeOK, VariablesOK, Locals, HasSlot

\* Overwriting a local, or a cell, keeps the type of all of them.
LEMMA LocalsWith ==
  ASSUME TypeOK, NEW s \in Nat, HasSlot(s), NEW v \in Existing
  PROVE  [locals EXCEPT ![s + 1] = v] \in Locals
  <1>1. locals \in Seq(Existing) /\ Len(locals) <= MaxSlot + 1
    BY DEF TypeOK, VariablesOK, Locals
  <1>2. /\ [locals EXCEPT ![s + 1] = v] \in Seq(Existing)
        /\ Len([locals EXCEPT ![s + 1] = v]) = Len(locals)
    BY <1>1, ExceptSeq DEF HasSlot
  <1>. QED
    BY <1>1, <1>2 DEF Locals

LEMMA HeapWithValue ==
  ASSUME TypeOK, NEW a \in Address, NEW v \in Existing
  PROVE  /\ [heap EXCEPT ![a] = v] \in Seq(Existing)
         /\ Len([heap EXCEPT ![a] = v]) = Len(heap)
  BY DEF TypeOK, VariablesOK, Address

LEMMA AssignType ==
  ASSUME TypeOK, NEW s \in 0 .. MaxSlot, NEW v \in Existing, Assign(s, v)
  PROVE  heap' \in Seq(Existing) /\ Len(heap') = Len(heap) /\ locals' \in Locals
  <1>1. cells[s] \in 0 .. Len(heap)
    BY DEF TypeOK, VariablesOK, Cells
  <1>2. cells[s] # 0 => cells[s] \in Address
    BY <1>1 DEF TypeOK, VariablesOK, Address
  <1>3. heap' \in Seq(Existing) /\ Len(heap') = Len(heap)
    BY <1>2, HeapWithValue DEF Assign, TypeOK, VariablesOK
  <1>4. locals' \in Locals
    BY LocalsWith DEF Assign, TypeOK, VariablesOK
  <1>. QED
    BY <1>3, <1>4

\* The machine after a store: variables assigned, k operands dropped
LEMMA StoreType ==
  ASSUME TypeOK, NEW k \in 0 .. sp, Drop(k), LoopNext(pc),
         heap' \in Seq(Existing), Len(heap') = Len(heap), locals' \in Locals,
         globals' \in [GlobalNames -> Optional],
         UNCHANGED <<cells, frameVars, excVars, hostVars>>
  PROVE  TypeOK'
  <1>1. pc' \in Int /\ prog' = prog /\ UNCHANGED endVars
    BY DEF LoopNext, TypeOK, FramesOK
  <1>2. stack' \in Seq(Existing) /\ sp' \in 0 .. Len(stack') /\ Len(stack') >= Len(stack)
    BY DEF TypeOK, StackOK, Drop
  <1>3. cells' \in Cells
    BY DEF TypeOK, VariablesOK
  <1>. QED
    BY <1>1, <1>2, <1>3, NoTransfer

LEMMA VariablesType ==
  ASSUME ProgramOK, TypeOK, LoadVariable \/ StoreVariable \/ IncVariable
                            \/ LoadCapture \/ StoreCapture \/ LoadGlobal \/ StoreGlobal
  PROVE  TypeOK'
  <1>0. pc \in Int /\ sp \in 0 .. Len(stack) /\ globals \in [GlobalNames -> Optional]
        /\ closure \in Seq(Address)
    BY DEF TypeOK, FramesOK, StackOK, VariablesOK
  <1>1. CASE LoadVariable
    <2>1. Op.op = "LoadVariable" /\ IsOpcode(Op, prog)
      BY <1>1, FetchType DEF LoadVariable
    <2>2. Op.arg \in 0 .. MaxSlot /\ Op.arg \in Nat
      BY <2>1, MaxSlotAssumption DEF IsOpcode, SlotOps
    <2>3. cells[Op.arg] # 0 => cells[Op.arg] \in Address
      BY <2>2 DEF TypeOK, VariablesOK, Cells, Address
    <2>4. (IF ~HasSlot(Op.arg) THEN Undefined
           ELSE IF cells[Op.arg] # 0 THEN heap[cells[Op.arg]]
           ELSE locals[Op.arg + 1]) \in Existing
      BY <2>2, <2>3, UndefinedExists, CellValueExists, LocalExists
    <2>. QED
      BY <1>0, <1>1, <2>4, PushType DEF LoadVariable
  <1>2. CASE StoreVariable
    <2>1. Op.op \in {"StoreVariable", "StoreVariableKeep"} /\ IsOpcode(Op, prog)
          /\ sp >= Needs(Op) /\ Needs(Op) = 1
      BY <1>2, FetchType, NeedsValues DEF StoreVariable, OneOps
    <2>2. Op.arg \in 0 .. MaxSlot
      BY <2>1 DEF IsOpcode, SlotOps
    <2>3. Top(0) \in Existing
      BY <1>0, <2>1, TopType DEF TypeOK
    <2>4. heap' \in Seq(Existing) /\ Len(heap') = Len(heap) /\ locals' \in Locals
      BY <1>2, <2>2, <2>3, AssignType DEF StoreVariable
    <2>5. PICK k \in 0 .. sp : Drop(k)
      BY <1>0, <1>2, <2>1 DEF StoreVariable
    <2>. QED
      BY <1>0, <1>2, <2>4, <2>5, StoreType DEF StoreVariable
  <1>3. CASE IncVariable
    <2>1. Op.op \in IncOps /\ IsOpcode(Op, prog)
      BY <1>3, FetchType DEF IncVariable
    <2>2. Op.arg \in Nat
      BY <2>1, MaxSlotAssumption DEF IsOpcode, SlotOps
    <2>3. ASSUME HasSlot(Op.arg), NEW by \in Int
          PROVE  Increased(locals[Op.arg + 1], by) \in Existing
      <3>1. locals[Op.arg + 1].v \in Int
        BY <2>2, <2>3, LocalExists DEF Existing
      <3>. QED
        BY <3>1, ValuesExist DEF Increased
    <2>4. CASE HasSlot(Op.arg)
      <3>. DEFINE orig == locals[Op.arg + 1]
                  val  == Increased(orig, IF Op.op \in {"PreIncrement",
                                            "PostIncrement"} THEN 1 ELSE -1)
      <3>1. orig \in Existing /\ val \in Existing
        BY <2>2, <2>3, <2>4, LocalExists
      <3>2. PICK v \in Existing : PushAt(sp, v)
        BY <1>3, <2>4, <3>1 DEF IncVariable
      <3>3. locals' \in Locals
        BY <1>3, <2>2, <2>4, <3>1, LocalsWith DEF IncVariable
      <3>4. /\ stack' \in Seq(Existing) /\ sp' \in 0 .. Len(stack')
            /\ Len(stack') >= Len(stack)
        BY <1>0, <3>2, PushAtType DEF TypeOK
      <3>5. pc' \in Int /\ prog' = prog /\ UNCHANGED endVars
        BY <1>0, <1>3 DEF IncVariable, LoopNext
      <3>6. cells' = cells /\ heap' = heap /\ globals' = globals
            /\ UNCHANGED <<frameVars, excVars, hostVars>>
        BY <1>3 DEF IncVariable
      <3>. QED
        BY <3>3, <3>4, <3>5, <3>6, NoTransfer DEF TypeOK, VariablesOK
    <2>5. CASE ~HasSlot(Op.arg)
      <3>1. pc' \in Int /\ prog' = prog /\ UNCHANGED endVars
        BY <1>0, <1>3 DEF IncVariable, LoopNext
      <3>2. UNCHANGED <<stack, sp, frameVars, excVars, varVars, hostVars>>
        BY <1>3, <2>5 DEF IncVariable, varVars
      <3>. QED
        BY <3>1, <3>2, OperandsOnly DEF TypeOK, StackOK
    <2>. QED
      BY <2>4, <2>5
  <1>4. CASE LoadCapture
    <2>1. Op.op = "LoadCapture" /\ IsOpcode(Op, prog)
      BY <1>4, FetchType DEF LoadCapture
    <2>2. Op.arg \in Nat
      BY <2>1 DEF IsOpcode, CaptureOps
    <2>3. (IF Op.arg < Len(closure) THEN heap[closure[Op.arg + 1]] ELSE Undefined)
          \in Existing
      BY <1>0, <2>2, UndefinedExists, CellValueExists
    <2>. QED
      BY <1>0, <1>4, <2>3, PushType DEF LoadCapture
  <1>5. CASE StoreCapture
    <2>1. Op.op \in {"StoreCapture", "StoreCaptureKeep"} /\ IsOpcode(Op, prog)
          /\ sp >= Needs(Op) /\ Needs(Op) = 1
      BY <1>5, FetchType, NeedsValues DEF StoreCapture, OneOps
    <2>2. Op.arg \in Nat
      BY <2>1 DEF IsOpcode, CaptureOps
    <2>3. Top(0) \in Existing
      BY <1>0, <2>1, TopType DEF TypeOK
    <2>4. Op.arg < Len(closure) => closure[Op.arg + 1] \in Address
      BY <1>0, <2>2
    <2>5. heap' \in Seq(Existing) /\ Len(heap') = Len(heap)
      BY <1>5, <2>3, <2>4, HeapWithValue DEF StoreCapture, TypeOK, VariablesOK
    <2>6. PICK k \in 0 .. sp : Drop(k)
      BY <1>0, <1>5, <2>1 DEF StoreCapture
    <2>. QED
      BY <1>0, <1>5, <2>5, <2>6, StoreType DEF StoreCapture, TypeOK, VariablesOK
  <1>6. CASE LoadGlobal
    <2>1. Op.op = "LoadGlobal" /\ IsOpcode(Op, prog)
      BY <1>6, FetchType DEF LoadGlobal
    <2>2. Op.arg \in GlobalNames
      BY <2>1 DEF IsOpcode
    <2>3. \A n \in DOMAIN Natives : Natives[n] \in Existing
      BY ValuesExist DEF Natives
    <2>4. (IF globals[Op.arg] # NoValue THEN globals[Op.arg]
           ELSE IF Op.arg \in DOMAIN Natives THEN Natives[Op.arg]
           ELSE Undefined) \in Existing
      BY <1>0, <2>2, <2>3, UndefinedExists DEF Optional
    <2>. QED
      BY <1>0, <1>6, <2>4, PushType DEF LoadGlobal
  <1>7. CASE StoreGlobal
    <2>1. Op.op = "StoreGlobal" /\ IsOpcode(Op, prog) /\ sp >= Needs(Op) /\ Needs(Op) = 1
      BY <1>7, FetchType, NeedsValues DEF StoreGlobal, OneOps
    <2>2. Top(0) \in Existing
      BY <1>0, <2>1, TopType DEF TypeOK
    <2>3. globals' \in [GlobalNames -> Optional]
      BY <1>0, <1>7, <2>2 DEF StoreGlobal, Optional
    <2>. QED
      BY <1>0, <1>7, <2>1, <2>3, StoreType DEF StoreGlobal, TypeOK, VariablesOK
  <1>. QED
    BY <1>1, <1>2, <1>3, <1>4, <1>5, <1>6, <1>7

-----------------------------------------------------------------------------
(* Functions: the only allocation of cells.                                *)

LEMMA TypesGrow ==
  ASSUME Len(heap) \in Nat, Len(heap') \in Nat, Len(heap') >= Len(heap), prog' = prog
  PROVE  /\ Address \subseteq Address' /\ Existing \subseteq Existing' /\ Optional \subseteq Optional'
         /\ Locals \subseteq Locals' /\ Cells \subseteq Cells'
         /\ Frames \subseteq Frames' /\ Activations \subseteq Activations'
  <1>1. Address \subseteq Address'
    BY DEF Address
  <1>2. Existing \subseteq Existing'
    BY <1>1 DEF Existing
  <1>3. Locals \subseteq Locals'
    BY <1>2 DEF Locals
  <1>4. Cells \subseteq Cells'
    BY DEF Cells
  <1>5. Frames \subseteq Frames'
    BY <1>1, <1>3, <1>4 DEF Frames
  <1>6. Activations \subseteq Activations'
    BY <1>2 DEF Activations
  <1>7. Optional \subseteq Optional'
    BY <1>2 DEF Optional
  <1>. QED
    BY <1>1, <1>2, <1>3, <1>4, <1>5, <1>6, <1>7

LEMMA SeqGrows ==
  ASSUME NEW S, NEW T, S \subseteq T
  PROVE  Seq(S) \subseteq Seq(T)
  OBVIOUS

LEMMA FunctionIsSeq ==
  ASSUME NEW n \in Nat, NEW S, NEW f \in [1 .. n -> S]
  PROVE  f \in Seq(S) /\ Len(f) = n
  OBVIOUS

LEMMA PushFunctionType ==
  ASSUME ProgramOK, TypeOK, PushFunction
  PROVE  TypeOK'
  <1>. DEFINE caps == prog[Op.arg].captures
  <1>0. /\ pc \in Int /\ sp \in 0 .. Len(stack) /\ heap # <<>>
        /\ heap \in Seq(Existing) /\ closure \in Seq(Address) /\ cells \in Cells
        /\ Len(heap) \in Nat
    BY DEF TypeOK, FramesOK, StackOK, VariablesOK
  <1>1. IsOpcode(Op, prog) /\ Op.op = "PushFunction"
    BY FetchType DEF PushFunction
  <1>2. Op.arg \in DOMAIN prog /\ Op.arg # 1
    BY <1>1 DEF IsOpcode
  <1>3. caps \in Seq(Captured)
    BY <1>2, ProgramIsProgram DEF IsProgram, IsFunction
  <1>4. \A i \in DOMAIN caps : caps[i].slot \in 0 .. MaxSlot /\ caps[i].isCapture \in BOOLEAN
    <2>1. ASSUME NEW i \in DOMAIN caps
          PROVE  caps[i].slot \in 0 .. MaxSlot /\ caps[i].isCapture \in BOOLEAN
      <3>1. caps[i] \in Captured
        BY <1>3, ElementType
      <3>. QED
        BY <3>1 DEF Captured
    <2>. QED
      BY <2>1
  <1>5. heap' = HeapWith(caps) /\ cells' = CellsWith(caps) /\ prog' = prog
    BY DEF PushFunction, LoopNext
  <1>. HIDE DEF caps
  <1>. DEFINE new == [i \in 1 .. Len(caps) |->
                       IF ~caps[i].isCapture /\ HasSlot(caps[i].slot)
                       THEN locals[caps[i].slot + 1] ELSE Undefined]
  <1>6. new \in Seq(Existing) /\ Len(new) = Len(caps)
    <2>1. ASSUME NEW i \in 1 .. Len(caps)
          PROVE  (IF ~caps[i].isCapture /\ HasSlot(caps[i].slot)
                  THEN locals[caps[i].slot + 1] ELSE Undefined) \in Existing
      <3>1. caps[i].slot \in Nat
        BY <1>3, <1>4, MaxSlotAssumption
      <3>. QED
        BY <3>1, LocalExists, UndefinedExists
    <2>2. Len(caps) \in Nat
      BY <1>3
    <2>3. new \in [1 .. Len(caps) -> Existing]
      BY <2>1
    <2>. QED
      BY <2>2, <2>3, FunctionIsSeq
  <1>. HIDE DEF new
  <1>7. heap' \in Seq(Existing) /\ Len(heap') = Len(heap) + Len(caps)
    <2>1. heap' = heap \o new
      BY <1>5 DEF HeapWith, new
    <2>2. heap \o new \in Seq(Existing) /\ Len(heap \o new) = Len(heap) + Len(new)
      BY <1>0, <1>6, ConcatProperties
    <2>. QED
      BY <1>6, <2>1, <2>2
  <1>8. Len(caps) \in Nat /\ Len(heap') \in Nat /\ Len(heap') >= Len(heap)
    BY <1>0, <1>3, <1>7
  <1>9. /\ Address \subseteq Address' /\ Existing \subseteq Existing' /\ Optional \subseteq Optional'
        /\ Locals \subseteq Locals' /\ Cells \subseteq Cells'
        /\ Frames \subseteq Frames' /\ Activations \subseteq Activations'
    BY <1>0, <1>5, <1>8, TypesGrow
  <1>10. cells' \in Cells'
    <2>1. ASSUME NEW s \in 0 .. MaxSlot
          PROVE  cells'[s] \in 0 .. Len(heap')
      <3>1. cells[s] \in 0 .. Len(heap)
        BY <1>0 DEF Cells
      <3>2. Capturing(caps, s) # {} => Reserved(caps, s) \in 1 .. Len(caps)
        BY <1>3 DEF Capturing, Reserved
      <3>. QED
        BY <1>0, <1>5, <1>7, <1>8, <3>1, <3>2, SMTT(40) DEF CellsWith
    <2>. QED
      BY <1>5, <2>1 DEF CellsWith, Cells
  <1>11. ClosureOf(caps) \in Seq(Address')
    <2>1. ASSUME NEW i \in 1 .. Len(caps)
          PROVE  (IF ~caps[i].isCapture THEN CellsWith(caps)[caps[i].slot]
                  ELSE IF caps[i].slot < Len(closure) THEN closure[caps[i].slot + 1]
                  ELSE UndefCell) \in Address'
      <3>1. caps[i].slot \in 0 .. MaxSlot /\ caps[i].slot \in Nat /\ i \in DOMAIN caps
        BY <1>3, <1>4, MaxSlotAssumption
      <3>2. CASE ~caps[i].isCapture
        <4>1. i \in Capturing(caps, caps[i].slot)
          BY <3>1, <3>2 DEF Capturing, CapturesLocal
        <4>2. Reserved(caps, caps[i].slot) \in 1 .. Len(caps)
          BY <1>3, <4>1 DEF Capturing, Reserved
        <4>3. cells[caps[i].slot] \in 0 .. Len(heap)
          BY <1>0, <3>1 DEF Cells
        <4>. DEFINE s == caps[i].slot
        <4>4. CellsWith(caps)[s] = IF cells[s] = 0 THEN Len(heap) + Reserved(caps, s)
                                                  ELSE cells[s]
          BY <3>1, <4>1 DEF CellsWith
        <4>5. CellsWith(caps)[s] \in 1 .. Len(heap')
          BY <1>0, <1>7, <1>8, <4>2, <4>3, <4>4, SMTT(40)
        <4>. QED
          BY <3>2, <4>5 DEF Address
      <3>3. CASE caps[i].isCapture
        <4>1. caps[i].slot < Len(closure) => closure[caps[i].slot + 1] \in Address
          BY <1>0, <3>1, SMTT(40)
        <4>2. UndefCell \in Address
          BY <1>0 DEF Address, UndefCell
        <4>. QED
          BY <1>9, <3>3, <4>1, <4>2
      <3>. QED
        BY <1>4, <3>1, <3>2, <3>3
    <2>2. ClosureOf(caps) \in [1 .. Len(caps) -> Address']
      BY <2>1 DEF ClosureOf
    <2>. QED
      BY <1>8, <2>2, FunctionIsSeq
  <1>12. FnVal(Op.arg, ClosureOf(caps)) \in Existing'
    <2>1. Op.arg \in Int /\ Op.arg \in DOMAIN prog' \ {1}
      BY <1>2, <1>5, ProgramIsProgram DEF IsProgram
    <2>. QED
      BY <1>11, <2>1 DEF FnVal, Existing, Kinds
  <1>13. /\ stack' \in Seq(Existing') /\ sp' \in 0 .. Len(stack')
         /\ Len(stack') >= Len(stack)
    <2>1. stack \in Seq(Existing')
      BY <1>9, SeqGrows DEF TypeOK, StackOK
    <2>2. PushAt(sp, FnVal(Op.arg, ClosureOf(caps)))
      BY DEF PushFunction, caps
    <2>. QED
      BY <1>0, <1>12, <2>1, <2>2 DEF PushAt, Put
  <1>14. UNCHANGED <<body, callStack, closure, goStack, exceptionCtx, exception, locals,
                     globals, finallyRethrow, input, output, status, result>>
    BY DEF PushFunction, LoopNext, frameVars, excVars, hostVars, endVars
  <1>15. pc' \in Int
    BY <1>0 DEF PushFunction, LoopNext
  <1>16. StackOK'
    <2>1. Len(stack') \in Nat
      BY <1>13
    <2>. QED
      BY <1>13, <1>14, <2>1, NotedDepths DEF StackOK
  <1>17. VariablesOK'
    <2>1. heap' \in Seq(Existing') /\ heap' # <<>>
      BY <1>0, <1>7, <1>8, <1>9, SeqGrows
    <2>2. locals' \in Locals' /\ closure' \in Seq(Address')
      BY <1>0, <1>9, <1>14, SeqGrows DEF TypeOK, VariablesOK
    <2>3. globals' \in [GlobalNames -> Optional']
      BY <1>9, <1>14 DEF TypeOK, VariablesOK
    <2>. QED
      BY <1>10, <2>1, <2>2, <2>3 DEF VariablesOK
  <1>18. FramesOK'
    BY <1>5, <1>9, <1>14, <1>15, SeqGrows DEF TypeOK, FramesOK
  <1>19. ExceptionsOK' /\ HostOK' /\ EndOK'
    BY <1>9, <1>14 DEF TypeOK, ExceptionsOK, HostOK, EndOK
  <1>. QED
    BY <1>16, <1>17, <1>18, <1>19 DEF TypeOK

-----------------------------------------------------------------------------
(* Jumps, iteration and errors.                                            *)


LEMMA JumpsType ==
  ASSUME ProgramOK, TypeOK, Jump \/ JumpIf \/ JumpIfOrPop
  PROVE  TypeOK'
  <1>0. pc \in Int /\ sp \in 0 .. Len(stack)
    BY DEF TypeOK, FramesOK, StackOK
  <1>1. IsOpcode(Op, prog) /\ Op.op \in JumpOps /\ sp >= Needs(Op)
    BY FetchType DEF Jump, JumpIf, JumpIfOrPop, JumpOps
  <1>2. Op.arg \in Nat
    BY <1>1 DEF IsOpcode
  <1>3. CASE Jump
    BY <1>0, <1>2, <1>3, OperandsOnly DEF Jump, LoopNext, TypeOK, StackOK
  <1>4. CASE JumpIf
    <2>1. Needs(Op) = 1
      BY <1>4, FetchType, NeedsValues DEF JumpIf, OneOps
    <2>2. PICK p \in Int : LoopNext(p)
      BY <1>0, <1>2, <1>4 DEF JumpIf
    <2>. QED
      BY <1>0, <1>1, <1>4, <2>1, <2>2, DropType DEF JumpIf
  <1>5. CASE JumpIfOrPop
    <2>1. Needs(Op) = 1
      BY <1>5, FetchType, NeedsValues DEF JumpIfOrPop, OneOps
    <2>2. PICK p \in Int, k \in {0, 1} : LoopNext(p) /\ Drop(k)
      BY <1>0, <1>2, <1>5 DEF JumpIfOrPop
    <2>. QED
      BY <1>0, <1>1, <1>5, <2>1, <2>2, DropType DEF JumpIfOrPop
  <1>. QED
    BY <1>3, <1>4, <1>5

LEMMA IterationType ==
  ASSUME ProgramOK, TypeOK,
         ForInKeys \/ ForOfIterator \/ ForHasMore \/ ForNext \/ ForNextPanic \/ ForCleanup
  PROVE  TypeOK'
  <1>0. pc \in Int /\ sp \in 0 .. Len(stack) /\ stack \in Seq(Existing)
    BY DEF TypeOK, FramesOK, StackOK
  <1>1. CASE ForInKeys
    <2>1. sp >= 1
      BY <1>1, FetchType, NeedsValues DEF ForInKeys, OneOps
    <2>2. Top(0).v \in Int
      BY <1>0, <2>1, TopType DEF TypeOK, Existing
    <2>3. PICK n \in Int : stack' = Put(Put(stack, sp - 1, ArrVal(n)), sp, IntVal(0))
      BY <1>1, <2>2 DEF ForInKeys
    <2>4. ArrVal(n) \in Existing /\ IntVal(0) \in Existing
      BY ValuesExist
    <2>5. /\ Put(stack, sp - 1, ArrVal(n)) \in Seq(Existing)
          /\ Len(Put(stack, sp - 1, ArrVal(n))) = Len(stack)
      BY <1>0, <2>1, <2>4 DEF Put
    <2>6. /\ stack' \in Seq(Existing) /\ Len(stack') >= Len(stack)
          /\ sp + 1 \in 0 .. Len(stack')
      BY <1>0, <2>1, <2>3, <2>4, <2>5 DEF Put
    <2>. QED
      BY <1>0, <1>1, <2>6, OperandsOnly DEF ForInKeys, LoopNext
  <1>2. CASE ForOfIterator
    BY <1>0, <1>2, ValuesExist, PushType DEF ForOfIterator
  <1>3. CASE ForHasMore
    <2>1. BoolVal(MoreElements) \in Existing
      BY ValuesExist DEF BoolVal
    <2>. QED
      BY <1>0, <1>3, <2>1, PushType DEF ForHasMore
  <1>4. CASE ForNext
    <2>1. IsOpcode(Op, prog) /\ Op.op \in NextOps /\ sp >= 2
      BY <1>4, FetchType, NeedsValues DEF ForNext, TwoOps
    <2>2. Op.arg \in Nat
      BY <2>1, MaxSlotAssumption DEF IsOpcode, SlotOps
    <2>3. Top(0) \in Existing /\ Index \in Int
      BY <1>0, <2>1, TopType, SMTT(40) DEF TypeOK, Existing, Index
    <2>4. IntVal(Index) \in Existing /\ IntVal(Index + 1) \in Existing
      BY <2>3, ValuesExist
    <2>5. PICK v \in Existing : PushAt(sp - 1, v)
      BY <1>4, <2>3, <2>4 DEF ForNext
    <2>6. locals' \in Locals
      BY <1>4, <2>2, <2>4, LocalsWith DEF ForNext, TypeOK, VariablesOK
    <2>7. /\ stack' \in Seq(Existing) /\ sp' \in 0 .. Len(stack')
          /\ Len(stack') >= Len(stack)
      <3>1. sp - 1 \in 0 .. Len(stack)
        BY <1>0, <2>1
      <3>. QED
        BY <2>5, <3>1, PushAtType DEF TypeOK
    <2>8. pc' \in Int /\ prog' = prog /\ UNCHANGED endVars
      BY <1>0, <1>4 DEF ForNext, LoopNext
    <2>9. cells' = cells /\ heap' = heap /\ globals' = globals
          /\ UNCHANGED <<frameVars, excVars, hostVars>>
      BY <1>4 DEF ForNext
    <2>. QED
      BY <2>6, <2>7, <2>8, <2>9, NoTransfer DEF TypeOK, VariablesOK
  <1>5. CASE ForNextPanic
    BY <1>5, StopType DEF ForNextPanic, Statuses
  <1>6. CASE ForCleanup
    <2>1. PICK k \in 0 .. sp : Drop(k)
      BY <1>0, <1>6 DEF ForCleanup
    <2>. QED
      BY <1>0, <1>6, <2>1, DropType DEF ForCleanup
  <1>. QED
    BY <1>1, <1>2, <1>3, <1>4, <1>5, <1>6

-----------------------------------------------------------------------------
(* Calls and returns.                                                      *)

LEMMA BindType ==
  ASSUME ProgramOK, TypeOK, NEW b \in DOMAIN prog, NEW thisVal \in Existing,
         NEW args \in Seq(Existing)
  PROVE  Bind(prog[b], thisVal, args) \in Locals
  <1>. DEFINE fn == prog[b]
  <1>1. /\ fn.varCount \in 0 .. MaxSlot + 1 /\ fn.params \in 0 .. fn.varCount
        /\ fn.thisSlot \in Int /\ fn.argumentsSlot \in Int
    BY ProgramIsProgram DEF IsProgram, IsFunction
  <1>2. fn.varCount \in Nat /\ fn.params \in Nat /\ Len(args) \in Nat
    BY <1>1, MaxSlotAssumption
  <1>. HIDE DEF fn
  <1>3. Pos(Len(args) - fn.params + 1) \in Int
    BY <1>2 DEF Pos
  <1>4. /\ ArrVal(Len(args)) \in Existing /\ Undefined \in Existing
        /\ ArrVal(Pos(Len(args) - fn.params + 1)) \in Existing
    BY <1>2, <1>3, ValuesExist, UndefinedExists
  <1>5. Bind(fn, thisVal, args) \in [1 .. fn.varCount -> Existing]
    <2>1. ASSUME NEW i \in 1 .. fn.varCount
          PROVE  (CASE i = fn.thisSlot + 1      -> thisVal
                    [] i = fn.argumentsSlot + 1 -> ArrVal(Len(args))
                    [] fn.rest /\ i = fn.params -> ArrVal(Pos(Len(args) - fn.params + 1))
                    [] i <= fn.params /\ i <= Len(args) -> args[i]
                    [] OTHER -> Undefined) \in Existing
      <3>1. i <= Len(args) => args[i] \in Existing
        BY <1>2, ElementOfSeq
      <3>. QED
        BY <1>4, <3>1
    <2>. QED
      BY <2>1 DEF Bind
  <1>6. Bind(fn, thisVal, args) \in Seq(Existing)
        /\ Len(Bind(fn, thisVal, args)) = fn.varCount
    BY <1>2, <1>5, FunctionIsSeq
  <1>. QED
    BY <1>1, <1>6 DEF Locals, fn

LEMMA FrameType ==
  ASSUME TypeOK, NEW b \in {NativeBody} \cup DOMAIN prog, NEW p \in Int, NEW n \in Nat
  PROVE  Frame(b, p, n) \in Frames /\ Frame(b, p, n).sp = n
  BY DEF Frame, Frames, TypeOK, VariablesOK

\* The machine once it has entered a function
LEMMA EnterType ==
  ASSUME ProgramOK, TypeOK, NEW fn \in Existing, fn.t = "function",
         NEW thisVal \in Existing, NEW args \in Seq(Existing),
         NEW b \in {NativeBody} \cup DOMAIN prog, NEW p \in Int, NEW n \in 0 .. sp,
         Enter(fn, thisVal, args, Frame(b, p, n)), Drop(sp - n),
         goStack' \in Seq(Activations), pc' \in Int,
         UNCHANGED <<prog, endVars, heap, globals, excVars, hostVars>>
  PROVE  TypeOK'
  <1>0. /\ sp \in 0 .. Len(stack) /\ Len(stack) \in Nat /\ callStack \in Seq(Frames)
        /\ n \in Nat /\ sp - n \in 0 .. sp
    BY SMTT(40) DEF TypeOK, StackOK, FramesOK
  <1>1. fn.v \in DOMAIN prog /\ fn.clo \in Seq(Address)
    BY DEF Existing
  <1>2. Frame(b, p, n) \in Frames /\ Frame(b, p, n).sp = n
    BY <1>0, FrameType
  <1>3. stack' = stack /\ sp' \in 0 .. Len(stack')
    BY <1>0 DEF Drop
  <1>4. callStack' = Append(callStack, Frame(b, p, n))
    BY DEF Enter
  <1>5. callStack' \in Seq(Frames)
    BY <1>0, <1>2, <1>4
  <1>6. \A i \in DOMAIN callStack' : callStack'[i].sp <= Len(stack')
    <2>1. n <= Len(stack)
      BY <1>0
    <2>2. ASSUME NEW i \in DOMAIN callStack'
          PROVE  callStack'[i] = Frame(b, p, n) \/ (i \in DOMAIN callStack
                                                   /\ callStack'[i] = callStack[i])
      BY <1>0, <1>2, <1>4, SMTT(40)
    <2>. QED
      BY <1>2, <1>3, <2>1, <2>2 DEF TypeOK, StackOK
  <1>7. closure' \in Seq(Address) /\ body' \in DOMAIN prog
    BY <1>1 DEF Enter
  <1>8. cells' \in Cells
    BY DEF Enter, NoCells, Cells, TypeOK, VariablesOK
  <1>9. locals' \in Locals
    BY <1>1, BindType DEF Enter
  <1>10. /\ heap' = heap /\ globals' = globals /\ exceptionCtx' = exceptionCtx
         /\ exception' = exception /\ finallyRethrow' = finallyRethrow
         /\ input' = input /\ output' = output /\ status' = status /\ result' = result
    BY DEF endVars, excVars, hostVars
  <1>11. HostOK'
    BY <1>10 DEF TypeOK, HostOK
  <1>. QED
    BY <1>3, <1>5, <1>6, <1>7, <1>8, <1>9, <1>10, <1>11, TurnType, SMTT(40)
       DEF TypeOK, StackOK, VariablesOK, ExceptionsOK, EndOK

\* The machine after a call of one of the host's functions
LEMMA HostCallType ==
  ASSUME TypeOK, prog' = prog, pc' \in Int, stack' \in Seq(Existing),
         sp' \in 0 .. Len(stack'), Len(stack') >= Len(stack), HostOK',
         status' \in Statuses, result' = result, exception' \in Optional,
         UNCHANGED <<exceptionCtx, finallyRethrow, frameVars, varVars>>
  PROVE  TypeOK'
  <1>1. Len(stack') \in Nat
    OBVIOUS
  <1>2. UNCHANGED <<body, callStack, closure, goStack, exceptionCtx, finallyRethrow,
                    locals, cells, heap, globals, result>>
    BY DEF frameVars, varVars
  <1>3. /\ \A i \in DOMAIN callStack' : callStack'[i].sp <= Len(stack')
        /\ \A i \in DOMAIN exceptionCtx' : exceptionCtx'[i].StackDepth <= Len(stack')
    BY <1>1, <1>2, NotedDepths
  <1>. QED
    BY <1>2, <1>3, TurnType DEF TypeOK, VariablesOK, FramesOK, ExceptionsOK, EndOK, Statuses

LEMMA CallType ==
  ASSUME ProgramOK, TypeOK, NEW fn \in Existing, NEW thisVal \in Existing,
         NEW args \in Seq(Existing), NEW n \in 0 .. sp,
         callFunctionWithThis(fn, thisVal, args, n), status = "running"
  PROVE  TypeOK'
  <1>0. /\ pc \in Int /\ sp \in 0 .. Len(stack) /\ n \in 0 .. Len(stack) /\ n \in Nat
        /\ body \in DOMAIN prog /\ goStack \in Seq(Activations)
        /\ stack \in Seq(Existing)
        /\ exception \in Optional /\ input \in Seq(BOOLEAN) /\ output \in Seq(Int)
    BY DEF TypeOK, FramesOK, StackOK, ExceptionsOK, HostOK
  <1>00. ASSUME NEW p \in Int, LoopNext(p)
         PROVE  prog' = prog /\ pc' \in Int /\ status' = status /\ result' = result
                /\ status' \in Statuses
    BY <1>00 DEF LoopNext, endVars, Statuses
  <1>1. CASE fn.t = "function" /\ setupScriptCall(fn, thisVal, args, n)
    <2>1. goStack' = goStack /\ LoopNext(-1)
      BY <1>1 DEF setupScriptCall
    <2>2. UNCHANGED <<prog, endVars, heap, globals, excVars, hostVars>> /\ pc' \in Int
      BY <1>1, <2>1 DEF setupScriptCall, LoopNext
    <2>. QED
      BY <1>0, <1>1, <2>1, <2>2, EnterType DEF setupScriptCall
  <1>2. CASE callAsk(n)
    <2>1. BoolVal(input # <<>> /\ Head(input)) \in Existing
      BY ValuesExist DEF BoolVal
    <2>2. /\ stack' \in Seq(Existing) /\ sp' \in 0 .. Len(stack')
          /\ Len(stack') >= Len(stack)
      BY <1>0, <1>2, <2>1, PushAtType DEF TypeOK, callAsk
    <2>3. HostOK'
      <3>1. input' \in Seq(BOOLEAN)
        BY <1>0, <1>2, HeadTailProperties DEF callAsk
      <3>. QED
        BY <1>0, <1>2, <3>1 DEF callAsk, HostOK
    <2>. QED
      BY <1>0, <1>00, <1>2, <2>2, <2>3, HostCallType DEF callAsk, excVars
  <1>3. CASE callLog(args, n)
    <2>1. /\ stack' \in Seq(Existing) /\ sp' \in 0 .. Len(stack')
          /\ Len(stack') >= Len(stack)
      BY <1>0, <1>3, UndefinedExists, PushAtType DEF TypeOK, callLog
    <2>2. args # <<>> => FirstOf(args).v \in Int
      <3>1. args # <<>> => FirstOf(args) \in Existing
        BY DEF FirstOf
      <3>. QED
        BY <3>1 DEF Existing
    <2>3. HostOK'
      BY <1>0, <1>3, <2>2 DEF callLog, HostOK
    <2>. QED
      BY <1>0, <1>00, <1>3, <2>1, <2>3, HostCallType DEF callLog, excVars
  <1>4. CASE callFail(n)
    <2>1. stack' = stack /\ sp' \in 0 .. Len(stack')
      BY <1>0, <1>4 DEF callFail, Drop
    <2>2. exception' \in Optional
      BY <1>4, ValuesExist DEF callFail, Optional
    <2>3. prog' = prog /\ pc' \in Int /\ status' \in Statuses /\ result' = result
      BY <1>0, <1>4 DEF callFail, Raise, Statuses
    <2>4. HostOK'
      BY <1>0, <1>4 DEF callFail, HostOK, hostVars
    <2>. QED
      BY <1>0, <1>4, <2>1, <2>2, <2>3, <2>4, HostCallType DEF callFail
  <1>5. CASE callEach(thisVal, args, n)
    <2>1. CASE PushAt(n, Undefined) /\ LoopNext(pc)
               /\ UNCHANGED <<frameVars, excVars, varVars, hostVars>>
      BY <1>0, <2>1, UndefinedExists, PushType
    <2>2. CASE /\ FirstOf(args).t = "function" /\ thisVal.v > 0
               /\ goStack' = Append(goStack, Activation(FirstOf(args), 1, thisVal.v))
               /\ CallWithThis(FirstOf(args), ElementArgs(0, thisVal.v), n)
      <3>1. FirstOf(args) \in Existing
        <4>1. NoValue.t = "none"
          BY DEF NoValue, Val
        <4>2. args # <<>>
          BY <2>2, <4>1 DEF FirstOf
        <4>. QED
          BY <4>2 DEF FirstOf
      <3>2. thisVal.v \in Int /\ thisVal.v \in Nat
        BY <2>2 DEF Existing
      <3>3. Activation(FirstOf(args), 1, thisVal.v) \in Activations
        BY <2>2, <3>1, <3>2 DEF Activation, Activations
      <3>4. goStack' \in Seq(Activations)
        BY <1>0, <2>2, <3>3
      <3>5. ElementArgs(0, thisVal.v) \in Seq(Existing)
        BY <3>2, ValuesExist DEF ElementArgs
      <3>6. NativeBody \in {NativeBody} \cup DOMAIN prog /\ 0 \in Int
        OBVIOUS
      <3>. QED
        BY <1>0, <2>2, <3>1, <3>4, <3>5, <3>6, EnterType, UndefinedExists DEF CallWithThis
    <2>3. CASE Stop("typeerror")
               /\ UNCHANGED <<stack, sp, frameVars, excVars, varVars, hostVars>>
      BY <2>3, StopType DEF Statuses
    <2>. QED
      BY <1>5, <2>1, <2>2, <2>3 DEF callEach
  <1>6. CASE Stop("typeerror")
             /\ UNCHANGED <<stack, sp, frameVars, excVars, varVars, hostVars>>
    BY <1>6, StopType DEF Statuses
  <1>. QED
    BY <1>1, <1>2, <1>3, <1>4, <1>5, <1>6 DEF callFunctionWithThis

LEMMA ArgsType ==
  ASSUME TypeOK, NEW count \in 0 .. sp
  PROVE  Args(count) \in Seq(Existing)
  <1>1. /\ stack \in Seq(Existing) /\ sp \in 0 .. Len(stack) /\ Len(stack) \in Nat
    BY DEF TypeOK, StackOK
  <1>2. \A i \in sp - count + 1 .. sp : stack[i] \in Existing
    BY <1>1
  <1>3. sp - count + 1 \in Int /\ sp \in Int
    BY <1>1
  <1>. QED
    BY <1>2, <1>3, SubSeqProperties DEF Args

LEMMA CallsType ==
  ASSUME ProgramOK, TypeOK, Call \/ MethodCall
  PROVE  TypeOK'
  <1>0. sp \in 0 .. Len(stack) /\ Len(stack) \in Nat
    BY DEF TypeOK, StackOK
  <1>1. /\ Op.op \in {"Call", "MethodCall"} /\ IsOpcode(Op, prog)
        /\ sp >= Needs(Op) /\ status = "running"
    BY FetchType DEF Call, MethodCall
  <1>2. Op.arg \in Nat
    BY <1>1 DEF IsOpcode, CountOps
  <1>3. CASE Call
    <2>1. sp >= Op.arg + 1
      BY <1>1, <1>3, FetchType, NeedsValues DEF Call
    <2>2. Top(Op.arg) \in Existing /\ Undefined \in Existing
      BY <1>0, <1>2, <2>1, TopType, UndefinedExists DEF TypeOK
    <2>3. Args(Op.arg) \in Seq(Existing)
      BY <1>0, <1>2, <2>1, ArgsType
    <2>4. sp - Op.arg - 1 \in 0 .. sp
      BY <1>0, <1>2, <2>1
    <2>. QED
      BY <1>1, <1>3, <2>2, <2>3, <2>4, CallType DEF Call
  <1>4. CASE MethodCall
    <2>1. sp >= Op.arg + 2
      BY <1>1, <1>4, FetchType, NeedsValues DEF MethodCall
    <2>2. Top(Op.arg) \in Existing /\ Top(Op.arg + 1) \in Existing
      BY <1>0, <1>2, <2>1, TopType DEF TypeOK
    <2>3. Args(Op.arg) \in Seq(Existing)
      BY <1>0, <1>2, <2>1, ArgsType
    <2>4. sp - Op.arg - 2 \in 0 .. sp
      BY <1>0, <1>2, <2>1, SMTT(40)
    <2>. QED
      BY <1>1, <1>4, <2>2, <2>3, <2>4, CallType DEF MethodCall
  <1>. QED
    BY <1>3, <1>4

LEMMA FrontType ==
  ASSUME NEW S, NEW s \in Seq(S), s # <<>>
  PROVE  /\ Front(s) \in Seq(S) /\ Len(Front(s)) = Len(s) - 1
         /\ \A i \in DOMAIN Front(s) : i \in DOMAIN s /\ Front(s)[i] = s[i]
         /\ Len(s) \in DOMAIN s
  <1>1. Len(s) \in Nat \ {0}
    OBVIOUS
  <1>2. \A i \in 1 .. Len(s) - 1 : s[i] \in S
    BY <1>1, ElementOfSeq
  <1>. DEFINE n == Len(s) - 1
  <1>3. n \in Nat /\ n + 1 = Len(s)
    BY <1>1
  <1>. HIDE DEF n
  <1>4. \A i \in 1 .. n : s[i] \in S
    BY <1>2 DEF n
  <1>5. /\ SubSeq(s, 1, n) \in Seq(S)
        /\ Len(SubSeq(s, 1, n)) = n
        /\ \A i \in 1 .. n : SubSeq(s, 1, n)[i] = s[i]
    BY <1>3, <1>4, SubSeqProperties
  <1>6. Front(s) = SubSeq(s, 1, n)
    BY DEF Front, n
  <1>7. DOMAIN Front(s) = 1 .. n /\ DOMAIN s = 1 .. n + 1
    BY <1>3, <1>5, <1>6
  <1>. QED
    BY <1>1, <1>3, <1>5, <1>6, <1>7 DEF n

LEMMA ReturnsType ==
  ASSUME ProgramOK, TypeOK, ReturnFromMain \/ ReturnToScript \/ ReturnToNative
  PROVE  TypeOK'
  <1>0. /\ pc \in Int /\ sp \in 0 .. Len(stack) /\ Len(stack) \in Nat
        /\ body \in DOMAIN prog /\ callStack \in Seq(Frames)
    BY DEF TypeOK, FramesOK, StackOK
  <1>1. /\ Op.op = "Return" /\ IsOpcode(Op, prog) /\ sp >= Needs(Op)
        /\ Needs(Op) = IF Op.arg THEN 1 ELSE 0
    BY FetchType, NeedsValues DEF ReturnFromMain, ReturnToScript, ReturnToNative
  <1>2. ReturnValue \in Existing
    BY <1>0, <1>1, TopType, UndefinedExists DEF ReturnValue, TypeOK
  <1>3. CASE ReturnFromMain
    <2>1. Len(Code) \in Int
      BY ProgramIsProgram, <1>0 DEF Code, IsProgram, IsFunction
    <2>. QED
      BY <1>0, <1>2, <1>3, <2>1, PushType DEF ReturnFromMain
  <1>4. ASSUME callStack # <<>>, Leave, body' \in DOMAIN prog, NEW p \in Int, LoopNext(p)
        PROVE  TypeOK'
    <2>1. TopFrame \in Frames /\ Len(callStack) \in DOMAIN callStack
      BY <1>0, <1>4, FrontType, ElementType DEF TopFrame
    <2>2. /\ TopFrame.locals \in Locals /\ TopFrame.cells \in Cells
          /\ TopFrame.closure \in Seq(Address) /\ TopFrame.sp \in Nat
      BY <2>1 DEF Frames
    <2>3. TopFrame.sp \in 0 .. Len(stack)
      BY <1>0, <2>1, <2>2 DEF TypeOK, StackOK, TopFrame
    <2>4. /\ stack' \in Seq(Existing) /\ sp' \in 0 .. Len(stack')
          /\ Len(stack') >= Len(stack)
      BY <1>2, <1>4, <2>3, PushAtType DEF TypeOK, Leave
    <2>5. /\ callStack' \in Seq(Frames)
          /\ \A i \in DOMAIN callStack' : i \in DOMAIN callStack /\ callStack'[i] = callStack[i]
      BY <1>0, <1>4, FrontType DEF Leave
    <2>6. Len(stack') \in Nat
      BY <2>4
    <2>7. UNCHANGED <<goStack, heap, globals, exceptionCtx, exception, finallyRethrow,
                      input, output, status, result, prog>> /\ pc' \in Int
      BY <1>4 DEF Leave, excVars, hostVars, LoopNext, endVars
    <2>8. /\ \A i \in DOMAIN callStack' : callStack'[i].sp <= Len(stack')
          /\ \A i \in DOMAIN exceptionCtx' : exceptionCtx'[i].StackDepth <= Len(stack')
      BY <2>4, <2>5, <2>6, <2>7, NotedDepths
    <2>9. locals' \in Locals /\ cells' \in Cells /\ closure' \in Seq(Address)
      BY <1>4, <2>2 DEF Leave
    <2>10. HostOK'
      BY <2>7 DEF TypeOK, HostOK
    <2>. QED
      BY <1>4, <2>4, <2>5, <2>7, <2>8, <2>9, <2>10, TurnType
         DEF TypeOK, VariablesOK, FramesOK, ExceptionsOK, EndOK
  <1>5. CASE ReturnToScript
    <2>1. TopFrame \in Frames
      BY <1>0, <1>5, FrontType, ElementType DEF TopFrame, ReturnToScript
    <2>2. TopFrame.body \in DOMAIN prog /\ TopFrame.pc \in Int
      BY <1>5, <2>1 DEF Frames, ReturnToScript
    <2>. QED
      BY <1>4, <1>5, <2>2 DEF ReturnToScript
  <1>6. CASE ReturnToNative
    BY <1>0, <1>4, <1>6 DEF ReturnToNative
  <1>. QED
    BY <1>3, <1>5, <1>6

-----------------------------------------------------------------------------
(* Exceptions.                                                             *)

\* The machine after a step that only concerns exceptions, and locals
LEMMA ExceptionTurn ==
  ASSUME TypeOK, prog' = prog, pc' \in Int, stack' = stack, sp' \in 0 .. Len(stack),
         locals' \in Locals, exceptionCtx' \in Seq(Contexts),
         \A i \in DOMAIN exceptionCtx' : exceptionCtx'[i].StackDepth <= Len(stack'),
         exception' \in Optional, finallyRethrow' \in BOOLEAN, status' \in Statuses,
         UNCHANGED <<frameVars, cells, heap, globals, hostVars, result>>
  PROVE  TypeOK'
  <1>1. UNCHANGED <<body, callStack, closure, goStack, cells, heap, globals, input, output,
                    result>>
    BY DEF frameVars, hostVars
  <1>2. HostOK'
    BY <1>1 DEF TypeOK, HostOK
  <1>3. Len(stack) \in Nat
    BY DEF TypeOK, StackOK
  <1>. QED
    BY <1>1, <1>2, <1>3, TurnType, SMTT(40)
       DEF TypeOK, StackOK, VariablesOK, FramesOK, EndOK, Statuses

LEMMA ExceptionsType ==
  ASSUME ProgramOK, TypeOK, Exceptions
  PROVE  TypeOK'
  <1>0. /\ pc \in Int /\ sp \in 0 .. Len(stack) /\ Len(stack) \in Nat
        /\ exceptionCtx \in Seq(Contexts) /\ exception \in Optional
        /\ finallyRethrow \in BOOLEAN /\ locals \in Locals /\ status \in Statuses
        /\ \A i \in DOMAIN exceptionCtx : exceptionCtx[i].StackDepth <= Len(stack)
    BY DEF TypeOK, FramesOK, StackOK, ExceptionsOK, VariablesOK, EndOK, Statuses
  <1>1. CASE PushExceptionContext
    <2>1. IsOpcode(Op, prog) /\ Op.op = "PushExceptionContext"
      BY <1>1, FetchType DEF PushExceptionContext
    <2>2. Op.arg \in Context
      BY <2>1 DEF IsOpcode
    <2>. DEFINE ctx == NewContext(Op.arg)
    <2>3. ctx \in Contexts /\ ctx.StackDepth = sp
      BY <1>0, <2>2 DEF Context, Contexts, NewContext, ContextAt
    <2>4. exceptionCtx' = Append(exceptionCtx, ctx)
      BY <1>1 DEF PushExceptionContext
    <2>. HIDE DEF ctx
    <2>5. exceptionCtx' \in Seq(Contexts)
      BY <1>0, <2>3, <2>4
    <2>6. UNCHANGED <<prog, stack, sp, locals, cells, heap, globals, exception,
                      finallyRethrow, frameVars, hostVars, status, result>> /\ pc' \in Int
      BY <1>0, <1>1 DEF PushExceptionContext, LoopNext, varVars, endVars
    <2>7. \A i \in DOMAIN exceptionCtx' : exceptionCtx'[i].StackDepth <= Len(stack')
      BY <1>0, <2>3, <2>4, <2>6
    <2>. QED
      BY <1>0, <2>5, <2>6, <2>7, ExceptionTurn
  <1>2. CASE PopExceptionContext
    <2>1. UNCHANGED <<prog, stack, sp, locals, cells, heap, globals, exception,
                      finallyRethrow, frameVars, hostVars, status, result>> /\ pc' \in Int
      BY <1>0, <1>2 DEF PopExceptionContext, LoopNext, varVars, endVars
    <2>2. /\ exceptionCtx' \in Seq(Contexts)
          /\ \A i \in DOMAIN exceptionCtx' : i \in DOMAIN exceptionCtx
                                            /\ exceptionCtx'[i] = exceptionCtx[i]
      BY <1>0, <1>2, FrontType DEF PopExceptionContext
    <2>. QED
      BY <1>0, <2>1, <2>2, ExceptionTurn
  <1>3. CASE Throw
    <2>1. sp >= 1
      BY <1>3, FetchType, NeedsValues DEF Throw, OneOps
    <2>2. exception' \in Optional
      BY <1>0, <1>3, <2>1, TopType DEF Throw, TypeOK, Optional
    <2>3. stack' = stack /\ sp' \in 0 .. Len(stack)
      BY <1>0, <1>3, <2>1 DEF Throw, Drop
    <2>4. UNCHANGED <<prog, locals, cells, heap, globals, exceptionCtx, pc,
                      finallyRethrow, frameVars, hostVars, result>> /\ status' \in Statuses
      BY <1>3 DEF Throw, Raise, varVars, Statuses
    <2>. QED
      BY <1>0, <2>2, <2>3, <2>4, ExceptionTurn
  <1>4. CASE FinallyComplete
    <2>1. UNCHANGED <<prog, stack, sp, locals, cells, heap, globals, exceptionCtx, exception,
                      frameVars, hostVars, result>>
          /\ pc' \in Int /\ status' \in Statuses /\ finallyRethrow' \in BOOLEAN
      <3>1. finallyRethrow' = FALSE
        BY <1>4 DEF FinallyComplete
      <3>2. /\ Raise \/ LoopNext(pc)
            /\ UNCHANGED <<exceptionCtx, exception, stack, sp, frameVars, varVars, hostVars>>
        BY <1>4 DEF FinallyComplete
      <3>3. UNCHANGED <<prog, result>> /\ pc' \in Int /\ status' \in Statuses
        BY <1>0, <3>2 DEF Raise, LoopNext, endVars, Statuses
      <3>. QED
        BY <3>1, <3>2, <3>3 DEF varVars
    <2>. QED
      BY <1>0, <2>1, ExceptionTurn
  <1>5. ASSUME Unwind
        PROVE  /\ TopCtx \in Contexts /\ sp' \in 0 .. Len(stack)
               /\ exceptionCtx' \in Seq(Contexts)
               /\ \A i \in DOMAIN exceptionCtx' : exceptionCtx'[i].StackDepth <= Len(stack)
               /\ UNCHANGED <<prog, stack, frameVars, cells, heap, globals, hostVars, result>>
    <2>1. exceptionCtx # <<>>
      BY <1>5 DEF Unwind
    <2>2. TopCtx \in Contexts /\ Len(exceptionCtx) \in DOMAIN exceptionCtx
      BY <1>0, <2>1, FrontType, ElementType DEF TopCtx
    <2>3. TopCtx.StackDepth \in Nat /\ TopCtx.StackDepth <= Len(stack)
      BY <1>0, <2>2 DEF Contexts, TopCtx
    <2>4. /\ exceptionCtx' \in Seq(Contexts)
          /\ \A i \in DOMAIN exceptionCtx' : i \in DOMAIN exceptionCtx
                                            /\ exceptionCtx'[i] = exceptionCtx[i]
      BY <1>0, <1>5, <2>1, FrontType DEF Unwind
    <2>. QED
      BY <1>0, <1>5, <2>2, <2>3, <2>4 DEF Unwind, HandlerDepth
  <1>55. ASSUME Catch, TopCtx.CatchVarSlot >= 0
         PROVE  exception \in Existing
    BY <1>0, <1>55 DEF Catch, CatchPanics, Optional
  <1>6. CASE Catch
    <2>1. Unwind /\ pc' = TopCtx.CatchTarget - 1 + 1 /\ exception' = NoValue
          /\ status' = "running" /\ finallyRethrow' = finallyRethrow
      BY <1>6 DEF Catch
    <2>2. TopCtx.CatchTarget \in Int /\ TopCtx.CatchVarSlot \in Int
      BY <1>5, <2>1 DEF Contexts
    <2>3. locals' \in Locals
      <3>1. CASE TopCtx.CatchVarSlot >= 0
        <4>1. TopCtx.CatchVarSlot \in Nat /\ HasSlot(TopCtx.CatchVarSlot)
          BY <1>6, <2>2, <3>1 DEF Catch, CatchPanics
        <4>. QED
          BY <1>0, <1>55, <1>6, <3>1, <4>1, LocalsWith DEF Catch
      <3>2. CASE ~(TopCtx.CatchVarSlot >= 0)
        BY <1>0, <1>6, <3>2 DEF Catch
      <3>. QED
        BY <3>1, <3>2
    <2>4. exception' \in Optional /\ pc' \in Int /\ status' \in Statuses
      BY <2>1, <2>2, ValuesExist DEF Statuses
    <2>. QED
      BY <1>0, <1>5, <2>1, <2>3, <2>4, ExceptionTurn
  <1>7. CASE CatchPanic
    BY <1>0, <1>5, <1>7, ExceptionTurn DEF CatchPanic, Statuses
  <1>8. CASE Finally
    <2>1. Unwind /\ pc' = TopCtx.FinallyTarget - 1 + 1 /\ finallyRethrow' = TRUE
          /\ status' = "running" /\ locals' = locals /\ exception' = exception
      BY <1>8 DEF Finally
    <2>2. pc' \in Int
      BY <1>5, <2>1 DEF Contexts
    <2>. QED
      BY <1>0, <1>5, <2>1, <2>2, ExceptionTurn DEF Statuses
  <1>9. CASE Uncaught
    BY <1>9, StopType DEF Uncaught, Statuses
  <1>. QED
    BY <1>1, <1>2, <1>3, <1>4, <1>6, <1>7, <1>8, <1>9 DEF Exceptions

-----------------------------------------------------------------------------
(* The ends of the loops.                                                  *)

LEMMA LoopsType ==
  ASSUME ProgramOK, TypeOK, Loops
  PROVE  TypeOK'
  <1>0. /\ pc \in Int /\ sp \in 0 .. Len(stack) /\ Len(stack) \in Nat
        /\ goStack \in Seq(Activations)
    BY DEF TypeOK, FramesOK, StackOK
  <1>1. CASE ExecReturns
    <2>1. LoopResult \in Existing
      BY <1>0, TopType, UndefinedExists DEF LoopResult, TypeOK
    <2>2. UNCHANGED <<prog, pc, stack, sp, locals, cells, heap, globals, body, callStack,
                      closure, goStack, exceptionCtx, exception, finallyRethrow,
                      input, output>> /\ status' = "done" /\ result' \in Optional
      BY <1>1, <2>1 DEF ExecReturns, Optional, frameVars, excVars, varVars, hostVars
    <2>3. HostOK'
      BY <2>2 DEF TypeOK, HostOK
    <2>. QED
      BY <1>0, <2>2, <2>3, TurnType DEF TypeOK, StackOK, VariablesOK, FramesOK, ExceptionsOK,
         EndOK
  <1>2. CASE CallbackReturns
    <2>1. Len(goStack) \in DOMAIN goStack /\ Iteration \in Activations
      BY <1>0, <1>2, FrontType, ElementType DEF CallbackReturns, Iteration
    <2>2. /\ Iteration.fn \in Existing /\ Iteration.fn.t = "function"
          /\ Iteration.next \in Nat /\ Iteration.len \in Nat
      BY <2>1 DEF Activations
    <2>3. ElementArgs(Iteration.next, Iteration.len) \in Seq(Existing)
      BY <2>2, ValuesExist DEF ElementArgs
    <2>4. goStack' \in Seq(Activations)
      <3>1. [Iteration EXCEPT !.next = @ + 1] \in Activations
        BY <2>1 DEF Activations
      <3>2. goStack' = [goStack EXCEPT ![Len(goStack)] =
                          [Iteration EXCEPT !.next = @ + 1]]
        BY <1>2 DEF CallbackReturns, Iteration
      <3>. QED
        BY <1>0, <2>1, <3>1, <3>2, ExceptSeq
    <2>5. NativeBody \in {NativeBody} \cup DOMAIN prog /\ 0 \in Int /\ sp \in 0 .. sp
      BY <1>0
    <2>. QED
      BY <1>2, <2>2, <2>3, <2>4, <2>5, EnterType, UndefinedExists DEF CallbackReturns, CallWithThis
  <1>3. CASE IterationReturns
    <2>1. goStack' \in Seq(Activations)
      BY <1>0, <1>3, FrontType DEF IterationReturns
    <2>2. /\ stack' \in Seq(Existing) /\ sp' \in 0 .. Len(stack')
          /\ Len(stack') >= Len(stack)
      BY <1>0, <1>3, PushAtType, UndefinedExists DEF IterationReturns, TypeOK
    <2>3. UNCHANGED <<prog, locals, cells, heap, globals, body, callStack, closure,
                      exceptionCtx, exception, finallyRethrow, input, output, status,
                      result>> /\ pc' \in Int
      BY <1>0, <1>3 DEF IterationReturns, LoopNext, excVars, varVars, hostVars, endVars
    <2>4. Len(stack') \in Nat
      BY <2>2
    <2>5. /\ \A i \in DOMAIN callStack' : callStack'[i].sp <= Len(stack')
          /\ \A i \in DOMAIN exceptionCtx' : exceptionCtx'[i].StackDepth <= Len(stack')
      BY <2>2, <2>3, <2>4, NotedDepths
    <2>6. HostOK'
      BY <2>3 DEF TypeOK, HostOK
    <2>. QED
      BY <2>1, <2>2, <2>3, <2>5, <2>6, TurnType DEF TypeOK, VariablesOK, FramesOK, ExceptionsOK,
         EndOK
  <1>4. CASE Underflow
    BY <1>4, StopType DEF Underflow, Statuses
  <1>. QED
    BY <1>1, <1>2, <1>3, <1>4 DEF Loops

-----------------------------------------------------------------------------
(* Type correctness.                                                       *)

LEMMA InitType ==
  ASSUME Init
  PROVE  TypeOK /\ ProgramOK
  <1>0. ProgramOK /\ IsProgram(prog)
    BY ProgramIsProgram DEF Init, ProgramOK
  <1>1. 1 \in DOMAIN prog /\ prog[1].varCount \in 0 .. MaxSlot + 1 /\ prog[1].varCount \in Nat
    BY <1>0, MaxSlotAssumption DEF IsProgram, IsFunction
  <1>2. heap = <<Undefined0>> /\ heap \in Seq(Existing) /\ heap # <<>>
    BY ValuesExist DEF Init, Boot
  <1>3. locals \in Locals
    <2>1. locals \in [1 .. prog[1].varCount -> Existing]
      BY ValuesExist DEF Init, Boot
    <2>2. locals \in Seq(Existing) /\ Len(locals) = prog[1].varCount
      BY <1>1, <2>1, FunctionIsSeq
    <2>. QED
      BY <1>1, <2>2 DEF Locals
  <1>4. VariablesOK
    <2>1. cells \in Cells
      BY DEF Init, Boot, NoCells, Cells
    <2>. QED
      BY <1>2, <1>3, <2>1, ValuesExist DEF Init, Boot, VariablesOK
  <1>5. StackOK /\ FramesOK
    BY <1>1 DEF Init, Boot, StackOK, FramesOK
  <1>6. ExceptionsOK /\ HostOK /\ EndOK
    <2>1. input \in Seq(BOOLEAN)
      BY InputsAssumption DEF Init, Boot
    <2>2. HostOK
      BY <2>1 DEF Init, Boot, HostOK
    <2>3. exceptionCtx \in Seq(Contexts) /\ exception \in Optional
      BY ValuesExist DEF Init, Boot
    <2>4. finallyRethrow \in BOOLEAN
      BY DEF Init, Boot
    <2>5. EndOK
      BY ValuesExist DEF Init, Boot, EndOK
    <2>. QED
      BY <2>2, <2>3, <2>4, <2>5 DEF ExceptionsOK
  <1>. QED
    BY <1>0, <1>4, <1>5, <1>6 DEF TypeOK

\* The script that runs stays the same.
LEMMA KeepsProgram ==
  ASSUME Next
  PROVE  prog' = prog
  <1>. USE DEF LoopNext
  <1>1. ASSUME NEW names, NEW results, Operate(names, results)
        PROVE  prog' = prog
    BY <1>1 DEF Operate
  <1>2. CASE Operators
    BY <1>1, <1>2 DEF Operators, PushLiteral, Arithmetic, Shift, Relational, Equality,
       StrictEqual, Bitwise, Unary, IncElement, IncProperty, LogicalNot, TypeTest, GetElement,
       GetProperty, DeleteMember, SetMember, ElementPanic, NewObjects, Pop, Dup, Stop
  <1>3. CASE Variables
    BY <1>3 DEF Variables, LoadVariable, StoreVariable, IncVariable, LoadCapture,
       StoreCapture, LoadGlobal, StoreGlobal, PushFunction
  <1>4. ASSUME NEW fn, NEW thisVal, NEW args, NEW n,
               callFunctionWithThis(fn, thisVal, args, n)
        PROVE  prog' = prog
    BY <1>4 DEF callFunctionWithThis, setupScriptCall, callAsk, callLog, callFail, callEach,
       CallWithThis, Stop, Raise
  <1>5. CASE Control
    BY <1>4, <1>5 DEF Control, Jump, JumpIf, JumpIfOrPop, Call, MethodCall, ReturnFromMain,
       ReturnToScript, ReturnToNative, ForInKeys, ForOfIterator, ForHasMore, ForNext,
       ForNextPanic, ForCleanup, Stop
  <1>6. CASE Exceptions
    BY <1>6 DEF Exceptions, PushExceptionContext, PopExceptionContext, Throw,
       FinallyComplete, Catch, CatchPanic, Finally, Uncaught, Unwind, Raise, Stop
  <1>7. CASE Loops
    BY <1>7 DEF Loops, ExecReturns, CallbackReturns, IterationReturns, Underflow,
       CallWithThis, Stop
  <1>8. CASE Finished
    BY <1>8 DEF Finished, vars
  <1>. QED
    BY <1>2, <1>3, <1>5, <1>6, <1>7, <1>8 DEF Next, Step

LEMMA NextType ==
  ASSUME ProgramOK, TypeOK, [Next]_vars
  PROVE  TypeOK' /\ ProgramOK'
  <1>1. ASSUME Operators PROVE TypeOK'
    BY <1>1, OperatorsType
  <1>2. ASSUME Variables PROVE TypeOK'
    BY <1>2, VariablesType, PushFunctionType DEF Variables
  <1>3. ASSUME Control PROVE TypeOK'
    BY <1>3, JumpsType, CallsType, ReturnsType, IterationType DEF Control
  <1>4. ASSUME Exceptions PROVE TypeOK'
    BY <1>4, ExceptionsType
  <1>5. ASSUME Loops PROVE TypeOK'
    BY <1>5, LoopsType
  <1>6. ASSUME UNCHANGED vars PROVE TypeOK'
    <2>1. UNCHANGED <<stack, sp, frameVars, excVars, varVars, hostVars, endVars, prog, pc>>
      BY <1>6 DEF vars
    <2>. QED
      BY <2>1, OperandsOnly DEF TypeOK, StackOK, FramesOK
  <1>7. TypeOK'
    BY <1>1, <1>2, <1>3, <1>4, <1>5, <1>6 DEF Next, Step, Finished
  <1>8. prog' = prog
    BY KeepsProgram DEF vars
  <1>. QED
    BY <1>7, <1>8 DEF ProgramOK

\* Every variable of the machine has its type: operands, locals and captured
\* values exist, cells and functions point into the heap and the program,
\* and no frame or exception context notes a depth the stack never had.
THEOREM TypeCorrect == Spec => []TypeOK
  <1>1. Init => TypeOK /\ ProgramOK
    BY InitType
  <1>2. TypeOK /\ ProgramOK /\ [Next]_vars => TypeOK' /\ ProgramOK'
    BY NextType
  <1>. QED
    BY <1>1, <1>2, PTL DEF Spec

-----------------------------------------------------------------------------
(* Captured variables.                                                     *)

\* What a turn may do to the cells while the function stays the same
SharesCells == \/ cells' = cells
               \/ \E caps : cells' = CellsWith(caps)
               \/ callStack' # callStack

LEMMA EnterLeaves ==
  ASSUME TypeOK
  PROVE  /\ \A f : callStack' = Append(callStack, f) => callStack' # callStack
         /\ callStack # <<>> /\ callStack' = Front(callStack) => callStack' # callStack
  <1>1. callStack \in Seq(Frames) /\ Len(callStack) \in Nat
    BY DEF TypeOK, FramesOK
  <1>2. \A f : Len(Append(callStack, f)) = Len(callStack) + 1
    BY <1>1
  <1>3. callStack # <<>> => Len(Front(callStack)) = Len(callStack) - 1
    BY <1>1, FrontType
  <1>. QED
    BY <1>1, <1>2, <1>3

LEMMA NextCells ==
  ASSUME TypeOK, [Next]_vars
  PROVE  SharesCells
  <1>. USE DEF SharesCells
  <1>1. ASSUME NEW names, NEW results, Operate(names, results)
        PROVE  cells' = cells
    BY <1>1 DEF Operate, varVars
  <1>2. CASE Operators
    <2>. USE DEF varVars
    <2>1. cells' = cells
      BY <1>1, <1>2 DEF Operators, PushLiteral, Arithmetic, Shift, Relational, Equality,
         StrictEqual, Bitwise, Unary, IncElement, IncProperty, LogicalNot, TypeTest, GetElement,
         GetProperty, DeleteMember, SetMember, ElementPanic, NewObjects, Pop, Dup, Stop
    <2>. QED
      BY <2>1
  <1>3. CASE Variables
    BY <1>3 DEF Variables, LoadVariable, StoreVariable, IncVariable, LoadCapture,
       StoreCapture, LoadGlobal, StoreGlobal, PushFunction, varVars
  <1>4. ASSUME NEW fn, NEW thisVal, NEW args, NEW frame, Enter(fn, thisVal, args, frame)
        PROVE  callStack' # callStack
    BY <1>4, EnterLeaves DEF Enter
  <1>5. ASSUME NEW fn, NEW thisVal, NEW args, NEW n,
               callFunctionWithThis(fn, thisVal, args, n)
        PROVE  SharesCells
    BY <1>4, <1>5 DEF callFunctionWithThis, setupScriptCall, callAsk, callLog, callFail, callEach,
       CallWithThis, varVars
  <1>6. CASE Control
    BY <1>5, <1>6, EnterLeaves DEF Control, Jump, JumpIf, JumpIfOrPop, Call, MethodCall,
       ReturnFromMain, ReturnToScript, ReturnToNative, Leave, ForInKeys, ForOfIterator,
       ForHasMore, ForNext, ForNextPanic, ForCleanup, varVars
  <1>7. CASE Exceptions
    BY <1>7 DEF Exceptions, PushExceptionContext, PopExceptionContext, Throw,
       FinallyComplete, Catch, CatchPanic, Finally, Uncaught, Unwind, varVars
  <1>8. CASE Loops
    BY <1>4, <1>8 DEF Loops, ExecReturns, CallbackReturns, IterationReturns, Underflow,
       CallWithThis, varVars
  <1>9. CASE UNCHANGED vars
    BY <1>9 DEF vars, varVars
  <1>. QED
    BY <1>2, <1>3, <1>6, <1>7, <1>8, <1>9 DEF Next, Step, Finished

\* A local that has been captured keeps its cell for as long as its function
\* runs, so that every function made from then on, whatever else it captures,
\* is given the same one (PushFunctionOperation).
THEOREM CapturesShareCells == Spec => CellsAreShared
  <1>1. TypeOK /\ [Next]_vars =>
          [callStack' = callStack =>
             \A s \in 0 .. MaxSlot : cells[s] # 0 => cells'[s] = cells[s]]_vars
    <2>. SUFFICES ASSUME TypeOK, [Next]_vars, callStack' = callStack,
                         NEW s \in 0 .. MaxSlot, cells[s] # 0
                  PROVE  cells'[s] = cells[s]
      OBVIOUS
    <2>1. \A caps : CellsWith(caps)[s] = cells[s]
      BY DEF CellsWith
    <2>. QED
      BY <2>1, NextCells DEF SharesCells
  <1>2. Spec => []TypeOK
    BY TypeCorrect
  <1>. QED
    BY <1>1, <1>2, PTL DEF Spec, CellsAreShared

-----------------------------------------------------------------------------
(* The exception that is on its way.                                       *)

\* What a turn does to the exception and to the flag
Quiet   == UNCHANGED <<exception, finallyRethrow>>
           /\ (status' = status \/ status' \notin {"running", "raising"})
Raises  == /\ status = "running" /\ status' = "raising"
           /\ exception' # NoValue /\ finallyRethrow' = finallyRethrow
EndsFinally == /\ status = "running" /\ finallyRethrow' = FALSE /\ exception' = exception
               /\ IF finallyRethrow THEN status' = "raising" ELSE status' = status
Handles == /\ status = "raising" /\ status' = "running"
           /\ \/ exception' = NoValue /\ finallyRethrow' = finallyRethrow
              \/ exception' = exception /\ finallyRethrow' = TRUE
Handling == Quiet \/ Raises \/ EndsFinally \/ Handles

LEMMA ExistingIsValue ==
  ASSUME NEW x \in Existing
  PROVE  x # NoValue
  BY DEF Existing, NoValue, Val

LEMMA NextHandling ==
  ASSUME ProgramOK, TypeOK, Next
  PROVE  Handling
  <1>. USE DEF LoopNext, excVars, endVars
  <1>1. ASSUME NEW names, NEW results, Operate(names, results)
        PROVE  Quiet
    BY <1>1 DEF Operate, Quiet
  <1>2. CASE Operators
    <2>1. Quiet
      BY <1>1, <1>2 DEF Operators, PushLiteral, Arithmetic, Shift, Relational, Equality,
         StrictEqual, Bitwise, Unary, IncElement, IncProperty, LogicalNot, TypeTest, GetElement,
         GetProperty, DeleteMember, SetMember, ElementPanic, NewObjects, Pop, Dup, Stop, Quiet
    <2>. QED
      BY <2>1 DEF Handling
  <1>3. CASE Variables
    <2>1. Quiet
      BY <1>3 DEF Variables, LoadVariable, StoreVariable, IncVariable, LoadCapture,
         StoreCapture, LoadGlobal, StoreGlobal, PushFunction, Quiet
    <2>. QED
      BY <2>1 DEF Handling
  <1>4. ASSUME NEW fn, NEW thisVal, NEW args, NEW n, status = "running",
               callFunctionWithThis(fn, thisVal, args, n)
        PROVE  Quiet \/ Raises
    <2>1. IntVal(1) # NoValue
      BY DEF IntVal, NoValue, Val
    <2>2. CASE callFail(n)
      BY <1>4, <2>1, <2>2 DEF callFail, Raise, Raises
    <2>3. CASE ~callFail(n)
      BY <1>4, <2>3 DEF callFunctionWithThis, setupScriptCall, callAsk, callLog, callEach,
         CallWithThis, Stop, Quiet
    <2>. QED
      BY <2>2, <2>3
  <1>5. CASE Control
    <2>1. CASE Call \/ MethodCall
      BY <1>4, <2>1 DEF Call, MethodCall, Fetch, Handling
    <2>2. CASE ~(Call \/ MethodCall)
      BY <1>5, <2>2 DEF Control, Jump, JumpIf, JumpIfOrPop, ReturnFromMain,
         ReturnToScript, ReturnToNative, Leave, ForInKeys, ForOfIterator, ForHasMore, ForNext,
         ForNextPanic, ForCleanup, Stop, Quiet, Handling
    <2>. QED
      BY <2>1, <2>2
  <1>6. CASE Exceptions
    <2>1. CASE PushExceptionContext \/ PopExceptionContext \/ CatchPanic \/ Uncaught
      <3>1. Quiet
        BY <2>1 DEF PushExceptionContext, PopExceptionContext, CatchPanic, Uncaught, Stop, Quiet
      <3>. QED
        BY <3>1 DEF Handling
    <2>2. CASE Throw
      <3>1. sp >= 1 /\ status = "running" /\ exception' = Top(0)
        BY <2>2, FetchType, NeedsValues DEF Throw, OneOps
      <3>2. Top(0) \in Existing
        BY <3>1, TopType DEF TypeOK, StackOK
      <3>. QED
        BY <2>2, <3>1, <3>2, ExistingIsValue DEF Throw, Raise, Raises, Handling
    <2>3. CASE FinallyComplete
      BY <2>3 DEF FinallyComplete, Fetch, Raise, EndsFinally, Handling
    <2>4. CASE Catch \/ Finally
      BY <2>4 DEF Catch, Finally, Unwind, Handles, Handling
    <2>. QED
      BY <1>6, <2>1, <2>2, <2>3, <2>4 DEF Exceptions
  <1>7. CASE Loops
    BY <1>7 DEF Loops, ExecReturns, CallbackReturns, IterationReturns, Underflow,
       CallWithThis, Stop, Quiet, Handling
  <1>8. CASE Finished
    BY <1>8 DEF Finished, vars, Quiet, Handling
  <1>. QED
    BY <1>2, <1>3, <1>5, <1>6, <1>7, <1>8 DEF Next, Step

\* While an exception looks for its handler it is there, and no other waits.
OneException == status = "raising" => exception # NoValue /\ ~finallyRethrow
PendingInv == ProgramOK /\ TypeOK /\ PendingIsRethrown /\ OneException

LEMMA InitPending ==
  ASSUME Init
  PROVE  PendingInv
  BY InitType DEF Init, Boot, PendingInv, PendingIsRethrown, OneException

LEMMA NextPending ==
  ASSUME PendingInv, [Next]_vars, [RaisesOne]_vars
  PROVE  PendingInv'
  <1>1. (ProgramOK /\ TypeOK)'
    BY NextType DEF PendingInv
  <1>2. CASE UNCHANGED vars
    BY <1>1, <1>2 DEF vars, excVars, endVars, PendingInv, PendingIsRethrown, OneException
  <1>3. CASE Next /\ RaisesOne
    <2>1. Handling /\ finallyRethrow \in BOOLEAN /\ finallyRethrow' \in BOOLEAN
      BY <1>1, <1>3, NextHandling DEF PendingInv, TypeOK, ExceptionsOK
    <2>2. PendingIsRethrown' /\ OneException'
      BY <1>3, <2>1 DEF Handling, Quiet, Raises, EndsFinally, Handles, RaisesOne, PendingInv,
         PendingIsRethrown, OneException
    <2>. QED
      BY <1>1, <2>2 DEF PendingInv
  <1>. QED
    BY <1>2, <1>3

\* While the script runs there is an exception exactly if a finally block will
\* throw it again, through any number of handlers, calls and try blocks, as
\* long as no finally block raises another one meanwhile: for those there is
\* one flag and one exception in the process (handleException, FinallyComplete).
THEOREM PendingIsKept == Spec /\ FinallyIsQuiet => []PendingIsRethrown
  <1>1. Init => PendingInv
    BY InitPending
  <1>2. PendingInv /\ [Next]_vars /\ [RaisesOne]_vars => PendingInv'
    BY NextPending
  <1>3. PendingInv => PendingIsRethrown
    BY DEF PendingInv
  <1>. QED
    BY <1>1, <1>2, <1>3, PTL DEF Spec, FinallyIsQuiet
=============================================================================
