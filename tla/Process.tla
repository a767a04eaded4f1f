------------------------------ MODULE Process ------------------------------
(***************************************************************************)
(* The virtual machine of gescript: the Process structure, the execution   *)
(* loops of Function.Exec and ScriptFunction.CallWithThis (engine.go) and  *)
(* the operations they dispatch to (operations.go).                        *)
(*                                                                         *)
(* One action is one turn of an execution loop: fetch the opcode at pc,    *)
(* run its ExecFn, prc.pc++.  A raised exception (ErrException) is handled *)
(* by further actions, one per turn of the loop in handleException.  Data  *)
(* is abstracted to what control depends on: truthiness, functions and     *)
(* array lengths; the operators of the language yield any small value.     *)
(***************************************************************************)
EXTENDS Integers, Sequences

CONSTANTS
  Programs,     \* programs: sequences of function bodies, the first is main
  GlobalNames,  \* names that scripts read or write as globals
  Inputs,       \* what the host answers: sequences of BOOLEAN
  MaxSlot       \* bound: the largest local slot any program names

VARIABLES
  prog,            \* the parsed script being run (never changes)
  body, pc,        \* prc.body (an index into prog), prc.pc (from 0)
  stack, sp,       \* prc.stack with what was popped still in it, prc.sp
  locals,          \* prc.locals
  cells, closure,  \* prc.cells (0 is nil), prc.closure: addresses in heap
  heap,            \* the values of all Cells; address 1 is types.Undefined
  callStack,       \* prc.callStack, innermost frame last
  exceptionCtx,    \* prc.exceptionCtx, innermost context last
  exception,       \* *prc.exception, or NoValue
  finallyRethrow,  \* prc.finallyRethrow
  globals,         \* prc.globals: the shared map, NoValue when absent
  goStack,         \* Go activations of native iteration around CallWithThis
  input, output,   \* the host: answers still to give, values it was shown
  status, result   \* how the outermost Exec stands, and what it returned

frameVars == <<body, callStack, closure, goStack>>
excVars   == <<exceptionCtx, exception, finallyRethrow>>
varVars   == <<locals, cells, heap, globals>>
hostVars  == <<input, output>>
endVars   == <<status, result>>
vars == <<prog, pc, stack, sp, frameVars, excVars, varVars, hostVars, endVars>>

-----------------------------------------------------------------------------
(* Values. A value is its kind, a number and, for a function, its cells.   *)
(* The number is an array's length, an object's count of keys, a body.     *)

Kinds == {"none", "undefined", "boolean", "integer", "number", "array",
          "object", "function", "native"}
Value == [t : Kinds, v : Int, clo : Seq(Nat)]
Val(t, v)  == [t |-> t, v |-> v, clo |-> <<>>]
NoValue    == Val("none", 0)
Undefined0 == Val("undefined", 0)
BoolVal(b) == Val("boolean", IF b THEN 1 ELSE 0)
IntVal(n)  == Val("integer", n)
NaN        == Val("number", 0)
ArrVal(n)  == Val("array", n)
ObjVal(n)  == Val("object", n)
FnVal(b, clo) == [t |-> "function", v |-> b, clo |-> clo]
Booleans   == {BoolVal(TRUE), BoolVal(FALSE)}
Scalars    == {IntVal(-1), IntVal(0), IntVal(1)}

\* types.Undefined is a package variable, and cells may alias it.
UndefCell == 1
Undefined == heap[UndefCell]

\* The functions a host registers: one that answers, one that observes, one
\* that throws, and an iteration method that calls back into the script.
Ask  == Val("native", 1)
Log  == Val("native", 2)
Fail == Val("native", 3)
Each == Val("native", 4)
Natives == [n \in {"ask", "log", "fail", "each"} |->
              CASE n = "ask" -> Ask [] n = "log"  -> Log
                [] n = "fail" -> Fail [] n = "each" -> Each]

IsTruthy(v) == CASE v.t = "undefined" -> FALSE
                 [] v.t \in {"boolean", "integer", "number"} -> v.v # 0
                 [] OTHER -> TRUE

-----------------------------------------------------------------------------
(* The operand stack.                                                      *)

Put(stk, n, v) == IF n < Len(stk) THEN [stk EXCEPT ![n + 1] = v]
                                  ELSE Append(stk, v)
Top(k) == stack[sp - k]          \* Top(0) is the value on top

\* prc.push of v once n operands are left
PushAt(n, v) == stack' = Put(stack, n, v) /\ sp' = n + 1

\* prc.pop of k operands and nothing pushed
Drop(k) == sp' = sp - k /\ UNCHANGED stack

-----------------------------------------------------------------------------
(* The execution loop.                                                     *)

Code == prog[body].code
InRange == pc >= 0 /\ pc < Len(Code)
Op == Code[pc + 1]

ArithmeticOps == {"Addition", "Subtraction", "Multiplication", "Division",
                  "Modulus"}
ShiftOps      == {"LeftShift", "RightShift", "UnsignedRightShift"}
RelationalOps == {"LessThan", "GreaterThan", "LessThanOrEqual",
                  "GreaterThanOrEqual"}
EqualityOps   == {"Equal", "NotEqual"}
BitwiseOps    == {"BitwiseAnd", "BitwiseOr", "BitwiseXor"}
UnaryOps      == {"UnaryPlus", "UnaryMinus", "BitwiseNot"}
ElementIncOps == {"PreIncrementElement", "PostIncrementElement",
                  "PreDecrementElement", "PostDecrementElement"}
PropertyIncOps == {"PreIncrementProperty", "PostIncrementProperty",
                   "PreDecrementProperty", "PostDecrementProperty"}
BinaryOps == ArithmeticOps \cup ShiftOps \cup RelationalOps \cup EqualityOps
             \cup BitwiseOps \cup {"StrictEqual", "StrictNotEqual", "Instanceof"}
IncOps    == {"PreIncrement", "PreDecrement", "PostIncrement",
              "PostDecrement"}
NextOps   == {"ForInNext", "ForOfNext"}
HasMoreOps == {"ForInHasMore", "ForOfHasMore"}

\* Operands an operation pops or peeks before it does anything else; with
\* fewer on the stack, pop and peek return ErrStackUnderflow.
Needs(op) ==
  CASE op.op \in BinaryOps \cup ElementIncOps \cup NextOps \cup HasMoreOps
                 \cup {"GetElement", "DeleteElement", "In", "SetProperty"} -> 2
    [] op.op \in UnaryOps \cup PropertyIncOps
                 \cup {"LogicalNot", "Typeof", "GetProperty", "DeleteProperty",
                       "Pop", "Dup",
                       "JumpIfFalse", "JumpIfTrue", "JumpIfFalseOrPop",
                       "JumpIfTrueOrPop", "StoreVariable",
                       "StoreVariableKeep", "StoreGlobal", "StoreCapture",
                       "StoreCaptureKeep", "Throw", "ForInKeys"} -> 1
    [] op.op = "SetElement" -> 3
    [] op.op \in {"NewArray", "NewObject"} -> op.arg
    [] op.op = "Call" -> op.arg + 1
    [] op.op = "MethodCall" -> op.arg + 2
    [] op.op = "Return" -> IF op.arg THEN 1 ELSE 0
    [] OTHER -> 0

\* The loop is at an operation of the given names, its operands on the stack.
Fetch(names) == /\ status = "running"
                /\ InRange
                /\ Op.op \in names
                /\ sp >= Needs(Op)

\* prc.pc++ at the end of a turn that left pc at p
LoopNext(p) == pc' = p + 1 /\ UNCHANGED <<prog, endVars>>

\* The turn ends with ErrException: handleException takes over.
Raise == status' = "raising" /\ UNCHANGED <<prog, result, pc>>

\* Exec returns another error, or the Go runtime panics.
Stop(why) == status' = why /\ UNCHANGED <<prog, result, pc>>

\* pop or peek on an empty stack: every loop returns ErrStackUnderflow.
Underflow == /\ status = "running" /\ InRange /\ sp < Needs(Op)
             /\ Stop("underflow")
             /\ UNCHANGED <<stack, sp, frameVars, excVars, varVars, hostVars>>

-----------------------------------------------------------------------------
(* Operations that replace operands by a result.                           *)

Operate(names, results) ==
  /\ Fetch(names)
  /\ \E r \in results : PushAt(sp - Needs(Op), r)
  /\ LoopNext(pc)
  /\ UNCHANGED <<frameVars, excVars, varVars, hostVars>>

PushLiteral == /\ Fetch({"PushLiteral"})
               /\ PushAt(sp, Op.arg)
               /\ LoopNext(pc)
               /\ UNCHANGED <<frameVars, excVars, varVars, hostVars>>
Arithmetic  == Operate(ArithmeticOps, Scalars)
Shift       == Operate(ShiftOps, Scalars)
Relational  == Operate(RelationalOps, Booleans)
Equality    == Operate(EqualityOps, Booleans)
\* Values with an identity may be equal or not; NaN is not equal to itself.
StrictEquals(a, b) ==
  IF a # b \/ a = NaN THEN {FALSE}
  ELSE IF a.t \in {"array", "object", "function"} THEN BOOLEAN ELSE {TRUE}
StrictEqual ==
  /\ Fetch({"StrictEqual", "StrictNotEqual"})
  /\ \E eq \in StrictEquals(Top(1), Top(0)) :
       PushAt(sp - 2, BoolVal(eq = (Op.op = "StrictEqual")))
  /\ LoopNext(pc)
  /\ UNCHANGED <<frameVars, excVars, varVars, hostVars>>
Bitwise     == Operate(BitwiseOps, Scalars)
Unary       == Operate(UnaryOps, Scalars)
LogicalNot ==
  /\ Fetch({"LogicalNot"})
  /\ PushAt(sp - 1, BoolVal(~IsTruthy(Top(0))))
  /\ LoopNext(pc)
  /\ UNCHANGED <<frameVars, excVars, varVars, hostVars>>
\* The index that an assignment to an array's element works out. It is 0 for
\* what is no number; int(NaN) is up to the machine that Go compiles for.
ElementWrites == {"SetElement"} \cup ElementIncOps
WrittenIndices == LET index == Top(Needs(Op) - 2)
                  IN CASE index.t = "integer" -> {index.v}
                       [] index.t = "number"  -> {-1, 0}
                       [] OTHER               -> {0}
WritesToArray == Op.op \in ElementWrites /\ Top(Needs(Op) - 1).t = "array"
\* ArrayType.Set has a place for index 0 and those after it.
HasPlace == WritesToArray => \E i \in WrittenIndices : i >= 0
IncElement  == Operate(ElementIncOps, Scalars) /\ HasPlace
IncProperty == Operate(PropertyIncOps, Scalars)
TypeTest    == Operate({"Typeof", "Instanceof", "In"}, Booleans)
\* What an array or object holds is not recorded: it is a scalar, missing, or
\* a value that some variable holds, functions included.
Members == Scalars \cup {Undefined} \cup {locals[i] : i \in DOMAIN locals}
           \cup ({globals[n] : n \in GlobalNames} \ {NoValue})
GetElement  == Operate({"GetElement"}, Members)
\* A method of an array is resolved by name.
IsForEach == Op.op = "GetProperty" /\ Op.arg = "forEach" /\ Top(0).t = "array"
GetProperty == /\ Fetch({"GetProperty"})
               /\ \E r \in IF IsForEach THEN {Each} ELSE Members :
                    PushAt(sp - 1, r)
               /\ LoopNext(pc)
               /\ UNCHANGED <<frameVars, excVars, varVars, hostVars>>
DeleteMember == Operate({"DeleteElement", "DeleteProperty"}, Booleans)
NewObjects ==
  /\ Fetch({"NewArray", "NewObject"})
  /\ PushAt(sp - Op.arg, IF Op.op = "NewArray" THEN ArrVal(Op.arg)
                                              ELSE ObjVal(Op.arg))
  /\ LoopNext(pc)
  /\ UNCHANGED <<frameVars, excVars, varVars, hostVars>>

\* An assignment leaves the assigned value as its result.
SetMember == /\ Fetch({"SetElement", "SetProperty"})
             /\ HasPlace
             /\ PushAt(sp - Needs(Op), Top(0))
             /\ LoopNext(pc)
             /\ UNCHANGED <<frameVars, excVars, varVars, hostVars>>

ElementPanic ==
  /\ Fetch(ElementWrites)
  /\ WritesToArray /\ \E i \in WrittenIndices : i < 0
  /\ Stop("panic")
  /\ UNCHANGED <<stack, sp, frameVars, excVars, varVars, hostVars>>

Pop == /\ Fetch({"Pop"})
       /\ Drop(1)
       /\ LoopNext(pc)
       /\ UNCHANGED <<frameVars, excVars, varVars, hostVars>>

Dup == /\ Fetch({"Dup"})
       /\ PushAt(sp, Top(0))
       /\ LoopNext(pc)
       /\ UNCHANGED <<frameVars, excVars, varVars, hostVars>>

-----------------------------------------------------------------------------
(* Jumps. "For jump operations always deduct one for pc++".                *)

Jump == /\ Fetch({"Jump"})
        /\ LoopNext(Op.arg - 1)
        /\ UNCHANGED <<stack, sp, frameVars, excVars, varVars, hostVars>>

JumpIf == /\ Fetch({"JumpIfFalse", "JumpIfTrue"})
          /\ Drop(1)
          /\ LoopNext(IF IsTruthy(Top(0)) = (Op.op = "JumpIfTrue")
                      THEN Op.arg - 1 ELSE pc)
          /\ UNCHANGED <<frameVars, excVars, varVars, hostVars>>

\* The short-circuit forms keep the value when they jump.
JumpIfOrPop ==
  /\ Fetch({"JumpIfFalseOrPop", "JumpIfTrueOrPop"})
  /\ IF IsTruthy(Top(0)) = (Op.op = "JumpIfTrueOrPop")
       THEN Drop(0) /\ LoopNext(Op.arg - 1)
       ELSE Drop(1) /\ LoopNext(pc)
  /\ UNCHANGED <<frameVars, excVars, varVars, hostVars>>

-----------------------------------------------------------------------------
(* Variables: locals, the cells that replace captured locals, captures of  *)
(* the running function, globals.                                          *)

HasSlot(s) == s < Len(locals)

LoadVariable ==
  /\ Fetch({"LoadVariable"})
  /\ PushAt(sp, IF ~HasSlot(Op.arg) THEN Undefined
                ELSE IF cells[Op.arg] # 0 THEN heap[cells[Op.arg]]
                ELSE locals[Op.arg + 1])
  /\ LoopNext(pc)
  /\ UNCHANGED <<frameVars, excVars, varVars, hostVars>>

\* storeVariable: to the cell of a captured local, else to the local itself
Assign(s, v) ==
  /\ heap' = IF HasSlot(s) /\ cells[s] # 0
             THEN [heap EXCEPT ![cells[s]] = v] ELSE heap
  /\ locals' = IF HasSlot(s) /\ cells[s] = 0
               THEN [locals EXCEPT ![s + 1] = v] ELSE locals

StoreVariable ==
  /\ Fetch({"StoreVariable", "StoreVariableKeep"})
  /\ Assign(Op.arg, Top(0))
  /\ Drop(IF Op.op = "StoreVariable" THEN 1 ELSE 0)
  /\ LoopNext(pc)
  /\ UNCHANGED <<cells, globals, frameVars, excVars, hostVars>>

\* incrementValue, decrementValue: what is not a number becomes NaN
Increased(v, by) == IF v.t = "integer" THEN IntVal(v.v + by) ELSE NaN

\* ++ and -- on a local work on prc.locals, whether or not it has a cell.
IncVariable ==
  /\ Fetch(IncOps)
  /\ IF HasSlot(Op.arg)
       THEN LET orig == locals[Op.arg + 1]
                val  == Increased(orig, IF Op.op \in {"PreIncrement",
                                          "PostIncrement"} THEN 1 ELSE -1)
            IN /\ PushAt(sp, IF Op.op \in {"PreIncrement", "PreDecrement"}
                             THEN val ELSE orig)
               /\ locals' = [locals EXCEPT ![Op.arg + 1] = val]
       ELSE UNCHANGED <<stack, sp, locals>>
  /\ LoopNext(pc)
  /\ UNCHANGED <<cells, heap, globals, frameVars, excVars, hostVars>>

LoadCapture ==
  /\ Fetch({"LoadCapture"})
  /\ PushAt(sp, IF Op.arg < Len(closure) THEN heap[closure[Op.arg + 1]]
                                         ELSE Undefined)
  /\ LoopNext(pc)
  /\ UNCHANGED <<frameVars, excVars, varVars, hostVars>>

StoreCapture ==
  /\ Fetch({"StoreCapture", "StoreCaptureKeep"})
  /\ heap' = IF Op.arg < Len(closure)
             THEN [heap EXCEPT ![closure[Op.arg + 1]] = Top(0)] ELSE heap
  /\ Drop(IF Op.op = "StoreCapture" THEN 1 ELSE 0)
  /\ LoopNext(pc)
  /\ UNCHANGED <<locals, cells, globals, frameVars, excVars, hostVars>>

LoadGlobal ==
  /\ Fetch({"LoadGlobal"})
  /\ PushAt(sp, IF globals[Op.arg] # NoValue THEN globals[Op.arg]
                ELSE IF Op.arg \in DOMAIN Natives THEN Natives[Op.arg]
                ELSE Undefined)
  /\ LoopNext(pc)
  /\ UNCHANGED <<frameVars, excVars, varVars, hostVars>>

StoreGlobal ==
  /\ Fetch({"StoreGlobal"})
  /\ globals' = [globals EXCEPT ![Op.arg] = Top(0)]
  /\ Drop(0)
  /\ LoopNext(pc)
  /\ UNCHANGED <<locals, cells, heap, frameVars, excVars, hostVars>>

-----------------------------------------------------------------------------
(* Functions as values: a function with captures gets a cell per captured  *)
(* local (shared with the local from then on) and passes on the cells its  *)
(* creator captured itself.                                                *)

\* Every capture has an address reserved for its cell; a local that has no
\* cell yet gets the one of a capture that names it.
CapturesLocal(cap, s) == ~cap.isCapture /\ cap.slot = s
Capturing(caps, s) == {i \in DOMAIN caps : CapturesLocal(caps[i], s)}
Reserved(caps, s) == CHOOSE i \in Capturing(caps, s) : TRUE

\* A variant: a new cell for every function made
FreshCells(caps) ==
  [s \in 0 .. MaxSlot |-> IF Capturing(caps, s) # {}
                          THEN Len(heap) + Reserved(caps, s) ELSE cells[s]]
CellsWith(caps) ==
  [s \in 0 .. MaxSlot |-> IF cells[s] = 0 /\ Capturing(caps, s) # {}
                          THEN Len(heap) + Reserved(caps, s)
                          ELSE cells[s]]

HeapWith(caps) ==
  heap \o [i \in 1 .. Len(caps) |->
             IF ~caps[i].isCapture /\ HasSlot(caps[i].slot)
             THEN locals[caps[i].slot + 1] ELSE Undefined]

ClosureOf(caps) ==
  [i \in 1 .. Len(caps) |->
     IF ~caps[i].isCapture THEN CellsWith(caps)[caps[i].slot]
     ELSE IF caps[i].slot < Len(closure) THEN closure[caps[i].slot + 1]
     ELSE UndefCell]

PushFunction ==
  /\ Fetch({"PushFunction"})
  /\ LET caps == prog[Op.arg].captures
     IN /\ PushAt(sp, FnVal(Op.arg, ClosureOf(caps)))
        /\ cells' = CellsWith(caps)
        /\ heap' = HeapWith(caps)
  /\ LoopNext(pc)
  /\ UNCHANGED <<locals, globals, frameVars, excVars, hostVars>>

-----------------------------------------------------------------------------
(* Calls and returns.                                                      *)

NoCells == [s \in 0 .. MaxSlot |-> 0]
Pos(n) == IF n > 0 THEN n ELSE 0

\* bindFunctionParams into fresh locals
Bind(fn, thisVal, args) ==
  [i \in 1 .. fn.varCount |->
     CASE i = fn.thisSlot + 1      -> thisVal
       [] i = fn.argumentsSlot + 1 -> ArrVal(Len(args))
       [] fn.rest /\ i = fn.params -> ArrVal(Pos(Len(args) - fn.params + 1))
       [] i <= fn.params /\ i <= Len(args) -> args[i]
       [] OTHER -> Undefined]

\* A native frame has no body; its pc field keeps Go's zero value.
NativeBody == 0
Frame(b, p, n) == [body |-> b, pc |-> p, sp |-> n, locals |-> locals,
                   cells |-> cells, closure |-> closure]

\* Enter function value fn; the caller is recorded as frame.
Enter(fn, thisVal, args, frame) ==
  /\ callStack' = Append(callStack, frame)
  /\ body' = fn.v
  /\ closure' = fn.clo
  /\ cells' = NoCells
  /\ locals' = Bind(prog[fn.v], thisVal, args)

\* A variant: the callee starts with an empty stack
CallOnEmptyStack(fn, thisVal, args, n) ==
  /\ Enter(fn, thisVal, args, Frame(body, pc, n))
  /\ Drop(sp)
  /\ LoopNext(-1)
  /\ UNCHANGED <<goStack, heap, globals, excVars, hostVars>>
\* setupScriptCall, the operand stack cut to n: pc = -1, then pc++
setupScriptCall(fn, thisVal, args, n) ==
  /\ Enter(fn, thisVal, args, Frame(body, pc, n))
  /\ Drop(sp - n)
  /\ LoopNext(-1)
  /\ UNCHANGED <<goStack, heap, globals, excVars, hostVars>>

\* CallWithThis up to its loop: a native frame, and the callback from its start
CallWithThis(fn, args, n) ==
  /\ Enter(fn, Undefined, args, Frame(NativeBody, 0, n))
  /\ Drop(sp - n)
  /\ pc' = 0
  /\ UNCHANGED <<prog, endVars, heap, globals, excVars, hostVars>>

\* Go activation of the iteration method: the callback, the next index, the
\* number of elements when the iteration began
Activation(fn, i, n) == [fn |-> fn, next |-> i, len |-> n]
ElementArgs(i, n) == <<IntVal(i), IntVal(i), ArrVal(n)>>

FirstOf(args) == IF args = <<>> THEN NoValue ELSE args[1]

\* The host's functions, called with args and n operands left under them
callAsk(n) ==
  /\ PushAt(n, BoolVal(input # <<>> /\ Head(input)))
  /\ input' = IF input = <<>> THEN input ELSE Tail(input)
  /\ LoopNext(pc)
  /\ UNCHANGED <<output, frameVars, excVars, varVars>>

callLog(args, n) ==
  /\ PushAt(n, Undefined)
  /\ output' = IF args = <<>> THEN output ELSE Append(output, FirstOf(args).v)
  /\ LoopNext(pc)
  /\ UNCHANGED <<input, frameVars, excVars, varVars>>

\* return prc.Throw(...)
callFail(n) ==
  /\ Drop(sp - n)
  /\ exception' = IntVal(1)
  /\ Raise
  /\ UNCHANGED <<exceptionCtx, finallyRethrow, frameVars, varVars, hostVars>>

\* arr.forEach(callback). A native callback does not come back to the
\* machine and is left out.
callEach(arr, args, n) ==
  LET fn == FirstOf(args)
  IN \/ /\ fn = NoValue \/ (fn.t = "function" /\ arr.v = 0)
        /\ PushAt(n, Undefined)
        /\ LoopNext(pc)
        /\ UNCHANGED <<frameVars, excVars, varVars, hostVars>>
     \/ /\ fn.t = "function" /\ arr.v > 0
        /\ goStack' = Append(goStack, Activation(fn, 1, arr.v))
        /\ CallWithThis(fn, ElementArgs(0, arr.v), n)
     \/ /\ fn.t \notin {"none", "function", "native"}
        /\ Stop("typeerror")
        /\ UNCHANGED <<stack, sp, frameVars, excVars, varVars, hostVars>>

\* callFunctionWithThis. A bound function passes the call on to its target
\* and is represented by it.
callFunctionWithThis(fn, thisVal, args, n) ==
  \/ fn.t = "function" /\ setupScriptCall(fn, thisVal, args, n)
  \/ fn = Ask  /\ callAsk(n)
  \/ fn = Log  /\ callLog(args, n)
  \/ fn = Fail /\ callFail(n)
  \/ fn = Each /\ callEach(thisVal, args, n)
  \/ /\ fn.t \notin {"function", "native"}
     /\ Stop("typeerror")
     /\ UNCHANGED <<stack, sp, frameVars, excVars, varVars, hostVars>>

\* extractCallArgs: the last count operands, in order
Args(count) == SubSeq(stack, sp - count + 1, sp)

Call == /\ Fetch({"Call"})
        /\ callFunctionWithThis(Top(Op.arg), Undefined, Args(Op.arg),
                                sp - Op.arg - 1)

MethodCall == /\ Fetch({"MethodCall"})
              /\ callFunctionWithThis(Top(Op.arg), Top(Op.arg + 1),
                                      Args(Op.arg), sp - Op.arg - 2)

Front(s) == SubSeq(s, 1, Len(s) - 1)
TopFrame == callStack[Len(callStack)]
ReturnValue == IF Op.arg THEN Top(0) ELSE Undefined

\* "If call stack is empty, return from the main script"
ReturnFromMain ==
  /\ Fetch({"Return"}) /\ callStack = <<>>
  /\ PushAt(0, ReturnValue)
  /\ LoopNext(Len(Code))
  /\ UNCHANGED <<frameVars, excVars, varVars, hostVars>>

\* prc.callStack = frame.previous, and the caller's variables
Leave == /\ callStack' = Front(callStack)
         /\ locals' = TopFrame.locals
         /\ cells' = TopFrame.cells
         /\ closure' = TopFrame.closure
         /\ PushAt(TopFrame.sp, ReturnValue)
         /\ UNCHANGED <<goStack, heap, globals, excVars, hostVars>>

ReturnToScript ==
  /\ Fetch({"Return"}) /\ callStack # <<>> /\ TopFrame.body # NativeBody
  /\ Leave
  /\ body' = TopFrame.body
  /\ LoopNext(TopFrame.pc)

\* "Immediate return for native frame marker": pc = -1, then pc++
ReturnToNative ==
  /\ Fetch({"Return"}) /\ callStack # <<>> /\ TopFrame.body = NativeBody
  /\ Leave
  /\ UNCHANGED body
  /\ LoopNext(-1)

-----------------------------------------------------------------------------
(* Exceptions.                                                             *)

ContextAt(targets, depth) ==
  [CatchTarget |-> targets.CatchTarget, FinallyTarget |-> targets.FinallyTarget,
   CatchVarSlot |-> targets.CatchVarSlot, StackDepth |-> depth]
\* A variant: len(prc.stack) for prc.sp
ContextAtTop(targets) == ContextAt(targets, Len(stack))
NewContext(targets) == ContextAt(targets, sp)

PushExceptionContext ==
  /\ Fetch({"PushExceptionContext"})
  /\ exceptionCtx' = Append(exceptionCtx, NewContext(Op.arg))
  /\ LoopNext(pc)
  /\ UNCHANGED <<exception, finallyRethrow, stack, sp, frameVars, varVars,
                 hostVars>>

\* A variant: the context stays
KeepsContext ==
  /\ Fetch({"PopExceptionContext"})
  /\ LoopNext(pc)
  /\ UNCHANGED <<excVars, stack, sp, frameVars, varVars, hostVars>>
PopExceptionContext ==
  /\ Fetch({"PopExceptionContext"})
  /\ exceptionCtx' = IF exceptionCtx = <<>> THEN <<>> ELSE Front(exceptionCtx)
  /\ LoopNext(pc)
  /\ UNCHANGED <<exception, finallyRethrow, stack, sp, frameVars, varVars,
                 hostVars>>

Throw ==
  /\ Fetch({"Throw"})
  /\ exception' = Top(0)
  /\ Drop(1)
  /\ Raise
  /\ UNCHANGED <<exceptionCtx, finallyRethrow, frameVars, varVars, hostVars>>

\* A variant: the flag is never reset
KeepsRethrowing ==
  /\ Fetch({"FinallyComplete"})
  /\ IF finallyRethrow THEN Raise ELSE LoopNext(pc)
  /\ UNCHANGED <<excVars, stack, sp, frameVars, varVars, hostVars>>
FinallyComplete ==
  /\ Fetch({"FinallyComplete"})
  /\ finallyRethrow' = FALSE
  /\ IF finallyRethrow THEN Raise ELSE LoopNext(pc)
  /\ UNCHANGED <<exceptionCtx, exception, stack, sp, frameVars, varVars,
                 hostVars>>

(* handleException, one turn of its loop per action: the innermost context *)
(* is popped and the stack cut back to where its try began.                *)
TopCtx == exceptionCtx[Len(exceptionCtx)]
\* A variant: the handler starts with an empty stack
EmptyDepth == 0
HandlerDepth == TopCtx.StackDepth

Unwind == /\ status = "raising" /\ exceptionCtx # <<>>
          /\ exceptionCtx' = Front(exceptionCtx)
          /\ sp' = HandlerDepth
          /\ UNCHANGED <<prog, stack, frameVars, cells, heap, globals,
                         hostVars, result>>

\* *prc.exception of a nil pointer, or a slot that the locals do not have
CatchPanics == TopCtx.CatchVarSlot >= 0 /\ ( \/ exception = NoValue
                                             \/ ~HasSlot(TopCtx.CatchVarSlot) )

Catch ==
  /\ Unwind
  /\ TopCtx.CatchTarget >= 0 /\ ~CatchPanics
  /\ locals' = IF TopCtx.CatchVarSlot >= 0
               THEN [locals EXCEPT ![TopCtx.CatchVarSlot + 1] = exception]
               ELSE locals
  /\ exception' = NoValue
  /\ pc' = (TopCtx.CatchTarget - 1) + 1
  /\ status' = "running"
  /\ UNCHANGED finallyRethrow

CatchPanic ==
  /\ Unwind
  /\ TopCtx.CatchTarget >= 0 /\ CatchPanics
  /\ status' = "panic"
  /\ UNCHANGED <<locals, exception, pc, finallyRethrow>>

Finally ==
  /\ Unwind
  /\ TopCtx.CatchTarget < 0 /\ TopCtx.FinallyTarget >= 0
  /\ finallyRethrow' = TRUE
  /\ pc' = (TopCtx.FinallyTarget - 1) + 1
  /\ status' = "running"
  /\ UNCHANGED <<locals, exception>>

\* No context left. In CallWithThis the error is a new one, not ErrException,
\* so the loops around it return it too.
Uncaught ==
  /\ status = "raising" /\ exceptionCtx = <<>>
  /\ Stop("uncaught")
  /\ UNCHANGED <<stack, sp, frameVars, excVars, varVars, hostVars>>

-----------------------------------------------------------------------------
(* Iteration: the iterable (or the keys) and the next index are operands.  *)

\* A value that is neither array nor object has no keys.
ForInKeys ==
  /\ Fetch({"ForInKeys"})
  /\ LET n == IF Top(0).t \in {"array", "object"} THEN Top(0).v ELSE 0
     IN stack' = Put(Put(stack, sp - 1, ArrVal(n)), sp, IntVal(0))
  /\ sp' = sp + 1
  /\ LoopNext(pc)
  /\ UNCHANGED <<frameVars, excVars, varVars, hostVars>>

ForOfIterator ==
  /\ Fetch({"ForOfIterator"})
  /\ PushAt(sp, IntVal(0))
  /\ LoopNext(pc)
  /\ UNCHANGED <<frameVars, excVars, varVars, hostVars>>

Index == IF Top(0).t = "integer" THEN Top(0).v ELSE 0
MoreElements == Top(1).t = "array" /\ Index < Top(1).v

ForHasMore ==
  /\ Fetch(HasMoreOps)
  /\ PushAt(sp, BoolVal(MoreElements))
  /\ LoopNext(pc)
  /\ UNCHANGED <<frameVars, excVars, varVars, hostVars>>

\* The element goes to prc.locals, whether or not the variable has a cell.
ForNext ==
  /\ Fetch(NextOps)
  /\ MoreElements => HasSlot(Op.arg)
  /\ PushAt(sp - 1, IF Op.op = "ForInNext" /\ Top(1).t # "array"
                    THEN Top(0) ELSE IntVal(Index + 1))
  /\ locals' = IF MoreElements
               THEN [locals EXCEPT ![Op.arg + 1] = IntVal(Index)] ELSE locals
  /\ LoopNext(pc)
  /\ UNCHANGED <<cells, heap, globals, frameVars, excVars, hostVars>>

ForNextPanic ==
  /\ Fetch(NextOps)
  /\ MoreElements /\ ~HasSlot(Op.arg)
  /\ Stop("panic")
  /\ UNCHANGED <<stack, sp, frameVars, excVars, varVars, hostVars>>

\* A variant: prc.sp -= 2
CutsTwo ==
  /\ Fetch({"ForInCleanup", "ForOfCleanup"})
  /\ Drop(2)
  /\ LoopNext(pc)
  /\ UNCHANGED <<frameVars, excVars, varVars, hostVars>>
\* Both pops ignore ErrStackUnderflow.
ForCleanup ==
  /\ Fetch({"ForInCleanup", "ForOfCleanup"})
  /\ Drop(IF sp < 2 THEN sp ELSE 2)
  /\ LoopNext(pc)
  /\ UNCHANGED <<frameVars, excVars, varVars, hostVars>>

-----------------------------------------------------------------------------
(* The end of a loop: pc has left the code.                                *)

LoopResult == IF sp > 0 THEN Top(0) ELSE Undefined
LoopEnds == status = "running" /\ ~InRange

ExecReturns ==
  /\ LoopEnds /\ goStack = <<>>
  /\ status' = "done"
  /\ result' = LoopResult
  /\ UNCHANGED <<prog, pc, stack, sp, frameVars, excVars, varVars, hostVars>>

(* CallWithThis returns into the iteration method, which calls back for    *)
(* the next element or returns; body and pc are as the callback left them. *)
Iteration == goStack[Len(goStack)]

CallbackReturns ==
  /\ LoopEnds /\ goStack # <<>> /\ Iteration.next < Iteration.len
  /\ goStack' = [goStack EXCEPT ![Len(goStack)].next = @ + 1]
  /\ CallWithThis(Iteration.fn, ElementArgs(Iteration.next, Iteration.len), sp)

IterationReturns ==
  /\ LoopEnds /\ goStack # <<>> /\ Iteration.next = Iteration.len
  /\ goStack' = Front(goStack)
  /\ PushAt(sp, Undefined)
  /\ LoopNext(pc)
  /\ UNCHANGED <<body, callStack, closure, excVars, varVars, hostVars>>

-----------------------------------------------------------------------------
\* Exec on a fresh process (NewProcess): everything empty, locals undefined.
Boot ==
  /\ body = 1 /\ pc = 0
  /\ stack = <<>> /\ sp = 0
  /\ heap = <<Undefined0>>
  /\ locals = [i \in 1 .. prog[1].varCount |-> Undefined0]
  /\ cells = NoCells /\ closure = <<>>
  /\ callStack = <<>> /\ goStack = <<>>
  /\ exceptionCtx = <<>> /\ exception = NoValue /\ finallyRethrow = FALSE
  /\ globals = [n \in GlobalNames |-> NoValue]
  /\ input \in Inputs /\ output = <<>>
  /\ status = "running" /\ result = NoValue

Init == prog \in Programs /\ Boot

Halted == status \notin {"running", "raising"}

Operators == \/ PushLiteral \/ Arithmetic \/ Shift \/ Relational \/ Equality
             \/ StrictEqual \/ Bitwise \/ Unary \/ IncElement \/ IncProperty
             \/ LogicalNot \/ TypeTest \/ GetElement \/ GetProperty
             \/ DeleteMember \/ SetMember \/ ElementPanic \/ NewObjects \/ Pop \/ Dup
Variables == \/ LoadVariable \/ StoreVariable \/ IncVariable \/ LoadCapture
             \/ StoreCapture \/ LoadGlobal \/ StoreGlobal \/ PushFunction
Control   == \/ Jump \/ JumpIf \/ JumpIfOrPop \/ Call \/ MethodCall
             \/ ReturnFromMain \/ ReturnToScript \/ ReturnToNative
             \/ ForInKeys \/ ForOfIterator \/ ForHasMore \/ ForNext \/ ForNextPanic
             \/ ForCleanup
Exceptions == \/ PushExceptionContext \/ PopExceptionContext \/ Throw
              \/ FinallyComplete \/ Catch \/ CatchPanic \/ Finally \/ Uncaught
Loops     == ExecReturns \/ CallbackReturns \/ IterationReturns \/ Underflow

Step == Operators \/ Variables \/ Control \/ Exceptions \/ Loops

\* A finished run stays as it is.
Finished == Halted /\ UNCHANGED vars

Next == Step \/ Finished

Spec == Init /\ [][Next]_vars

-----------------------------------------------------------------------------
(* Types.                                                                  *)

\* What the parser puts into an opcode of program p. Names of the arguments
\* are those of OpData: a slot, a capture index, a jump target, a count.
SlotOps    == {"LoadVariable", "StoreVariable", "StoreVariableKeep"}
              \cup IncOps \cup NextOps
CaptureOps == {"LoadCapture", "StoreCapture", "StoreCaptureKeep"}
JumpOps    == {"Jump", "JumpIfFalse", "JumpIfTrue", "JumpIfFalseOrPop",
               "JumpIfTrueOrPop"}
CountOps   == {"NewArray", "NewObject", "Call", "MethodCall"}
Context    == [CatchTarget : Int, FinallyTarget : Int, CatchVarSlot : Int]

IsOpcode(op, p) ==
  /\ op.op = "PushLiteral" => op.arg \in Value /\ op.arg.t \notin {"none", "function"}
                                             /\ op.arg.clo = <<>>
  /\ op.op \in SlotOps => op.arg \in 0 .. MaxSlot
  /\ op.op \in CaptureOps \cup JumpOps \cup CountOps => op.arg \in Nat
  /\ op.op \in {"LoadGlobal", "StoreGlobal"} => op.arg \in GlobalNames
  /\ op.op = "PushFunction" => op.arg \in DOMAIN p \ {1}
  /\ op.op = "Return" => op.arg \in BOOLEAN
  /\ op.op = "PushExceptionContext" =>
       op.arg \in Context /\ (op.arg.CatchTarget >= 0 \/ op.arg.FinallyTarget >= 0)

Captured == [slot : 0 .. MaxSlot, isCapture : BOOLEAN]
IsFunction(fn, p) ==
  /\ fn.varCount \in 0 .. MaxSlot + 1 /\ fn.params \in 0 .. fn.varCount
  /\ {fn.thisSlot, fn.argumentsSlot} \subseteq -1 .. fn.varCount - 1 /\ fn.rest \in BOOLEAN
  /\ fn.captures \in Seq(Captured)
  /\ Len(fn.code) \in Nat /\ DOMAIN fn.code = 1 .. Len(fn.code)
  /\ \A i \in DOMAIN fn.code : IsOpcode(fn.code[i], p)
IsProgram(p) == /\ Len(p) \in Nat \ {0} /\ DOMAIN p = 1 .. Len(p)
                /\ \A b \in DOMAIN p : IsFunction(p[b], p)

ASSUME ProgramsAssumption == \A p \in Programs : IsProgram(p)
ASSUME InputsAssumption   == Inputs \subseteq Seq(BOOLEAN)
ASSUME MaxSlotAssumption  == MaxSlot \in Nat

\* A value that exists: its function is in the program and is not the main
\* script, its cells are in the heap.
Address == 1 .. Len(heap)
Existing == {x \in [t : Kinds \ {"none"}, v : Int, clo : Seq(Address)] :
               x.t = "function" => x.v \in DOMAIN prog \ {1}}
Optional == Existing \cup {NoValue}
Locals == {l \in Seq(Existing) : Len(l) <= MaxSlot + 1}
Cells  == [0 .. MaxSlot -> 0 .. Len(heap)]
Frames == [body : {NativeBody} \cup DOMAIN prog, pc : Int, sp : Nat,
           locals : Locals, cells : Cells, closure : Seq(Address)]
Contexts == [CatchTarget : Int, FinallyTarget : Int, CatchVarSlot : Int,
             StackDepth : Nat]
Activations == [fn : {x \in Existing : x.t = "function"}, next : Nat, len : Nat]

\* Every variable has its type; depths noted in frames and contexts are those
\* of operands that prc.stack still holds, popped or not.
StackOK == /\ stack \in Seq(Existing) /\ sp \in 0 .. Len(stack)
           /\ \A i \in DOMAIN callStack : callStack[i].sp <= Len(stack)
           /\ \A i \in DOMAIN exceptionCtx : exceptionCtx[i].StackDepth <= Len(stack)
VariablesOK == /\ heap # <<>> /\ heap \in Seq(Existing)
               /\ locals \in Locals /\ cells \in Cells
               /\ closure \in Seq(Address)
               /\ globals \in [GlobalNames -> Optional]
FramesOK == /\ body \in DOMAIN prog /\ pc \in Int
            /\ callStack \in Seq(Frames) /\ goStack \in Seq(Activations)
ExceptionsOK == /\ exceptionCtx \in Seq(Contexts)
                /\ exception \in Optional /\ finallyRethrow \in BOOLEAN
HostOK == input \in Seq(BOOLEAN) /\ output \in Seq(Int)
EndOK == /\ status \in {"running", "raising", "done", "uncaught", "typeerror",
                        "underflow", "panic"}
         /\ result \in Optional

TypeOK == StackOK /\ VariablesOK /\ FramesOK /\ ExceptionsOK /\ HostOK /\ EndOK

-----------------------------------------------------------------------------
(* Correctness.                                                            *)

\* pop and peek never find the stack empty (engine.go: "In theory this never
\* happens but handle it regardless").
NeverUnderflows == status # "underflow"

\* No Go panic: the exception that a handler stores is there, and so is every
\* local that a handler or an iteration writes, and no element is assigned to
\* before the first (which a script can do: those checked here have no arrays
\* that they assign to).
NeverPanics == status # "panic"

\* The operands of a caller are as it left them for as long as its frame is
\* on the call stack, whatever its callees do (setupScriptCall, Return).
KeepsOperands ==
  \A i \in DOMAIN callStack : i \in DOMAIN callStack' =>
    \A n \in 1 .. callStack[i].sp : stack'[n] = stack[n]
CallersKeepOperands == [][KeepsOperands]_vars

\* The value a script sees in local slot s: that of its cell if it has one
Variable(s) == IF cells[s] # 0 THEN heap[cells[s]] ELSE locals[s + 1]

\* A variable keeps its cell while its function runs, so that the functions
\* that capture it, whenever they were made, share it (PushFunction).
CellsAreShared ==
  [][callStack' = callStack =>
       \A s \in 0 .. MaxSlot : cells[s] # 0 => cells'[s] = cells[s]]_vars

\* An exception is on its way exactly while a finally block runs that will
\* throw it again (handleException, FinallyComplete).
PendingIsRethrown ==
  status = "running" => (finallyRethrow <=> exception # NoValue)

\* No other exception is raised while one is on its way: finally blocks end
\* with FinallyComplete.
RaisesOne == finallyRethrow /\ status = "running" /\ status' = "raising" => ~finallyRethrow'
FinallyIsQuiet == [][RaisesOne]_vars

\* Every open try block began with no more operands than there are now, and
\* within the ones around it; none is open when the script is done.
ContextsAreNested ==
  /\ \A i, j \in DOMAIN exceptionCtx :
       i <= j => exceptionCtx[i].StackDepth <= exceptionCtx[j].StackDepth
  /\ status = "running" =>
       \A i \in DOMAIN exceptionCtx : exceptionCtx[i].StackDepth <= sp
  /\ status = "done" => exceptionCtx = <<>> /\ callStack = <<>>
=============================================================================
