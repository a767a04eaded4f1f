--------------------------- MODULE StackDiscipline ---------------------------
(***************************************************************************)
(* Why the operand stack never runs empty.  The parser emits code that is  *)
(* balanced: there is a number of operands that a function has at least of *)
(* its own at each of its opcodes, whichever way control got there.  The   *)
(* machine keeps to it across calls and handled exceptions as long as each *)
(* call keeps to the exception contexts that it made itself, and no native *)
(* method calls back into the script.                                      *)
(*                                                                         *)
(* Functions of the programs in this module have one field more than what  *)
(* the parser produces: depths, the numbers just described.                *)
(***************************************************************************)
EXTENDS Process

Pushing == {"PushLiteral", "LoadVariable", "LoadCapture", "LoadGlobal",
            "PushFunction", "Dup", "ForInKeys", "ForOfIterator"}
           \cup IncOps \cup HasMoreOps
Popping == {"Pop", "JumpIfFalse", "JumpIfTrue", "JumpIfFalseOrPop",
            "JumpIfTrueOrPop", "StoreVariable", "StoreCapture", "GetElement",
            "DeleteElement", "In", "SetProperty"} \cup BinaryOps \cup ElementIncOps
Cleanups == {"ForInCleanup", "ForOfCleanup"}

\* By how much an operation changes the number of operands if it goes on to
\* the next opcode; for a call, once the callee has returned
Effect(op) ==
  CASE op.op \in Pushing -> 1
    [] op.op \in Popping -> -1
    [] op.op \in Cleanups \cup {"SetElement"} -> -2
    [] op.op \in {"NewArray", "NewObject"} -> 1 - op.arg
    [] op.op = "Call" -> 0 - op.arg
    [] op.op = "MethodCall" -> -1 - op.arg
    [] OTHER -> 0
\* ... and if it jumps
JumpEffect(op) == IF op.op \in {"JumpIfFalse", "JumpIfTrue"} THEN -1 ELSE 0

\* Operands of its own that a function must have for an operation
Required(op) == IF op.op \in Cleanups THEN 2 ELSE Needs(op)

\* The opcode at p finds and leaves at least as many operands as depths say,
\* and the local that it writes is one of the function.
FlowsFrom(fn, p) ==
  LET op == fn.code[p + 1]
      end == Len(fn.code)
      d == fn.depths
      Reaches(target, n) == target \in 0 .. end /\ d[target] <= n
  IN /\ d[p] >= Required(op)
     /\ op.op \notin {"Jump", "Return", "Throw"} => Reaches(p + 1, d[p] + Effect(op))
     /\ op.op \in JumpOps => Reaches(op.arg, d[p] + JumpEffect(op))
     /\ op.op = "PushExceptionContext" =>
          /\ op.arg.CatchVarSlot < fn.varCount
          /\ \A target \in {op.arg.CatchTarget, op.arg.FinallyTarget} :
               target >= 0 => Reaches(target, d[p])
     /\ op.op \in IncOps \cup NextOps => op.arg < fn.varCount

IsBalanced(fn) ==
  /\ fn.depths \in [0 .. Len(fn.code) -> Nat]
  /\ fn.depths[0] = 0
  /\ \A p \in 0 .. Len(fn.code) - 1 : FlowsFrom(fn, p)

ASSUME BalancedAssumption ==
  \A p \in Programs : \A b \in DOMAIN p : IsBalanced(p[b])

-----------------------------------------------------------------------------
(* Try statements.  Of each address that control reaches, tries has those  *)
(* PushExceptionContext opcodes whose try blocks are open there, outermost *)
(* first.                                                                  *)

\* Control takes the open try blocks along from p.
CarriesTries(fn, tries, p) ==
  LET op == fn.code[p + 1]
      Open(q, open) == q \in DOMAIN tries /\ tries[q] = open
  IN /\ op.op \notin {"Jump", "Return", "Throw", "PushExceptionContext",
                      "PopExceptionContext"} => Open(p + 1, tries[p])
     /\ op.op \in JumpOps => Open(op.arg, tries[p])
     /\ op.op = "PushExceptionContext" =>
          /\ Open(p + 1, Append(tries[p], p))
          /\ \A target \in {op.arg.CatchTarget, op.arg.FinallyTarget} :
               target >= 0 => Open(target, tries[p])
     /\ op.op = "PopExceptionContext" =>
          tries[p] # <<>> /\ Open(p + 1, Front(tries[p]))
     /\ op.op = "Return" => tries[p] = <<>>

\* A try block lies within those that are open where it begins, and an opcode
\* in it takes no operands but those that came after its beginning.
NestsTries(fn, tries, p) ==
  /\ tries[p] \in Seq(DOMAIN tries)
  /\ \A i \in DOMAIN tries[p] :
       LET a == tries[p][i]
       IN /\ a < Len(fn.code) /\ fn.code[a + 1].op = "PushExceptionContext"
          /\ tries[a] = SubSeq(tries[p], 1, i - 1)
          /\ fn.depths[a] + Required(fn.code[p + 1]) <= fn.depths[p]

\* Every way through fn closes the try blocks that it opens.
ClosesTries(fn, tries) ==
  /\ DOMAIN tries \subseteq 0 .. Len(fn.code)
  /\ 0 \in DOMAIN tries /\ tries[0] = <<>>
  /\ \A p \in DOMAIN tries : NestsTries(fn, tries, p)
  /\ \A p \in DOMAIN tries \ {Len(fn.code)} : CarriesTries(fn, tries, p)

\* Only the main script, function 1, may run to the end of its code.
EndsInOrder(b, fn, tries) ==
  Len(fn.code) \in DOMAIN tries => b = 1 /\ tries[Len(fn.code)] = <<>>

IsBracketed(b, fn, tries) == ClosesTries(fn, tries) /\ EndsInOrder(b, fn, tries)
TriesAreBracketed == \A b \in DOMAIN prog : \E tries : IsBracketed(b, prog[b], tries)

-----------------------------------------------------------------------------
(* Whose exception contexts are whose.  The process has one list of them   *)
(* and does not know, so a history variable notes for each frame how many  *)
(* there were when it was pushed: those are of the functions on the call   *)
(* stack, the ones after the last mark of the function that runs.          *)
VARIABLE marks

Mark ==
  marks' = IF Len(callStack') > Len(callStack) THEN Append(marks, Len(exceptionCtx))
           ELSE IF Len(callStack') < Len(callStack) THEN Front(marks)
           ELSE marks

MarkedInit == Init /\ marks = <<>>
MarkedNext == Next /\ Mark
MarkedSpec == MarkedInit /\ [][MarkedNext]_<<vars, marks>>

\* The contexts up to Outer were made by the callers of the function that runs.
Outer == IF marks = <<>> THEN 0 ELSE marks[Len(marks)]
OuterOf(i) == IF i = 1 THEN 0 ELSE marks[i - 1]

\* No call takes off a context of its callers, handlers included, and none
\* leaves one of its own behind.
KeepsToItsOwn ==
  /\ Len(exceptionCtx') >= Outer'
  /\ Len(callStack') < Len(callStack) => Len(exceptionCtx) = Outer
TriesAreLocal == [][KeepsToItsOwn]_<<vars, marks>>

\* An exception is handled where it was raised, or not at all.
HandledAtHome == status = "raising" => exceptionCtx = <<>> \/ Len(exceptionCtx) > Outer

\* No native method is calling back.
NoCallbacks == goStack = <<>>
\* A script assigns to elements of arrays from the first on.
WritesHavePlaces == Fetch(ElementWrites) /\ WritesToArray => \A i \in WrittenIndices : i >= 0

-----------------------------------------------------------------------------
\* Operands below Base are those of the callers.
Base == IF callStack = <<>> THEN 0 ELSE TopFrame.sp
BaseOf(i) == IF i = 1 THEN 0 ELSE callStack[i - 1].sp

Depth(b, p) == prog[b].depths[p]

RunningDepth == status = "running" =>
                  /\ pc >= 0 /\ sp >= Base
                  /\ pc <= Len(Code) => sp >= Base + Depth(body, pc)

\* A handler of function b, whose operands begin above base, finds the operands
\* that it needs and the local it writes.
ContextDepth(ctx, b, base) ==
  /\ ctx.StackDepth >= base
  /\ ctx.CatchVarSlot < prog[b].varCount
  /\ \A target \in {ctx.CatchTarget, ctx.FinallyTarget} :
       target >= 0 => /\ target <= Len(prog[b].code)
                      /\ ctx.StackDepth >= base + Depth(b, target)
ContextDepths ==
  \A k \in Outer + 1 .. Len(exceptionCtx) : ContextDepth(exceptionCtx[k], body, Base)

\* A caller finds the operands it needs after the call, and so do its handlers.
FrameDepth(i) ==
  LET f == callStack[i]
  IN /\ f.body \in DOMAIN prog
     /\ f.pc + 1 \in 0 .. Len(prog[f.body].code)
     /\ f.sp + 1 >= BaseOf(i) + Depth(f.body, f.pc + 1)
     /\ Len(f.locals) = prog[f.body].varCount
     /\ \A k \in OuterOf(i) + 1 .. marks[i] : ContextDepth(exceptionCtx[k], f.body, BaseOf(i))
FrameDepths ==
  /\ \A i \in DOMAIN callStack : FrameDepth(i)
  /\ \A i, j \in DOMAIN callStack : i <= j => callStack[i].sp <= callStack[j].sp

MarksInOrder ==
  /\ marks \in Seq(Nat) /\ Len(marks) = Len(callStack) /\ Outer <= Len(exceptionCtx)
  /\ \A i, j \in DOMAIN marks : i <= j => marks[i] <= marks[j]

\* The inductive invariant: NeverUnderflows needs the depth of the running
\* function, and that of its callers and handlers for when it is theirs.
Discipline == /\ RunningDepth /\ FrameDepths /\ ContextDepths /\ MarksInOrder
              /\ Len(locals) = prog[body].varCount
              /\ NeverUnderflows
=============================================================================
