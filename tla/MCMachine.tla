----------------------------- MODULE MCMachine -----------------------------
(* The machine on programs that use every operation: scripts of the        *)
(* bounded grammar, whatever the code makes of them, and programs put      *)
(* together the way the parser does for closures and data.                 *)
EXTENDS Process, Codegen

Show(n) == SLog(ELit(n))
Plain0 == {Show(1), SThrow(3), SCall, SReturn, SEach(2)}
Tries(S) ==
  {STry(s, SLog(EVar), NoStmt) : s \in S} \cup {STry(s, NoStmt, Show(6)) : s \in S}
  \cup {STry(SThrow(2), s, Show(6)) : s \in S}
Some == Plain0 \cup Tries(Plain0)
        \cup {SForOf(2, s) : s \in Plain0 \cup {SBreak, SContinue}}
        \cup {SIf(EAsk, s, SReturn) : s \in Plain0} \cup {SForOf(1, SThrow(3))}
MoreLoops == {SForIn(1, s) : s \in Plain0}
             \cup {SWhile(c, s) : c \in {EAnd(EAsk, EAsk), EOr(EAsk, EAsk)}, s \in Plain0}
Scripts == {[main |-> <<s, Show(9)>>, fn |-> <<t>>] : s \in Some, t \in Some \ {SCall}}
           \cup {[main |-> <<s, Show(9)>>, fn |-> <<t>>] :
                     s \in MoreLoops, t \in {Show(1), SThrow(3)}}

(* function main() { code }, with functions that capture its variables     *)
Fn(code, varCount, caps) ==
  [code |-> code, varCount |-> varCount, params |-> 0, rest |-> FALSE,
   thisSlot |-> -1, argumentsSlot |-> -1, captures |-> caps]
Lit(n) == OpArg("PushLiteral", IntVal(n))
LitArr(n) == OpArg("PushLiteral", ArrVal(n))
Local(s)   == [slot |-> s, isCapture |-> FALSE]
Capture(s) == [slot |-> s, isCapture |-> TRUE]

\* let x = 0; f = <closure>; f(); x++; g = <closure>; g(); log(x)
\* where both closures are the same function, one of Closures
Closures == {
  <<OpArg("LoadCapture", 0), OpArg("Return", TRUE)>>,
  <<Lit(1), OpArg("StoreCapture", 0), OpArg("Return", FALSE)>>,
  <<Lit(1), OpArg("StoreCaptureKeep", 0), OpArg("StoreVariable", 0), OpArg("Return", FALSE)>>,
  <<OpArg("PushFunction", 3), OpArg("Call", 0), OpArg("Return", TRUE)>>}
Making(b) == <<OpArg("PushFunction", b), OpArg("StoreVariableKeep", 1),
               OpArg("Call", 0), Plain("Pop")>>
ClosurePrograms ==
  {<<Fn(<<Lit(0), OpArg("StoreVariable", 0)>> \o Making(2) \o <<OpArg(inc, 0)>>
        \o Making(2) \o <<OpArg("LoadVariable", 1), OpArg("StoreGlobal", "f"),
        OpArg("LoadGlobal", "log"), OpArg("LoadVariable", 0), OpArg("Call", 1)>>,
        2, <<>>),
     Fn(c, 1, <<Local(0), Local(0)>>),
     Fn(<<OpArg("LoadCapture", 0), OpArg("LoadCapture", 1),
          OpArg("Return", TRUE)>>, 0, <<Capture(0), Capture(1)>>)>>
   : c \in Closures, inc \in IncOps}

\* log(op(args)) for the operations on data
DataOps == BinaryOps \cup UnaryOps \cup ElementIncOps \cup PropertyIncOps
           \cup {"LogicalNot", "Typeof", "In", "GetElement", "SetElement",
                 "SetProperty", "GetProperty", "DeleteElement", "DeleteProperty", "Dup"}
DataPrograms ==
  {<<Fn(<<OpArg("LoadGlobal", "log"), LitArr(1), Lit(1), Lit(0), OpArg(op, "m"),
          OpArg("Call", 1)>>, 0, <<>>)>> : op \in DataOps}
  \cup {<<Fn(<<OpArg("LoadGlobal", "log"), Lit(0), LitArr(1), OpArg(op, 1),
          OpArg("Call", 1)>>, 0, <<>>)>> : op \in {"NewArray", "NewObject"}}

\* log(arr[i] = 0), log(++arr[i]) for the first element, and before it
ElementPrograms ==
  {<<Fn(<<OpArg("LoadGlobal", "log"), LitArr(1), Lit(i)>> \o written \o <<OpArg("Call", 1)>>, 0, <<>>)>>
   : i \in {-1, 0}, written \in {<<Lit(0), Plain("SetElement")>>} \cup {<<Plain(op)>> : op \in ElementIncOps}}

\* f(), log(), fail() in a try, and forEach of arrays with and without callback
Callees == {OpArg("LoadGlobal", n) : n \in {"f", "fail", "log"}}
Tried(c) == <<OpArg("PushExceptionContext", [CatchTarget |-> 4 + Len(c),
               FinallyTarget |-> -1, CatchVarSlot |-> 0])>> \o c
            \o <<Plain("Pop"), Plain("PopExceptionContext"), OpArg("Jump", 4 + Len(c))>>
CallPrograms ==
  {<<Fn(Tried(<<c, OpArg("Call", 0)>>), 1, <<>>)>> : c \in Callees}
  \cup {<<Fn(MethodCallLed(<<LitArr(n)>>, "forEach", args), 0, <<>>),
          Fn(<<OpArg("Return", FALSE)>>, 2, <<>>)>>
        : n \in 0 .. 2, args \in {<<>>, <<<<Lit(1)>>>>, <<<<OpArg("PushFunction", 2)>>>>}}

MCPrograms == {Compile(s) : s \in Scripts} \cup ClosurePrograms
              \cup DataPrograms \cup ElementPrograms \cup CallPrograms
MCInputs == [1 .. 2 -> BOOLEAN]
MCGlobals == {"f", "ask", "log", "fail", "each"}
=============================================================================
