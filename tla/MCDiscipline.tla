---------------------------- MODULE MCDiscipline ----------------------------
(* The machine on balanced programs: scripts of the bounded grammar that   *)
(* call no function in a try block that lets an exception escape, abrupt   *)
(* ends of every kind included, with the depths that a flow analysis of    *)
(* their code finds.                                                       *)
EXTENDS StackDiscipline, Codegen, Supported

Show(n) == SLog(ELit(n))
Then8(s) == SBlock(<<s, Show(8)>>)
Tries(S) ==
  {STry(Then8(s), SLog(EVar), NoStmt) : s \in S}
  \cup {STry(Then8(s), NoStmt, Show(6)) : s \in S}
  \cup {STry(SThrow(2), s, Show(6)) : s \in S}
Loops0(S) == {SForOf(2, Then8(s)) : s \in S} \cup {SDo(s, EAnd(EAsk, EAsk)) : s \in S}
             \cup {SFor(EAsk, ELit(2), s) : s \in S} \cup {SForIn(1, s) : s \in S}
Others(S) == {SIf(EAsk, s, Show(7)) : s \in S}
             \cup {SSwitch(EAsk, <<Case(0, s), Default(Show(7))>>) : s \in S}
Inside0 == {Show(1), SThrow(3), SReturn, SCall, SBreak, SContinue}
Inside1 == Inside0 \cup Tries(Inside0) \cup Loops0(Inside0) \cup Others(Inside0)
Mains == Loops0(Inside1) \cup Tries(Loops0(Inside0))
Quiet == {Show(4), SForOf(2, SReturn), STry(SThrow(5), SLog(EVar), Show(6)),
          STry(Show(5), NoStmt, Show(6))}
Functions == Quiet \cup {SThrow(5)}

CallsInTry(s) == \E t \in Within(s) : t.k = "try" /\ \E u \in Within(t) : u.k = "call"
\* A break in an iteration inside of an iteration would not let it end.
AllScripts == {[main |-> <<s, Show(9)>>, fn |-> <<f>>] :
                   s \in {m \in Mains : \A t \in Within(m) : CleanIteration(t)},
                   f \in Functions}
LocalScripts == {s \in AllScripts : CallsInTry(s.main[1]) => s.fn[1] \in Quiet}

\* The least number of operands at each opcode: the depths that flow from
\* one round of opcodes to the next until nothing changes
Never == 100
Leaving(fn, d, p) ==    \* <<where to, with how many operands>>
  LET op == fn.code[p + 1]
  IN (IF op.op \in {"Jump", "Return", "Throw"} THEN {} ELSE {<<p + 1, d[p] + Effect(op)>>})
     \cup (IF op.op \in JumpOps THEN {<<op.arg, d[p] + JumpEffect(op)>>} ELSE {})
     \cup (IF op.op = "PushExceptionContext"
           THEN {<<op.arg.CatchTarget, d[p]>>, <<op.arg.FinallyTarget, d[p]>>} ELSE {})
RECURSIVE Flow(_, _)
Flow(fn, d) ==
  LET edges == UNION {Leaving(fn, d, p) : p \in 0 .. Len(fn.code) - 1}
      next == [p \in DOMAIN d |->
                 MinOf({d[p]} \cup {e[2] : e \in {x \in edges : x[1] = p}})]
  IN IF next = d THEN d ELSE Flow(fn, next)
WithDepths(fn) ==
  [code |-> fn.code, varCount |-> fn.varCount, params |-> fn.params, rest |-> fn.rest,
   thisSlot |-> fn.thisSlot, argumentsSlot |-> fn.argumentsSlot, captures |-> fn.captures,
   depths |-> Flow(fn, [p \in 0 .. Len(fn.code) |-> IF p = 0 THEN 0 ELSE Never])]

Balanced(code) == <<WithDepths(code[1]), WithDepths(code[2])>>

\* The try blocks that are open at each address, as control reaches it
Along(fn, p, open) ==   \* <<where to, with which try blocks open>>
  LET op == fn.code[p + 1]
  IN (CASE op.op \in {"Jump", "Return", "Throw"} -> {}
        [] op.op = "PushExceptionContext" ->
             {<<p + 1, Append(open, p)>>}
             \cup {<<t, open>> : t \in {op.arg.CatchTarget, op.arg.FinallyTarget} \ {-1}}
        [] op.op = "PopExceptionContext" -> {<<p + 1, Front(open)>>}
        [] OTHER -> {<<p + 1, open>>})
     \cup (IF op.op \in JumpOps THEN {<<op.arg, open>>} ELSE {})
RECURSIVE Reach(_, _, _)
Reach(fn, found, new) ==
  LET next == UNION {Along(fn, e[1], e[2]) : e \in {n \in new : n[1] < Len(fn.code)}} \ found
  IN IF next = {} THEN found ELSE Reach(fn, found \cup next, next)
TriesIn(fn) == LET reached == Reach(fn, {<<0, <<>>>>}, {<<0, <<>>>>})
               IN [p \in {e[1] : e \in reached} |-> (CHOOSE e \in reached : e[1] = p)[2]]

\* Code is bracketed if no try block is left by break, continue or return.
ASSUME TriesAssumption ==
  \A s \in LocalScripts :
    (\A t \in Within(s.main[1]) \cup Within(s.fn[1]) : NoJumpOutOfTry(t)) =>
      LET code == Balanced(Compile(s))
      IN \A b \in DOMAIN code : IsBracketed(b, code[b], TriesIn(code[b]))

MCPrograms == {Balanced(Compile(s)) : s \in LocalScripts}
MCInputs == [1 .. 2 -> BOOLEAN]
MCGlobals == {"f", "ask", "log", "fail", "each"}
=============================================================================
