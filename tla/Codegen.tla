------------------------------ MODULE Codegen ------------------------------
(***************************************************************************)
(* Code generation of the statement parser (parser/statement.go and the    *)
(* call and logical expressions of parser/expression.go): the opcodes that *)
(* the parser appends to body.Code while it reads a statement.             *)
(*                                                                         *)
(* The source text is abstracted to a syntax tree.  Gen(s, p, env) is the  *)
(* code of statement s when its first opcode gets index p; env holds what  *)
(* the parser keeps while it reads: the next free slot of the block, the   *)
(* slots of visible names and blockDepth.  A break or continue is an       *)
(* opcode of its own until the enclosing loop or switch patches it.        *)
(***************************************************************************)
LOCAL INSTANCE Integers
LOCAL INSTANCE Sequences
LOCAL INSTANCE FiniteSets
LOCAL INSTANCE TLC
LOCAL INSTANCE SequencesExt

-----------------------------------------------------------------------------
(* Syntax trees. "x" names the variable of the closest for or catch.       *)

ELit(v)    == [k |-> "lit", v |-> v]
EAsk       == [k |-> "ask"]
EVar       == [k |-> "var"]
EAnd(a, b) == [k |-> "and", a |-> a, b |-> b]
EOr(a, b)  == [k |-> "or", a |-> a, b |-> b]
ENot(a)    == [k |-> "not", a |-> a]

NoStmt         == [k |-> "none"]
SLog(e)        == [k |-> "log", e |-> e]
SIf(c, a, b)   == [k |-> "if", c |-> c, a |-> a, b |-> b]
SWhile(c, a)   == [k |-> "while", c |-> c, a |-> a]
SDo(a, c)      == [k |-> "do", c |-> c, a |-> a]
SFor(c, u, a)  == [k |-> "for", c |-> c, u |-> u, a |-> a]
SForOf(n, a)   == [k |-> "forof", n |-> n, a |-> a]
SForIn(n, a)   == [k |-> "forin", n |-> n, a |-> a]
SSwitch(e, cs) == [k |-> "switch", e |-> e, cs |-> cs]
Case(v, a)     == [default |-> FALSE, v |-> v, a |-> a]
Default(a)     == [default |-> TRUE, v |-> 0, a |-> a]
SBreak         == [k |-> "break"]
SContinue      == [k |-> "continue"]
SReturn        == [k |-> "return"]
SThrow(n)      == [k |-> "throw", n |-> n]
STry(a, c, f)  == [k |-> "try", a |-> a, c |-> c, f |-> f]
SCall          == [k |-> "call"]
SEach(n)       == [k |-> "each", n |-> n]
SBlock(ss)     == [k |-> "block", ss |-> ss]

-----------------------------------------------------------------------------
(* Opcodes.                                                                *)

OpArg(op, arg) == [op |-> op, arg |-> arg]
Plain(op)      == OpArg(op, 0)
Literal(t, n)  == OpArg("PushLiteral", [t |-> t, v |-> n, clo |-> <<>>])
Breaks(code)   == {i \in DOMAIN code : code[i].op = "Break"}
Continues(code) == {i \in DOMAIN code : code[i].op = "Continue"}

\* jmp.OpData = target for every jump that was waiting for it
Patch(code, waiting, target) ==
  [i \in DOMAIN code |-> IF i \in waiting THEN OpArg("Jump", target)
                                          ELSE code[i]]

\* A variant: breaks leave to the last opcode of the loop
breakToLast(code, p) == Patch(code, Breaks(code), p + Len(code) - 1)
\* popLoopContext: breaks leave to the first opcode after the loop
popLoopContext(code, p) == Patch(code, Breaks(code), p + Len(code))

\* The parser's state in a block: deeper for an unbraced sub-statement, with
\* one more variable (newBlock and defineVariable) for a for or a catch
Deeper(env) == [env EXCEPT !.depth = @ + 1]
WithVar(env) == [env EXCEPT !.var = env.slot, !.slot = @ + 1]

-----------------------------------------------------------------------------
(* Expressions.                                                            *)

CallLed(callee, args) ==
  callee \o FlattenSeq(args) \o <<OpArg("Call", Len(args))>>
Global(name) == <<OpArg("LoadGlobal", name)>>

\* obj.method(args): the object stays below the method as 'this'
MethodCallLed(obj, name, args) ==
  obj \o <<Plain("Dup"), OpArg("GetProperty", name)>> \o FlattenSeq(args)
      \o <<OpArg("MethodCall", Len(args))>>

\* [0, ..., n-1]
ArrayLiteral(n) ==
  [i \in 1 .. n |-> Literal("integer", i - 1)] \o <<OpArg("NewArray", n)>>

RECURSIVE GenExpr(_, _, _)
GenExpr(e, p, env) ==
  CASE e.k = "lit" -> <<Literal("integer", e.v)>>
    [] e.k = "ask" -> CallLed(Global("ask"), <<>>)
    [] e.k = "var" -> <<OpArg("LoadVariable", env.var)>>
    [] e.k = "not" -> GenExpr(e.a, p, env) \o <<Plain("LogicalNot")>>
    [] e.k \in {"and", "or"} ->
         LET a == GenExpr(e.a, p, env)
             b == GenExpr(e.b, p + Len(a) + 1, env)
             jump == IF e.k = "and" THEN "JumpIfFalseOrPop" ELSE "JumpIfTrueOrPop"
         IN a \o <<OpArg(jump, p + Len(a) + 1 + Len(b))>> \o b

\* A variant that counts the block of a function as the top level, too
PopDeeper(code, env) ==
  IF env.depth > 1 THEN Append(code, Plain("Pop")) ELSE code
\* "Discard all but top level expression results"
ExprStatement(code, env) ==
  IF env.depth > 0 THEN Append(code, Plain("Pop")) ELSE code

-----------------------------------------------------------------------------
(* Statements.                                                             *)

RECURSIVE Gen(_, _, _)

\* parseStatementList
RECURSIVE GenList(_, _, _)
GenList(ss, p, env) ==
  IF ss = <<>> THEN <<>>
  ELSE LET first == Gen(Head(ss), p, env)
       IN first \o GenList(Tail(ss), p + Len(first), env)

parseIfStatement(s, p, env) ==
  LET cond  == GenExpr(s.c, p, env)
      pThen == p + Len(cond) + 1
      then  == Gen(s.a, pThen, Deeper(env))
      pElse == pThen + Len(then) + 1
      else  == Gen(s.b, pElse, Deeper(env))
  IN IF s.b = NoStmt
     THEN cond \o <<OpArg("JumpIfFalse", pThen + Len(then))>> \o then
     ELSE cond \o <<OpArg("JumpIfFalse", pElse)>> \o then
               \o <<OpArg("Jump", pElse + Len(else))>> \o else

\* A variant: continue skips the condition
doContinuesAtBody(s, p, env) ==
  LET do   == Gen(s.a, p, Deeper(env))
      cond == GenExpr(s.c, p + Len(do), env)
  IN popLoopContext(Patch(do, Continues(do), p) \o cond
                    \o <<OpArg("JumpIfTrue", p)>>, p)
parseDoStatement(s, p, env) ==
  LET do     == Gen(s.a, p, Deeper(env))
      target == p + Len(do)
      cond   == GenExpr(s.c, target, env)
  IN popLoopContext(Patch(do, Continues(do), target) \o cond
                    \o <<OpArg("JumpIfTrue", p)>>, p)

parseWhileStatement(s, p, env) ==
  LET cond == GenExpr(s.c, p, env)
      pDo  == p + Len(cond) + 1
      do   == Gen(s.a, pDo, Deeper(env))
  IN popLoopContext(cond \o <<OpArg("JumpIfFalse", pDo + Len(do) + 1)>>
                    \o Patch(do, Continues(do), p) \o <<OpArg("Jump", p)>>, p)

\* for (; cond; update) body: the update code comes before the body
parseForStatement(s, p, env) ==
  LET cond    == GenExpr(s.c, p, env)
      pUpdate == p + Len(cond) + 2
      update  == Append(CallLed(Global("log"), <<GenExpr(s.u, 0, env)>>),
                        Plain("Pop"))
      pDo     == pUpdate + Len(update) + 1
      do      == Gen(s.a, pDo, Deeper(env))
  IN popLoopContext(
       cond \o <<OpArg("JumpIfFalse", pDo + Len(do) + 1), OpArg("Jump", pDo)>>
            \o update \o <<OpArg("Jump", p)>>
            \o Patch(do, Continues(do), pUpdate) \o <<OpArg("Jump", pUpdate)>>, p)

\* for (let x of/in [0, ..., n-1]) body
parseForInOfStatement(s, p, env) ==
  LET ops  == IF s.k = "forin"
              THEN <<"ForInKeys", "ForInHasMore", "ForInNext", "ForInCleanup">>
              ELSE <<"ForOfIterator", "ForOfHasMore", "ForOfNext", "ForOfCleanup">>
      iter  == ArrayLiteral(s.n)
      inner == WithVar(env)
      start == p + Len(iter) + 1
      do    == Gen(s.a, start + 3, Deeper(inner))
  IN popLoopContext(
       iter \o <<Plain(ops[1]), Plain(ops[2]),
                 OpArg("JumpIfFalse", start + 3 + Len(do) + 1),
                 OpArg(ops[3], inner.var)>>
            \o Patch(do, Continues(do), start)
            \o <<OpArg("Jump", start), Plain(ops[4])>>, p)

\* The clauses of a switch from address p on, and where the last failed
\* comparison goes: on to the next clause, at the end to the default clause.
RECURSIVE GenClauses(_, _, _, _)
GenClauses(cs, p, env, defaultStart) ==
  IF cs = <<>> THEN <<>>
  ELSE LET c     == Head(cs)
           test  == IF c.default THEN <<>>
                    ELSE <<Plain("Dup"), Literal("boolean", c.v),
                           Plain("StrictEqual"), Plain("JumpIfFalse")>>
           start == p + Len(test)
           do    == Gen(c.a, start, Deeper(env))
           after == start + Len(do)
           dflt  == IF c.default THEN start ELSE defaultStart
           skip  == IF Tail(cs) = <<>> /\ dflt >= 0 THEN dflt ELSE after
       IN [i \in DOMAIN test |-> IF i = 4 THEN OpArg("JumpIfFalse", skip)
                                          ELSE test[i]]
          \o do \o GenClauses(Tail(cs), after, env, dflt)

parseSwitchStatement(s, p, env) ==
  LET expr == GenExpr(s.e, p, env)
  IN popLoopContext(expr \o GenClauses(s.cs, p + Len(expr), env, -1)
                         \o <<Plain("Pop")>>, p)

parseTryStatement(s, p, env) ==
  LET hasCatch   == s.c # NoStmt
      hasFinally == s.f # NoStmt
      inner   == WithVar(env)
      try     == Gen(s.a, p + 1, Deeper(env))
      pCatch  == p + 1 + Len(try) + 2
      catch   == IF hasCatch THEN Gen(s.c, pCatch, Deeper(inner)) ELSE <<>>
      pFinally == IF hasCatch THEN pCatch + Len(catch) + 1 ELSE pCatch
      finally == IF hasFinally
                 THEN Append(Gen(s.f, pFinally, Deeper(env)),
                             Plain("FinallyComplete"))
                 ELSE <<>>
      ctx == [CatchTarget   |-> IF hasCatch THEN pCatch ELSE -1,
              FinallyTarget |-> IF hasFinally THEN pFinally ELSE -1,
              CatchVarSlot  |-> IF hasCatch THEN inner.var ELSE -1]
      \* both go to the finally block, or to the end: the same address
      exit == OpArg("Jump", pFinally)
  IN <<OpArg("PushExceptionContext", ctx)>> \o try
     \o <<Plain("PopExceptionContext"), exit>>
     \o (IF hasCatch THEN Append(catch, exit) ELSE <<>>) \o finally

Gen(s, p, env) ==
  CASE s.k = "none"   -> <<>>
    [] s.k = "block"  -> GenList(s.ss, p, Deeper(env))
    [] s.k = "log"    -> ExprStatement(CallLed(Global("log"),
                           <<GenExpr(s.e, p + 1, env)>>), env)
    [] s.k = "call"   -> ExprStatement(CallLed(
                           <<OpArg("LoadVariable", env.fn)>>, <<>>), env)
    [] s.k = "each"   -> ExprStatement(MethodCallLed(ArrayLiteral(s.n),
                           "forEach", <<<<OpArg("LoadVariable", env.fn)>>>>), env)
    [] s.k = "if"     -> parseIfStatement(s, p, env)
    [] s.k = "do"     -> parseDoStatement(s, p, env)
    [] s.k = "while"  -> parseWhileStatement(s, p, env)
    [] s.k = "for"    -> parseForStatement(s, p, env)
    [] s.k \in {"forof", "forin"} -> parseForInOfStatement(s, p, env)
    [] s.k = "switch" -> parseSwitchStatement(s, p, env)
    [] s.k = "try"    -> parseTryStatement(s, p, env)
    [] s.k = "break"  -> <<Plain("Break")>>
    [] s.k = "continue" -> <<Plain("Continue")>>
    [] s.k = "return" -> <<OpArg("Return", FALSE)>>
    [] s.k = "throw"  -> <<Literal("integer", s.n), Plain("Throw")>>

-----------------------------------------------------------------------------
(* Whole scripts: function f() { fn } main                                 *)

MaxOf(S) == CHOOSE n \in S : \A m \in S : n >= m
MinOf(S) == CHOOSE n \in S : \A m \in S : n <= m

\* VarCount: one more than the highest slot the code names
SlotOf(op) ==
  CASE op.op \in {"LoadVariable", "StoreVariable", "ForOfNext", "ForInNext"} -> op.arg
    [] op.op = "PushExceptionContext" -> op.arg.CatchVarSlot
    [] OTHER -> -1
HighestSlot(code) == MaxOf({SlotOf(code[i]) : i \in DOMAIN code} \cup {-1})
VarCount(code) == HighestSlot(code) + 1

Body(code, varCount, isMain) ==
  [code |-> code, varCount |-> varCount, params |-> 0, rest |-> FALSE,
   thisSlot |-> IF isMain THEN -1 ELSE 0,
   argumentsSlot |-> IF isMain THEN -1 ELSE 1, captures |-> <<>>]

\* parseFunctionDecl: 'this' and 'arguments' take the first slots, and a
\* return is appended in case the body has none
parseFunctionDecl(ss) ==
  LET code == GenList(ss, 0, [slot |-> 2, var |-> 0, fn |-> 0, depth |-> 0])
              \o <<OpArg("Return", FALSE)>>
      n == VarCount(code)
  IN Body(code, IF n < 2 THEN 2 ELSE n, FALSE)

\* parseFunctionStatement: f is a global and a local of the script
parseFunctionStatement == <<OpArg("PushFunction", 2), OpArg("StoreGlobal", "f"),
                            OpArg("StoreVariable", 0)>>

Compile(script) ==
  LET main == parseFunctionStatement
              \o GenList(script.main, Len(parseFunctionStatement),
                         [slot |-> 1, var |-> 0, fn |-> 0, depth |-> 0])
  IN <<Body(main, VarCount(main), TRUE), parseFunctionDecl(script.fn)>>
=============================================================================
