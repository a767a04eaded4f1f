------------------------------ MODULE MCScript ------------------------------
(* All scripts of a bounded grammar: a statement of nesting depth three in *)
(* a script that shows a value after it.                                   *)
EXTENDS ScriptRun, Supported

Show(n) == SLog(ELit(n))
Then8(s) == SBlock(<<s, Show(8)>>)
Shows1 == Show(1)

Ifs(S) == {SIf(c, s, NoStmt) : c \in {EAsk, ENot(EAsk)}, s \in S}
          \cup {SIf(EAsk, Then8(s), Show(7)) : s \in S}
Whiles(S) == {SWhile(EAsk, Then8(s)) : s \in S}
             \cup {SDo(Then8(s), EAnd(EAsk, EAsk)) : s \in S}
             \cup {SFor(EOr(EAsk, EAsk), ELit(2), Then8(s)) : s \in S}
Iterations(S) == {SForOf(2, SBlock(<<SLog(EVar), s>>)) : s \in S}
                 \cup {SForIn(2, Then8(s)) : s \in S}
Switches(S) ==
  {SSwitch(EAsk, <<Case(0, SBlock(<<s, SBreak>>)), Default(Show(7))>>) : s \in S}
  \cup {SSwitch(EAsk, <<Case(0, SBlock(<<Show(1), SBreak>>)), Case(1, s)>>) : s \in S}
  \cup {SSwitch(EAsk, <<Case(1, s)>>) : s \in S}
Tries(S) ==
  {STry(Then8(s), SLog(EVar), NoStmt) : s \in S}
  \cup {STry(Then8(s), NoStmt, Show(6)) : s \in S}
  \cup {STry(Then8(s), SLog(EVar), Show(6)) : s \in S}
  \cup {STry(SThrow(2), Then8(s), NoStmt) : s \in S}
  \cup {STry(SThrow(2), Then8(s), Show(6)) : s \in S}
  \cup {STry(Show(1), NoStmt, Then8(s)) : s \in S}
  \cup {STry(SThrow(2), NoStmt, Then8(s)) : s \in S}

Plain0 == {Show(1), SThrow(3), SCall, SReturn}
Leaf == Plain0 \cup {SBreak, SContinue}
LoopOf(S) == Whiles(S) \cup Iterations(S)
Flat(S) == Ifs(S) \cup Tries(S)
\* Statements that are legal outside of a loop, and inside of one
Outside1 == Plain0 \cup Flat(Plain0) \cup LoopOf(Leaf) \cup Switches(Plain0)
Inside1  == Leaf \cup Flat(Leaf) \cup LoopOf(Leaf) \cup Switches(Leaf)
Outside2 == Flat(Outside1) \cup LoopOf(Inside1) \cup Switches(Outside1)

Functions1 == {<<Show(4)>>, <<SThrow(5)>>,
               <<SForOf(2, SBlock(<<SLog(EVar), SReturn>>))>>,
               <<STry(SThrow(5), SLog(EVar), Show(6))>>}
AllScripts == {[main |-> <<s, Show(9)>>, fn |-> f] : s \in Outside2, f \in Functions1}
MCScripts == {s \in AllScripts : IsSupported(s)}
MCPrograms == {Compile(s) : s \in MCScripts}
MCInputs == [1 .. 2 -> BOOLEAN]

\* A script without a jump that skips a cleanup leaves nothing on the operand
\* stack but the results of the expression statements at its top level
\* (completeExpression, parseForInOfStatement, parseSwitchStatement, Return).
LeavesNoOperands ==
  ~LeavesOperands(SBlock(script.main)) => LeavesOnlyResults

MCGlobals == {"f", "ask", "log", "fail", "each"}
=============================================================================
