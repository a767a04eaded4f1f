----------------------------- MODULE Supported -----------------------------
(***************************************************************************)
(* The scripts that the parser and the machine handle as ECMAScript says.  *)
(* Each clause of Handles leaves out one construct that the code does not  *)
(* implement faithfully.                                                   *)
(***************************************************************************)
LOCAL INSTANCE Integers
LOCAL INSTANCE Sequences
LOCAL INSTANCE SequencesExt
LOCAL INSTANCE Codegen

LoopKinds  == {"while", "do", "for", "forof", "forin"}
ForIns == {"forof", "forin"}

Parts(s) ==
  CASE s.k \in {"if"}     -> {s.a, s.b}
    [] s.k \in LoopKinds      -> {s.a}
    [] s.k = "try"        -> {s.a, s.c, s.f}
    [] s.k = "block"      -> ToSet(s.ss)
    [] s.k = "switch"     -> {s.cs[i].a : i \in DOMAIN s.cs}
    [] OTHER              -> {}

\* The abrupt completions that can leave s; f throws says whether f can throw
RECURSIVE Escapes(_, _)
Escapes(s, fThrows) ==
  LET inside == UNION {Escapes(t, fThrows) : t \in Parts(s)}
  IN CASE s.k \in {"break", "continue", "return", "throw"} -> {s.k}
       [] s.k \in {"call", "each"} -> IF fThrows THEN {"throw"} ELSE {}
       [] s.k \in LoopKinds    -> inside \ {"break", "continue"}
       [] s.k = "switch"   -> inside \ {"break"}
       [] s.k = "try"      -> (IF s.c = NoStmt THEN Escapes(s.a, fThrows)
                               ELSE (Escapes(s.a, fThrows) \ {"throw"})
                                    \cup Escapes(s.c, fThrows))
                              \cup Escapes(s.f, fThrows)
       [] OTHER            -> inside

RECURSIVE Within(_)
Within(s) == {s} \cup UNION {Within(t) : t \in Parts(s)}

\* Some statement in s can end by a jump that skips the opcode that takes the
\* iterable or the switch value off the stack: breaks go behind it, and a
\* continue in a switch goes back to the loop around.
LeavesOperands(s) ==
  \E t \in Within(s) : \E u \in Parts(t) :
    \/ t.k \in ForIns \cup {"switch"} /\ "break" \in Escapes(u, FALSE)
    \/ t.k = "switch" /\ "continue" \in Escapes(u, FALSE)

EndsAbruptly(s) ==
  \/ s.k \in {"break", "continue", "return", "throw"}
  \/ s.k = "block" /\ s.ss # <<>> /\ s.ss[Len(s.ss)].k
                      \in {"break", "continue", "return", "throw"}

\* No jump out of a try block: its context would stay behind.
NoJumpOutOfTry(s) ==
  s.k = "try" => /\ Escapes(s.a, FALSE) \subseteq {"throw"}
                 /\ s.f # NoStmt => Escapes(s.c, FALSE) \subseteq {"throw"}

\* No exception out of a catch that has a finally: it would not run.
NoThrowInCatch(s, fThrows) ==
  s.k = "try" /\ s.f # NoStmt => "throw" \notin Escapes(s.c, fThrows)

\* No exception out of a call into a try of the caller: the handler would
\* run as if it were code of the function that threw.
NoThrowAcrossCall(s, fThrows) ==
  s.k = "try" /\ fThrows =>
    \A t \in Within(s.a) : t.k \notin {"call", "each"}

\* A finally block that runs with an exception on its way neither leaves
\* abruptly nor gets to another try: there is one flag and one exception.
PlainFinally(s, fThrows) ==
  s.k = "try" /\ s.c = NoStmt =>
    /\ Escapes(s.f, fThrows) = {}
    /\ \A t \in Within(s.f) : t.k \notin {"try", "call", "each"}

\* No operands left behind on top of those of an iteration.
CleanIteration(s) == s.k \in ForIns => ~LeavesOperands(s.a)

\* No fall through, and the default clause is the last.
PlainSwitch(s) ==
  s.k = "switch" => \A i \in DOMAIN s.cs :
                      i < Len(s.cs) => EndsAbruptly(s.cs[i].a) /\ ~s.cs[i].default

\* A callback's return does not get back to the iteration method.
NoCallback(s) == s.k # "each"

Handles(s, fThrows) ==
  \A t \in Within(s) :
    /\ NoJumpOutOfTry(t) /\ NoThrowInCatch(t, fThrows)
    /\ NoThrowAcrossCall(t, fThrows) /\ PlainFinally(t, fThrows)
    /\ CleanIteration(t) /\ PlainSwitch(t) /\ NoCallback(t)

IsSupported(script) ==
  LET fThrows == "throw" \in Escapes(SBlock(script.fn), FALSE)
  IN Handles(SBlock(script.fn), fThrows) /\ Handles(SBlock(script.main), fThrows)
=============================================================================
