----------------------------- MODULE Semantics -----------------------------
(***************************************************************************)
(* What a script means: the reference that compiled code is compared with. *)
(* The repository declares ECMAScript sections 13 and 14 as what it parses *)
(* (comments of parser/statement.go), and this is their statement          *)
(* semantics for the syntax trees of Codegen: a statement completes        *)
(* normally or abruptly (break, continue, return, throw), having shown     *)
(* values to the host and used up some of its answers.                     *)
(***************************************************************************)
LOCAL INSTANCE Integers
LOCAL INSTANCE Sequences
LOCAL INSTANCE Codegen

\* The state of a script: answers left, values shown, variable in scope,
\* the completion of the last statement and the value thrown.
Start(answers) == [in |-> answers, out |-> <<>>, x |-> 0, c |-> "normal", v |-> 0]
Completes(st, c, v) == [st EXCEPT !.c = c, !.v = v]
Normally(st) == Completes(st, "normal", 0)
Shows(st, v) == [st EXCEPT !.out = Append(@, v)]

\* Answers run out as FALSE.
Answered(st) == [st EXCEPT !.in = IF @ = <<>> THEN @ ELSE Tail(@),
                           !.v = IF st.in # <<>> /\ Head(st.in) THEN 1 ELSE 0]

(* Sequencing: F is applied to the state st, evaluated first and once.     *)
Then(st, F(_)) == CHOOSE r \in {F(x) : x \in {st}} : TRUE

RECURSIVE EvalE(_, _)
EvalE(e, st) ==
  CASE e.k = "lit" -> [st EXCEPT !.v = e.v]
    [] e.k = "ask" -> Answered(st)
    [] e.k = "var" -> [st EXCEPT !.v = st.x]
    [] e.k = "not" -> Then(EvalE(e.a, st), LAMBDA a : [a EXCEPT !.v = 1 - @])
    [] e.k = "and" -> Then(EvalE(e.a, st), LAMBDA a :
                        IF a.v = 0 THEN a ELSE EvalE(e.b, a))
    [] e.k = "or"  -> Then(EvalE(e.a, st), LAMBDA a :
                        IF a.v # 0 THEN a ELSE EvalE(e.b, a))

\* A loop goes on after a completion that is normal or continue, and
\* swallows its breaks.
LoopsOn(st) == st.c \in {"normal", "continue"}
LoopExit(st) == IF st.c \in {"break", "continue"} THEN Normally(st) ELSE st

RECURSIVE Run(_, _, _)        \* statement, state, body of f
RECURSIVE RunList(_, _, _)
RunList(ss, st, fn) ==
  IF ss = <<>> \/ st.c # "normal" THEN st
  ELSE Then(Run(Head(ss), st, fn), LAMBDA x : RunList(Tail(ss), x, fn))

\* The update expression of a for: it shows a value
Update(s, st) ==
  IF s.k = "for" THEN Then(EvalE(s.u, st), LAMBDA u : Shows(Normally(u), u.v))
                 ELSE st

RECURSIVE RunWhile(_, _, _)
RunWhile(s, st, fn) ==
  Then(EvalE(s.c, st), LAMBDA test :
    IF test.v = 0 THEN Normally(test)
    ELSE Then(Run(s.a, Normally(test), fn), LAMBDA once :
           IF ~LoopsOn(once) THEN LoopExit(once)
           ELSE Then(Update(s, Normally(once)), LAMBDA next :
                  RunWhile(s, next, fn))))

RECURSIVE RunDo(_, _, _)
RunDo(s, st, fn) ==
  Then(Run(s.a, st, fn), LAMBDA once :
    IF ~LoopsOn(once) THEN LoopExit(once)
    ELSE Then(EvalE(s.c, Normally(once)), LAMBDA test :
           IF test.v = 0 THEN Normally(test) ELSE RunDo(s, Normally(test), fn)))

\* x is i, ..., n - 1 in turn
RECURSIVE RunEach(_, _, _, _)
RunEach(s, i, st, fn) ==
  IF i >= s.n THEN st
  ELSE Then(Run(s.a, [st EXCEPT !.x = i], fn), LAMBDA once :
         IF LoopsOn(once) THEN RunEach(s, i + 1, Normally(once), fn)
         ELSE LoopExit(once))

\* Control enters at the first clause that matches, else at the default, and
\* falls through from there.
From(cs, entry) == [i \in 1 .. Len(cs) - entry + 1 |-> cs[entry + i - 1].a]
RunSwitch(s, st, fn) ==
  LET dflt == {i \in DOMAIN s.cs : s.cs[i].default}
  IN Then(EvalE(s.e, st), LAMBDA d :
       LET hits  == {i \in DOMAIN s.cs : ~s.cs[i].default /\ s.cs[i].v = d.v}
           entry == MinOf(IF hits # {} THEN hits ELSE dflt)
       IN IF hits \cup dflt = {} THEN Normally(d)
          ELSE Then(RunList(From(s.cs, entry), Normally(d), fn), LAMBDA done :
                 IF done.c = "break" THEN Normally(done) ELSE done))

\* A finally block runs however the rest completed, and its own abrupt
\* completion replaces that of the rest.
RunCatch(s, st, fn) ==
  Then(Run(s.a, st, fn), LAMBDA try :
    IF try.c = "throw" /\ s.c # NoStmt
    THEN Run(s.c, [Normally(try) EXCEPT !.x = try.v], fn) ELSE try)
RunTry(s, st, fn) ==
  Then(RunCatch(s, st, fn), LAMBDA done :
    IF s.f = NoStmt THEN done
    ELSE Then(Run(s.f, [Normally(done) EXCEPT !.x = st.x], fn), LAMBDA final :
           IF final.c # "normal" THEN final
           ELSE Completes(final, done.c, done.v)))

\* f(): its return is the end of the call, its exception is the caller's
RunCall(st, fn) ==
  Then(RunList(fn, st, fn), LAMBDA done :
    IF done.c = "throw" THEN done ELSE Normally(done))

RECURSIVE RunCalls(_, _, _)
RunCalls(n, st, fn) ==
  IF n = 0 \/ st.c # "normal" THEN st
  ELSE Then(RunCall(st, fn), LAMBDA done : RunCalls(n - 1, done, fn))

Scoped(after, before) == [after EXCEPT !.x = before.x]

Run(s, st, fn) ==
  CASE s.k = "none"     -> st
    [] s.k = "block"    -> RunList(s.ss, st, fn)
    [] s.k = "log"      -> Then(EvalE(s.e, st), LAMBDA d : Shows(Normally(d), d.v))
    [] s.k = "if"       -> Then(EvalE(s.c, st), LAMBDA d :
                             Run(IF d.v # 0 THEN s.a ELSE s.b, Normally(d), fn))
    [] s.k \in {"while", "for"} -> RunWhile(s, st, fn)
    [] s.k = "do"       -> RunDo(s, st, fn)
    [] s.k \in {"forof", "forin"} -> Scoped(RunEach(s, 0, st, fn), st)
    [] s.k = "switch"   -> RunSwitch(s, st, fn)
    [] s.k = "try"      -> Scoped(RunTry(s, st, fn), st)
    [] s.k = "call"     -> Scoped(RunCall(st, fn), st)
    [] s.k = "each"     -> Scoped(RunCalls(s.n, st, fn), st)
    [] s.k \in {"break", "continue", "return"} -> Completes(st, s.k, 0)
    [] s.k = "throw"    -> Completes(st, "throw", s.n)

\* What the host sees of a script: the values shown to it and how it ended
Meaning(script, answers) ==
  Then(RunList(script.main, Start(answers), script.fn), LAMBDA done :
    [out |-> done.out, end |-> IF done.c = "throw" THEN "uncaught" ELSE "done"])
=============================================================================
