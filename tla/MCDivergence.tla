---------------------------- MODULE MCDivergence ----------------------------
(* Scripts that the code does not handle as its comments say. Each set of  *)
(* scripts is run with the one property that it violates.                  *)
EXTENDS ScriptRun

Show(n) == SLog(ELit(n))
Fns == {<<Show(4)>>, <<SThrow(5)>>, <<Show(1), Show(2), SThrow(5)>>,
        <<SForOf(2, SBlock(<<SLog(EVar), SThrow(5)>>))>>}
ScriptsOf(S) == {[main |-> <<s, Show(9)>>, fn |-> f] : s \in S, f \in Fns}
ProgramsOf(S) == {Compile(s) : s \in S}

\* try { f() } catch (x) { log(x) }, alone and in a loop
AcrossCalls == ScriptsOf({STry(SCall, SLog(EVar), NoStmt), STry(SCall, NoStmt, Show(6)),
                          SForOf(2, STry(SCall, SLog(EVar), NoStmt))})
AcrossPrograms == ProgramsOf(AcrossCalls)

\* [0, ..., n-1].forEach(f)
Callbacks == ScriptsOf({SEach(n) : n \in 0 .. 2})
CallbackPrograms == ProgramsOf(Callbacks)

MCInputs == [1 .. 2 -> BOOLEAN]
MCGlobals == {"f", "ask", "log", "fail", "each"}

-----------------------------------------------------------------------------
\* A handler runs in the function whose try block it belongs to: the code
\* around it opens a context with its targets (handleException).
HandlersRunInTheirFunction ==
  [][Catch \/ Finally =>
       \E i \in DOMAIN Code : /\ Code[i].op = "PushExceptionContext"
                              /\ Code[i].arg.CatchTarget = TopCtx.CatchTarget
                              /\ Code[i].arg.FinallyTarget = TopCtx.FinallyTarget]_vars

\* A return to a native method is the end of the callback's loop
\* (ReturnOperation, CallWithThis).
ReturnEndsCallback == [][ReturnToNative => ~InRange']_vars
=============================================================================
