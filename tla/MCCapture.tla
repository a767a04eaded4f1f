------------------------------ MODULE MCCapture ------------------------------
(* A script that increments a variable which a function has captured.      *)
EXTENDS Process, Codegen

\* let x = 0; let g = () => x; x++; log(g())
Lit(n) == OpArg("PushLiteral", IntVal(n))
Fn(code, varCount, caps) ==
  [code |-> code, varCount |-> varCount, params |-> 0, rest |-> FALSE,
   thisSlot |-> -1, argumentsSlot |-> -1, captures |-> caps]
MCPrograms ==
  {<<Fn(<<Lit(0), OpArg("StoreVariable", 0), OpArg("PushFunction", 2),
          OpArg("StoreVariable", 1), OpArg(inc, 0), OpArg("LoadGlobal", "log"),
          OpArg("LoadVariable", 1), OpArg("Call", 0), OpArg("Call", 1)>>, 2, <<>>),
     Fn(<<OpArg("LoadCapture", 0), OpArg("Return", TRUE)>>, 0,
        <<[slot |-> 0, isCapture |-> FALSE]>>)>> : inc \in IncOps}

MCInputs == {<<>>}
MCGlobals == {"log"}

-----------------------------------------------------------------------------
\* ++ and -- change the variable as the script, and the functions that
\* captured it, see it (PreIncrementOperation and its like).
IncrementsTheVariable ==
  [][\A s \in 0 .. MaxSlot :
       IncVariable /\ Op.arg = s /\ HasSlot(s) => Variable(s)' = locals'[s + 1]]_vars
=============================================================================
