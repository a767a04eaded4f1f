----------------------------- MODULE ScriptRun -----------------------------
(***************************************************************************)
(* Parse and Run of a script: the parser's code for it (Codegen) executed  *)
(* by a fresh process (Process), next to what the source text means        *)
(* (Semantics).                                                            *)
(***************************************************************************)
EXTENDS Process, Codegen, Semantics

CONSTANT Scripts   \* syntax trees of the scripts that are run

VARIABLES
  script,    \* the script being run
  expected   \* its meaning under the answers the host is going to give

runVars == <<vars, script, expected>>

RunInit == /\ script \in Scripts
           /\ prog = Compile(script)
           /\ Boot
           /\ expected = Meaning(script, input)
RunNext == Next /\ UNCHANGED <<script, expected>>
RunSpec == RunInit /\ [][RunNext]_runVars
FairRunSpec == RunSpec /\ WF_runVars(Step /\ UNCHANGED <<script, expected>>)

-----------------------------------------------------------------------------
(* Correctness.                                                            *)

\* The host sees of a run what the source text means: the detailed machine
\* implements HostView.
View == INSTANCE HostView WITH
          shown <- output, ended <- IF Halted THEN status ELSE "no"
ImplementsHostView == View!ViewSpec

\* The same as a state property: what a finished run has shown and how it
\* ended are what the source text means.
MeansWhatItSays ==
  Halted => output = expected.out /\ status = expected.end

\* A statement leaves nothing on the operand stack, but for the result of an
\* expression statement at the top level of the script: "Discard all but top
\* level expression results" (parseStatementListItem).
ExprStatements == SelectSeq(script.main, LAMBDA s : s.k \in {"log", "call", "each"})
LeavesOnlyResults == status = "done" => sp <= Len(ExprStatements)
=============================================================================
