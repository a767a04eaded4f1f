------------------------------ MODULE HostView ------------------------------
(***************************************************************************)
(* What a script promises its host: it shows the host the values that the  *)
(* source text calls for, one by one and in order, and then ends the way   *)
(* the source text says, normally or with an uncaught exception.           *)
(***************************************************************************)
EXTENDS Integers, Sequences

VARIABLES
  expected,  \* the meaning of the script: values to show, how to end
  shown,     \* the values shown so far
  ended      \* "no" while the script runs, else how it ended

viewVars == <<expected, shown, ended>>

\* Any meaning will do; a run keeps the one it began with.
ViewInit == shown = <<>> /\ ended = "no"

Show == /\ ended = "no"
        /\ Len(shown) < Len(expected.out)
        /\ shown' = Append(shown, expected.out[Len(shown) + 1])
        /\ UNCHANGED <<expected, ended>>

End == /\ ended = "no"
       /\ shown = expected.out
       /\ ended' = expected.end
       /\ UNCHANGED <<expected, shown>>

ViewNext == Show \/ End

\* A script that is run gets to its end.
ViewSpec == ViewInit /\ [][ViewNext]_viewVars /\ WF_viewVars(ViewNext)
=============================================================================
