----------------------------- MODULE MCContexts -----------------------------
(* Two goroutines and three contexts, so that both goroutines can clone a  *)
(* context that one of them has filled, and change their clones.           *)
EXTENDS Contexts, TLC

CONSTANTS g, h, core, a, b, k, v
MCGoroutines == {g, h}
MCContexts == {core, a, b}
Symmetric == Permutations(MCGoroutines) \cup Permutations(MCContexts)
=============================================================================
