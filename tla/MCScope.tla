------------------------------- MODULE MCScope -------------------------------
(* One name that is read and one that only takes up slots, functions in    *)
(* functions up to four deep.                                              *)
EXTENDS Scope

CONSTANTS x, y, L
MCNames == {x, y}
MCReads == {x}
MCParams == {<<>>, <<x>>}
=============================================================================
