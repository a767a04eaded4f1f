------------------------------ MODULE MCArrays ------------------------------
(* The array that a script starts with, of two elements, and one that it   *)
(* makes, in four pieces of memory: two for the arrays, one that a walk    *)
(* still holds and one to grow into.                                       *)
EXTENDS Arrays

MCInitial == <<2, 1>>
\* An index past the end, and the largest int, is 7; make makes three elements.
MCIndices == {-3, -1, 1, 7}
=============================================================================
