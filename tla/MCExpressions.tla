--------------------------- MODULE MCExpressions ---------------------------
(* All trees of a few operators, their leaves numbered from left to right.  *)
EXTENDS Expressions

CONSTANTS
  Unaries, Binaries,          \* the operators of expressions with two of them
  CoreUnaries, CoreBinaries   \* those of expressions with three: one of a kind

RECURSIVE Shapes(_, _, _), Leaves(_), Filled(_, _, _)
Leaf == Node("leaf", <<>>)
\* The trees with n operators
Shapes(n, unaries, binaries) ==
  IF n = 0 THEN {Leaf}
  ELSE LET smaller == [i \in 0 .. n - 1 |-> Shapes(i, unaries, binaries)]
           pairs == UNION {smaller[i] \X smaller[n - 1 - i] : i \in 0 .. n - 1}
           triples == UNION {smaller[i[1]] \X smaller[i[2]] \X smaller[n - 1 - i[1] - i[2]] :
                               i \in {j \in (0 .. n - 1) \X (0 .. n - 1) : j[1] + j[2] <= n - 1}}
       IN {Node(op, <<e>>) : op \in unaries, e \in smaller[n - 1]} \cup {Node(op, e) : op \in binaries, e \in pairs}
            \cup {Node("?:", e) : e \in triples}
Leaves(t) == IF t = Leaf THEN 1 ELSE FoldLeft(LAMBDA n, e : n + Leaves(e), 0, t.args)
\* t with the leaves from the k-th of a list
Filled(t, leaves, k) ==
  IF t = Leaf THEN Node(leaves[k], <<>>)
  ELSE [t EXCEPT !.args = [i \in DOMAIN t.args |->
          Filled(t.args[i], leaves, FoldLeft(LAMBDA n, e : n + Leaves(e), k, SubSeq(t.args, 1, i - 1)))]]
RECURSIVE IsValid(_)
IsValid(t) == /\ t.op \in Changes => IsReference(t.args[1])
              /\ t.op = "delete" => t.args[1].op \notin Names
              /\ \A i \in DOMAIN t.args : IsValid(t.args[i])
LeafLists == {<<"a", "b", "2", "a", "o.p", "b", "true">>, <<"o.p", "a", "a", "2", "b", "a", "a">>}
MCTrees == {t \in {Filled(s, l, 1) : s \in Shapes(2, Unaries, Binaries) \cup Shapes(3, CoreUnaries, CoreBinaries),
                                   l \in LeafLists} : IsValid(t)}

Memory(a, b, p, x0, x1) == [q \in Places |->
  CASE q = Variable("a") -> a [] q = Variable("b") -> b [] q = Property -> p [] q = Element(0) -> x0 [] OTHER -> x1]
\* The numbers are below and above the bits of a shift's count and of Half.
MCMemories == {Memory(Integer(7), Integer(-3), Integer(5), Integer(1), Integer(0)),
               Memory(Integer(0), Integer(1), Integer(131), Integer(-2), Boolean(TRUE))}
=============================================================================
