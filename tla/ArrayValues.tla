----------------------------- MODULE ArrayValues -----------------------------
(* Arrays as a script is promised them: each is a sequence of values of its  *)
(* own, that its methods change as ECMAScript says, and so are those that    *)
(* its methods return.  Nothing is said of the memory behind an array, nor   *)
(* of what a callback sees of it.                                            *)
EXTENDS Integers, FiniteSets, SequencesExt

CONSTANTS Arrays, NotMade, Values, Undefined

VARIABLES value,     \* the elements of each array, NotMade before there is one
          collected, \* of each method that calls back, what callbacks had it keep
          result     \* what the last call returned: an element, a number, an array of
                     \* its own, or nothing

Nothing == <<"nothing">>
Element(v) == <<"element", v>>
Number(n) == <<"number", n>>
NewBy(method) == <<"array", method>>
Made(a) == value[a] # NotMade

-----------------------------------------------------------------------------
(* What ECMAScript makes of the arguments of a method: positions from 0.   *)

Relative(i, n) == IF i < 0 THEN (IF n + i < 0 THEN 0 ELSE n + i) ELSE IF i > n THEN n ELSE i
RelativeArg(args, k, n, default) == IF Len(args) < k THEN default ELSE Relative(args[k], n)
\* The positions that slice and fill are about
Between(args, n) == {i \in 0 .. n - 1 : RelativeArg(args, 1, n, 0) <= i /\ i < RelativeArg(args, 2, n, n)}
\* Those that splice removes
Removed(args, n) ==
  LET start == RelativeArg(args, 1, n, 0)
      count == CASE args = <<>> -> 0
                 [] Len(args) = 1 -> n - start
                 [] OTHER -> args[2]
  IN {i \in 0 .. n - 1 : start <= i /\ i < start + count}
\* The places of v from position from on; and up to it
Found(s, v, args) == {i \in 0 .. Len(s) - 1 : s[i + 1] = v /\ i >= RelativeArg(args, 1, Len(s), 0)}
FoundBackwards(s, v, args) ==
  {i \in 0 .. Len(s) - 1 :
     s[i + 1] = v /\ (args = <<>> \/ i <= args[1] - (IF args[1] < 0 THEN 0 - Len(s) ELSE 0))}

-----------------------------------------------------------------------------
(* Steps.                                                                  *)

Becomes(a, s, r) == result' = r /\ value' = [value EXCEPT ![a] = s]
Makes(r, s, method) == result' = NewBy(method) /\ ~Made(r) /\ value' = [value EXCEPT ![r] = s]

Pop(a) == IF value[a] = <<>> THEN Becomes(a, <<>>, Element(Undefined))
          ELSE Becomes(a, Front(value[a]), Element(Last(value[a])))
Shift(a) == IF value[a] = <<>> THEN Becomes(a, <<>>, Element(Undefined))
            ELSE Becomes(a, Tail(value[a]), Element(Head(value[a])))
Push(a, v) == Becomes(a, Append(value[a], v), Number(Len(value[a]) + 1))
Unshift(a, v) == Becomes(a, <<v>> \o value[a], Number(Len(value[a]) + 1))
Reversed(a) == Becomes(a, Reverse(value[a]), Nothing)
\* Each value is there as often as before, in the order of the values' strings
\* (a value is known by its place in it).
Sort(a) ==
  \E t \in [DOMAIN value[a] -> Values] :
    /\ Becomes(a, t, Nothing)
    /\ \A i, j \in DOMAIN t : i < j => t[i] <= t[j]
    /\ \A v \in Values :
         Cardinality({i \in DOMAIN t : t[i] = v}) = Cardinality({i \in DOMAIN t : value[a][i] = v})
Fill(a, v, from, to) ==
  Becomes(a, [i \in DOMAIN value[a] |-> IF from < i /\ i <= to THEN v ELSE value[a][i]], Nothing)
SetElement(a, i, v) ==
  Becomes(a, IF i < Len(value[a]) THEN [value[a] EXCEPT ![i + 1] = v] ELSE Append(value[a], v), Nothing)
\* What is removed is a new array.
Splice(a, r, from, to, added) ==
  /\ result' = NewBy("splice") /\ ~Made(r)
  /\ value' = [value EXCEPT ![r] = SubSeq(value[a], from + 1, to),
                            ![a] = SubSeq(value[a], 1, from) \o added \o SubSeq(value[a], to + 1, Len(value[a]))]

Change(a) ==
  \/ Pop(a) \/ Shift(a) \/ Reversed(a) \/ Sort(a)
  \/ \E v \in Values :
       \/ Push(a, v) \/ Unshift(a, v)
       \/ \E i \in 0 .. Len(value[a]) : SetElement(a, i, v)
       \/ \E to \in 0 .. Len(value[a]) : \E from \in 0 .. to : Fill(a, v, from, to)
New(r) ==
  \/ Makes(r, value'[r], "Array") /\ value'[r] \in Seq(Values)
  \/ \E a \in Arrays :
       /\ Made(a)
       /\ \/ \E to \in 0 .. Len(value[a]) : \E from \in 0 .. to :
               \/ Makes(r, SubSeq(value[a], from + 1, to), "slice")
               \/ \E added \in {<<>>} \cup {<<v>> : v \in Values} : Splice(a, r, from, to, added)
          \/ Makes(r, <<>>, "splice")
          \/ \E b \in Arrays : Made(b) /\ Makes(r, value[a] \o value[b], "concat")
          \/ \E v \in Values : Makes(r, Append(value[a], v), "concat")
\* Methods that call back begin, map and filter collect values, and they end:
\* with a new array of those, an element, a number, or an exception.
Walks ==
  \/ /\ collected' = Append(collected, <<>>)
     /\ UNCHANGED <<value, result>>
  \/ /\ collected # <<>>
     /\ \E v \in Values : collected' = [collected EXCEPT ![Len(collected)] = Append(@, v)]
     /\ UNCHANGED <<value, result>>
  \/ /\ collected # <<>> /\ collected' = Front(collected)
     /\ \/ \E r \in Arrays : \E method \in {"map", "filter"} : Makes(r, Last(collected), method)
        \/ /\ UNCHANGED value
           /\ \/ result' \in {result, Nothing} \cup {Element(v) : v \in Values}
              \/ result'[1] = "number"

Init == /\ \E a \in Arrays : /\ value[a] \in Seq(Values)
                             /\ \A b \in Arrays \ {a} : ~Made(b)
        /\ collected = <<>> /\ result = Nothing
Next == \/ \E a \in Arrays : ((Made(a) /\ Change(a)) \/ New(a)) /\ UNCHANGED collected
        \/ Walks
Spec == Init /\ [][Next]_<<value, collected, result>>
=============================================================================
