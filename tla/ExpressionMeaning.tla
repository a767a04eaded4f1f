------------------------- MODULE ExpressionMeaning -------------------------
(***************************************************************************)
(* Expressions of ECMAScript, how they are written and what they mean: the *)
(* reference that the expression parser and the operations are compared    *)
(* with.  A meaning is unspecified here where this engine is documented to *)
(* differ: a result that is not an integer of its 64 bits, and arithmetic, *)
(* comparisons and equality of operands that would have to be converted.   *)
(***************************************************************************)
EXTENDS Integers, Sequences, Bitwise

CONSTANTS
  Word, Half,   \* the bits of an integer (64) and of a shift's operand (32)
  Elements,     \* the indices of the array x
  Careful       \* whether signs and conditionals in operands get parentheses

ASSUME WidthAssumption == Word > Half /\ Half > 0

Of(type, n) == [type |-> type, n |-> n]
Integer(n) == Of("integer", n)
Boolean(b) == Of("boolean", IF b THEN 1 ELSE 0)
Undefined == Of("undefined", 0)
Unspecified == Of("unspecified", 0)
Truthy(v) == v.n # 0 \/ v.type \in {"object", "function"}

Literals == [l \in {"2", "true"} |-> IF l = "2" THEN Integer(2) ELSE Boolean(TRUE)]
Names == {"a", "b"}
\* The places that expressions can change; p is the property of the object o.
Element(i) == <<"x", i>>
Property == <<"o", "p">>
Variable(n) == <<"variable", n>>
Places == {Variable(n) : n \in Names} \cup {Element(i) : i \in Elements} \cup {Property}

-----------------------------------------------------------------------------
(* Trees: an operator and its operands.  x[] is an element of x, f() and   *)
(* o.m() are calls, p++ and ++p the two increments.                        *)

Node(op, args) == [op |-> op, args |-> args]
Prefix == [op \in {"neg", "plus", "!", "~", "delete", "++p"} |->
             CASE op = "neg" -> "-" [] op = "plus" -> "+" [] op = "++p" -> "++" [] OTHER -> op]
Arithmetic == {"+", "-", "*", "%"}
Shifts == {"<<", ">>", ">>>"}
BitOps == {"&", "|", "^"}
Comparisons == {"<", "<="}
Equalities == {"==", "!=", "===", "!=="}
Binary == Arithmetic \cup Shifts \cup BitOps \cup Comparisons \cup Equalities
IsReference(t) == t.op \in Names \cup {"o.p", "x[]"}
Changes == {"=", "++p", "p++", "delete"}

\* The precedences of ECMAScript
Level(t) ==
  CASE t.op = "," -> 1 [] t.op = "=" -> 2 [] t.op = "?:" -> 3 [] t.op = "||" -> 4 [] t.op = "&&" -> 5
    [] t.op = "|" -> 6 [] t.op = "^" -> 7 [] t.op = "&" -> 8 [] t.op \in Equalities -> 9
    [] t.op \in Comparisons -> 10 [] t.op \in Shifts -> 11 [] t.op \in {"+", "-"} -> 12 [] t.op \in {"*", "%"} -> 13
    [] t.op \in {"neg", "plus"} -> IF Careful THEN 12 ELSE 14
    [] t.op \in DOMAIN Prefix \ {"neg", "plus"} -> 14 [] t.op = "p++" -> 15
    [] OTHER -> 16

RECURSIVE Parts(_)
Parts(t) == IF t.op = "," THEN Parts(t.args[1]) \o Parts(t.args[2]) ELSE <<t>>
\* A list that begins with a name, in parentheses, has to be a list of names
\* or else looks like the parameters of an arrow function.
LooksLikeParameters(t) == t.op = "," /\ Parts(t)[1].op \in Names /\ \E i \in DOMAIN Parts(t) : Parts(t)[i].op \notin Names
Grouped(t, body) == <<"(">> \o (IF Careful /\ LooksLikeParameters(t)
                                THEN <<"(", Head(body), ")">> \o Tail(body) ELSE body) \o <<")">>

RECURSIVE Written(_, _)
\* The tokens of t where an operator of the given level is required.
Written(t, level) ==
  LET arg(i, l) == Written(t.args[i], l)
      body == CASE t.args = <<>> -> IF t.op = "o.p" THEN <<"o", ".", "p">> ELSE <<t.op>>
                [] t.op \in DOMAIN Prefix -> <<Prefix[t.op]>> \o arg(1, 14)
                [] t.op = "p++" -> arg(1, 16) \o <<"++">>
                [] t.op = "x[]" -> <<"x", "[">> \o arg(1, 1) \o <<"]">>
                [] t.op = "f()" -> <<"f", "(">> \o arg(1, 2) \o <<")">>
                [] t.op = "o.m()" -> <<"o", ".", "m", "(">> \o arg(1, 2) \o <<",">> \o arg(2, 2) \o <<")">>
                [] t.op = "?:" -> arg(1, 4) \o <<"?">> \o arg(2, 2) \o <<":">> \o arg(3, IF Careful THEN 4 ELSE 2)
                [] t.op = "=" -> arg(1, 16) \o <<"=">> \o arg(2, 2)
                [] OTHER -> arg(1, Level(t)) \o <<t.op>> \o arg(2, Level(t) + 1)
  IN IF Level(t) < level THEN Grouped(t, body) ELSE body

-----------------------------------------------------------------------------
(* Meaning: the value, what is changed, and the calls made, left to right. *)
(* A state is [vars, log, val, ok]; ok says that all of it is specified.   *)

Fits(n) == -(2 ^ (Word - 1)) <= n /\ n < 2 ^ (Word - 1)
IsHalf(n) == -(2 ^ (Half - 1)) <= n /\ n < 2 ^ (Half - 1)
Unsigned(n, bits) == n % (2 ^ bits)
Signed(n, bits) == LET u == Unsigned(n, bits) IN IF u < 2 ^ (bits - 1) THEN u ELSE u - 2 ^ bits
Quotient(m, n) == LET q == (IF m < 0 THEN -m ELSE m) \div (IF n < 0 THEN -n ELSE n)
                  IN IF (m < 0) = (n < 0) THEN q ELSE -q
Remainder(m, n) == m - n * Quotient(m, n)

Calculated(op, m, n) ==
  CASE op = "+" -> m + n [] op = "-" -> m - n [] op = "*" -> m * n
    [] op = "%" -> Remainder(m, n)
    [] op = "<<" -> Signed(m * 2 ^ (n % Half), Half)
    [] op = ">>" -> Signed(m, Half) \div 2 ^ (n % Half)
    [] op = ">>>" -> Unsigned(m, Half) \div 2 ^ (n % Half)
    [] op = "&" -> Signed(Unsigned(m, Half) & Unsigned(n, Half), Half)
    [] op = "|" -> Signed(Unsigned(m, Half) | Unsigned(n, Half), Half)
    [] op = "^" -> Signed(Unsigned(m, Half) ^^ Unsigned(n, Half), Half)
BinaryMeaning(op, v, w) ==
  LET ints == v.type = "integer" /\ w.type = "integer"
  IN CASE op \in Equalities -> IF v.type # w.type /\ op \in {"==", "!="} THEN Unspecified
                               ELSE Boolean((v = w) = (op \in {"==", "==="}))
       [] ~ints -> Unspecified
       [] ints /\ op \in Comparisons -> Boolean(v.n < w.n \/ (op = "<=" /\ v.n = w.n))
       [] ints /\ op \in BitOps /\ ~(IsHalf(v.n) /\ IsHalf(w.n)) -> Unspecified
       [] ints /\ op = "%" /\ w.n = 0 -> Unspecified
       [] OTHER -> LET n == Calculated(op, v.n, w.n) IN IF Fits(n) THEN Integer(n) ELSE Unspecified
UnaryMeaning(op, v) ==
  CASE op = "!" -> Boolean(~Truthy(v))
    [] op = "plus" /\ v.type \in {"integer", "boolean"} -> Integer(v.n)
    [] op = "neg" /\ v.type \in {"integer", "boolean"} /\ Fits(-v.n) -> Integer(-v.n)
    [] op = "~" /\ v.type = "integer" -> Integer(-Signed(v.n, Half) - 1)
    [] OTHER -> Unspecified

Is(s, v) == [s EXCEPT !.val = v, !.ok = @ /\ v # Unspecified]
Changed(s, place, v) == IF place \in Places THEN [s EXCEPT !.vars[place] = v] ELSE Is(s, Unspecified)
ValueAt(s, place) == IF place \in Places THEN s.vars[place] ELSE Unspecified
PlaceOf(t, s) == CASE t.op = "o.p" -> Property
                   [] t.op = "x[]" -> IF s.val.type = "integer" THEN Element(s.val.n) ELSE <<>>
                   [] OTHER -> Variable(t.op)

RECURSIVE Meaning(_, _)
Meaning(t, s) ==
  LET one == Meaning(t.args[1], s)
      two == Meaning(t.args[2], one)
      \* the reference t.args[1], with the index of x evaluated
      ref == IF t.args[1].op = "x[]" THEN Meaning(t.args[1].args[1], s) ELSE s
      place == PlaceOf(t.args[1], ref)
      old == ValueAt(ref, place)
      new == IF old.type = "integer" /\ Fits(old.n + 1) THEN Integer(old.n + 1) ELSE Unspecified
      assigned == Meaning(t.args[2], ref)
  IN CASE t.op \in DOMAIN Literals -> Is(s, Literals[t.op])
       [] t.op = "x[]" -> Is(one, ValueAt(one, PlaceOf(t, one)))
       [] t.args = <<>> /\ t.op \notin DOMAIN Literals -> Is(s, ValueAt(s, PlaceOf(t, s)))
       [] t.op = "," -> two
       [] t.op = "&&" -> IF Truthy(one.val) THEN two ELSE one
       [] t.op = "||" -> IF Truthy(one.val) THEN one ELSE two
       [] t.op = "?:" -> IF Truthy(one.val) THEN two ELSE Meaning(t.args[3], one)
       [] t.op = "f()" -> [one EXCEPT !.log = Append(@, <<"f", <<one.val>>>>)]
       [] t.op = "o.m()" -> Is([two EXCEPT !.log = Append(@, <<"m", <<one.val, two.val>>>>)], one.val)
       [] t.op = "=" -> Changed(assigned, place, assigned.val)
       [] t.op = "++p" -> Changed(Is(ref, new), place, new)
       [] t.op = "p++" -> Is(Changed(Is(ref, new), place, new), old)
       [] t.op = "delete" -> Is(Changed(ref, place, Undefined), Boolean(TRUE))
       [] t.op \in Binary -> Is(two, BinaryMeaning(t.op, one.val, two.val))
       [] OTHER -> Is(one, UnaryMeaning(t.op, one.val))
=============================================================================
