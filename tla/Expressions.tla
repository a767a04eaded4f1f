---------------------------- MODULE Expressions ----------------------------
(***************************************************************************)
(* The expression parser (expression.go): tokens to opcodes by binding     *)
(* powers, and the operations that the opcodes stand for (operations.go)   *)
(* on integers, with their widths.                                         *)
(***************************************************************************)
EXTENDS ExpressionMeaning, SequencesExt

CONSTANTS
  Trees,        \* the expressions
  Memories      \* what the places hold at first

VARIABLES
  tree,         \* the expression
  start, code,  \* what the places hold at first, the opcodes
  pc, stack, vars, log
fixed == <<tree, start, code>>
ExpressionVars == <<fixed, pc, stack, vars, log>>

-----------------------------------------------------------------------------
(* The parser: a record of the place in the tokens, the code so far and    *)
(* the type of the expression just parsed, which tells what is not yet in  *)
(* the code: a literal, a name, or how to read or assign a reference.      *)

Token(p) == IF p.at <= Len(p.tokens) THEN p.tokens[p.at] ELSE "EOF"
Lex(p) == [p EXCEPT !.at = @ + 1]
Parsed(p, type, identifier) == IF p.type = "error" THEN p ELSE [p EXCEPT !.type = type, !.identifier = identifier]
Value(p) == Parsed(p, "value", "")
Error(p) == Parsed(p, "error", "")
Expect(p, token) == IF Token(p) = token THEN Lex(p) ELSE Error(p)
pushOpCode(p, op, data) == IF p.type = "error" THEN p ELSE [p EXCEPT !.code = Append(@, [op |-> op, data |-> data])]
pushEvalExpression(p) ==
  CASE p.type = "literal" -> pushOpCode(p, "PushLiteral", p.identifier)
    [] p.type = "identifier" -> pushOpCode(p, "LoadVariable", p.identifier)
    [] p.type = "global" -> pushOpCode(p, "LoadGlobal", p.identifier)
    [] p.type = "array" -> pushOpCode(p, "GetElement", "")
    [] p.type = "member" -> pushOpCode(p, "GetProperty", p.identifier)
    [] p.type \in {"value", "error"} -> p
\* The address of the next opcode, and a jump at an address that goes there
Here(p) == Len(p.code)
Land(p, at) == IF p.type = "error" THEN p ELSE [p EXCEPT !.code[at + 1].data = Len(p.code)]

Unary == {"-", "+", "!", "~"}
Identifiers == Names \cup {"x", "o", "m", "p"}
HasNud(t) == t \in Unary \cup DOMAIN Literals \cup Identifiers \cup {"f", "(", "delete", "++"}
HasLed(t) == t \in Binary \cup {"(", "[", ".", "++", "&&", "||", "?", "=", ","}
lbp(t) == CASE t \in {"(", "[", "."} -> 85 [] t = "++" -> 75 [] t \in {"!", "~", "delete"} -> 70
            [] t \in {"*", "%"} -> 60 [] t \in {"+", "-"} -> 50 [] t \in Shifts -> 47 [] t \in Comparisons -> 45
            [] t \in Equalities -> 40 [] t = "&" -> 38 [] t = "^" -> 37 [] t = "|" -> 36 [] t = "&&" -> 35
            [] t = "||" -> 30 [] t = "?" -> 20 [] t = "=" -> 10 [] t = "," -> 5 [] OTHER -> 0
NoComma == 6

RECURSIVE parseExpression(_, _), completeExpression(_, _), Arguments(_, _), VarList(_)
Operand(p, rbp) == pushEvalExpression(parseExpression(p, rbp))

identifierNud(p, name) == IF name = "f" THEN Parsed(p, "global", name) ELSE Parsed(p, "identifier", name)
unaryNud(p, t) == Value(pushOpCode(Operand(p, lbp(t)), "Unary", t))
deleteNud(p) ==
  LET e == parseExpression(p, 70)
      popped == pushOpCode(pushOpCode(pushEvalExpression(e), "Pop", ""), "PushLiteral", "true")
  IN CASE e.type = "member" -> Value(pushOpCode(e, "DeleteProperty", e.identifier))
       [] e.type = "array" -> Value(pushOpCode(e, "DeleteElement", ""))
       [] OTHER -> Value(popped)
Increment(e, op) == CASE e.type \in {"identifier", "member"} -> Value(pushOpCode(e, op, <<e.type, e.identifier>>))
                      [] e.type = "array" -> Value(pushOpCode(e, op, <<e.type>>))
                      [] OTHER -> Error(e)
\* The names of a list, up to its closing parenthesis: all but the last are read.
VarList(p) ==
  LET name == Token(p)
      next == Lex(p)
      read == pushOpCode(pushEvalExpression(identifierNud(next, name)), "Pop", "")
  IN CASE ~(name \in Identifiers \cup {"f"}) -> Error(p)
       [] Token(next) = "," -> VarList(Lex(read))
       [] OTHER -> identifierNud(Expect(next, ")"), name)
parenNud(p) ==
  LET name == Token(p)
      next == Lex(p)
      grouped == IF name \in Identifiers \cup {"f"} THEN completeExpression(identifierNud(next, name), 0)
                 ELSE parseExpression(p, 0)
  IN IF name \in Identifiers \cup {"f"} /\ Token(next) \in {",", ")"} THEN VarList(p) ELSE Expect(grouped, ")")
nud(p, t) ==
  CASE t \in DOMAIN Literals -> Parsed(p, "literal", t)
    [] t \in Identifiers \cup {"f"} -> identifierNud(p, t)
    [] t = "(" -> parenNud(p)
    [] t = "delete" -> deleteNud(p)
    [] t = "++" -> Increment(parseExpression(p, 84), "PreIncrement")
    [] OTHER -> unaryNud(p, t)

assignmentLed(p) ==
  LET right == Operand(p, lbp("=") - 1)
  IN CASE p.type = "identifier" -> Value(pushOpCode(right, "StoreVariableKeep", p.identifier))
       [] p.type = "array" -> Value(pushOpCode(right, "SetElement", ""))
       [] p.type = "member" -> Value(pushOpCode(right, "SetProperty", p.identifier))
       [] OTHER -> Error(p)
\* a && b and a || b: jump over b, or drop the value of a
logicalLed(p, t) ==
  LET left == pushEvalExpression(p)
      jump == pushOpCode(left, IF t = "&&" THEN "JumpIfFalseOrPop" ELSE "JumpIfTrueOrPop", 0)
  IN Value(Land(Operand(jump, lbp(t)), Here(left)))
ternaryLed(p) ==
  LET condition == pushEvalExpression(p)
      then == Operand(pushOpCode(condition, "JumpIfFalse", 0), 0)
      jump == Land(pushOpCode(then, "Jump", 0), Here(condition))
      else == Operand(Expect(jump, ":"), lbp("?"))
  IN Value(Land(else, Here(then)))
\* A variant of infixLed: the right operand may begin with the same operator.
AssociatesRight(p, t) == Value(pushOpCode(Operand(pushEvalExpression(p), lbp(t) - 1), "Binary", t))
infixLed(p, t) == Value(pushOpCode(Operand(pushEvalExpression(p), lbp(t)), "Binary", t))
\* A variant of commaLed: the left value stays.
KeepsLeft(p) == Value(Operand(pushEvalExpression(p), lbp(",")))
commaLed(p) == Value(Operand(pushOpCode(pushEvalExpression(p), "Pop", ""), lbp(",")))
elementAccessLed(p) == Parsed(Expect(Operand(pushEvalExpression(p), 0), "]"), "array", "")
memberAccessLed(p) ==
  LET target == pushEvalExpression(p)
  IN IF Token(p) \in Identifiers THEN Parsed(Lex(target), "member", Token(p)) ELSE Error(p)
\* [p, count]: the arguments up to the closing parenthesis
Arguments(p, count) ==
  LET next == Operand(p, NoComma)
  IN CASE Token(p) = ")" /\ count = 0 -> [p |-> Lex(p), count |-> 0]
       [] Token(p) # ")" /\ Token(next) = "," -> Arguments(Lex(next), count + 1)
       [] OTHER -> [p |-> Expect(next, ")"), count |-> count + 1]
callLed(p) ==
  LET method == pushOpCode(pushOpCode(p, "Dup", ""), "GetProperty", p.identifier)
      args == Arguments(IF p.type = "member" THEN method ELSE pushEvalExpression(p), 0)
  IN Value(pushOpCode(args.p, IF p.type = "member" THEN "MethodCall" ELSE "Call", args.count))
led(p, t) ==
  CASE t = "=" -> assignmentLed(p)
    [] t \in {"&&", "||"} -> logicalLed(p, t)
    [] t = "?" -> ternaryLed(p)
    [] t = "," -> commaLed(p)
    [] t = "[" -> elementAccessLed(p)
    [] t = "." -> memberAccessLed(p)
    [] t = "(" -> callLed(p)
    [] t = "++" -> Increment(p, "PostIncrement")
    [] t \in Binary -> infixLed(p, t)

parseExpression(p, rbp) ==
  IF p.type = "error" \/ ~HasNud(Token(p)) THEN Error(p) ELSE completeExpression(nud(Lex(p), Token(p)), rbp)
completeExpression(p, rbp) ==
  IF p.type # "error" /\ HasLed(Token(p)) /\ rbp < lbp(Token(p))
  THEN completeExpression(led(Lex(p), Token(p)), rbp) ELSE p
Parse(tokens) == Operand([tokens |-> tokens, at |-> 1, code |-> <<>>, type |-> "value", identifier |-> ""], 0)
\* parseExpression(0) of a statement, which goes on to its end
Compile(tokens) == LET p == Parse(tokens) IN IF Token(p) = "EOF" THEN p ELSE Error(p)

-----------------------------------------------------------------------------
(* The operations, on integers of Word bits with Half for shifts.  NaN is  *)
(* the one floating point number here; which integer it is converted to is *)
(* up to the processor.                                                    *)

NaN == Of("number", 0)
Object == Of("object", 0)
Function == Of("function", 0)
Conversions == {0, -(2 ^ (Word - 1))}
Converted(v, nan) == CASE v.type = "integer" -> v.n [] v.type = "number" -> nan [] OTHER -> 0
Wrapped(n) == Integer(Signed(n, Word))
IsNumeric(v) == v.type \in {"integer", "number"}

ArithmeticOf(op, v, w) ==
  CASE ~(IsNumeric(v) /\ IsNumeric(w)) \/ (op = "%" /\ w = Integer(0)) -> Undefined
    [] NaN \in {v, w} -> NaN
    [] OTHER -> Wrapped(CASE op = "+" -> v.n + w.n [] op = "-" -> v.n - w.n [] op = "*" -> v.n * w.n
                          [] op = "%" -> Remainder(v.n, w.n))
ShiftOf(op, m, n) ==
  LET count == Unsigned(n, Half) % Half
  IN Integer(CASE op = "<<" -> Signed(Signed(m, Half) * 2 ^ count, Half)
               [] op = ">>" -> Signed(m, Half) \div 2 ^ count
               [] op = ">>>" -> Unsigned(m, Half) \div 2 ^ count)
BitsOf(op, m, n) ==
  LET l == Unsigned(m, Word)
      r == Unsigned(n, Word)
  IN Wrapped(CASE op = "&" -> l & r [] op = "|" -> l | r [] op = "^" -> l ^^ r)
RelationOf(op, v, w) ==
  Boolean(v.type = "integer" /\ w.type = "integer" /\ (v.n < w.n \/ (op = "<=" /\ v.n = w.n)))
EqualityOf(op, v, w) ==
  LET equal == v = w /\ v # NaN /\ (op \in {"==", "!="} => v.type \notin {"object", "function"})
  IN Boolean(equal = (op \in {"==", "==="}))
BinaryOf(op, v, w, nan) ==
  CASE op \in Arithmetic -> ArithmeticOf(op, v, w)
    [] op \in Shifts -> ShiftOf(op, Converted(v, nan), Converted(w, nan))
    [] op \in BitOps -> BitsOf(op, Converted(v, nan), Converted(w, nan))
    [] op \in Comparisons -> RelationOf(op, v, w)
    [] op \in Equalities -> EqualityOf(op, v, w)
UnaryOf(op, v, nan) ==
  CASE op = "!" -> Boolean(~Truthy(v))
    [] op = "~" -> Integer(-Signed(Converted(v, nan), Half) - 1)
    [] v.type \in {"integer", "boolean"} -> IF op = "-" THEN Wrapped(-v.n) ELSE Integer(v.n)
    [] OTHER -> NaN
Incremented(v) == IF v.type = "integer" THEN Wrapped(v.n + 1) ELSE NaN

-----------------------------------------------------------------------------
(* Execution                                                               *)

Running == pc \in 0 .. Len(code) - 1
Op == code[pc + 1].op
Data == code[pc + 1].data
At(i) == stack[Len(stack) + 1 - i]  \* the i-th operand from the top
Rest(n) == SubSeq(stack, 1, Len(stack) - n)
Continue == pc' = pc + 1
Push(n, v) == stack' = Append(Rest(n), v) /\ Continue /\ UNCHANGED <<fixed, log>>
Gives(n, v) == Push(n, v) /\ UNCHANGED vars
Sets(n, place, v, result) == Push(n, result) /\ vars' = [vars EXCEPT ![place] = v]
\* An assignment outside of the array makes it longer or panics: the end here
Stops == pc' = -1 /\ UNCHANGED <<fixed, stack, vars, log>>

PushLiteralValue == Op = "PushLiteral" /\ Gives(0, Literals[Data])
LoadVariableOperation ==
  Op = "LoadVariable" /\ Gives(0, IF Data \in Names THEN vars[Variable(Data)] ELSE Object)
LoadGlobalOperation == Op = "LoadGlobal" /\ Gives(0, Function)
StoreVariableKeepOperation == Op = "StoreVariableKeep" /\ Sets(1, Variable(Data), At(1), At(1))
PopOperation == /\ Op = "Pop"
                /\ stack' = Rest(1) /\ Continue /\ UNCHANGED <<fixed, vars, log>>
DupOperation == Op = "Dup" /\ Gives(0, At(1))
UnaryOperation == Op = "Unary" /\ \E nan \in Conversions : Gives(1, UnaryOf(Data, At(1), nan))
BinaryOperation == Op = "Binary" /\ \E nan \in Conversions : Gives(2, BinaryOf(Data, At(2), At(1), nan))

Goto(address) == pc' = address /\ UNCHANGED <<fixed, vars, log>>
JumpOperation == Op = "Jump" /\ Goto(Data) /\ UNCHANGED stack
JumpIfFalseOperation == /\ Op = "JumpIfFalse"
                        /\ Goto(IF Truthy(At(1)) THEN pc + 1 ELSE Data)
                        /\ stack' = Rest(1)
JumpIfOrPopOperation ==
  /\ Op \in {"JumpIfFalseOrPop", "JumpIfTrueOrPop"}
  /\ LET jumps == Truthy(At(1)) = (Op = "JumpIfTrueOrPop")
     IN Goto(IF jumps THEN Data ELSE pc + 1) /\ stack' = IF jumps THEN stack ELSE Rest(1)

Index(i) == IF At(i).type = "integer" THEN At(i).n ELSE 0
GetElementOperation ==
  Op = "GetElement" /\ Gives(2, IF Index(1) \in Elements THEN vars[Element(Index(1))] ELSE Undefined)
SetElementOperation ==
  /\ Op = "SetElement"
  /\ IF Index(2) \in Elements THEN Sets(3, Element(Index(2)), At(1), At(1)) ELSE Stops
DeleteElementOperation ==
  /\ Op = "DeleteElement"
  /\ IF At(1).type = "integer" /\ At(1).n \in Elements
     THEN Sets(2, Element(At(1).n), Undefined, Boolean(TRUE)) ELSE Gives(2, Boolean(FALSE))
GetPropertyOperation == Op = "GetProperty" /\ Gives(1, IF Data = "p" THEN vars[Property] ELSE Function)
SetPropertyOperation == Op = "SetProperty" /\ Sets(2, Property, At(1), At(1))
DeletePropertyOperation == Op = "DeleteProperty" /\ Sets(1, Property, Undefined, Boolean(TRUE))
IncrementOperation ==
  /\ Op \in {"PreIncrement", "PostIncrement"}
  /\ LET place == CASE Data[1] = "identifier" -> Variable(Data[2])
                    [] Data[1] = "member" -> Property
                    [] Data[1] = "array" -> Element(Index(1))
         operands == CASE Data[1] = "identifier" -> 0 [] Data[1] = "member" -> 1 [] Data[1] = "array" -> 2
     IN IF place \in Places
        THEN Sets(operands, place, Incremented(vars[place]),
                  IF Op = "PreIncrement" THEN Incremented(vars[place]) ELSE vars[place])
        ELSE Stops

\* The functions f and o.m of the program take note of their arguments and
\* answer the first of them.
Calls(n, name, count) ==
  /\ stack' = Append(Rest(n), stack[Len(stack) - count + 1])
  /\ log' = Append(log, <<name, SubSeq(stack, Len(stack) - count + 1, Len(stack))>>)
  /\ Continue /\ UNCHANGED <<fixed, vars>>
CallOperation == Op = "Call" /\ Calls(Data + 1, "f", Data)
MethodCallOperation == Op = "MethodCall" /\ Calls(Data + 2, "m", Data)

ExpressionInit ==
  /\ tree \in Trees /\ start \in Memories
  /\ LET p == Compile(Written(tree, 1)) IN code = IF p.type = "error" THEN <<>> ELSE p.code
  /\ pc = 0 /\ stack = <<>> /\ vars = start /\ log = <<>>
ExpressionNext ==
  /\ Running
  /\ \/ PushLiteralValue \/ LoadVariableOperation \/ LoadGlobalOperation \/ StoreVariableKeepOperation
     \/ PopOperation \/ DupOperation \/ UnaryOperation \/ BinaryOperation
     \/ JumpOperation \/ JumpIfFalseOperation \/ JumpIfOrPopOperation
     \/ GetElementOperation \/ SetElementOperation \/ DeleteElementOperation
     \/ GetPropertyOperation \/ SetPropertyOperation \/ DeletePropertyOperation \/ IncrementOperation
     \/ CallOperation \/ MethodCallOperation
ExpressionSpec == ExpressionInit /\ [][ExpressionNext]_ExpressionVars /\ WF_ExpressionVars(ExpressionNext)

-----------------------------------------------------------------------------
(* Correctness.                                                            *)

Meant == Meaning(tree, [vars |-> start, log |-> <<>>, val |-> Undefined, ok |-> TRUE])

\* What an expression gives, what it changes and the calls it makes, in their
\* order, are those of its tree: the binding powers read the tokens as the
\* precedences of ECMAScript do, and operands and references are evaluated
\* from left to right (parseExpression and every nud and led).
EvaluatesAsWritten == (pc = Len(code) /\ Meant.ok) => /\ stack = <<Meant.val>>
                                                     /\ vars = Meant.vars /\ log = Meant.log
\* Whichever jumps are taken, an expression leaves one value, and it ends, even
\* where its meaning is not specified (logicalAndLed, logicalOrLed, ternaryLed).
LeavesOneValue == <>(pc = -1 \/ (pc = Len(code) /\ Len(stack) = 1))
=============================================================================
