-------------------------------- MODULE Scope --------------------------------
(***************************************************************************)
(* Variables as the parser sees them: blocks and their slots, functions    *)
(* within functions and what they capture, and the contexts that break and *)
(* continue refer to (parser.go; the declarations, loops and functions of  *)
(* statement.go; identifiers in expression.go).                            *)
(*                                                                         *)
(* The parser works in one pass, so that its state is that of the place it *)
(* has got to: an action is a token, or a few, that change it.  Statements *)
(* that the parser rejects leave no trace, they are actions not taken.     *)
(* Positions in lists count from 1, slots from 0 as in the code.           *)
(***************************************************************************)
EXTENDS Naturals, Sequences, FiniteSetsExt

CONSTANTS
  UserNames,     \* identifiers that scripts declare and use
  ParamLists,    \* parameter lists of functions
  Labels,        \* labels of loops and switches
  MaxFunctions,  \* bound: functions within each other, the main program included
  Reads,         \* the names among them that are read, perhaps also "this"
  MaxItems       \* bound: functions, statements, labels and variables around one place

ASSUME ParamsAssumption ==
  /\ ParamLists \subseteq Seq(UserNames)
  /\ \A ps \in ParamLists : \A i, j \in DOMAIN ps : ps[i] = ps[j] => i = j
ASSUME NamesAssumption ==
  "this" \notin UserNames /\ "arguments" \notin UserNames /\ Reads \subseteq UserNames \cup {"this"}

VARIABLES
  fns,    \* functions being parsed, the innermost last: saved parser contexts
  loops,  \* loopSwitchCtx: loops and switches around, the innermost last
  ref,    \* what the identifier, break or continue just read was resolved to
  far     \* history: has a variable been captured over more than one function

vars == <<fns, loops, ref, far>>

Names == UserNames \cup {"this", "arguments"}
Decls == {"var", "let", "const"}
NoLabel == "none"
NoRef == [kind |-> "none"]

\* A variable, and the block it is declared in: the block of a function, that
\* of an arrow function's body, of a block statement or of a for.  The while
\* and switch statements that are open in a block have no variables.
Variable == [slot : Nat, decl : Decls, initialized : BOOLEAN]
Absent == [decl |-> "none"]
BlockKinds == {"function", "body", "block", "for"}
Block == [kind : BlockKinds, variables : [Names -> Variable \cup {Absent}],
          slotBase : Nat, slotCount : Nat, open : Seq({"while", "switch"})]
Declares(block, n) == block.variables[n] # Absent
\* A captured variable: a slot of the function around, or a place in its captures
Capture == [name : Names, index : Nat, isCapture : BOOLEAN]
Function == [blocks : Seq(Block), captures : Seq(Capture), varCount : Nat]
LoopContext == [fn : Nat, label : Labels \cup {NoLabel}, isSwitch : BOOLEAN]

Depth == Len(fns)
Current == fns[Len(fns)]
Without(s) == SubSeq(s, 1, Len(s) - 1)
Last(s) == s[Len(s)]

-----------------------------------------------------------------------------
(* Blocks and slots.                                                       *)

EmptyBlock(kind, base) ==
  [kind |-> kind, variables |-> [n \in Names |-> Absent],
   slotBase |-> base, slotCount |-> 0, open |-> <<>>]
End(block) == block.slotBase + block.slotCount
\* A variant of newBlock: the slots of a block start where those of the block around start.
FromTheSameBase(f, kind) == EmptyBlock(kind, Last(f.blocks).slotBase)
newBlock(f, kind) == EmptyBlock(kind, End(Last(f.blocks)))
WithBlock(f, kind) == [f EXCEPT !.blocks = Append(@, newBlock(f, kind))]
WithoutBlock(f) == [f EXCEPT !.blocks = Without(@)]

\* May n be declared in block b?  Only a var may be declared again.
MayDefine(f, b, n, decl) ==
  Declares(f.blocks[b], n) => decl = "var" /\ f.blocks[b].variables[n].decl = "var"

\* A variant of defineVariable: the slots of the block alone are counted.
CountsOneBlock(f, b, n, decl, init) ==
  IF Declares(f.blocks[b], n) THEN f
  ELSE [f EXCEPT !.blocks[b].variables[n] = [slot |-> End(f.blocks[b]), decl |-> decl, initialized |-> init],
                 !.blocks[b].slotCount = @ + 1,
                 !.varCount = IF f.blocks[b].slotCount + 1 > @ THEN f.blocks[b].slotCount + 1 ELSE @]

defineVariable(f, b, n, decl, init) ==
  LET block == f.blocks[b]
      new == [slot |-> End(block), decl |-> decl, initialized |-> init]
  IN IF Declares(block, n) THEN f
     ELSE [f EXCEPT !.blocks[b] = [block EXCEPT !.variables[n] = new, !.slotCount = @ + 1],
                    !.varCount = IF End(block) + 1 > @ THEN End(block) + 1 ELSE @]

Visible(f, n) == \E b \in DOMAIN f.blocks : Declares(f.blocks[b], n)
resolveVariable(f, n) ==
  LET b == CHOOSE c \in DOMAIN f.blocks :
             /\ Declares(f.blocks[c], n)
             /\ \A d \in DOMAIN f.blocks : Declares(f.blocks[d], n) => d <= c
  IN f.blocks[b].variables[n]

-----------------------------------------------------------------------------
(* Captures.                                                               *)

Captures(f, n) == \E i \in DOMAIN f.captures : f.captures[i].name = n
\* A name is captured at most once in a function.
CaptureIndex(f, n) == CHOOSE i \in DOMAIN f.captures : f.captures[i].name = n

\* A variant of Link: what f has captured is looked at before its variables.
CapturesFirst(f, n) ==
  IF Captures(f, n) THEN [name |-> n, index |-> CaptureIndex(f, n), isCapture |-> TRUE]
  ELSE [name |-> n, index |-> resolveVariable(f, n).slot, isCapture |-> FALSE]

\* The entry for n of a function that is made in f: n is a variable of f, or
\* one that f has captured
Link(f, n) ==
  IF Visible(f, n) THEN [name |-> n, index |-> resolveVariable(f, n).slot, isCapture |-> FALSE]
  ELSE [name |-> n, index |-> CaptureIndex(f, n), isCapture |-> TRUE]

\* Functions around the current one in which n is a variable, or captured
Outer(n) == {d \in 1 .. Depth - 1 : Visible(fns[d], n) \/ Captures(fns[d], n)}
IsNearest(n, d) == \A e \in Outer(n) : e <= d

\* A variant of WithCapture: the index is that of the last entry the function around had.
PassesTheLastEntry(n, d) ==
  LET parent == fns[Depth - 1]
  IN IF d = Depth - 1
     THEN [fns EXCEPT ![Depth].captures = Append(@, Link(parent, n))]
     ELSE [fns EXCEPT ![Depth - 1].captures = Append(@, Link(fns[d], n)),
                      ![Depth].captures =
                        Append(@, [name |-> n, index |-> Len(parent.captures), isCapture |-> TRUE])]

\* The entry goes to the current function if n is of the function just around
\* it.  Otherwise cascadeCapture gives that entry to the function around, and
\* the current function captures it from there.
WithCapture(n, d) ==
  LET link == Link(fns[d], n)
      parent == fns[Depth - 1]
      passed == [name |-> n, index |-> Len(parent.captures) + 1, isCapture |-> TRUE]
  IN IF d = Depth - 1
     THEN [fns EXCEPT ![Depth].captures = Append(@, link)]
     ELSE [fns EXCEPT ![Depth - 1].captures = Append(@, link),
                      ![Depth].captures = Append(@, passed)]

Refer(n, kind, index, parens) ==
  ref' = [kind |-> kind, name |-> n, index |-> index, parens |-> parens]

\* An identifier: a variable of the function, a captured one, or a global
LocalReference(n) ==
  /\ Visible(Current, n)
  /\ LET v == resolveVariable(Current, n)
     IN /\ v.initialized \/ v.decl = "var"
        /\ Refer(n, "local", v.slot, FALSE)
  /\ UNCHANGED <<fns, loops, far>>
CapturedReference(n) ==
  /\ ~Visible(Current, n) /\ Captures(Current, n)
  /\ Refer(n, "capture", CaptureIndex(Current, n), FALSE)
  /\ UNCHANGED <<fns, loops, far>>
resolveCapture(n) ==
  /\ ~Visible(Current, n) /\ ~Captures(Current, n)
  /\ \E d \in Outer(n) : /\ IsNearest(n, d)
                         /\ fns' = WithCapture(n, d)
                         /\ far' = (far \/ d < Depth - 2)
  /\ Refer(n, "capture", Len(Current.captures) + 1, FALSE)
  /\ UNCHANGED loops
GlobalReference(n) ==
  /\ ~Visible(Current, n) /\ ~Captures(Current, n) /\ Outer(n) = {}
  /\ Refer(n, "global", 0, FALSE)
  /\ UNCHANGED <<fns, loops, far>>
\* (n), which looks at the function's own variables only
ParenthesizedGlobal(n) ==
  /\ ~Visible(Current, n)
  /\ Refer(n, "global", 0, TRUE)
  /\ UNCHANGED <<fns, loops, far>>

identifierNud == \E n \in Reads :
                   LocalReference(n) \/ CapturedReference(n) \/ resolveCapture(n) \/ GlobalReference(n)
parenNud == \E n \in Reads \ {"this"} : ParenthesizedGlobal(n)

-----------------------------------------------------------------------------
(* Declarations and blocks.                                                *)

Changed(f) == fns' = [fns EXCEPT ![Depth] = f]
Open(f, kind) == [f EXCEPT !.blocks[Len(f.blocks)].open = Append(@, kind)]
Quiet == ref' = NoRef /\ UNCHANGED far

\* Bounds what is around a place in a script
Items(f) ==
  1 + MapThenSumSet(LAMBDA b : f.blocks[b].slotCount + Len(f.blocks[b].open)
                               + IF f.blocks[b].kind \in {"block", "for"} THEN 1 ELSE 0,
                    DOMAIN f.blocks)
    - IF Declares(f.blocks[1], "this") THEN 2 ELSE 0
HasRoomFor(k) ==
  MapThenSumSet(LAMBDA d : Items(fns[d]), DOMAIN fns)
    + Len(SelectSeq(loops, LAMBDA c : c.label # NoLabel)) + k <= MaxItems
HasRoom == HasRoomFor(1)

\* var goes to the function's block, let and const to the innermost one; a const
\* is here a let with an initializer
parseVariableDeclaration ==
  \E n \in UserNames, decl \in {"var", "let"}, init \in BOOLEAN :
    LET b == IF decl = "var" THEN 1 ELSE Len(Current.blocks)
    IN /\ MayDefine(Current, b, n, decl)
       /\ HasRoom
       /\ Changed(defineVariable(Current, b, n, decl, init \/ decl = "var"))
       /\ Quiet /\ UNCHANGED loops

parseBlockStatement ==
  /\ HasRoom
  /\ Changed(WithBlock(Current, "block"))
  /\ Quiet /\ UNCHANGED loops

\* catch (n) { ... }, whose block holds n
parseCatchClause ==
  /\ HasRoomFor(2)
  /\ \E n \in UserNames :
       LET f == WithBlock(Current, "block")
       IN Changed(defineVariable(f, Len(f.blocks), n, "let", TRUE))
  /\ Quiet /\ UNCHANGED loops

pushLoopSwitchContext(isSwitch) ==
  \E label \in Labels \cup {NoLabel} :
    /\ label # NoLabel => HasRoomFor(2)
    /\ loops' = Append(loops, [fn |-> Depth, label |-> label, isSwitch |-> isSwitch])

parseWhileStatement == /\ HasRoom /\ Changed(Open(Current, "while"))
                       /\ pushLoopSwitchContext(FALSE) /\ Quiet
parseSwitchStatement == /\ HasRoom /\ Changed(Open(Current, "switch"))
                        /\ pushLoopSwitchContext(TRUE) /\ Quiet
\* for (let n ...): a var, too, is declared in the block of the for
parseForStatement ==
  /\ HasRoomFor(2)
  /\ \E n \in UserNames, decl \in {"var", "let"} :
       LET f == WithBlock(Current, "for")
       IN Changed(defineVariable(f, Len(f.blocks), n, decl, TRUE))
  /\ pushLoopSwitchContext(FALSE) /\ Quiet

\* A variant of popLoopContext: the context stays if its statement was a switch.
SwitchContextStays == IF Last(loops).isSwitch THEN loops ELSE Without(loops)
popLoopContext == Without(loops)
\* The innermost statement ends: a while or a switch, or else a block, or the
\* for that it belongs to.
EndStatement ==
  LET block == Last(Current.blocks)
  IN /\ \/ /\ block.open # <<>>
           /\ Changed([Current EXCEPT !.blocks[Len(Current.blocks)].open = Without(@)])
           /\ loops' = popLoopContext
        \/ /\ block.open = <<>> /\ block.kind \in {"block", "for"}
           /\ Changed(WithoutBlock(Current))
           /\ loops' = IF block.kind = "for" THEN popLoopContext ELSE loops
     /\ Quiet

\* A variant of Target: continue does not pass switches over.
AnyContext(label, isContinue) == {i \in DOMAIN loops : label # NoLabel => loops[i].label = label}

\* A jump goes to the innermost context, or to that with its label; continue
\* passes switches over
Target(label, isContinue) ==
  {i \in DOMAIN loops : /\ label # NoLabel => loops[i].label = label
                        /\ isContinue => ~loops[i].isSwitch}
Jump(label, isContinue) ==
  LET targets == Target(label, isContinue)
  IN /\ targets # {}
     /\ \E i \in targets :
          /\ \A j \in targets : j <= i
          /\ ref' = [kind |-> "jump", label |-> label, isContinue |-> isContinue, index |-> i]
     /\ UNCHANGED <<fns, loops, far>>
parseBreakStatement == \E label \in Labels \cup {NoLabel} : Jump(label, FALSE)
parseContinueStatement == \E label \in Labels \cup {NoLabel} : Jump(label, TRUE)

-----------------------------------------------------------------------------
(* Functions.                                                              *)

\* The block of a new function: its parameters, then this and arguments
\* unless it is an arrow function
ParamSlot(ps, n) == (CHOOSE i \in DOMAIN ps : ps[i] = n) - 1
ParamNames(ps) == {ps[i] : i \in DOMAIN ps}
FunctionBlock(ps, isArrow) ==
  LET own == IF isArrow THEN {} ELSE {"this", "arguments"}
      slot(n) == IF n = "this" THEN Len(ps)
                 ELSE IF n = "arguments" THEN Len(ps) + 1 ELSE ParamSlot(ps, n)
  IN [kind |-> "function", open |-> <<>>, variables |->
        [n \in Names |->
           IF n \notin ParamNames(ps) \cup own THEN Absent
           ELSE [slot |-> slot(n), decl |-> IF n = "this" THEN "const" ELSE "var",
                 initialized |-> TRUE]],
      slotBase |-> 0,
      slotCount |-> Len(ps) + IF isArrow THEN 0 ELSE 2]
NewFunction(ps, isArrow) ==
  LET block == FunctionBlock(ps, isArrow)
  IN [blocks |-> <<block>>, captures |-> <<>>, varCount |-> block.slotCount]

\* Loop contexts stay: those around the function are seen from within.
parseFunctionDecl ==
  /\ Depth < MaxFunctions /\ HasRoom
  /\ \E ps \in ParamLists : fns' = Append(fns, NewFunction(ps, FALSE))
  /\ Quiet /\ UNCHANGED loops
\* (a, b) => { ... }, whose body is a block in the function's
parseArrowFunctionBody ==
  /\ Depth < MaxFunctions /\ HasRoom
  /\ \E ps \in ParamLists, hasBlock \in BOOLEAN :
       LET f == NewFunction(ps, TRUE)
       IN fns' = Append(fns, IF hasBlock THEN WithBlock(f, "body") ELSE f)
  /\ Quiet /\ UNCHANGED loops

\* A function statement declares its name once its body has been parsed.
restoreContext ==
  /\ Depth > 1 /\ Last(Current.blocks).open = <<>>
  /\ Last(Current.blocks).kind \in {"function", "body"}
  /\ \/ fns' = Without(fns)
     \/ LET outer == fns[Depth - 1]
        IN \E name \in UserNames :
             /\ MayDefine(outer, 1, name, "var")
             /\ fns' = [Without(fns) EXCEPT
                         ![Depth - 1] = defineVariable(outer, 1, name, "var", TRUE)]
  /\ Quiet /\ UNCHANGED loops

-----------------------------------------------------------------------------
MainProgram == [blocks |-> <<EmptyBlock("function", 0)>>, captures |-> <<>>, varCount |-> 0]
Init == fns = <<MainProgram>> /\ loops = <<>> /\ ref = NoRef /\ far = FALSE

Next == \/ identifierNud \/ parenNud
        \/ parseVariableDeclaration \/ parseBlockStatement \/ parseCatchClause
        \/ parseWhileStatement \/ parseSwitchStatement \/ parseForStatement
        \/ parseBreakStatement \/ parseContinueStatement \/ EndStatement
        \/ parseFunctionDecl \/ parseArrowFunctionBody \/ restoreContext
Spec == Init /\ [][Next]_vars

-----------------------------------------------------------------------------
(* Correctness.                                                            *)

SlotOf(f, b, n) == f.blocks[b].variables[n].slot
BlocksOK(f) ==
  /\ f.blocks # <<>>
  /\ \A b \in DOMAIN f.blocks : \A n \in Names : Declares(f.blocks[b], n) =>
       /\ SlotOf(f, b, n) \in f.blocks[b].slotBase .. End(f.blocks[b]) - 1
       /\ SlotOf(f, b, n) < f.varCount

\* Types; and every variable has a slot of its block that the function's frame
\* will have (VarCount).
TypeOK == /\ fns \in Seq(Function) /\ fns # <<>>
          /\ \A d \in DOMAIN fns : BlocksOK(fns[d])
          /\ loops \in Seq(LoopContext) /\ far \in BOOLEAN

\* A var or a function was declared past the blocks that are open: the block of
\* the function has grown into the slots of the block within it.
HoistedPast(f) == Len(f.blocks) > 1 /\ End(f.blocks[1]) > f.blocks[2].slotBase

\* Variables that are alive at the same place have different slots, unless a
\* declaration has been hoisted past an open block (defineVariable, newBlock).
OwnSlots(f) ==
  \A b, c \in DOMAIN f.blocks : \A n, m \in Names :
    /\ Declares(f.blocks[b], n) /\ Declares(f.blocks[c], m)
    /\ SlotOf(f, b, n) = SlotOf(f, c, m)
    => b = c /\ n = m
SlotsAreDistinct == \A d \in DOMAIN fns : HoistedPast(fns[d]) \/ OwnSlots(fns[d])

\* Without that exception: what a script that declares variables relies on
\* (parseVariableDeclaration: "Var hoists to function, let/const stay").
VariablesHaveTheirOwnSlots == \A d \in DOMAIN fns : OwnSlots(fns[d])

\* What a function captures is, in the function around it, the variable of the
\* same name, or an entry for that name when it has no such variable. This is
\* about scripts that have not captured a variable directly over two or more
\* functions (far): the entry that cascadeCapture then makes in the function
\* around has the slot of a function further out, and no other has one.
LinkOK(f, c) ==
  IF c.isCapture THEN /\ ~Visible(f, c.name) /\ c.index \in DOMAIN f.captures
                      /\ f.captures[c.index].name = c.name
                 ELSE Visible(f, c.name) /\ resolveVariable(f, c.name).slot = c.index
LinksAgree ==
  far \/ \A d \in DOMAIN fns : \A i \in DOMAIN fns[d].captures :
           d > 1 /\ LinkOK(fns[d - 1], fns[d].captures[i])

\* The variable that a name means by the rules of lexical scoping: that of the
\* innermost function and block that declares it
Declarations(fs, n) ==
  UNION {{<<d, b>> : b \in {c \in DOMAIN fs[d].blocks : Declares(fs[d].blocks[c], n)}}
         : d \in DOMAIN fs}
Lexical(fs, n) ==
  LET declared == Declarations(fs, n)
      within == CHOOSE p \in declared :
                  \A q \in declared : q[1] < p[1] \/ (q[1] = p[1] /\ q[2] <= p[2])
  IN <<within[1], SlotOf(fs[within[1]], within[2], n)>>
\* From function to function, entry i of the captures of d leads at run time to
\* a slot of function e: path has the entry of each function on the way.
LeadsTo(fs, d, i, e, slot) ==
  \E path \in [e + 1 .. d -> UNION {DOMAIN fs[f].captures : f \in e + 1 .. d}] :
    /\ e < d /\ path[d] = i
    /\ \A f \in e + 1 .. d :
         /\ path[f] \in DOMAIN fs[f].captures
         /\ LET c == fs[f].captures[path[f]]
            IN IF f = e + 1 THEN ~c.isCapture /\ c.index = slot
                            ELSE c.isCapture /\ c.index = path[f - 1]

\* A name means the variable that it means lexically, of the function itself, the
\* one around it or the next, or of one further out that the functions between
\* have captured one after the other; it is a global when none around declares
\* it. Two kinds of names are left out. One in parentheses is looked up among
\* the locals only (parens: parenNud). And once a script has captured a variable
\* directly over two or more functions, only the innermost of these has an entry
\* for it, with the slot of the declaring function (far: cascadeCapture), so that
\* nothing is said of the names of that script from there on
\* (identifierNud, resolveCapture).
ReferencesAreLexical ==
  (ref.kind \in {"local", "capture", "global"} /\ ~far) => ref.parens \/
    LET meant == Lexical(fns, ref.name)
    IN IF Declarations(fns, ref.name) = {} THEN ref.kind = "global"
       ELSE \/ ref.kind = "local" /\ meant = <<Depth, ref.index>>
            \/ ref.kind = "capture" /\ LeadsTo(fns, Depth, ref.index, meant[1], meant[2])

\* A break or continue without a label leaves a statement of its own function
\* exactly when one is open there that it can leave. If there is none, the code
\* does not refuse it but takes one of a function around, which the property
\* allows (popLoopContext, parseBreakStatement, parseContinueStatement).
CanBeLeft(block, isContinue) ==
  \/ block.kind = "for"
  \/ \E i \in DOMAIN block.open : block.open[i] = "while" \/ ~isContinue
JumpsAreLocal ==
  (ref.kind = "jump" /\ ref.label = NoLabel) =>
    (loops[ref.index].fn = Depth
       <=> \E b \in DOMAIN Current.blocks : CanBeLeft(Current.blocks[b], ref.isContinue))

\* The loops and switches that are open in a block, in the order they were
\* started; a for, whose block it is, is number 0.
OpenIn(block) == (IF block.kind = "for" THEN 0 ELSE 1) .. Len(block.open)
OpenStatements(fs) ==
  UNION {UNION {{<<d, b, i>> : i \in OpenIn(fs[d].blocks[b])} : b \in DOMAIN fs[d].blocks}
         : d \in DOMAIN fs}
Within(p, q) == \* q was started after p
  \/ p[1] < q[1]
  \/ p[1] = q[1] /\ (p[2] < q[2] \/ (p[2] = q[2] /\ p[3] < q[3]))
IsSwitch(fs, p) == p[3] > 0 /\ fs[p[1]].blocks[p[2]].open[p[3]] = "switch"

\* Contexts cs are those of the open statements of functions fs, in their order.
Matches(cs, fs) ==
  \E place \in [DOMAIN cs -> OpenStatements(fs)] :
    /\ \A p \in OpenStatements(fs) : \E i \in DOMAIN cs : place[i] = p
    /\ \A i, j \in DOMAIN cs : i < j => Within(place[i], place[j])
    /\ \A i \in DOMAIN cs : /\ cs[i].fn = place[i][1]
                            /\ cs[i].isSwitch = IsSwitch(fs, place[i])

\* The loop and switch contexts are those of the statements that are open, one
\* for each, in the same order, of the same function and kind
\* (pushLoopSwitchContext, popLoopContext).
ContextsMatchStatements == Matches(loops, fns)
=============================================================================
