# TLA+ verification of gescript

gescript is an embeddable ECMAScript-like script engine in Go: a parser turns
source text directly into an array of opcodes, and a stack machine (`Process`)
runs them, calling functions that the host program registers.  This directory
models the machine, the parser's code generation, scopes and expressions, the
contexts that goroutines share, and the array library; it checks with TLC that
compiled scripts do what their source text says, and proves with TLAPS what
holds of each part whatever its size.

Run a model with `tlc -config X.cfg M.tla`, a proof with `tlapm M.tla`; the
list of runs, properties, mapped source lines and findings is `PROJECT.json`.

## The system

| Part | Source | State | Operations |
| --- | --- | --- | --- |
| Script context | `gescript.go` | maps of globals, natives, constructors, shared by the scripts run with it and by `Clone` | `RegisterFunction`, `SetGlobal`, `GetFunction`, `RunWithContext`, `eval` |
| Parser: statements | `internal/parser/statement.go`, `parser.go` | opcodes so far, block scopes and slots, loop/switch contexts with jumps to patch, `blockDepth` | one function per statement form |
| Parser: expressions | `internal/parser/expression.go` | precedence table; the pending reference | nud/led functions of a Pratt parser |
| Parser: variables | `internal/parser/parser.go` | blocks, slots, captures per function | `defineVariable`, `resolveCapture`, `cascadeCapture` |
| Lexer | `internal/parser/lexer.go` | position in the text | `lex` |
| Machine | `internal/engine/engine.go` | `body`, `pc`, operand stack, locals, cells, closure, call frames, exception contexts, the exception, `finallyRethrow`, globals | `Exec`, `CallWithThis`, `handleException` |
| Operations | `internal/engine/operations.go` | that of the machine | about ninety `ExecFn` functions |
| Native library | `internal/native/*.go` | none of its own | methods of arrays, strings, numbers, objects, functions; some call back into the script |
| Values | `types/*.go` | none | conversions, `IsTruthy`, `StrictEquals`, JSON |

How they interact: `Parse` runs the parser over the text and yields a
`Function`; `RunWithContext` makes a new `Process` that shares the context's
maps and runs `Exec`.  A script function is called inside the running loop (a
frame is pushed, `pc` moves); a native function is a Go call, and one that takes
a callback (`forEach`, `map`, `call`, ...) re-enters the machine through
`CallWithThis`, which has a loop of its own on the same `Process`.  An
operation that raises an exception returns `ErrException`, and whichever loop
is innermost asks `handleException` for a handler.

What is hard here is not data but control: jump targets that are patched once a
statement has been read; one operand stack shared by expressions, iterations,
`switch` values and all active functions; one list of exception contexts, one
exception and one rethrow flag for all of them; and variables that live in a
slot until a closure moves them to a cell.  A test runs one script; what goes
wrong goes wrong for a combination of statements.  `PROJECT.json` lists the
hazards at the lines where they bite.

What makes each part correct:

- code generation: a compiled script shows the host exactly what the source
  text calls for, and ends as it says;
- operand stack: no operation finds it empty; a statement leaves nothing on it;
  a caller's operands survive its callees;
- exceptions: a handler runs in the function of its `try`, on the stack depth
  its `try` began with; `finally` always runs; a rethrown exception is the one
  that was on its way;
- variables: a captured variable is one variable for everybody who sees it;
- scopes: variables that are alive together have different slots; a name means
  the variable that lexical scoping says; a break finds the statement around it;
- expressions: the opcodes compute what the text says, in its order, and leave
  one value;
- native callbacks: a callback runs once per element and its caller goes on
  where it was;
- arrays: a method changes its array and no other, whatever memory they lie in;
  a callback that changes the array that is walked over sees current elements;
- context: scripts in several goroutines neither disturb each other nor race.

## Modules

| Module | Models |
| --- | --- |
| `Process` | the machine: `engine.go`, `operations.go`, and `forEach` of `native/array.go` |
| `Codegen` | code generation of the statement forms: `parser/statement.go`, and the calls and logical operators of `parser/expression.go` |
| `Semantics` | the meaning of syntax trees: the ECMAScript statement sections that the parser's comments name. It is the reference, not a translation |
| `HostView` | abstract specification: what a host sees of a script |
| `ScriptRun` | composition: `Parse` then `Run` of a script, next to its meaning, and the refinement of `HostView` |
| `Supported` | which scripts the code handles as ECMAScript says, one clause per construct it does not |
| `StackDiscipline` | balanced and bracketed code, whose exception contexts are whose (a history variable), and the inductive invariant of the operand stack |
| `ProcessProofs` | types of the machine, shared cells, the exception under way, proved |
| `StackDisciplineProofs` | that `Discipline` is inductive and what follows from it: underflows, callers' operands, panics; that calls keep to their own `try` blocks, which nest |
| `Scope` | the parser's variables: blocks, slots, captures, loop contexts, and the statements and identifiers that use them |
| `ScopeProofs` | types, distinct slots and capture lists, proved |
| `ReferencesProofs` | that names are lexical, and that loop contexts are those of the open statements, proved |
| `Expressions` | the Pratt parser of `parser/expression.go` and the operations of `engine/operations.go` on integers |
| `ExpressionMeaning` | expression trees, how ECMAScript writes them and what they mean: a reference, not a translation |
| `Contexts` | `gescript.go`: script contexts, the processes that run with them, goroutines |
| `IsolatedContexts` | abstract specification: contexts as stores of their own |
| `ContextsProofs` | absence of data races, proved |
| `IsolationProofs` | types, what scripts see of their context, and the refinement of `IsolatedContexts`, proved |
| `Arrays` | `native/array.go` and element assignment on Go slices, with callbacks |
| `ArrayValues` | abstract specification: arrays as sequences of values of their own |
| `ArraysProofs` | slices within their memory, memory not shared, where it panics, what callbacks see, proved |
| `ArrayValuesProofs` | the refinement of `ArrayValues`, and the clamps of arguments, proved |
| `MCScript`, `MCMachine`, `MCDiscipline`, `MCDivergence`, `MCCapture`, `MCScope`, `MCExpressions`, `MCContexts`, `MCArrays` | instances for TLC |

`ScriptRun` composes `Codegen`, `Process`, `Semantics` and `HostView`.  `Scope`,
`Expressions`, `Contexts` and `Arrays` stand on their own, as the code's parts do: what they
take from the machine is the result of an operation or a call.

### Process

One action is one turn of an execution loop: fetch the opcode at `pc`, run its
`ExecFn`, `pc++`.  Variables have the names of the fields of `Process`.  The
details that matter are kept: `stack` still holds what was popped (`Put`
overwrites, `sp` moves); jump targets are one less than where to go; a function
is entered with `pc = -1`, then `pc++`; a local is read through its cell if it
has one, but `++`, `for`-`in`/`of` and `catch` write the slot (as the code
does); `exceptionCtx`, `exception` and `finallyRethrow` belong to the process
and not to a frame; the return to a native frame restores neither `body` nor
`pc`.  `handleException` is a sequence of actions, one per turn of its loop
(`Catch`, `Finally`, `Uncaught`).  Errors that are not exceptions and Go panics
end the run with a `status` of their own (`underflow`, `typeerror`, `panic`):
a handler without its exception or slot, an iteration without its variable, and a
write to an array element before the first (`ElementPanic`, the end of `ArrayType.Set`)
panic.

A native iteration (`forEach`) is a Go activation on `goStack`: it enters the
callback through `CallWithThis`, and when that loop ends (`pc` out of range) it
calls back for the next element or returns to the operation that called it.

Cells are addresses in `heap`.  Address 1 is the package variable
`types.Undefined`, which a capture without a cell aliases.

Abstracted: values are a kind and a number (an array's length, an object's
number of keys, an integer), and the results of arithmetic, comparison
and conversion operators are any of a few values: control depends on them
through truthiness only.  What arrays and objects hold is not recorded: a
member access yields a scalar, undefined, or a value that some variable holds
(`Members`), functions included.  Strings, `null`, spread arguments, string iteration
and the stack's growth (`push` reallocates) are left out.  A bound function is
represented by its target.

### Codegen

`Gen(s, p, env)` is the code of a statement placed at address `p`; `env` is the
parser's state (next slot, slot of the visible variable, `blockDepth`).  Each
`parse...Statement` operator emits what the Go function of the same name emits,
in that order, with jumps patched as there: a `break` is an opcode of its own until
`popLoopContext` replaces it by a jump.  `Body` and `parseFunctionDecl` give a
function its slots for `this` and `arguments` and the appended `Return`.

A script of the model is `function f() { ... }` followed by a main program.
Labels, declarations and nested functions are in `Scope`, assignments and the
ternary in `Expressions`; `return` with a value is left out.

### Scope

The parser has one pass and no tree, so the state of the model is that of a
place in a script: `fns` are the parser contexts that `parseFunctionDecl` saves (block
chain, capture list, `VarCount`), `loops` is `loopSwitchCtx`, and `ref` is what the
identifier or jump just read was resolved to.  An action is a statement's head, its
end, a declaration or a reference.  Any sequence of them is the beginning of a script,
and the properties speak of the place that has been reached.

`WithCapture` is `cascadeCapture` as it is: it looks for the nearest function
around that has the name, and if that is not the one just around, gives the new
entry to the one just around and captures from there.  That is right
with one function between.  With more between, the entry that lands in the
function just around is an index into the captures of a function farther out;
the history variable `far` notes that this has happened, and `LinksAgree` and
`ReferencesAreLexical` make no claim from then on, for any name of the script.
`(n)` in parentheses is resolved among the function's own variables only
(`ParenthesizedGlobal`), and `ReferencesAreLexical` leaves such names out.

`while` and `switch` have no block, `for` has one.  Abstracted: the values of initializers,
`const` (a `let` with an initializer), `do` (a `while`), and `for`-`in`/`of` (a `for`).

### Expressions

A parser state is a record of the place in the tokens, the code and the type of
the expression just parsed (`PARSED_LITERAL`, `PARSED_IDENTIFIER`, ...): the parser
leaves a reference out of the code until it knows whether it is read, assigned,
called or deleted, and that is what is easy to get wrong.  Every nud and led has
its operator.  A run takes each token sequence through `Compile`, then
executes the code by the operations, one per step.

Integers have `Word` bits (64 in the code) and shift operands `Half` (32), and
wrap; which integer a NaN is converted to is up to the processor and
nondeterministic.  Names are variables, so that no global is looked up but
`f`; the functions `f` and `o.m` note their arguments, which shows the order
of evaluation.  Left out: strings, `null`, numbers other than NaN and the
integers (so `/` too), `typeof`, `in`, `instanceof`, literals of arrays and
objects, spread, decrements (like increments).

`ExpressionMeaning` says what a tree means and writes it down with the parentheses that
ECMAScript's precedences require.  It leaves a meaning unspecified where ECMAScript
would go on in floating point or convert operands, which the engine does not do; two thirds of
the trees and memories of the run have a meaning that is specified.  With
`Careful`, operands that are signs, conditionals in an else part, and lists that look like
parameters get parentheses too, because the parser reads them in another way
(see below).

### Contexts

Maps are known by the context that they were made for, slices of
constructors by an array and a length: `append` writes in place if there is
capacity.  A call begins with the memory that it will read and write and takes
effect with a second step, so that calls of goroutines overlap in every way;
what is only on a goroutine's own stack takes one step.  Goroutines keep to
the one discipline under which the code can work without locks: a context belongs to
the goroutine that made it, and once it is shared it is only cloned.
`IsolatedContexts` is what `Clone` promises; the refinement maps each context
to the contents of its maps and slice.

### Arrays

`Elements` is a window (memory, offset, length) onto allocated memory.  `pop`
and `shift` narrow it, `push` writes behind it or moves on to more memory, `fill`,
`reverse`, `sort` and assignments write through it, `splice` and `unshift`
replace it.  `NewArrayConstructor` (`Array(...)`) and `slice`, `concat`, `splice`, `map` and
`filter` make arrays.  A method that calls back is a walk: range methods keep the
window of their start, `reduce`, `reduceRight` and `for`-`of` look at the array
anew.  While a walk waits for its callback any method may be called on any
array, or another walk be started.  A Go panic is an outcome (`panicked`), which ends the
program.  Memory that nothing refers to is used again.  Values are their place in the order of their
strings, which `sort` sorts by; capacities grow as Go's `append` does for small slices.
Arguments are ints, of which `MaxInt` is the largest: the sum that `splice` forms of a position and
a count wraps around (`Wrapped`), `make` panics for a negative length and for one beyond
`MaxMake`.  The history variable of a walk, `moved`, notes that its array was spliced or has
another length; `collected` in the refinement is what `map` and `filter` have of their callbacks.

### Mutants

A few definitions are preceded by one commented "A variant".  These are
plausible slips in the code a definition stands for; each property that a run
checks is violated when the variant takes the definition's place, which shows
that the property is about that code.

## Runs

| Run | Shows | Bounds |
| --- | --- | --- |
| `scripts` | compiled scripts mean what they say and implement `HostView`, liveness included; stacks in order | all statements of depth three over a small set of leaves, times four bodies of `f`, that `Supported` admits (4784 scripts), times all answers of two questions |
| `machine` | types, and cells shared, over every operation | depth-two scripts whether supported or not, and small hand-made programs for closures, data and callbacks |
| `discipline` | the inductive invariant of the operand stack; calls leave exception contexts as they were | depth-three scripts, calls in `try` blocks included, but for those where a callee called in a `try` lets an exception escape |
| `scope` | slots, captures, references, jump targets | functions four deep, five items (functions, statements, labels, variables) around a place, one name that is read and one that takes up slots |
| `expressions` | opcodes compute what the text says; jumps leave one value | all 39,093 trees of two operators, or of three of different kinds, and two lists of leaves; two memories; 16-bit integers, 8-bit shifts |
| `contexts` | no races; scripts see their context; contexts are isolated | two goroutines, three contexts, two nested runs, two calls that change something, up to symmetry |
| `arrays` | methods mean what ECMAScript says; memory not shared; where it panics | two arrays of up to three elements in four pieces of memory, three values, one walk, three calls (in and out of callbacks); arguments -3, -1, 1 and 7, the largest int, and for `ArgumentsMeanPositions` all from -4 to 4 too; `make` makes up to three elements |
| the others | one disagreement of code and comments each | a handful of scripts, or the bounds of `scope` and `expressions` |

Why the bounds are enough.  Code generation is compositional: the code of a
statement depends on its parts only through their length, their unpatched jumps
and the slot and depth they start at.  Depth three has every statement form
directly within every other one and one more loop, `try` or `switch` around;
two answers let a condition be true and then false, so that every loop is left
at once and after a turn; answers run out as FALSE, so loops that ask end.
Iterations have two elements: first, next and last differ.  Four functions are
what a capture needs that is passed through functions between, with
another capture list made on the way; one name suffices because names only ever
interact through the slots and list entries they take up, which the second name
does.  Binding powers are compared pairwise, which two operators show in each
order, and three operators show an operand that ends between two of them.  Word
and half-word differ, and values are on both sides of either's sign and of a
shift count.  A race or a leak between contexts takes two goroutines and two
changes, one on each side of a clone; the third context is the one cloned.
A callback can disturb a walk by one method for the memory and one for the
length, before or after another element is visited, which is three calls.

`CHECK_DEADLOCK` stays on for the machine: a finished script stutters
(`Finished`), so a deadlock would be an opcode that no action handles.  It is off where
a run ends: an expression at the end of its code, arrays after `MaxCalls` or a panic,
contexts after `MaxChanges`.

Fairness: `FairRunSpec` assumes weak fairness of the machine's step.  `Exec` is
a loop on one goroutine that nothing else can hold up; host functions are
assumed to return.  `ExpressionSpec` assumes the same of its steps.  The other
specifications state no liveness: nothing there has to happen.

### Properties

- `MeansWhatItSays` (and `ImplementsHostView`): output and end of a run are those of
  `Semantics`.
- `EvaluatesAsWritten`: value, changes and calls of an expression are those of its
  tree; `LeavesOneValue`: it ends, with one value on the stack, by every path of jumps.
- `LeavesNoOperands`: after a script without a jump that skips a cleanup (a break out
  of `for`-`in`/`of` or `switch`, a continue out of `switch`), the
  stack holds the results of the top-level expression statements and nothing else.
- `NeverUnderflows`, `NeverPanics`: no operation finds the stack empty, no
  handler dereferences a missing exception or slot.
- `CallersKeepOperands`: operands below a frame's `sp` do not change while
  the frame is on the call stack.
- `PendingIsRethrown`: there is an exception exactly while a `finally` block
  runs that will rethrow it.
- `ContextsAreNested`: open `try` blocks are nested by stack depth, and none is
  open when the script is done.
- `CellsAreShared`: while a function runs, none of its variables gets a second cell.
- `TriesAreLocal`: no call takes off an exception context of its callers or leaves one
  of its own behind, whatever handlers run meanwhile.
- `Discipline`: see below.
- `SlotsAreDistinct`: variables alive at one place have different slots, unless a
  declaration has been hoisted past an open block.
- `LinksAgree`, `ReferencesAreLexical`: an entry of a capture list is the variable of
  that name in the function around; what a reference leads to at run time is the
  variable that the name means lexically.  Neither speaks of scripts in which a variable
  was captured over two or more functions at once, the second not of names in parentheses.
- `JumpsAreLocal`, `ContextsMatchStatements`: a break or continue leaves a
  statement of its own function if there is one; contexts are pushed and popped
  with their statements.  (If there is none, the code takes a loop around the function.)
- `NoRace`: no goroutine writes what another reads or writes at the same time.
- `ProcessesSeeTheirContext`, `ImplementsIsolation`: a script sees and changes its
  own context, and no other.
- `MemoryIsNotShared`, `ImplementsArrayValues`: two arrays have no memory in
  common; a method changes its array as ECMAScript says, leaves others alone, and the
  array that it returns has the elements that ECMAScript gives it.  The positions of
  `slice`, `fill` and `splice` are those that the code works out, which the next but one is about.
- `VisitsAreCurrent`: a callback is given the element the array has at that index,
  unless callbacks of the walk have changed its length or spliced it.  A splice that adds
  as many elements as it removes makes the array leave its memory too, and the walk goes on over the
  old one.
- `ArgumentsMeanPositions`: the clamps of `slice`, `fill`, `splice`, `indexOf`,
  `lastIndexOf` and `includes` against their definitions, for all ints but counts of
  `splice` that overflow when a position is added.
- `PanicsOnlyWhere`: the ways in which the array methods, element assignment and the
  constructor take the host down (listed below).
- `TypeOK`: types, and what is next to them: slots below `VarCount`, windows within
  memory, depths within the stack.

## Where code and comments disagree

`PROJECT.json` quotes the comments.

| Run | Shows |
| --- | --- |
| `handler_in_callee` | an exception leaving a function is handled at the caller's address in the callee's code (`handleException` does not unwind frames); the result may be a stack underflow |
| `callback_reruns` | the return of a callback starts the callback again |
| `captured_increment` | `++` of a captured variable is seen by nobody |
| `hoisted_slot` | a `var` or function declared in a block takes a slot of the block's own variables |
| `precedence` | a sign takes in the `*`, `/` and `%` that follow: `a % -b % 2` is `a % -(b % 2)` |

Other constructs that the code does not handle as ECMAScript says have no run of
their own; the models have them as they are, and what excludes them from a
property is named there:

- `Supported`: an exception thrown in `catch` skips `finally`; a `try` within a
  `finally` loses the exception under way; `break` and `continue` out of a
  `try` leave its context; `break` jumps past the cleanup of `for`-`in`/`of`
  and of `switch`, and so does `continue` out of a `switch`, so that operands stay, which an
  iteration around takes for its own; a `switch` that falls through runs into the next clause's
  comparison; `default` has to be last.
- `far` (`Scope`): a variable that is captured over two or more functions at once is looked up
  in the slots of the wrong function.  `parens` (`ReferencesAreLexical`): `(x)` in a closure is the
  global `x`.  A break in a function within a loop, when the function has none, jumps to the loop
  around (`JumpsAreLocal`).
- `Careful` (`ExpressionMeaning`): `a ? b : c ? d : e` is `(a ? b : c) ? d : e`;
  `(a, b + 1)` is taken for a parameter list.  Unspecified there: `==` of two objects is
  false, `&`, `|` and `^` are of 64 bits, division and conversion.
- `PanicsOnlyWhere` (`Arrays`): `splice` with one argument or with a count so large that it
  overflows, `slice` with an end before
  the array's start, assignment to a negative index, `Array(n)` with a negative or too large `n`,
  `reduceRight` with a callback that shortens the array.

## Proofs

What is proved holds for every value of the constants: all programs, names,
contexts, goroutines, arrays, values and bounds that satisfy the modules' named
assumptions.  A theorem and the run that checks its property on a small
instance are listed together in `PROJECT.json`.

### Process

`ProcessProofs` proves `TypeCorrect`: `Spec => []TypeOK`, for every set of programs that
satisfies `ProgramsAssumption` (opcode arguments are what the parser puts
there: slots within `VarCount`'s bound, functions of the program, names of
globals), every host input and every number of slots.  `TypeOK` is inductive by
itself once it says that the depths noted in frames and exception contexts are
not above what `prc.stack` still holds: that is why `sp` stays within the stack
when a return or a handler restores it.  It also says that no operand, local or
cell lacks a value, which other invariants need.  The proof has one lemma per group of
operations (`OperatorsType`, `VariablesType`, `CallsType`, ...), which rest on lemmas for a
push, a drop, a call and a turn of the loop.  `PushFunction` is the interesting
case: the heap grows, so all types grow (`TypesGrow`).

`CapturesShareCells` proves the action property `CellsAreShared` from `TypeOK`:
only `PushFunction`, calls and returns change cells, and the first only gives a cell
to a slot that has none.

`PendingIsKept` proves `PendingIsRethrown` under `FinallyIsQuiet`: no exception is
raised in a `finally` block while one is on its way.  Without it the property is
false of the code, which has one flag and one exception for all `finally` blocks
(`Supported` names that).  The invariant needs `OneException`: between the raise and
the handler the exception is there and the flag is not set.

### Operand stack and try blocks

`StackDisciplineProofs` proves four theorems from

    MarkedSpec /\ TriesAreLocal /\ []NoCallbacks

for every set of programs that satisfies `BalancedAssumption`: each function has
a number of operands for each opcode (`depths`) such that an opcode finds the
operands it takes and leaves at least what is noted where it goes on, at the
next opcode, at a jump's target, at a handler; and the locals that an iteration, `++` or a
handler writes are within `VarCount`.

`MarkedSpec` is the machine with a history variable.  All functions on the call
stack share one list of exception contexts, and the code does not note whose is
which.  `marks` notes for each frame how long the list was at the call: contexts
up to `Outer`, the last mark, belong to callers, those after it to the function that
runs.  `TriesAreLocal` says that a call never takes off a context of its callers
and is left with none of its own.  Functions may be called in `try` blocks, have
`try` blocks themselves and handle exceptions there.

- `DisciplineIsKept` (`Discipline`), the inductive invariant.  `NeverUnderflows` alone is not
  inductive: what an opcode finds depends on what the caller left, on what a
  return restores and on where a handler cuts the stack.  `Discipline` says that
  the running function has its depth above those of its callers, that every frame
  will find its own after the return, that the handler of every open `try` block, of the
  running function (`ContextDepths`) and of each caller (`FrameDepth`), will find its
  own, and that frames and marks are in order.
- `StackNeverUnderflows` (`NeverUnderflows`).
- `OperandsAreKept` (`CallersKeepOperands`): that frames are ordered is what makes a
  callee's writes harmless for all callers, not only the last one (`AllCallersKept`).
- `NothingPanics` (`NeverPanics`), with `FinallyIsQuiet` and `WritesHavePlaces`: no script writes
  an element before the first, which panics whatever the code.  Then only a handler and an iteration
  could panic (`OnlyThesePanic`); the slot is there by `Discipline`, and the exception by
  `OneException` of `ProcessProofs`.

The proof shows for each operation that the change of `sp` is what `Effect` says, and
sorts all steps into those that go on in the function, halt, enter a function,
return, or change the exception contexts (`StepMoves`, `NextMoves`).  What a move
does to the discipline is then proved once per kind (`GoesDiscipline`, `EntersDiscipline`,
`ReturnsDiscipline`, `ExceptionsDiscipline`), and again for the nesting of `try` blocks.

`TriesStayLocal` then proves `TriesAreLocal`, and `TriesAreNested` proves `ContextsAreNested`, from

    MarkedSpec /\ TriesAreBracketed /\ []HandledAtHome /\ []NoCallbacks

so that for bracketed code the theorems above need no more than that either
(`BracketedCodeKeepsOperands` puts them together).  Code is bracketed if for each address that control reaches there are `try` blocks which are open
there whichever way it came, so that every way through a function closes what it opened.
The invariant is `Nesting`, with three parts for the contexts:

- The contexts of each function on the call stack are those of the `try` blocks that are open
  where it is, or where it will go on after the call it is in: entry by entry,
  each tied to the opcode that made it (`Inside`, `FramesInside`).  Hence
  a return finds none of its own, and a `PopExceptionContext` finds one.
- The operands that came since a `try` block began are at least as many as the noted depths
  differ (`Above`).  That a context notes no more than `sp` is not inductive, this is:
  the differences add up from one open block to the next (`HigherStill`),
  and `NestsTries` has them not negative.
- No context of a function on the stack notes more than what its frame has when the callee is
  entered (`BelowFrames`), which puts callers' contexts below those of callees.

Only the bottom frame belongs to the main script, which alone may run off the
end of its code (`Bodies`).

The hypotheses are not for convenience: the code violates the conclusions
without them.  `HandledAtHome` (an exception is handled in the function that raises it, or
not at all) excludes what the run `handler_in_callee` shows, where a handler runs in
another function's code, and nothing else; `NoCallbacks` excludes what `callback_reruns` shows,
where the callback's code runs again with the caller's frame taken off; and jumps
out of a `try`, which bracketed code has none of, leave contexts behind.  The
run `discipline` satisfies `TriesAreLocal`, `NoCallbacks` and the assumption, with depths
computed from the compiled code, and evaluates for its scripts that those without jumps
out of a `try` are bracketed (`TriesAssumption`).

### Scopes

`ScopeProofs` proves `TypeCorrect`, `DistinctSlots` and `CapturesAgree` for all
names, labels, parameter lists and bounds, from the assumptions that parameters
differ and that `this` and `arguments` are not names of a script.  The invariant `IInv`
adds to `TypeOK` what makes slots distinct: blocks lie one after the other
(`InOrder`), each below `varCount`, and the function's block below the next unless
something was hoisted.  `defineVariable` is the interesting case, because only the
innermost block and the outermost one grow.  For capture lists, `LinksAgree` is
inductive together with it: a declaration in the function around must not
change what an entry refers to, which holds because blocks of the function around stay as
they are while a function within it is parsed.

`ReferencesProofs` proves `NamesAreLexical`, `ContextsFollowStatements` and
`JumpsStayInFunctions`.  A reference leads through one entry per function to a slot, and
`LeadsTo` states that as the existence of such a path, so that no induction over functions
is needed: `RInv` says that every entry of every list has a path to the variable that its
name means at that place (`EntryMeans`), or `far` is set.  A capture adds one step to a
path (`LeadsFurther`); a declaration leaves paths as they are, because it is in the innermost function,
where no entry of a list leads.  Loop contexts are related to open statements in the same way, by
the existence of an order-preserving bijection (`Matches`): a statement's head extends it by the
innermost place, its end takes that place off.  `CInv` adds that a function's body is its second
block and nothing is open in its first.  `JumpsAreLocal` follows: the statement that is innermost
among those of the function is last.

### Contexts

`ContextsProofs` proves `GoroutinesDoNotRace` from `Ownership`: contexts refer to
maps and arrays of their own or to the library's array, which is full, so
that nothing is appended in place; processes run in the goroutine that owns their context;
calls write what their goroutine owns and read what is owned or shared.  `NoRace` alone says
nothing of who may begin a call next.

`IsolationProofs` proves `TypeCorrect`, `ScriptsSeeTheirContext`, and
`ContextsAreIsolated`, the refinement `Spec => ImplementsIsolation`.  Its invariant adds to
`Ownership` that arrays are full and only grow at a new place (`StoresOK`), that a process has
the maps of its context and a prefix of its constructors (`ProcessesSee`), and what a call that
has begun has noted (`CallsOK`).  The refinement has one lemma per call: its first step
stutters, its second changes the one store that the call is about (`TouchesOnly`) or copies one.

### Arrays

`ArraysProofs` proves `SlicesAreInMemory` and `NoSharedMemory` for any number of
arrays, pieces of memory and nested walks.  `TypeOK` and `MemoryIsNotShared` are inductive
only together: that a write through one window leaves the others' elements
values needs no sharing, and that memory is not shared needs `NewMemory` to be unused by
arrays and walks.  There is one lemma per way of changing memory (`NarrowKeeps`,
`OverwriteKeeps`, `ReplaceKeeps`, `ExtendKeeps`, `SplitKeeps`), one per method
that has arguments, and one per step of a walk.

`OnlyTheseCallsPanic` and `CallbacksSeeTheArray` follow from `WalksFollow`: a walk's window is
that of its array until the array is spliced or a method changes its length, which is noted in
the walk (`moved`).  The panics of `slice` and `splice` rest on what their clamps yield for any
int (`SpliceBounds`), a sum that overflows included.

`ArrayValuesProofs` proves `ArraysAreValues`, the refinement of `ArrayValues`: each method on
windows does to the values what ECMAScript's method does to a sequence, and by
`MemoryIsNotShared` nothing to another array.  `sort` is specified by how often each value occurs and
their order, so its lemma is about cardinalities.  `ArgumentsAreMeant` proves the property
`ArgumentsMeanPositions` for arrays of any length and any set of ints as arguments, but for
counts of `splice` that overflow.  What a method returns is part of the refinement: each
action of `ArrayValues` names the array that it makes (`New`), and what `map` and `filter` have
collected follows their walks (`CollectedStays`, `VisitCollects`).

### Only model-checked

- `MeansWhatItSays`, `ImplementsHostView`, `LeavesNoOperands`, `EvaluatesAsWritten`,
  `LeavesOneValue`: they are about recursive definitions over trees, and an induction over them
  cannot be carried out in this proof system; the last one is a liveness property as well.
- Liveness and `ENABLED` (so the liveness part of `ImplementsHostView`).
- That compiled scripts are balanced and bracketed (`BalancedAssumption`, `TriesAssumption`) is evaluated
  for those of `MCDiscipline`.

## Not modelled

- The lexer: token sequences and syntax trees stand for text.
- String, number and object libraries, JSON, URI functions, conversions from and to Go: data
  without control.  Floating point numbers but NaN, strings and `null` in `Expressions`.
- Arguments of array methods that are not ints: what `ToInt` and Go's `int(n)` make of fractions,
  NaN and infinities; and allocations that fail for want of memory.
- `flat`, `join`, `toString` and `isArray` of arrays; spread arguments; `call`, `apply`
  and `bind`, which go through `CallWithThis` like `forEach`.
- What values of a context refer to: a function, array or object that is reachable from a
  shared context is the same one in all clones, and the object `JSON` is that of all
  contexts.  A program that changes one of them in two goroutines races; `Contexts` is about
  names.

## Plan

1. Done: the machine, code generation and its meaning, the operand stack; scopes
   and captures; expressions; contexts and goroutines; arrays.
2. Done: the invariants and refinements of scopes, contexts, arrays and the machine that do not
   rest on recursive definitions, proved.
3. Done: the operand stack and `try` blocks with functions called inside of `try` blocks, by a
   history variable for the owner of each exception context.
4. Captures from end to end: `Scope`'s capture lists compiled by `Codegen` and run by
   `Process`, with the cells of slots that sibling blocks use again.
