------------------------------- MODULE Arrays -------------------------------
(***************************************************************************)
(* Arrays of scripts as the library keeps them (native/array.go,           *)
(* types/types.go): Elements is a Go slice, a window onto memory that      *)
(* methods move, write through, extend in place while there is room, or    *)
(* replace.  A method that calls back walks over the window that it found  *)
(* (range) or looks at the array anew (reduce, reduceRight, for of), while *)
(* the callback may use any method on any array.                           *)
(*                                                                         *)
(* Positions in memory are counted from 1, indices of arrays from 0.       *)
(***************************************************************************)
EXTENDS Integers, FiniteSets, SequencesExt

CONSTANTS
  Arrays, NotMade, Memories,
  Values, Undefined,     \* values, by their place in the order of their strings
  Initial,               \* the elements of the array that a script starts with
  Indices,               \* numbers among the arguments, as ToInt returns them
  MaxInt,                \* the largest int; sums that go past it wrap around
  MaxMake,               \* the length of the largest slice that make makes
  MaxLength, MaxCalls, MaxWalks  \* bounds: of arrays, of calls, of nested walks

ASSUME ValuesAssumption == Values \subseteq Nat /\ Undefined \in Values
ASSUME InitialAssumption == Initial \in Seq(Values)
ASSUME SomeAssumption == Arrays # {} /\ Memories # {}
ASSUME MaxIntAssumption == MaxInt \in Nat /\ MaxMake \in 0 .. MaxInt
ASSUME IndicesAssumption == Indices \subseteq -MaxInt - 1 .. MaxInt
ASSUME MaxLengthAssumption == MaxLength \in Nat

VARIABLES
  memory,   \* what was allocated, whose lengths are capacities
  arrays,   \* the slice of each array
  walks,    \* the methods that call back, the innermost last
  result,   \* what the last call returned
  panicked, \* the method that ended the program, and its arguments
  calls     \* for the bound
vars == <<memory, arrays, walks, result, panicked, calls>>

Nothing == <<"nothing">>
Element(v) == <<"element", v>>
Number(n) == <<"number", n>>
NewBy(method) == <<"array", method>>
NoPanic == [method |-> "none", args |-> <<>>, len |-> 0]

Slice == [memory : Memories, offset : Nat, len : Nat]
ASSUME NotMadeAssumption == NotMade \notin Slice
ASSUME NotAValueAssumption == NotMade \notin Seq(Values)
Made(a) == arrays[a] # NotMade
Length(a) == arrays[a].len
Contents(s) == SubSeq(memory[s.memory], s.offset + 1, s.offset + s.len)
Capacity(s) == Len(memory[s.memory]) - s.offset

-----------------------------------------------------------------------------
(* Slices.                                                                 *)

\* Memory that neither an array nor a walk refers to
Free(m) == /\ \A a \in Arrays : Made(a) => arrays[a].memory # m
           /\ \A i \in DOMAIN walks : walks[i].elements.memory # m
NewMemory == CHOOSE m \in Memories : Free(m)
\* The window of s from index i up to index j
Window(s, i, j) == [memory |-> s.memory, offset |-> s.offset + i, len |-> j - i]
Padded(s, capacity) == s \o [i \in 1 .. capacity - Len(s) |-> Undefined]
\* The capacity that append allocates when capacity c is used up by n elements
Grown(c, n) == IF n > 2 * c THEN n ELSE 2 * c

Narrow(a, i, j) == arrays' = [arrays EXCEPT ![a] = Window(@, i, j)] /\ UNCHANGED memory
Overwrite(a, s) ==
  /\ UNCHANGED arrays
  /\ memory' = [memory EXCEPT ![arrays[a].memory] =
       [i \in DOMAIN @ |-> IF arrays[a].offset < i /\ i <= arrays[a].offset + Length(a)
                           THEN s[i - arrays[a].offset] ELSE @[i]]]
Replace(a, s, capacity) ==
  /\ \E m \in Memories : Free(m)
  /\ memory' = [memory EXCEPT ![NewMemory] = Padded(s, capacity)]
  /\ arrays' = [arrays EXCEPT ![a] = [memory |-> NewMemory, offset |-> 0, len |-> Len(s)]]
Extend(a, v) ==
  LET s == arrays[a]
  IN IF s.len < Capacity(s)
     THEN /\ memory' = [memory EXCEPT ![s.memory][s.offset + s.len + 1] = v]
          /\ arrays' = [arrays EXCEPT ![a].len = s.len + 1]
     ELSE Replace(a, Append(Contents(s), v), Grown(Capacity(s), s.len + 1))

-----------------------------------------------------------------------------
(* Arguments: positions as the methods work them out.                      *)

FromEnd(i, n) == IF i < 0 THEN n + i ELSE i
NotBelow0(i) == IF i < 0 THEN 0 ELSE i
AtMost(i, n) == IF i > n THEN n ELSE i
Arg(args, k, default) == IF Len(args) < k THEN default ELSE args[k]
\* The int that the sum i of two others, neither negative, is
Wrapped(i) == IF i > MaxInt THEN i - 2 * (MaxInt + 1) ELSE i

\* <<start, end>> of fill, of slice; <<start, count>> of splice.  A variant of
\* fillBounds comes first: a start before the first element is not clamped.
StartMayBeNegative(n, args) ==
  <<FromEnd(Arg(args, 1, 0), n), AtMost(FromEnd(Arg(args, 2, n), n), n)>>
fillBounds(n, args) ==
  <<NotBelow0(FromEnd(Arg(args, 1, 0), n)), AtMost(FromEnd(Arg(args, 2, n), n), n)>>
sliceBounds(n, args) ==
  LET end == AtMost(FromEnd(Arg(args, 2, n), n), n)
      start == AtMost(AtMost(NotBelow0(FromEnd(Arg(args, 1, 0), n)), n), end)
  IN <<start, end>>
spliceBounds(n, args) ==
  LET start == AtMost(NotBelow0(FromEnd(args[1], n)), n)
      count == NotBelow0(Arg(args, 2, n - start))
  IN <<start, IF Wrapped(start + count) > n THEN n - start ELSE count>>
arrayIndexOf(s, v, args) ==
  LET from == NotBelow0(FromEnd(Arg(args, 1, 0), Len(s)))
      found == {i \in from .. Len(s) - 1 : s[i + 1] = v}
  IN IF found = {} THEN -1 ELSE CHOOSE i \in found : \A j \in found : i <= j
arrayLastIndexOf(s, v, args) ==
  LET from == AtMost(FromEnd(Arg(args, 1, Len(s) - 1), Len(s)), Len(s) - 1)
      found == {i \in 0 .. from : s[i + 1] = v}
  IN IF found = {} THEN -1 ELSE CHOOSE i \in found : \A j \in found : i >= j
arrayIncludes(s, v, args) ==
  LET from == NotBelow0(FromEnd(Arg(args, 1, 0), Len(s)))
  IN \E i \in from .. Len(s) - 1 : s[i + 1] = v

-----------------------------------------------------------------------------
(* Methods.  The script calls them, or a callback that a walk waits for.   *)

Innermost == walks[Len(walks)]
Called == /\ panicked = NoPanic /\ calls < MaxCalls
          /\ walks # <<>> => Innermost.calling
          /\ calls' = calls + 1
Ok(r) == result' = r /\ UNCHANGED panicked
Panics(method, args, n) ==
  /\ panicked' = [method |-> method, args |-> args, len |-> n]
  /\ UNCHANGED <<memory, arrays, walks, result>>
\* The slices that Go refuses to make of one with the given capacity
OutOfRange(i, j, capacity) == ~(0 <= i /\ i <= j /\ j <= capacity)

\* History for the walks over a: a has another window. Methods that change its
\* length give it one, and so does splice, even if the length stays.
Moves(a) == walks' = [i \in DOMAIN walks |-> [walks[i] EXCEPT !.moved = @ \/ walks[i].array = a]]
NewArray == CHOOSE r \in Arrays : ~Made(r)
Makes(s, capacity, method) == /\ \E r \in Arrays : ~Made(r)
                              /\ Replace(NewArray, s, capacity) /\ Ok(NewBy(method))

arrayPop(a) ==
  IF Length(a) = 0 THEN Ok(Element(Undefined)) /\ UNCHANGED <<memory, arrays, walks>>
  ELSE /\ Ok(Element(Contents(arrays[a])[Length(a)]))
       /\ Narrow(a, 0, Length(a) - 1) /\ Moves(a)
\* A variant of arrayShift: the window moves and keeps its length.
ShiftKeepsLength(a) ==
  IF Length(a) = 0 THEN Ok(Element(Undefined)) /\ UNCHANGED <<memory, arrays, walks>>
  ELSE /\ Ok(Element(Contents(arrays[a])[1]))
       /\ arrays' = [arrays EXCEPT ![a].offset = @ + 1] /\ UNCHANGED memory /\ Moves(a)
arrayShift(a) ==
  IF Length(a) = 0 THEN Ok(Element(Undefined)) /\ UNCHANGED <<memory, arrays, walks>>
  ELSE /\ Ok(Element(Contents(arrays[a])[1]))
       /\ Narrow(a, 1, Length(a)) /\ Moves(a)
\* (of one value: push appends one after the other)
arrayPush(a, v) == Length(a) < MaxLength /\ Extend(a, v) /\ Ok(Number(Length(a) + 1)) /\ Moves(a)
arrayUnshift(a, v) ==
  /\ Length(a) < MaxLength
  /\ Replace(a, <<v>> \o Contents(arrays[a]), Length(a) + 1) /\ Ok(Number(Length(a) + 1)) /\ Moves(a)
arrayReverse(a) == Overwrite(a, Reverse(Contents(arrays[a]))) /\ Ok(Nothing) /\ UNCHANGED walks
\* sort.SliceStable exchanges elements until they are in order.
arraySort(a) ==
  LET s == Contents(arrays[a])
  IN /\ \E p \in Bijection(DOMAIN s, DOMAIN s) :
          /\ \A i, j \in DOMAIN s : i < j => s[p[i]] <= s[p[j]]
          /\ Overwrite(a, [i \in DOMAIN s |-> s[p[i]]])
     /\ Ok(Nothing) /\ UNCHANGED walks
arrayFill(a, v, args) ==
  LET bounds == fillBounds(Length(a), args)
      s == Contents(arrays[a])
  IN /\ Overwrite(a, [i \in DOMAIN s |-> IF bounds[1] < i /\ i <= bounds[2] THEN v ELSE s[i]])
     /\ Ok(Nothing) /\ UNCHANGED walks
\* A variant of Set: elements are copied before one is written.
SetCopies(a, i, v) ==
  \/ i < 0 /\ Panics("set", <<i>>, Length(a))
  \/ /\ 0 <= i /\ i < Length(a)
     /\ Replace(a, [Contents(arrays[a]) EXCEPT ![i + 1] = v], Length(a)) /\ Ok(Nothing) /\ UNCHANGED walks
\* arr[i] = v (SetElementOperation); an index past the end fills up to it
\* one by one, which is one assignment each.
Set(a, i, v) ==
  \/ i < 0 /\ Panics("set", <<i>>, Length(a))
  \/ /\ 0 <= i /\ i < Length(a)
     /\ Overwrite(a, [Contents(arrays[a]) EXCEPT ![i + 1] = v]) /\ Ok(Nothing) /\ UNCHANGED walks
  \/ i = Length(a) /\ i < MaxLength /\ Extend(a, v) /\ Ok(Nothing) /\ Moves(a)
DeleteElementOperation(a, i) == 0 <= i /\ i < Length(a) /\ Set(a, i, Undefined)

\* A variant of arraySlice: the slice of the array is returned as it is.
SliceShares(a, args) ==
  LET bounds == sliceBounds(Length(a), args)
  IN IF OutOfRange(bounds[1], bounds[2], Capacity(arrays[a])) THEN Panics("slice", args, Length(a))
     ELSE /\ \E r \in Arrays : ~Made(r)
          /\ arrays' = [arrays EXCEPT ![NewArray] = Window(arrays[a], bounds[1], bounds[2])]
          /\ Ok(NewBy("slice")) /\ UNCHANGED <<memory, walks>>
arraySlice(a, args) ==
  LET bounds == sliceBounds(Length(a), args)
  IN IF OutOfRange(bounds[1], bounds[2], Capacity(arrays[a])) THEN Panics("slice", args, Length(a))
     ELSE /\ Makes(Contents(Window(arrays[a], bounds[1], bounds[2])), bounds[2] - bounds[1], "slice")
          /\ UNCHANGED walks
\* a.concat(b), a.concat(v)
arrayConcat(a, added) ==
  LET n == Length(a) + Len(added)
  IN /\ n <= MaxLength
     /\ Makes(Contents(arrays[a]) \o added, IF added = <<>> THEN n ELSE Grown(Length(a), n), "concat")
     /\ UNCHANGED walks
\* A variant of Spliced: what is added overwrites elements that are still to move.
SplicedInPlace(s, from, to, added) ==
  LET written == SubSeq(s, 1, from) \o added \o SubSeq(s, from + Len(added) + 1, Len(s))
  IN SubSeq(written, 1, from + Len(added)) \o SubSeq(written, to + 1, Len(s))
\* s with the elements from index from up to to replaced
Spliced(s, from, to, added) == SubSeq(s, 1, from) \o added \o SubSeq(s, to + 1, Len(s))
\* What follows start and count is added; without count there is no args[3:].
\* A count that is still too large once the sum with start wrapped around is
\* too large for make as well.
arraySplice(a, args, added) ==
  IF args = <<>> THEN Makes(<<>>, 0, "splice") /\ UNCHANGED walks
  ELSE IF Len(args) = 1 THEN Panics("splice", args, Length(a))
  ELSE LET bounds == spliceBounds(Length(a), args)
           end == bounds[1] + bounds[2]
           s == Contents(arrays[a])
           removed == SubSeq(s, bounds[1] + 1, end)
           left == Spliced(s, bounds[1], end, added)
       IN IF end > Length(a) THEN Panics("splice", args, Length(a)) ELSE
          /\ Len(left) <= MaxLength
          /\ \E r \in Arrays : ~Made(r)
          /\ \E m, n \in Memories :
               /\ m = NewMemory /\ Free(m) /\ n # m /\ Free(n)
               /\ n = CHOOSE k \in Memories \ {m} : Free(k)
               /\ memory' = [memory EXCEPT ![m] = removed, ![n] = left]
               /\ arrays' = [arrays EXCEPT ![NewArray] = [memory |-> m, offset |-> 0, len |-> Len(removed)],
                                           ![a] = [memory |-> n, offset |-> 0, len |-> Len(left)]]
          /\ Ok(NewBy("splice")) /\ Moves(a)

Args(indices, lengths) == UNION {[1 .. n -> indices] : n \in lengths}
Method(a) ==
  /\ Made(a) /\ Called
  /\ \/ arrayPop(a) \/ arrayShift(a) \/ arrayReverse(a) \/ arraySort(a)
     \/ \E v \in Values :
          \/ arrayPush(a, v) \/ arrayUnshift(a, v) \/ arrayConcat(a, <<v>>)
          \/ \E args \in Args(Indices, 0 .. 2) : arrayFill(a, v, args)
          \/ \E i \in Indices : Set(a, i, v)
     \/ \E i \in Indices : DeleteElementOperation(a, i)
     \/ \E args \in Args(Indices, 0 .. 2) :
          arraySlice(a, args) \/ arraySplice(a, args, <<>>) \/ \E v \in Values : arraySplice(a, args, <<v>>)
     \/ \E b \in Arrays : Made(b) /\ arrayConcat(a, Contents(arrays[b]))

\* Array(n) for a number n, and Array(), Array(v), Array(v, w), which make what
\* an array literal does.
NewArrayConstructor ==
  /\ Called
  /\ \/ \E n \in Indices :
          IF 0 <= n /\ n <= MaxMake
          THEN n <= MaxLength /\ Makes([i \in 1 .. n |-> Undefined], n, "Array") /\ UNCHANGED walks
          ELSE Panics("Array", <<n>>, 0)
     \/ \E elements \in Args(Values, 0 .. 2) : Makes(elements, Len(elements), "Array") /\ UNCHANGED walks

-----------------------------------------------------------------------------
(* Methods that call back.                                                 *)

\* "some" stands for every and forEach too, "find" for findIndex, "reduce" for
\* a for of statement, which a break ends like an exception does.
RangeMethods == {"some", "find", "filter", "map"}
WalkMethods == RangeMethods \cup {"reduce", "reduceRight"}
Walk(method, a, index) ==
  [method |-> method, array |-> a, elements |-> arrays[a], index |-> index, calling |-> FALSE,
   entry |-> Undefined, results |-> <<>>, moved |-> FALSE]
\* A variant of LastIndex: off by one.
PastTheEnd(a) == Length(a)
\* The index that reduceRight starts from
LastIndex(a) == Length(a) - 1
\* reduce and reduceRight start after the element that they start from, if
\* there is no other value to start from.
Begin(a) ==
  /\ Made(a) /\ Called /\ Len(walks) < MaxWalks
  /\ \/ \E method \in RangeMethods \cup {"reduce"} : walks' = Append(walks, Walk(method, a, 0))
     \/ walks' = Append(walks, Walk("reduceRight", a, LastIndex(a)))
     \/ Length(a) > 0 /\ walks' = Append(walks, Walk("reduce", a, 1))
     \/ Length(a) > 0 /\ walks' = Append(walks, Walk("reduceRight", a, LastIndex(a) - 1))
  /\ UNCHANGED <<memory, arrays, result, panicked>>

Walking == panicked = NoPanic /\ walks # <<>> /\ ~Innermost.calling
HasMore(w) == CASE w.method \in RangeMethods -> w.index < w.elements.len
                [] w.method = "reduce" -> w.index < Length(w.array)
                [] OTHER -> w.index >= 0
Source(w) == IF w.method \in RangeMethods THEN w.elements ELSE arrays[w.array]
SetInnermost(w) == walks' = [walks EXCEPT ![Len(walks)] = w]

Visit ==
  /\ Walking /\ HasMore(Innermost)
  /\ UNCHANGED calls
  /\ LET w == Innermost
     IN IF w.index >= Source(w).len THEN Panics(w.method, <<w.index>>, Length(w.array))
        ELSE /\ SetInnermost([w EXCEPT !.calling = TRUE, !.entry = Contents(Source(w))[w.index + 1]])
             /\ UNCHANGED <<memory, arrays, result, panicked>>

Calling == panicked = NoPanic /\ walks # <<>> /\ Innermost.calling
After(w, results) ==
  [w EXCEPT !.calling = FALSE, !.entry = Undefined, !.results = results,
            !.index = IF w.method = "reduceRight" THEN @ - 1 ELSE @ + 1]
EndWalk == walks' = SubSeq(walks, 1, Len(walks) - 1)
Continues(results) == SetInnermost(After(Innermost, results)) /\ UNCHANGED <<memory, arrays, result, panicked>>

\* The callback returns something false, or for which the walk goes on (that
\* of map what it was given: any value would do),
Return ==
  /\ Calling /\ UNCHANGED calls
  /\ LET w == Innermost
     IN Continues(IF w.method = "map" THEN Append(w.results, w.entry) ELSE w.results)
\* something true, for which some and find end (every with the opposite) and
\* filter keeps the element,
ReturnTrue ==
  /\ Calling /\ UNCHANGED calls
  /\ LET w == Innermost
     IN \/ w.method = "filter" /\ Continues(Append(w.results, w.entry))
        \/ /\ w.method \in {"some", "find"}
           /\ EndWalk /\ UNCHANGED <<memory, arrays>>
           /\ Ok(IF w.method = "find" THEN Element(w.entry) ELSE Nothing)
\* or an exception, which ends the walk.
Throw == Calling /\ EndWalk /\ UNCHANGED <<memory, arrays, result, panicked, calls>>

EndOfWalk ==
  /\ Walking /\ ~HasMore(Innermost)
  /\ EndWalk /\ UNCHANGED calls
  /\ LET w == Innermost
     IN CASE w.method = "map" -> Makes(w.results, w.elements.len, "map")
          [] w.method = "filter" -> \E spare \in {0, Len(w.results)} : Makes(w.results, Len(w.results) + spare, "filter")
          [] w.method = "find" -> Ok(Element(Undefined)) /\ UNCHANGED <<memory, arrays>>
          [] OTHER -> Ok(Nothing) /\ UNCHANGED <<memory, arrays>>

-----------------------------------------------------------------------------
Init ==
  LET a == CHOOSE a \in Arrays : TRUE
      m == CHOOSE m \in Memories : TRUE
  IN
    /\ arrays = [b \in Arrays |-> IF b = a THEN [memory |-> m, offset |-> 0, len |-> Len(Initial)] ELSE NotMade]
    /\ memory = [n \in Memories |-> IF n = m THEN Initial ELSE <<>>]
    /\ walks = <<>> /\ result = Nothing /\ panicked = NoPanic /\ calls = 0

Next == \/ \E a \in Arrays : Method(a) \/ Begin(a)
        \/ NewArrayConstructor
        \/ Visit \/ Return \/ ReturnTrue \/ Throw \/ EndOfWalk
Spec == Init /\ [][Next]_vars

-----------------------------------------------------------------------------
(* Correctness.                                                            *)

\* A slice is a window inside of its memory.
InMemory(s) == s \in Slice /\ s.offset + s.len <= Len(memory[s.memory])
WalkRecord == {w \in [method : WalkMethods, array : Arrays, elements : Slice, index : Int, calling : BOOLEAN,
                       entry : Values, results : Seq(Values), moved : BOOLEAN] :
                 w.index < 0 => w.method = "reduceRight"}
TypeOK ==
  /\ memory \in [Memories -> Seq(Values)]
  /\ arrays \in [Arrays -> Slice \cup {NotMade}]
  /\ \A a \in Arrays : Made(a) => InMemory(arrays[a])
  /\ walks \in Seq(WalkRecord)
  /\ \A i \in DOMAIN walks : InMemory(walks[i].elements) /\ Made(walks[i].array)
  /\ calls \in Nat

\* Two arrays never have memory in common, so that no method of one changes the
\* other (what slice, concat, splice, map and filter return; push in place).
MemoryIsNotShared ==
  \A a, b \in Arrays : Made(a) /\ Made(b) /\ a # b => arrays[a].memory # arrays[b].memory

\* A callback is given the element that the array has at that index, unless
\* callbacks of the walk have changed the array's length or spliced it: then
\* range goes on over the memory that the array had, which an array that was
\* spliced has left even if as many elements were added as were removed.
VisitIsCurrent ==
  walks # <<>> /\ ~Innermost.calling /\ Len(walks') = Len(walks) /\ walks'[Len(walks)].calling =>
    LET w == walks'[Len(walks)]
    IN \/ w.index < Length(w.array) /\ w.entry = Contents(arrays[w.array])[w.index + 1]
       \/ w.moved
VisitsAreCurrent == [][VisitIsCurrent]_vars

\* The methods of this module and the constructor, given ints, end the program
\* in a panic only when a script
\*  - assigns to an element before the first,
\*  - calls splice with one argument, or with a count so large that adding a
\*    position to it overflows,
\*  - calls slice with an end before the start of the array,
\*  - asks for an array of a negative length, or longer than make makes,
\*  - or makes the array shorter that reduceRight walks over.
PanicsOnlyWhere ==
  panicked # NoPanic =>
    LET args == panicked.args
    IN CASE panicked.method = "set" -> args[1] < 0
         [] panicked.method = "splice" -> Len(args) = 1 \/ (Len(args) = 2 /\ args[2] > MaxInt - panicked.len)
         [] panicked.method = "slice" -> Len(args) = 2 /\ args[2] < 0 - panicked.len
         [] panicked.method = "Array" -> args[1] < 0 \/ args[1] > MaxMake
         [] panicked.method = "reduceRight" -> panicked.len < Innermost.elements.len /\ Innermost.moved
         [] OTHER -> FALSE

-----------------------------------------------------------------------------
(* What scripts are promised.                                              *)

Value == [a \in Arrays |-> IF Made(a) THEN Contents(arrays[a]) ELSE NotMade]
Collected == [i \in DOMAIN walks |-> walks[i].results]
Script == INSTANCE ArrayValues WITH value <- Value, collected <- Collected

\* What a method does to an array, to others and to the array that it returns
\* is what ECMAScript says, at positions that ArgumentsMeanPositions is about;
\* map and filter return what their callbacks made them collect.
ImplementsArrayValues == Script!Spec

\* The positions that fill, slice and splice work out for an array of length n
PositionsAgree(n, args) ==
  LET fill == fillBounds(n, args)
      slice == sliceBounds(n, args)
      splice == spliceBounds(n, args)
  IN /\ fill[1] .. fill[2] - 1 = Script!Between(args, n)
     /\ slice[1] .. slice[2] - 1 = Script!Between(args, n) \/ OutOfRange(slice[1], slice[2], n)
     /\ args # <<>> /\ Arg(args, 2, 0) <= MaxInt - n =>
          splice[1] .. splice[1] + splice[2] - 1 = Script!Removed(args, n)
\* and where the methods that look for v in s find it
PlacesAgree(s, v, args) ==
  LET Least(set) == IF set = {} THEN -1 ELSE CHOOSE i \in set : \A j \in set : i <= j
      Greatest(set) == IF set = {} THEN -1 ELSE CHOOSE i \in set : \A j \in set : i >= j
  IN /\ arrayIndexOf(s, v, args) = Least(Script!Found(s, v, args))
     /\ arrayIncludes(s, v, args) = (Script!Found(s, v, args) # {})
     /\ arrayLastIndexOf(s, v, args) = Greatest(Script!FoundBackwards(s, v, args))

\* Positions and counts that a script gives to slice, splice, fill, indexOf,
\* lastIndexOf and includes are those of ECMAScript, whatever Indices they are,
\* but for counts of splice that overflow. It says nothing of the state: once is
\* enough.
ArgumentsMeanPositions ==
  calls = 0 => \A s \in SeqOf(Values, MaxLength) :
    LET numbers == Indices \cup -Len(s) - 1 .. Len(s) + 1
    IN /\ \A args \in Args(numbers, 0 .. 2) : PositionsAgree(Len(s), args)
       /\ \A args \in Args(numbers, 0 .. 1), v \in Values : PlacesAgree(s, v, args)
=============================================================================
