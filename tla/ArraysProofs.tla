---------------------------- MODULE ArraysProofs ----------------------------
(* Proofs about Arrays: slices stay inside of their memory, and no two     *)
(* arrays get to share memory, whatever the bounds.                        *)
EXTENDS Arrays, SequenceTheorems, TLAPS

USE ValuesAssumption, NotMadeAssumption

\* The invariant without the walks' part, which most steps leave alone
ArraysOK ==
  /\ memory \in [Memories -> Seq(Values)]
  /\ arrays \in [Arrays -> Slice \cup {NotMade}]
  /\ \A a \in Arrays : Made(a) => InMemory(arrays[a])
  /\ MemoryIsNotShared
IInv == TypeOK /\ MemoryIsNotShared

\* What every step on memory keeps: nothing that is in use changes its size,
\* no array goes away.
Kept == /\ ArraysOK'
        /\ \A m \in Memories : ~Free(m) => Len(memory'[m]) = Len(memory[m])
        /\ \A a \in Arrays : Made(a) => Made(a)'

-----------------------------------------------------------------------------
(* Slices.                                                                 *)

LEMMA MadeIsSlice ==
  ASSUME ArraysOK, NEW a \in Arrays, Made(a)
  PROVE  /\ arrays[a] \in Slice /\ InMemory(arrays[a]) /\ Length(a) \in Nat
         /\ arrays[a].memory \in Memories /\ arrays[a].offset \in Nat
         /\ memory[arrays[a].memory] \in Seq(Values) /\ ~Free(arrays[a].memory)
         /\ Len(memory[arrays[a].memory]) \in Nat
BY DEF ArraysOK, Made, Slice, InMemory, Length, Free

LEMMA ContentsAreValues ==
  ASSUME NEW s \in Slice, memory \in [Memories -> Seq(Values)], InMemory(s)
  PROVE  Contents(s) \in Seq(Values) /\ Len(Contents(s)) = s.len
<1>1. s.memory \in Memories /\ s.offset \in Nat /\ s.len \in Nat
  BY DEF Slice
<1>2. memory[s.memory] \in Seq(Values)
  BY <1>1
<1> DEFINE q == memory[s.memory]
           i == s.offset + 1
           j == s.offset + s.len
<1>3. i \in 1 .. Len(q) + 1 /\ j \in i - 1 .. Len(q) /\ j - i + 1 = s.len
  BY <1>1, <1>2, LenProperties, SMTT(40) DEF InMemory
<1>4. Contents(s) = SubSeq(q, i, j)
  BY DEF Contents
<1> HIDE DEF q, i, j
<1>5. q \in Seq(Values)
  BY <1>2 DEF q
<1>6. SubSeq(q, i, j) \in Seq(Values) /\ Len(SubSeq(q, i, j)) = IF i <= j THEN j - i + 1 ELSE 0
  BY <1>3, <1>5, SubSeqProperties
<1>7. i \in Int /\ j \in Int
  BY <1>3, <1>5, LenProperties
<1> QED BY <1>1, <1>3, <1>4, <1>6, <1>7

LEMMA NarrowKeeps ==
  ASSUME ArraysOK, NEW a \in Arrays, Made(a), NEW i \in Nat, NEW j \in Nat, i <= j, j <= Length(a), Narrow(a, i, j)
  PROVE  Kept
<1> DEFINE s == arrays[a]
<1>1. s \in Slice /\ InMemory(s) /\ Length(a) \in Nat /\ s.offset \in Nat /\ s.memory \in Memories
  BY MadeIsSlice
<1> DEFINE t == Window(s, i, j)
<1>2. t = [memory |-> s.memory, offset |-> s.offset + i, len |-> j - i]
  BY DEF Window
<1>3. t \in Slice
  BY <1>1, <1>2 DEF Slice
<1>4. memory' = memory /\ arrays' = [arrays EXCEPT ![a] = t] /\ arrays \in [Arrays -> Slice \cup {NotMade}]
  BY DEF Narrow, ArraysOK
<1>5. t.offset + t.len <= Len(memory[s.memory])
  <2>1. Len(memory[s.memory]) \in Nat /\ s.len = Length(a)
    BY MadeIsSlice DEF Length
  <2>2. s.offset + s.len <= Len(memory[s.memory])
    BY <1>1 DEF InMemory
  <2>3. t.offset + t.len = s.offset + j
    BY <1>1, <1>2
  <2> QED BY <1>1, <2>1, <2>2, <2>3, SMTT(40)
<1> HIDE DEF t
<1>6. arrays' \in [Arrays -> Slice \cup {NotMade}] /\ arrays'[a] = t /\ \A b \in Arrays \ {a} : arrays'[b] = arrays[b]
  BY <1>3, <1>4
<1>7. \A b \in Arrays : Made(b)' => InMemory(arrays[b])'
  BY <1>3, <1>4, <1>5, <1>6, <1>2 DEF ArraysOK, Made, InMemory
<1>8. MemoryIsNotShared'
  BY <1>2, <1>6 DEF ArraysOK, MemoryIsNotShared, Made
<1> QED BY <1>3, <1>4, <1>6, <1>7, <1>8 DEF Kept, ArraysOK, Made

LEMMA OverwriteKeeps ==
  ASSUME ArraysOK, NEW a \in Arrays, Made(a), NEW s, \A i \in 1 .. Length(a) : s[i] \in Values, Overwrite(a, s)
  PROVE  Kept
<1> DEFINE m == arrays[a].memory
           new == [i \in DOMAIN memory[m] |-> IF arrays[a].offset < i /\ i <= arrays[a].offset + Length(a)
                                              THEN s[i - arrays[a].offset] ELSE memory[m][i]]
<1>1. Length(a) \in Nat /\ m \in Memories /\ arrays[a].offset \in Nat /\ memory[m] \in Seq(Values)
  BY MadeIsSlice
<1>2. new \in Seq(Values) /\ Len(new) = Len(memory[m])
  <2>1. \A i \in 1 .. Len(memory[m]) : new[i] \in Values
    BY <1>1, ElementOfSeq, SMTT(40)
  <2>2. new \in [1 .. Len(memory[m]) -> Values] /\ Len(memory[m]) \in Nat
    BY <1>1, <2>1, LenProperties
  <2> HIDE DEF new
  <2> QED BY <2>2, IsASeq, LenProperties
<1>3. memory' = [memory EXCEPT ![m] = new] /\ arrays' = arrays /\ memory \in [Memories -> Seq(Values)]
  BY DEF Overwrite, ArraysOK
<1> HIDE DEF new
<1>4. memory' \in [Memories -> Seq(Values)] /\ \A n \in Memories : Len(memory'[n]) = Len(memory[n])
  BY <1>1, <1>2, <1>3
<1>5. \A b \in Arrays : Made(b)' => InMemory(arrays[b])'
  BY <1>3, <1>4 DEF ArraysOK, Made, InMemory, Slice
<1> QED BY <1>3, <1>4, <1>5 DEF Kept, ArraysOK, Made, MemoryIsNotShared

LEMMA PaddedIsValues ==
  ASSUME NEW s \in Seq(Values), NEW c \in Int
  PROVE  Padded(s, c) \in Seq(Values) /\ Len(Padded(s, c)) >= Len(s) /\ Len(Padded(s, c)) \in Nat
<1> DEFINE k == IF c < Len(s) THEN 0 ELSE c - Len(s)
           pad == [i \in 1 .. c - Len(s) |-> Undefined]
<1>1. k \in Nat /\ 1 .. c - Len(s) = 1 .. k /\ Len(s) \in Nat
  BY LenProperties
<1>2. pad \in [1 .. k -> Values]
  BY <1>1
<1>3. pad \in Seq(Values) /\ Len(pad) \in Nat
  <2> HIDE DEF pad, k
  <2> QED BY <1>1, <1>2, IsASeq, LenProperties
<1> HIDE DEF pad
<1>4. Padded(s, c) = s \o pad
  BY DEF Padded, pad
<1> QED BY <1>1, <1>3, <1>4, ConcatProperties

LEMMA NewMemoryIsFree ==
  ASSUME \E m \in Memories : Free(m)
  PROVE  NewMemory \in Memories /\ Free(NewMemory)
BY DEF NewMemory

LEMMA ReplaceKeeps ==
  ASSUME ArraysOK, NEW a \in Arrays, NEW s \in Seq(Values), NEW c \in Int, Replace(a, s, c)
  PROVE  Kept
<1> DEFINE m == NewMemory
           new == Padded(s, c)
           t == [memory |-> m, offset |-> 0, len |-> Len(s)]
<1>1. m \in Memories /\ Free(m)
  BY NewMemoryIsFree DEF Replace
<1>2. new \in Seq(Values) /\ Len(new) >= Len(s) /\ Len(new) \in Nat /\ Len(s) \in Nat
  BY PaddedIsValues, LenProperties
<1>3. memory' = [memory EXCEPT ![m] = new] /\ arrays' = [arrays EXCEPT ![a] = t]
      /\ memory \in [Memories -> Seq(Values)] /\ arrays \in [Arrays -> Slice \cup {NotMade}]
  BY DEF Replace, ArraysOK
<1>4. t \in Slice /\ t.memory = m /\ t.offset + t.len <= Len(new)
  BY <1>1, <1>2 DEF Slice
<1> HIDE DEF m, new, t
<1>5. memory' \in [Memories -> Seq(Values)] /\ memory'[m] = new /\ \A n \in Memories \ {m} : memory'[n] = memory[n]
  BY <1>1, <1>2, <1>3
<1>6. arrays' \in [Arrays -> Slice \cup {NotMade}] /\ arrays'[a] = t /\ \A b \in Arrays \ {a} : arrays'[b] = arrays[b]
  BY <1>3, <1>4
<1>7. \A b \in Arrays \ {a} : Made(b) => arrays[b].memory # m /\ arrays[b].memory \in Memories
  BY <1>1 DEF Free, ArraysOK, Made, Slice
<1>8. \A b \in Arrays : Made(b)' => InMemory(arrays[b])'
  <2> SUFFICES ASSUME NEW b \in Arrays, Made(b)' PROVE InMemory(arrays[b])'
    OBVIOUS
  <2>1. CASE b = a
    BY <2>1, <1>4, <1>5, <1>6 DEF InMemory
  <2>2. CASE b # a
    BY <2>2, <1>5, <1>6, <1>7 DEF InMemory, ArraysOK, Made
  <2> QED BY <2>1, <2>2
<1>9. MemoryIsNotShared'
  BY <1>4, <1>6, <1>7 DEF MemoryIsNotShared, ArraysOK, Made
<1>10. \A n \in Memories : ~Free(n) => Len(memory'[n]) = Len(memory[n])
  BY <1>1, <1>5
<1>11. \A b \in Arrays : Made(b) => Made(b)'
  BY <1>4, <1>6 DEF Made
<1> QED BY <1>5, <1>6, <1>8, <1>9, <1>10, <1>11 DEF Kept, ArraysOK

LEMMA ExtendKeeps ==
  ASSUME ArraysOK, NEW a \in Arrays, Made(a), NEW v \in Values, Extend(a, v)
  PROVE  Kept
<1> DEFINE s == arrays[a]
           m == s.memory
<1>1. s \in Slice /\ InMemory(s) /\ m \in Memories /\ s.offset \in Nat /\ s.len \in Nat
      /\ memory[m] \in Seq(Values) /\ ~Free(m) /\ Len(memory[m]) \in Nat
  BY MadeIsSlice DEF Slice, Length
<1>2. CASE s.len < Capacity(s)
  <2> DEFINE i == s.offset + s.len + 1
             new == [memory[m] EXCEPT ![i] = v]
             t == [s EXCEPT !.len = s.len + 1]
  <2>1. i \in 1 .. Len(memory[m])
    <3>1. s.len < Len(memory[m]) - s.offset
      BY <1>2 DEF Capacity
    <3> QED BY <1>1, <3>1, SMTT(30)
  <2>2. memory' = [memory EXCEPT ![m] = new] /\ arrays' = [arrays EXCEPT ![a] = t]
        /\ memory \in [Memories -> Seq(Values)] /\ arrays \in [Arrays -> Slice \cup {NotMade}]
    BY <1>1, <1>2 DEF Extend, ArraysOK
  <2>3. new \in Seq(Values) /\ Len(new) = Len(memory[m])
    BY <1>1, <2>1, ExceptSeq
  <2>4. t = [memory |-> m, offset |-> s.offset, len |-> s.len + 1]
    BY <1>1 DEF Slice
  <2>5. t \in Slice /\ t.offset + t.len <= Len(new) /\ t.memory = m
    BY <1>1, <2>1, <2>3, <2>4, SMTT(40) DEF Slice
  <2> HIDE DEF new, t
  <2>6. memory' \in [Memories -> Seq(Values)] /\ memory'[m] = new /\ \A n \in Memories : Len(memory'[n]) = Len(memory[n])
    BY <1>1, <2>2, <2>3
  <2>7. arrays' \in [Arrays -> Slice \cup {NotMade}] /\ arrays'[a] = t /\ \A b \in Arrays \ {a} : arrays'[b] = arrays[b]
    BY <2>2, <2>5
  <2>8. \A b \in Arrays : Made(b)' => InMemory(arrays[b])'
    <3> SUFFICES ASSUME NEW b \in Arrays, Made(b)' PROVE InMemory(arrays[b])'
      OBVIOUS
    <3>1. CASE b = a
      BY <3>1, <2>5, <2>6, <2>7 DEF InMemory
    <3>2. CASE b # a
      BY <3>2, <2>6, <2>7 DEF InMemory, ArraysOK, Made, Slice
    <3> QED BY <3>1, <3>2
  <2>9. MemoryIsNotShared'
    BY <2>5, <2>7 DEF MemoryIsNotShared, ArraysOK, Made
  <2>10. \A b \in Arrays : Made(b) => Made(b)'
    BY <2>5, <2>7 DEF Made
  <2> QED BY <2>6, <2>7, <2>8, <2>9, <2>10 DEF Kept, ArraysOK
<1>3. CASE ~(s.len < Capacity(s))
  <2>1. Append(Contents(s), v) \in Seq(Values)
    BY <1>1, ContentsAreValues, AppendProperties DEF ArraysOK
  <2>2. Grown(Capacity(s), s.len + 1) \in Int
    BY <1>1, SMTT(40) DEF Grown, Capacity
  <2>3. Replace(a, Append(Contents(s), v), Grown(Capacity(s), s.len + 1))
    BY <1>3 DEF Extend
  <2> QED BY <2>1, <2>2, <2>3, ReplaceKeeps
<1> QED BY <1>2, <1>3

\* splice: what is removed and what is left are allocated one after the other.
LEMMA SplitKeeps ==
  ASSUME ArraysOK, NEW a \in Arrays, Made(a), NEW r \in Arrays, ~Made(r),
         NEW m \in Memories, Free(m), NEW n \in Memories, Free(n), m # n,
         NEW removed \in Seq(Values), NEW left \in Seq(Values),
         memory' = [memory EXCEPT ![m] = removed, ![n] = left],
         arrays' = [arrays EXCEPT ![r] = [memory |-> m, offset |-> 0, len |-> Len(removed)],
                                  ![a] = [memory |-> n, offset |-> 0, len |-> Len(left)]]
  PROVE  Kept
<1> DEFINE t == [memory |-> m, offset |-> 0, len |-> Len(removed)]
           u == [memory |-> n, offset |-> 0, len |-> Len(left)]
<1>1. r # a /\ memory \in [Memories -> Seq(Values)] /\ arrays \in [Arrays -> Slice \cup {NotMade}]
  BY DEF ArraysOK
<1>2. /\ t \in Slice /\ t.memory = m /\ t.offset + t.len <= Len(removed)
      /\ u \in Slice /\ u.memory = n /\ u.offset + u.len <= Len(left)
  BY LenProperties DEF Slice
<1>3. arrays' = [arrays EXCEPT ![r] = t, ![a] = u]
  OBVIOUS
<1> HIDE DEF t, u
<1>4. /\ memory' \in [Memories -> Seq(Values)] /\ memory'[m] = removed /\ memory'[n] = left
      /\ \A k \in Memories \ {m, n} : memory'[k] = memory[k]
  BY <1>1
<1>5. /\ arrays' \in [Arrays -> Slice \cup {NotMade}] /\ arrays'[r] = t /\ arrays'[a] = u
      /\ \A b \in Arrays \ {a, r} : arrays'[b] = arrays[b]
  BY <1>1, <1>2, <1>3, SMTT(40)
<1>6. \A b \in Arrays \ {a, r} : Made(b) => arrays[b].memory \in Memories \ {m, n}
  BY DEF Free, ArraysOK, Made, Slice
<1>7. \A b \in Arrays : Made(b)' => InMemory(arrays[b])'
  <2> SUFFICES ASSUME NEW b \in Arrays, Made(b)' PROVE InMemory(arrays[b])'
    OBVIOUS
  <2>1. CASE b = a
    BY <2>1, <1>2, <1>4, <1>5 DEF InMemory
  <2>2. CASE b = r
    BY <2>2, <1>2, <1>4, <1>5, SMTT(40) DEF InMemory
  <2>3. CASE b \notin {a, r}
    BY <2>3, <1>4, <1>5, <1>6, SMTT(40) DEF InMemory, ArraysOK, Made
  <2> QED BY <2>1, <2>2, <2>3
<1>8. MemoryIsNotShared'
  BY <1>1, <1>2, <1>5, <1>6, SMTT(40) DEF MemoryIsNotShared, ArraysOK, Made
<1>9. \A k \in Memories : ~Free(k) => Len(memory'[k]) = Len(memory[k])
  BY <1>4
<1>10. \A b \in Arrays : Made(b) => Made(b)'
  BY <1>2, <1>5 DEF Made
<1> QED BY <1>4, <1>5, <1>7, <1>8, <1>9, <1>10 DEF Kept, ArraysOK

LEMMA UnchangedKeeps ==
  ASSUME ArraysOK, UNCHANGED <<memory, arrays>>
  PROVE  Kept
BY DEF ArraysOK, Kept, Made, InMemory, MemoryIsNotShared

-----------------------------------------------------------------------------
(* Arguments.                                                              *)

LEMMA IndicesAreInts ==
  Indices \subseteq Int
BY IndicesAssumption, MaxIntAssumption

LEMMA ArgIsInt ==
  ASSUME NEW args \in Args(Indices, 0 .. 2), NEW k \in {1, 2}, NEW default \in Int
  PROVE  Arg(args, k, default) \in Int
<1>1. PICK n \in 0 .. 2 : args \in [1 .. n -> Indices]
  BY DEF Args
<1>2. Len(args) = n
  BY <1>1, LenProperties, IsASeq
<1>3. CASE n < k
  BY <1>2, <1>3 DEF Arg
<1>4. CASE ~(n < k)
  <2>1. k \in 1 .. n
    BY <1>4
  <2> QED BY <1>1, <1>2, <1>4, <2>1, IndicesAreInts DEF Arg
<1> QED BY <1>3, <1>4

\* Start and count of splice stay inside of the array, but for a count that
\* overflows.
LEMMA SpliceBounds ==
  ASSUME NEW args \in Args(Indices, 0 .. 2), Len(args) = 2, NEW n \in Nat
  PROVE  LET bounds == spliceBounds(n, args)
         IN /\ bounds[1] \in 0 .. n /\ bounds[2] \in Nat
            /\ bounds[1] + bounds[2] > n => args[2] > MaxInt - n
<1> DEFINE start == AtMost(NotBelow0(FromEnd(args[1], n)), n)
           count == NotBelow0(args[2])
           c == IF Wrapped(start + count) > n THEN n - start ELSE count
<1>1. args[1] \in Int /\ args[2] \in Int
  <2>1. PICK k \in 0 .. 2 : args \in [1 .. k -> Indices]
    BY DEF Args
  <2>2. Len(args) = k
    BY <2>1, LenProperties, IsASeq
  <2>3. 1 \in 1 .. k /\ 2 \in 1 .. k
    BY <2>2
  <2> QED BY <2>1, <2>3, IndicesAreInts
<1>2. start \in 0 .. n /\ count \in Nat /\ (count > 0 => count = args[2])
  BY <1>1 DEF AtMost, NotBelow0, FromEnd
<1>3. spliceBounds(n, args) = <<start, c>>
  BY DEF spliceBounds, Arg
<1>4. Wrapped(start + count) # start + count => start + count > MaxInt
  BY DEF Wrapped
<1> DEFINE sum == Wrapped(start + count)
<1> HIDE DEF start, count, sum
<1>5. c = IF sum > n THEN n - start ELSE count
  BY DEF sum
<1> HIDE DEF c
<1>6. CASE sum > n
  <2>1. c \in Nat /\ start + c = n
    BY <1>2, <1>5, <1>6
  <2> QED BY <1>2, <1>3, <2>1
<1>7. CASE ~(sum > n)
  <2>1. c = count
    BY <1>5, <1>7
  <2>2. start + count > n => start + count > MaxInt /\ count > 0
    BY <1>2, <1>4, <1>7 DEF sum
  <2>3. start + count > n => args[2] > MaxInt - n
    BY <1>1, <1>2, <2>2, MaxIntAssumption
  <2> QED BY <1>2, <1>3, <2>1, <2>3
<1> QED BY <1>6, <1>7

LEMMA SubSeqOfValues ==
  ASSUME NEW s \in Seq(Values), NEW i \in Nat, NEW j \in Nat, 1 <= i, j <= Len(s)
  PROVE  SubSeq(s, i, j) \in Seq(Values)
<1>1. \A k \in i .. j : s[k] \in Values
  BY LenProperties, ElementOfSeq
<1> QED BY <1>1, SubSeqProperties

-----------------------------------------------------------------------------
(* Methods: each keeps the arrays, and the walks but for their history.    *)

WalksStay == walks' = walks \/ \E a \in Arrays : Moves(a)

LEMMA PanicsKeeps ==
  ASSUME ArraysOK, NEW method, NEW args, NEW n, Panics(method, args, n)
  PROVE  Kept /\ WalksStay
BY UnchangedKeeps DEF Panics, WalksStay

LEMMA MakesKeeps ==
  ASSUME ArraysOK, NEW s \in Seq(Values), NEW c \in Int, NEW method, Makes(s, c, method)
  PROVE  Kept
<1>1. NewArray \in Arrays
  BY DEF Makes, NewArray
<1> HIDE DEF NewArray
<1> QED BY <1>1, ReplaceKeeps DEF Makes

LEMMA NoArguments ==
  ASSUME ArraysOK, NEW a \in Arrays, Made(a),
         arrayPop(a) \/ arrayShift(a) \/ arrayReverse(a) \/ arraySort(a)
  PROVE  Kept /\ WalksStay
<1>0. Length(a) \in Nat /\ Contents(arrays[a]) \in Seq(Values) /\ Len(Contents(arrays[a])) = Length(a)
  BY MadeIsSlice, ContentsAreValues DEF ArraysOK, Length
<1>1. CASE arrayPop(a)
  <2>1. CASE Length(a) = 0
    BY <1>1, <2>1, UnchangedKeeps DEF arrayPop, WalksStay
  <2>2. CASE Length(a) # 0
    <3>1. Narrow(a, 0, Length(a) - 1) /\ Moves(a) /\ Length(a) - 1 \in Nat
      BY <1>0, <1>1, <2>2 DEF arrayPop
    <3> QED BY <1>0, <3>1, NarrowKeeps DEF WalksStay
  <2> QED BY <2>1, <2>2
<1>2. CASE arrayShift(a)
  <2>1. CASE Length(a) = 0
    BY <1>2, <2>1, UnchangedKeeps DEF arrayShift, WalksStay
  <2>2. CASE Length(a) # 0
    <3>1. Narrow(a, 1, Length(a)) /\ Moves(a) /\ 1 <= Length(a)
      BY <1>0, <1>2, <2>2 DEF arrayShift
    <3> QED BY <1>0, <3>1, NarrowKeeps DEF WalksStay
  <2> QED BY <2>1, <2>2
<1>3. CASE arrayReverse(a)
  <2> DEFINE s == Contents(arrays[a])
  <2>1. Overwrite(a, Reverse(s)) /\ walks' = walks
    BY <1>3 DEF arrayReverse
  <2>2. \A i \in 1 .. Length(a) : Reverse(s)[i] \in Values
    <3> HIDE DEF s
    <3> SUFFICES ASSUME NEW i \in 1 .. Length(a) PROVE Reverse(s)[i] \in Values
      OBVIOUS
    <3>1. s \in Seq(Values) /\ Len(s) = Length(a)
      BY <1>0 DEF s
    <3>2. Len(s) - i + 1 \in 1 .. Len(s)
      BY <1>0, <3>1
    <3>3. Reverse(s)[i] = s[Len(s) - i + 1]
      BY <3>1 DEF Reverse
    <3> QED BY <3>1, <3>2, <3>3, ElementOfSeq
  <2> QED BY <2>1, <2>2, OverwriteKeeps DEF WalksStay
<1>4. CASE arraySort(a)
  <2> DEFINE s == Contents(arrays[a])
  <2>1. PICK p \in Bijection(DOMAIN s, DOMAIN s) : Overwrite(a, [i \in DOMAIN s |-> s[p[i]]]) /\ walks' = walks
    BY <1>4 DEF arraySort
  <2>2. DOMAIN s = 1 .. Length(a) /\ \A i \in DOMAIN s : s[i] \in Values
    BY <1>0, LenProperties, ElementOfSeq
  <2>3. \A i \in DOMAIN s : p[i] \in DOMAIN s
    BY DEF Bijection, Injection
  <2> HIDE DEF s
  <2>4. \A i \in 1 .. Length(a) : [j \in DOMAIN s |-> s[p[j]]][i] \in Values
    BY <2>2, <2>3
  <2> QED BY <2>1, <2>4, OverwriteKeeps DEF WalksStay
<1> QED BY <1>1, <1>2, <1>3, <1>4

LEMMA WithAValue ==
  ASSUME ArraysOK, NEW a \in Arrays, Made(a), NEW v \in Values,
         \/ arrayPush(a, v) \/ arrayUnshift(a, v)
         \/ \E args \in Args(Indices, 0 .. 2) : arrayFill(a, v, args)
         \/ \E i \in Indices : Set(a, i, v)
  PROVE  Kept /\ WalksStay
<1>0. Length(a) \in Nat /\ Contents(arrays[a]) \in Seq(Values) /\ Len(Contents(arrays[a])) = Length(a)
  BY MadeIsSlice, ContentsAreValues DEF ArraysOK, Length
<1>1. CASE arrayPush(a, v)
  BY <1>1, ExtendKeeps DEF arrayPush, WalksStay
<1>2. CASE arrayUnshift(a, v)
  <2>1. <<v>> \o Contents(arrays[a]) \in Seq(Values)
    BY <1>0, ConcatProperties
  <2>2. Replace(a, <<v>> \o Contents(arrays[a]), Length(a) + 1) /\ Moves(a)
    BY <1>2 DEF arrayUnshift
  <2>3. Length(a) + 1 \in Int
    BY <1>0
  <2>4. Kept
    BY <2>1, <2>2, <2>3, ReplaceKeeps
  <2> QED BY <2>2, <2>4 DEF WalksStay
<1>3. ASSUME NEW args \in Args(Indices, 0 .. 2), arrayFill(a, v, args)
      PROVE  Kept /\ WalksStay
  <2> DEFINE bounds == fillBounds(Length(a), args)
             s == Contents(arrays[a])
             t == [i \in DOMAIN s |-> IF bounds[1] < i /\ i <= bounds[2] THEN v ELSE s[i]]
  <2>1. Overwrite(a, t) /\ walks' = walks
    BY <1>3 DEF arrayFill
  <2>2. DOMAIN s = 1 .. Length(a) /\ \A i \in 1 .. Length(a) : s[i] \in Values
    BY <1>0, LenProperties, ElementOfSeq
  <2> HIDE DEF bounds, s
  <2>3. \A i \in 1 .. Length(a) : t[i] \in Values
    BY <2>2
  <2> HIDE DEF t
  <2> QED BY <2>1, <2>3, OverwriteKeeps DEF WalksStay
<1>4. ASSUME NEW i \in Indices, Set(a, i, v)
      PROVE  Kept /\ WalksStay
  <2>1. CASE i < 0 /\ Panics("set", <<i>>, Length(a))
    BY <2>1, PanicsKeeps
  <2>2. CASE /\ 0 <= i /\ i < Length(a)
             /\ Overwrite(a, [Contents(arrays[a]) EXCEPT ![i + 1] = v]) /\ walks' = walks
    <3> DEFINE s == Contents(arrays[a])
    <3>1. \A j \in 1 .. Length(a) : [s EXCEPT ![i + 1] = v][j] \in Values
      <4>1. DOMAIN s = 1 .. Length(a) /\ \A j \in 1 .. Length(a) : s[j] \in Values
        BY <1>0, LenProperties, ElementOfSeq
      <4> HIDE DEF s
      <4> QED BY <4>1
    <3> QED BY <2>2, <3>1, OverwriteKeeps DEF WalksStay
  <2>3. CASE i = Length(a) /\ Extend(a, v) /\ Moves(a)
    BY <2>3, ExtendKeeps DEF WalksStay
  <2> QED BY <1>4, <2>1, <2>2, <2>3 DEF Set
<1> QED BY <1>1, <1>2, <1>3, <1>4

LEMMA ConcatKeeps ==
  ASSUME ArraysOK, NEW a \in Arrays, Made(a), NEW added \in Seq(Values), arrayConcat(a, added)
  PROVE  Kept /\ WalksStay
<1>1. Contents(arrays[a]) \o added \in Seq(Values) /\ Length(a) \in Nat /\ Len(added) \in Nat
  BY MadeIsSlice, ContentsAreValues, ConcatProperties, LenProperties DEF ArraysOK, Length
<1> DEFINE c == IF added = <<>> THEN Length(a) + Len(added) ELSE Grown(Length(a), Length(a) + Len(added))
<1>2. c \in Int
  BY <1>1 DEF Grown
<1>3. Makes(Contents(arrays[a]) \o added, c, "concat") /\ walks' = walks
  BY DEF arrayConcat
<1> HIDE DEF c
<1> QED BY <1>1, <1>2, <1>3, MakesKeeps DEF WalksStay

LEMMA SliceKeeps ==
  ASSUME ArraysOK, NEW a \in Arrays, Made(a), NEW args \in Args(Indices, 0 .. 2), arraySlice(a, args)
  PROVE  Kept /\ WalksStay
<1> DEFINE bounds == sliceBounds(Length(a), args)
           b == bounds[1]
           c == bounds[2]
           t == Window(arrays[a], b, c)
<1>0. /\ Length(a) \in Nat /\ arrays[a].offset \in Nat /\ arrays[a].memory \in Memories
      /\ Len(memory[arrays[a].memory]) \in Nat /\ memory \in [Memories -> Seq(Values)]
  BY MadeIsSlice DEF ArraysOK
<1>1. b \in Int /\ c \in Int
  <2>1. Arg(args, 1, 0) \in Int /\ Arg(args, 2, Length(a)) \in Int
    BY <1>0, ArgIsInt
  <2> QED BY <1>0, <2>1 DEF sliceBounds, AtMost, FromEnd, NotBelow0
<1> HIDE DEF bounds, b, c
<1>2. CASE OutOfRange(b, c, Capacity(arrays[a]))
  <2>1. Panics("slice", args, Length(a))
    BY <1>2 DEF arraySlice, bounds, b, c
  <2> QED BY <2>1, PanicsKeeps
<1>3. CASE ~OutOfRange(b, c, Capacity(arrays[a]))
  <2>1. 0 <= b /\ b <= c /\ c <= Len(memory[arrays[a].memory]) - arrays[a].offset
    BY <1>3 DEF OutOfRange, Capacity
  <2>2. t \in Slice /\ InMemory(t)
    <3>1. t = [memory |-> arrays[a].memory, offset |-> arrays[a].offset + b, len |-> c - b]
      BY DEF Window
    <3>2. arrays[a].offset + b \in Nat /\ c - b \in Nat
      BY <1>0, <1>1, <2>1, SMTT(40)
    <3>3. t \in Slice
      BY <1>0, <3>1, <3>2 DEF Slice
    <3>4. t.offset + t.len = arrays[a].offset + c
      BY <1>0, <1>1, <3>1, SMTT(40)
    <3>5. t.offset + t.len <= Len(memory[arrays[a].memory])
      BY <1>0, <1>1, <2>1, <3>4, SMTT(40)
    <3> QED BY <3>1, <3>3, <3>5 DEF InMemory
  <2>3. Makes(Contents(t), c - b, "slice") /\ walks' = walks
    BY <1>3 DEF arraySlice, bounds, b, c
  <2> HIDE DEF t
  <2>4. Contents(t) \in Seq(Values)
    BY <1>0, <2>2, ContentsAreValues
  <2> QED BY <1>1, <2>3, <2>4, MakesKeeps DEF WalksStay
<1> QED BY <1>2, <1>3

LEMMA TwoArguments ==
  ASSUME NEW args \in Args(Indices, 0 .. 2), args # <<>>, Len(args) # 1
  PROVE  Len(args) = 2
<1>1. PICK k \in 0 .. 2 : args \in [1 .. k -> Indices]
  BY DEF Args
<1>2. args \in Seq(Indices) /\ Len(args) = k
  BY <1>1, IsASeq, LenProperties
<1> QED BY <1>2, EmptySeq

LEMMA SpliceKeeps ==
  ASSUME ArraysOK, NEW a \in Arrays, Made(a), NEW args \in Args(Indices, 0 .. 2),
         NEW added \in Seq(Values), arraySplice(a, args, added)
  PROVE  Kept /\ WalksStay
<1> DEFINE bounds == spliceBounds(Length(a), args)
           b == bounds[1]
           end == b + bounds[2]
           s == Contents(arrays[a])
           removed == SubSeq(s, b + 1, end)
           left == Spliced(s, b, end, added)
<1>0. Length(a) \in Nat /\ s \in Seq(Values) /\ Len(s) = Length(a)
  BY MadeIsSlice, ContentsAreValues DEF ArraysOK, Length
<1>1. CASE args = <<>>
  <2>1. Makes(<<>>, 0, "splice") /\ walks' = walks
    BY <1>1 DEF arraySplice
  <2>2. <<>> \in Seq(Values) /\ 0 \in Int
    OBVIOUS
  <2>3. Kept
    BY <2>1, <2>2, MakesKeeps
  <2> QED BY <2>1, <2>3 DEF WalksStay
<1>2. CASE args # <<>> /\ Len(args) = 1
  BY <1>2, PanicsKeeps DEF arraySplice
<1>3. CASE args # <<>> /\ Len(args) # 1
  <2>1. Len(args) = 2
    BY <1>3, TwoArguments
  <2>2. b \in 0 .. Length(a) /\ bounds[2] \in Nat
    BY <1>0, <2>1, SpliceBounds
  <2>3. CASE end > Length(a)
    <3>1. Panics("splice", args, Length(a))
      BY <1>3, <2>3 DEF arraySplice
    <3> QED BY <3>1, PanicsKeeps
  <2>4. CASE ~(end > Length(a))
    <3>1. PICK m \in Memories, n \in Memories :
            /\ Free(m) /\ n # m /\ Free(n)
            /\ memory' = [memory EXCEPT ![m] = removed, ![n] = left]
            /\ arrays' = [arrays EXCEPT ![NewArray] = [memory |-> m, offset |-> 0, len |-> Len(removed)],
                                        ![a] = [memory |-> n, offset |-> 0, len |-> Len(left)]]
      BY <1>3, <2>4 DEF arraySplice
    <3>2. Moves(a) /\ \E r \in Arrays : ~Made(r)
      BY <1>3, <2>4 DEF arraySplice
    <3>3. NewArray \in Arrays /\ ~Made(NewArray)
      BY <3>2 DEF NewArray
    <3> DEFINE len == Length(a)
               count == bounds[2]
    <3> HIDE DEF bounds, s, removed, left
    <3>4. /\ b \in Nat /\ end \in Nat /\ b + 1 \in Nat /\ 1 <= b + 1 /\ end <= Length(a) /\ b <= Length(a)
          /\ end + 1 \in Nat /\ 1 <= end + 1
      <4>1. len \in Nat /\ b \in 0 .. len /\ count \in Nat /\ end = b + count /\ ~(end > len)
        BY <1>0, <2>2, <2>4
      <4> HIDE DEF b, end, len, count
      <4>2. b \in Nat /\ end \in Nat /\ b + 1 \in Nat /\ 1 <= b + 1
        BY <4>1
      <4>3. end <= len /\ b <= len /\ end + 1 \in Nat /\ 1 <= end + 1
        BY <4>1
      <4> QED BY <4>2, <4>3 DEF len
    <3> HIDE DEF b, end
    <3>5. removed \in Seq(Values) /\ SubSeq(s, 1, b) \in Seq(Values) /\ SubSeq(s, end + 1, Len(s)) \in Seq(Values)
      BY <1>0, <3>4, SubSeqOfValues DEF removed
    <3>6. left \in Seq(Values)
      BY <3>5, ConcatProperties DEF Spliced, left
    <3> HIDE DEF NewArray
    <3> QED BY <3>1, <3>2, <3>3, <3>5, <3>6, SplitKeeps DEF WalksStay
  <2> QED BY <2>3, <2>4
<1> QED BY <1>1, <1>2, <1>3

LEMMA MethodKeeps ==
  ASSUME ArraysOK, NEW a \in Arrays, Method(a)
  PROVE  Kept /\ WalksStay
<1>0. Made(a)
  BY DEF Method
<1>1. CASE arrayPop(a) \/ arrayShift(a) \/ arrayReverse(a) \/ arraySort(a)
  BY <1>0, <1>1, NoArguments
<1>2. ASSUME NEW v \in Values,
             \/ arrayPush(a, v) \/ arrayUnshift(a, v) \/ arrayConcat(a, <<v>>)
             \/ \E args \in Args(Indices, 0 .. 2) : arrayFill(a, v, args)
             \/ \E i \in Indices : Set(a, i, v)
      PROVE  Kept /\ WalksStay
  <2>1. <<v>> \in Seq(Values)
    OBVIOUS
  <2>2. CASE arrayConcat(a, <<v>>)
    BY <1>0, <2>1, <2>2, ConcatKeeps
  <2>3. CASE ~arrayConcat(a, <<v>>)
    BY <1>0, <1>2, <2>3, WithAValue
  <2> QED BY <2>2, <2>3
<1>3. ASSUME NEW i \in Indices, DeleteElementOperation(a, i)
      PROVE  Kept /\ WalksStay
  BY <1>0, <1>3, WithAValue DEF DeleteElementOperation
<1>4. ASSUME NEW args \in Args(Indices, 0 .. 2),
             arraySlice(a, args) \/ arraySplice(a, args, <<>>) \/ \E v \in Values : arraySplice(a, args, <<v>>)
      PROVE  Kept /\ WalksStay
  <2>1. <<>> \in Seq(Values) /\ \A v \in Values : <<v>> \in Seq(Values)
    OBVIOUS
  <2>2. CASE arraySlice(a, args)
    BY <1>0, <2>2, SliceKeeps
  <2>3. CASE arraySplice(a, args, <<>>)
    BY <1>0, <2>1, <2>3, SpliceKeeps
  <2>4. ASSUME NEW v \in Values, arraySplice(a, args, <<v>>) PROVE Kept /\ WalksStay
    BY <1>0, <2>1, <2>4, SpliceKeeps
  <2> QED BY <1>4, <2>2, <2>3, <2>4
<1>5. ASSUME NEW b \in Arrays, Made(b), arrayConcat(a, Contents(arrays[b]))
      PROVE  Kept /\ WalksStay
  <2>1. Contents(arrays[b]) \in Seq(Values)
    BY <1>5, MadeIsSlice, ContentsAreValues DEF ArraysOK
  <2> QED BY <1>0, <1>5, <2>1, ConcatKeeps
<1> QED BY <1>1, <1>2, <1>3, <1>4, <1>5 DEF Method

LEMMA UndefinedsAreValues ==
  ASSUME NEW n \in Nat
  PROVE  [i \in 1 .. n |-> Undefined] \in Seq(Values)
<1> DEFINE u == [i \in 1 .. n |-> Undefined]
<1>1. u \in [1 .. n -> Values]
  OBVIOUS
<1> HIDE DEF u
<1>2. u \in Seq(Values)
  BY <1>1, IsASeq
<1> QED BY <1>2 DEF u

LEMMA ConstructorKeeps ==
  ASSUME ArraysOK, NewArrayConstructor
  PROVE  Kept /\ WalksStay
<1>1. ASSUME NEW n \in Indices,
             IF 0 <= n /\ n <= MaxMake
             THEN n <= MaxLength /\ Makes([i \in 1 .. n |-> Undefined], n, "Array") /\ walks' = walks
             ELSE Panics("Array", <<n>>, 0)
      PROVE  Kept /\ WalksStay
  <2>1. CASE 0 <= n /\ n <= MaxMake
    <3> DEFINE u == [i \in 1 .. n |-> Undefined]
    <3>1. n \in Nat /\ n \in Int
      BY <2>1, IndicesAreInts
    <3>2. u \in Seq(Values)
      BY <3>1, UndefinedsAreValues
    <3>3. Makes(u, n, "Array") /\ walks' = walks
      BY <1>1, <2>1
    <3> HIDE DEF u
    <3> QED BY <3>1, <3>2, <3>3, MakesKeeps DEF WalksStay
  <2>2. CASE ~(0 <= n /\ n <= MaxMake)
    <3>1. Panics("Array", <<n>>, 0)
      BY <1>1, <2>2
    <3> QED BY <3>1, PanicsKeeps
  <2> QED BY <2>1, <2>2
<1>2. ASSUME NEW elements \in Args(Values, 0 .. 2), Makes(elements, Len(elements), "Array"), walks' = walks
      PROVE  Kept /\ WalksStay
  <2>1. PICK k \in 0 .. 2 : elements \in [1 .. k -> Values]
    BY DEF Args
  <2>2. elements \in Seq(Values) /\ Len(elements) \in Int
    BY <2>1, IsASeq, LenProperties
  <2> QED BY <1>2, <2>2, MakesKeeps DEF WalksStay
<1> QED BY <1>1, <1>2 DEF NewArrayConstructor

-----------------------------------------------------------------------------
(* Walks: the memory that they hold keeps its size.                        *)

WalksOK == /\ walks \in Seq(WalkRecord)
           /\ \A i \in DOMAIN walks : InMemory(walks[i].elements) /\ Made(walks[i].array)

LEMMA Parts ==
  IInv <=> ArraysOK /\ WalksOK /\ calls \in Nat
BY DEF IInv, TypeOK, ArraysOK, WalksOK

\* Each walk afterwards is over the array and the slice of one before, or is new.
LEMMA WalksKept ==
  ASSUME ArraysOK, WalksOK, Kept, walks' \in Seq(WalkRecord),
         \A i \in DOMAIN walks' :
           \/ \E j \in DOMAIN walks : walks'[i].elements = walks[j].elements /\ walks'[i].array = walks[j].array
           \/ \E a \in Arrays : Made(a) /\ walks'[i].elements = arrays[a] /\ walks'[i].array = a
  PROVE  WalksOK'
<1>1. ASSUME NEW s \in Slice, InMemory(s), ~Free(s.memory)
      PROVE  s.offset + s.len <= Len(memory'[s.memory])
  BY <1>1 DEF Kept, InMemory, Slice
<1>2. \A a \in Arrays : Made(a) => arrays'[a] # NotMade
  BY DEF Kept, Made
<1>3. ASSUME NEW i \in DOMAIN walks'
      PROVE  /\ walks'[i].elements \in Slice
             /\ walks'[i].elements.offset + walks'[i].elements.len <= Len(memory'[walks'[i].elements.memory])
             /\ arrays'[walks'[i].array] # NotMade
  <2>1. CASE \E j \in DOMAIN walks : walks'[i].elements = walks[j].elements /\ walks'[i].array = walks[j].array
    <3>1. PICK j \in DOMAIN walks : walks'[i].elements = walks[j].elements /\ walks'[i].array = walks[j].array
      BY <2>1
    <3>2. InMemory(walks[j].elements) /\ Made(walks[j].array) /\ ~Free(walks[j].elements.memory)
      BY DEF WalksOK, Free
    <3>3. walks[j].array \in Arrays /\ walks[j].elements \in Slice
      <4>1. walks[j] \in WalkRecord
        BY LenProperties, ElementOfSeq DEF WalksOK
      <4> QED BY <4>1 DEF WalkRecord
    <3> QED BY <1>1, <1>2, <3>1, <3>2, <3>3
  <2>2. CASE \E a \in Arrays : Made(a) /\ walks'[i].elements = arrays[a] /\ walks'[i].array = a
    <3>1. PICK a \in Arrays : Made(a) /\ walks'[i].elements = arrays[a] /\ walks'[i].array = a
      BY <2>2
    <3>2. arrays[a] \in Slice /\ InMemory(arrays[a]) /\ ~Free(arrays[a].memory)
      BY <3>1, MadeIsSlice
    <3> QED BY <1>1, <1>2, <3>1, <3>2
  <2> QED BY <1>3, <2>1, <2>2
<1> QED BY <1>3 DEF WalksOK, InMemory, Made

LEMMA WalksStayKeeps ==
  ASSUME ArraysOK, WalksOK, Kept, WalksStay
  PROVE  WalksOK'
<1>1. CASE walks' = walks
  BY <1>1, WalksKept DEF WalksOK
<1>2. ASSUME NEW a \in Arrays, Moves(a)
      PROVE  WalksOK'
  <2>1. walks \in Seq(WalkRecord) /\ DOMAIN walks = 1 .. Len(walks) /\ Len(walks) \in Nat
    BY LenProperties DEF WalksOK
  <2>2. walks' = [i \in 1 .. Len(walks) |-> [walks[i] EXCEPT !.moved = @ \/ walks[i].array = a]]
    BY <1>2, <2>1 DEF Moves
  <2>3. ASSUME NEW i \in 1 .. Len(walks)
        PROVE  /\ walks'[i] \in WalkRecord
               /\ walks'[i].elements = walks[i].elements /\ walks'[i].array = walks[i].array
    <3>1. walks[i] \in WalkRecord
      BY <2>1, ElementOfSeq
    <3>2. walks'[i] = [walks[i] EXCEPT !.moved = @ \/ walks[i].array = a]
      BY <2>2
    <3>3. (walks[i].moved \/ walks[i].array = a) \in BOOLEAN
      OBVIOUS
    <3> QED BY <3>1, <3>2, <3>3 DEF WalkRecord
  <2>4. walks' \in [1 .. Len(walks) -> WalkRecord]
    <3>1. DOMAIN walks' = 1 .. Len(walks) /\ walks' = [i \in 1 .. Len(walks) |-> walks'[i]]
      BY <2>2
    <3> QED BY <2>3, <3>1
  <2>5. walks' \in Seq(WalkRecord) /\ DOMAIN walks' = 1 .. Len(walks)
    BY <2>1, <2>4, IsASeq
  <2> QED BY <2>1, <2>3, <2>5, WalksKept
<1> QED BY <1>1, <1>2 DEF WalksStay

\* The innermost walk is replaced by one over the same array and slice.
LEMMA SetInnermostKeeps ==
  ASSUME ArraysOK, WalksOK, walks # <<>>, NEW w \in WalkRecord, SetInnermost(w), UNCHANGED <<memory, arrays>>,
         w.elements = Innermost.elements, w.array = Innermost.array
  PROVE  Kept /\ WalksOK'
<1>1. walks \in Seq(WalkRecord) /\ DOMAIN walks = 1 .. Len(walks) /\ Len(walks) \in 1 .. Len(walks)
  BY EmptySeq, LenProperties DEF WalksOK
<1>2. walks' = [walks EXCEPT ![Len(walks)] = w]
  BY DEF SetInnermost
<1>3. walks' \in Seq(WalkRecord) /\ DOMAIN walks' = DOMAIN walks
  BY <1>1, <1>2, ExceptSeq
<1>4. \A i \in DOMAIN walks : walks'[i].elements = walks[i].elements /\ walks'[i].array = walks[i].array
  BY <1>1, <1>2 DEF Innermost
<1>5. Kept
  BY UnchangedKeeps
<1> QED BY <1>3, <1>4, <1>5, WalksKept

LEMMA EndWalkKeeps ==
  ASSUME ArraysOK, WalksOK, walks # <<>>, Kept, EndWalk
  PROVE  WalksOK'
<1> DEFINE n == Len(walks) - 1
<1>1. walks \in Seq(WalkRecord) /\ DOMAIN walks = 1 .. Len(walks) /\ n \in Nat
  BY EmptySeq, LenProperties DEF WalksOK
<1>2. \A i \in 1 .. n : i \in DOMAIN walks /\ walks[i] \in WalkRecord
  BY <1>1, ElementOfSeq
<1>3. walks' = SubSeq(walks, 1, n)
  BY DEF EndWalk
<1> HIDE DEF n
<1>4. walks' \in Seq(WalkRecord) /\ Len(walks') = n /\ \A i \in 1 .. n : walks'[i] = walks[i]
  BY <1>1, <1>2, <1>3, SubSeqProperties
<1>5. DOMAIN walks' = 1 .. n
  BY <1>4, LenProperties
<1> QED BY <1>2, <1>4, <1>5, WalksKept

LEMMA InnermostIsRecord ==
  ASSUME WalksOK, walks # <<>>
  PROVE  Innermost \in WalkRecord
<1>1. Len(walks) \in 1 .. Len(walks) /\ walks \in Seq(WalkRecord)
  BY EmptySeq, LenProperties DEF WalksOK
<1> QED BY <1>1, ElementOfSeq DEF Innermost

LEMMA BeginKeeps ==
  ASSUME ArraysOK, WalksOK, NEW a \in Arrays, Begin(a)
  PROVE  Kept /\ WalksOK'
<1>1. Made(a) /\ UNCHANGED <<memory, arrays>> /\ Kept
  BY UnchangedKeeps DEF Begin
<1>2. Length(a) \in Nat /\ arrays[a] \in Slice
  BY <1>1, MadeIsSlice
<1>3. \E method \in WalkMethods, i \in Int :
        walks' = Append(walks, Walk(method, a, i)) /\ (i < 0 => method = "reduceRight")
  <2>1. LastIndex(a) \in Int /\ LastIndex(a) - 1 \in Int
    BY <1>2 DEF LastIndex
  <2>2. ASSUME NEW method \in RangeMethods \cup {"reduce"}, walks' = Append(walks, Walk(method, a, 0))
        PROVE  method \in WalkMethods /\ 0 \in Int /\ ~(0 < 0)
    BY <2>2 DEF WalkMethods
  <2>3. CASE \E method \in RangeMethods \cup {"reduce"} : walks' = Append(walks, Walk(method, a, 0))
    BY <2>2, <2>3
  <2>4. CASE walks' = Append(walks, Walk("reduce", a, 1))
    <3>1. "reduce" \in WalkMethods /\ 1 \in Int /\ ~(1 < 0)
      BY DEF WalkMethods
    <3> QED BY <2>4, <3>1, Zenon
  <2>5. CASE walks' = Append(walks, Walk("reduceRight", a, LastIndex(a)))
    BY <2>1, <2>5 DEF WalkMethods
  <2>6. CASE walks' = Append(walks, Walk("reduceRight", a, LastIndex(a) - 1))
    BY <2>1, <2>6 DEF WalkMethods
  <2> QED BY <2>3, <2>4, <2>5, <2>6 DEF Begin
<1>4. PICK method \in WalkMethods, i \in Int :
        walks' = Append(walks, Walk(method, a, i)) /\ (i < 0 => method = "reduceRight")
  BY <1>3
<1> DEFINE w == Walk(method, a, i)
<1>5. w \in WalkRecord /\ w.elements = arrays[a] /\ w.array = a
  <2>1. <<>> \in Seq(Values)
    OBVIOUS
  <2> QED BY <1>2, <1>4, <2>1 DEF Walk, WalkRecord
<1> HIDE DEF w
<1>6. walks \in Seq(WalkRecord) /\ DOMAIN walks = 1 .. Len(walks) /\ Len(walks) \in Nat
  BY LenProperties DEF WalksOK
<1>7. walks' \in Seq(WalkRecord) /\ Len(walks') = Len(walks) + 1 /\ walks'[Len(walks) + 1] = w
      /\ \A j \in 1 .. Len(walks) : walks'[j] = walks[j]
  BY <1>4, <1>5, <1>6, AppendProperties DEF w
<1>8. DOMAIN walks' = 1 .. Len(walks) + 1
  BY <1>6, <1>7, LenProperties
<1>9. \A j \in DOMAIN walks' : j = Len(walks) + 1 \/ j \in DOMAIN walks
  BY <1>6, <1>8
<1> QED BY <1>1, <1>5, <1>6, <1>7, <1>9, WalksKept

LEMMA VisitKeeps ==
  ASSUME ArraysOK, WalksOK, Visit
  PROVE  Kept /\ WalksOK'
<1> DEFINE w == Innermost
           s == Source(w)
           v == [w EXCEPT !.calling = TRUE, !.entry = Contents(s)[w.index + 1]]
<1>1. walks # <<>> /\ HasMore(w)
  BY DEF Visit, Walking
<1>2. w \in WalkRecord /\ InMemory(w.elements) /\ Made(w.array)
  <2>1. Len(walks) \in DOMAIN walks
    BY <1>1, EmptySeq, LenProperties DEF WalksOK
  <2> QED BY <1>1, <2>1, InnermostIsRecord DEF WalksOK, Innermost
<1>3. s \in Slice /\ InMemory(s)
  BY <1>2, MadeIsSlice DEF Source, WalkRecord
<1>4. CASE w.index >= s.len
  BY <1>4, PanicsKeeps, WalksStayKeeps DEF Visit
<1>5. CASE ~(w.index >= s.len)
  <2>1. SetInnermost(v) /\ UNCHANGED <<memory, arrays>>
    BY <1>5 DEF Visit
  <2>2. w.index \in Int /\ s.len \in Nat /\ w.index >= 0
    <3>1. w.index \in Int /\ s.len \in Nat /\ (w.index < 0 => w.method = "reduceRight")
      BY <1>2, <1>3 DEF WalkRecord, Slice
    <3>2. CASE w.method = "reduceRight"
      BY <1>1, <3>1, <3>2 DEF HasMore, RangeMethods
    <3> QED BY <3>1, <3>2
  <2>3. Contents(s)[w.index + 1] \in Values
    <3>1. w.index + 1 \in 1 .. s.len
      BY <1>5, <2>2
    <3> QED BY <1>3, <3>1, ContentsAreValues, ElementOfSeq DEF ArraysOK
  <2> HIDE DEF w, s
  <2>4. v \in WalkRecord /\ v.elements = w.elements /\ v.array = w.array
    BY <1>2, <2>2, <2>3 DEF WalkRecord
  <2> QED BY <1>1, <2>1, <2>4, SetInnermostKeeps DEF w
<1> QED BY <1>4, <1>5

LEMMA ContinuesKeeps ==
  ASSUME ArraysOK, WalksOK, walks # <<>>, NEW results \in Seq(Values), Continues(results)
  PROVE  Kept /\ WalksOK'
<1> DEFINE w == Innermost
           v == After(w, results)
<1>1. w \in WalkRecord
  BY InnermostIsRecord
<1> HIDE DEF w
<1> DEFINE i == IF w.method = "reduceRight" THEN w.index - 1 ELSE w.index + 1
<1>2. v \in WalkRecord /\ v.elements = w.elements /\ v.array = w.array
  <2>1. i \in Int /\ (i < 0 => w.method = "reduceRight")
    BY <1>1 DEF WalkRecord
  <2>2. v = [w EXCEPT !.calling = FALSE, !.entry = Undefined, !.results = results, !.index = i]
    BY DEF After
  <2> HIDE DEF i, v
  <2> QED BY <1>1, <2>1, <2>2 DEF WalkRecord
<1>3. SetInnermost(v) /\ UNCHANGED <<memory, arrays>>
  BY DEF Continues, w
<1> HIDE DEF v
<1> QED BY <1>2, <1>3, SetInnermostKeeps DEF w

LEMMA InnermostTypes ==
  ASSUME WalksOK, walks # <<>>
  PROVE  Innermost.results \in Seq(Values) /\ Innermost.entry \in Values /\ Innermost.elements.len \in Nat
BY InnermostIsRecord DEF WalkRecord, Slice

LEMMA ReturnKeeps ==
  ASSUME ArraysOK, WalksOK, Return \/ ReturnTrue \/ Throw
  PROVE  Kept /\ WalksOK'
<1>1. walks # <<>>
  BY DEF Return, ReturnTrue, Throw, Calling
<1> DEFINE w == Innermost
<1>2. w.results \in Seq(Values) /\ Append(w.results, w.entry) \in Seq(Values)
  BY <1>1, InnermostTypes, AppendProperties
<1>3. CASE Return
  <2>1. Continues(IF w.method = "map" THEN Append(w.results, w.entry) ELSE w.results)
    BY <1>3 DEF Return
  <2> QED BY <1>1, <1>2, <2>1, ContinuesKeeps
<1>4. CASE ReturnTrue
  <2>1. CASE Continues(Append(w.results, w.entry))
    BY <1>1, <1>2, <2>1, ContinuesKeeps
  <2>2. CASE EndWalk /\ UNCHANGED <<memory, arrays>>
    BY <1>1, <2>2, UnchangedKeeps, EndWalkKeeps
  <2> QED BY <1>4, <2>1, <2>2 DEF ReturnTrue
<1>5. CASE Throw
  BY <1>1, <1>5, UnchangedKeeps, EndWalkKeeps DEF Throw
<1> QED BY <1>3, <1>4, <1>5

LEMMA EndOfWalkKeeps ==
  ASSUME ArraysOK, WalksOK, EndOfWalk
  PROVE  Kept /\ WalksOK'
<1>1. walks # <<>> /\ EndWalk
  BY DEF EndOfWalk, Walking
<1> DEFINE w == Innermost
<1>2. w.results \in Seq(Values) /\ w.elements.len \in Int /\ Len(w.results) \in Nat
  BY <1>1, InnermostTypes, LenProperties
<1>3. \/ Makes(w.results, w.elements.len, "map")
      \/ \E spare \in {0, Len(w.results)} : Makes(w.results, Len(w.results) + spare, "filter")
      \/ UNCHANGED <<memory, arrays>>
  BY DEF EndOfWalk
<1>4. CASE UNCHANGED <<memory, arrays>>
  BY <1>1, <1>4, UnchangedKeeps, EndWalkKeeps
<1>5. CASE Makes(w.results, w.elements.len, "map")
  BY <1>1, <1>2, <1>5, MakesKeeps, EndWalkKeeps
<1>6. ASSUME NEW spare \in {0, Len(w.results)}, Makes(w.results, Len(w.results) + spare, "filter")
      PROVE  Kept /\ WalksOK'
  <2>1. Len(w.results) + spare \in Int
    BY <1>2
  <2> QED BY <1>1, <1>2, <1>6, <2>1, MakesKeeps, EndWalkKeeps
<1> QED BY <1>3, <1>4, <1>5, <1>6

-----------------------------------------------------------------------------
(* The theorems.                                                           *)

LEMMA InitHolds ==
  ASSUME Init, Arrays # {}, Memories # {}
  PROVE  IInv
<1> DEFINE a == CHOOSE a \in Arrays : TRUE
           m == CHOOSE m \in Memories : TRUE
           s == [memory |-> m, offset |-> 0, len |-> Len(Initial)]
<1>1. a \in Arrays /\ m \in Memories
  OBVIOUS
<1>2. /\ arrays = [b \in Arrays |-> IF b = a THEN s ELSE NotMade]
      /\ memory = [n \in Memories |-> IF n = m THEN Initial ELSE <<>>]
      /\ walks = <<>> /\ calls = 0
  BY DEF Init
<1>3. s \in Slice /\ s.memory = m /\ s.offset + s.len <= Len(Initial)
  BY <1>1, InitialAssumption, LenProperties DEF Slice
<1>4. <<>> \in Seq(Values) /\ <<>> \in Seq(WalkRecord) /\ DOMAIN <<>> = {}
  OBVIOUS
<1> HIDE DEF a, m, s
<1>5. memory \in [Memories -> Seq(Values)] /\ memory[m] = Initial
  BY <1>1, <1>2, <1>4, InitialAssumption
<1>6. arrays \in [Arrays -> Slice \cup {NotMade}] /\ \A b \in Arrays : Made(b) => b = a /\ arrays[b] = s
  BY <1>1, <1>2, <1>3 DEF Made
<1>7. \A b \in Arrays : Made(b) => InMemory(arrays[b])
  BY <1>3, <1>5, <1>6 DEF InMemory
<1>8. ArraysOK
  BY <1>5, <1>6, <1>7 DEF ArraysOK, MemoryIsNotShared
<1>9. WalksOK
  BY <1>2, <1>4 DEF WalksOK
<1>10. calls \in Nat
  BY <1>2
<1> QED BY <1>8, <1>9, <1>10, Parts

LEMMA NextKeeps ==
  ASSUME IInv, [Next]_vars
  PROVE  IInv'
<1>1. ArraysOK /\ WalksOK /\ calls \in Nat
  BY Parts
<1>2. CASE UNCHANGED vars
  BY <1>2 DEF vars, IInv, TypeOK, MemoryIsNotShared, InMemory, Made
<1>3. ASSUME Kept /\ WalksOK', calls' \in Nat
      PROVE  IInv'
  BY <1>3 DEF Kept, IInv, TypeOK, ArraysOK, WalksOK
<1>4. ASSUME NEW a \in Arrays, Method(a)
      PROVE  IInv'
  <2>1. calls' \in Nat
    BY <1>1, <1>4 DEF Method, Called
  <2> QED BY <1>1, <1>3, <1>4, <2>1, MethodKeeps, WalksStayKeeps
<1>5. ASSUME NEW a \in Arrays, Begin(a)
      PROVE  IInv'
  <2>1. calls' \in Nat
    BY <1>1, <1>5 DEF Begin, Called
  <2> QED BY <1>1, <1>3, <1>5, <2>1, BeginKeeps
<1>6. CASE Visit
  <2>1. calls' \in Nat
    BY <1>1, <1>6 DEF Visit
  <2> QED BY <1>1, <1>3, <1>6, <2>1, VisitKeeps
<1>7. CASE Return \/ ReturnTrue \/ Throw
  <2>1. calls' \in Nat
    BY <1>1, <1>7 DEF Return, ReturnTrue, Throw
  <2> QED BY <1>1, <1>3, <1>7, <2>1, ReturnKeeps
<1>8. CASE EndOfWalk
  <2>1. calls' \in Nat
    BY <1>1, <1>8 DEF EndOfWalk
  <2> QED BY <1>1, <1>3, <1>8, <2>1, EndOfWalkKeeps
<1>9. CASE NewArrayConstructor
  <2>1. calls' \in Nat
    BY <1>1, <1>9 DEF NewArrayConstructor, Called
  <2> QED BY <1>1, <1>3, <1>9, <2>1, ConstructorKeeps, WalksStayKeeps
<1> QED BY <1>2, <1>4, <1>5, <1>6, <1>7, <1>8, <1>9 DEF Next

\* Slices stay inside of the memory that was allocated for them, those that
\* walks hold as well as those of arrays: no method of native/array.go reads or
\* writes past what it has.
THEOREM SlicesAreInMemory ==
  Spec => []TypeOK
<1>1. Init => IInv
  BY InitHolds, SomeAssumption
<1>2. IInv /\ [Next]_vars => IInv'
  BY NextKeeps
<1>3. IInv => TypeOK
  BY DEF IInv
<1> QED BY <1>1, <1>2, <1>3, PTL DEF Spec

\* No two arrays share memory, however many there are and whatever walks are
\* under way: what push, splice, fill or an assignment writes is seen in one.
THEOREM NoSharedMemory ==
  Spec => []MemoryIsNotShared
<1>1. Init => IInv
  BY InitHolds, SomeAssumption
<1>2. IInv /\ [Next]_vars => IInv'
  BY NextKeeps
<1>3. IInv => MemoryIsNotShared
  BY DEF IInv
<1> QED BY <1>1, <1>2, <1>3, PTL DEF Spec

-----------------------------------------------------------------------------
(* A walk and its array: as long as no method has given the array another  *)
(* window, the walk's is the array's, and reduceRight is inside of it.     *)

WalksFollow ==
  \A i \in DOMAIN walks :
    /\ ~walks[i].moved => arrays[walks[i].array] = walks[i].elements
    /\ walks[i].method = "reduceRight" => walks[i].index < walks[i].elements.len
FInv == IInv /\ WalksFollow /\ PanicsOnlyWhere

\* Only the array whose walks are told of it gets another window.
ArraysFollow ==
  \/ walks' = walks /\ \A b \in Arrays : Made(b) => arrays'[b] = arrays[b]
  \/ \E a \in Arrays : Moves(a) /\ \A b \in Arrays \ {a} : Made(b) => arrays'[b] = arrays[b]
Follows == ArraysFollow /\ (panicked' = panicked \/ PanicsOnlyWhere')

LEMMA OthersStay ==
  ASSUME ArraysOK, NEW a \in Arrays,
         \/ \E i, j \in Int : Narrow(a, i, j)
         \/ \E s, c : Replace(a, s, c)
         \/ \E v : Extend(a, v)
  PROVE  \A b \in Arrays \ {a} : arrays'[b] = arrays[b]
<1>1. \A s, c : Replace(a, s, c) => \A b \in Arrays \ {a} : arrays'[b] = arrays[b]
  BY DEF Replace, ArraysOK
<1>2. \A i, j \in Int : Narrow(a, i, j) => \A b \in Arrays \ {a} : arrays'[b] = arrays[b]
  BY DEF Narrow, ArraysOK
<1>3. ASSUME NEW v, Extend(a, v)
      PROVE  \A b \in Arrays \ {a} : arrays'[b] = arrays[b]
  <2>1. CASE arrays[a].len < Capacity(arrays[a])
    <3>1. arrays' = [arrays EXCEPT ![a].len = arrays[a].len + 1]
      BY <1>3, <2>1 DEF Extend
    <3> QED BY <3>1 DEF ArraysOK
  <2>2. CASE ~(arrays[a].len < Capacity(arrays[a]))
    BY <1>1, <1>3, <2>2 DEF Extend
  <2> QED BY <2>1, <2>2
<1> QED BY <1>1, <1>2, <1>3

LEMMA MakesFollows ==
  ASSUME ArraysOK, NEW s, NEW c, NEW method, Makes(s, c, method)
  PROVE  /\ \A b \in Arrays : Made(b) => arrays'[b] = arrays[b]
         /\ panicked' = panicked
<1>1. NewArray \in Arrays /\ ~Made(NewArray)
  BY DEF Makes, NewArray
<1> HIDE DEF NewArray
<1>2. \A b \in Arrays \ {NewArray} : arrays'[b] = arrays[b]
  BY <1>1, OthersStay DEF Makes
<1>3. panicked' = panicked
  BY DEF Makes, Ok
<1> QED BY <1>1, <1>2, <1>3

LEMMA PanicsFollows ==
  ASSUME NEW method, NEW args, NEW n, Panics(method, args, n)
  PROVE  /\ ArraysFollow
         /\ panicked'.method = method /\ panicked'.args = args /\ panicked'.len = n
BY DEF Panics, ArraysFollow

LEMMA NoArgumentsFollow ==
  ASSUME ArraysOK, NEW a \in Arrays, Made(a),
         arrayPop(a) \/ arrayShift(a) \/ arrayReverse(a) \/ arraySort(a)
  PROVE  ArraysFollow /\ panicked' = panicked
<1>0. Length(a) \in Nat
  BY MadeIsSlice
<1>1. ASSUME NEW i \in Int, NEW j \in Int, Narrow(a, i, j), Moves(a)
      PROVE  ArraysFollow
  BY <1>1, OthersStay DEF ArraysFollow
<1>2. CASE arrayPop(a)
  <2>1. CASE Length(a) = 0
    BY <1>2, <2>1 DEF arrayPop, ArraysFollow, Ok
  <2>2. CASE Length(a) # 0
    <3>1. Narrow(a, 0, Length(a) - 1) /\ Moves(a) /\ panicked' = panicked
      BY <1>2, <2>2 DEF arrayPop, Ok
    <3>2. 0 \in Int /\ Length(a) - 1 \in Int
      BY <1>0
    <3> QED BY <1>1, <3>1, <3>2
  <2> QED BY <2>1, <2>2
<1>3. CASE arrayShift(a)
  <2>1. CASE Length(a) = 0
    BY <1>3, <2>1 DEF arrayShift, ArraysFollow, Ok
  <2>2. CASE Length(a) # 0
    <3>1. Narrow(a, 1, Length(a)) /\ Moves(a) /\ panicked' = panicked
      BY <1>3, <2>2 DEF arrayShift, Ok
    <3>2. 1 \in Int /\ Length(a) \in Int
      BY <1>0
    <3> QED BY <1>1, <3>1, <3>2
  <2> QED BY <2>1, <2>2
<1>4. CASE arrayReverse(a)
  BY <1>4, SMTT(40) DEF arrayReverse, Overwrite, Ok, ArraysFollow
<1>5. CASE arraySort(a)
  BY <1>5 DEF arraySort, Overwrite, Ok, ArraysFollow
<1> QED BY <1>2, <1>3, <1>4, <1>5

LEMMA WithAValueFollow ==
  ASSUME ArraysOK, NEW a \in Arrays, Made(a), NEW v \in Values,
         \/ arrayPush(a, v) \/ arrayUnshift(a, v)
         \/ \E args \in Args(Indices, 0 .. 2) : arrayFill(a, v, args)
         \/ \E i \in Indices : Set(a, i, v)
  PROVE  Follows
<1>1. CASE arrayPush(a, v)
  <2>1. Extend(a, v) /\ Moves(a) /\ panicked' = panicked
    BY <1>1 DEF arrayPush, Ok
  <2> QED BY <2>1, OthersStay DEF Follows, ArraysFollow
<1>2. CASE arrayUnshift(a, v)
  <2>1. (\E s, c : Replace(a, s, c)) /\ Moves(a) /\ panicked' = panicked
    BY <1>2, SMTT(40) DEF arrayUnshift, Ok
  <2> QED BY <2>1, OthersStay DEF Follows, ArraysFollow
<1>3. CASE \E args \in Args(Indices, 0 .. 2) : arrayFill(a, v, args)
  BY <1>3 DEF arrayFill, Overwrite, Ok, Follows, ArraysFollow
<1>4. ASSUME NEW i \in Indices, Set(a, i, v)
      PROVE  Follows
  <2>1. CASE i < 0 /\ Panics("set", <<i>>, Length(a))
    <3>1. /\ ArraysFollow /\ i < 0
          /\ panicked'.method = "set" /\ panicked'.args = <<i>>
      BY <2>1, PanicsFollows
    <3>2. PanicsOnlyWhere'
      BY <3>1 DEF PanicsOnlyWhere
    <3> QED BY <3>1, <3>2 DEF Follows
  <2>2. CASE \E s : Overwrite(a, s) /\ Ok(Nothing) /\ walks' = walks
    BY <2>2 DEF Overwrite, Ok, Follows, ArraysFollow
  <2>3. CASE Extend(a, v) /\ Ok(Nothing) /\ Moves(a)
    BY <2>3, OthersStay DEF Ok, Follows, ArraysFollow
  <2> QED BY <1>4, <2>1, <2>2, <2>3 DEF Set
<1> QED BY <1>1, <1>2, <1>3, <1>4

LEMMA ConcatFollow ==
  ASSUME ArraysOK, NEW a \in Arrays, NEW added, arrayConcat(a, added)
  PROVE  ArraysFollow /\ panicked' = panicked
<1>1. walks' = walks /\ \E s, c, method : Makes(s, c, method)
  BY DEF arrayConcat
<1> QED BY <1>1, MakesFollows DEF ArraysFollow

\* What slice works out is refused only when its second argument is before the
\* start of the array.
LEMMA SliceRefused ==
  ASSUME NEW n \in Nat, NEW args \in Args(Indices, 0 .. 2), NEW capacity \in Int, n <= capacity,
         OutOfRange(sliceBounds(n, args)[1], sliceBounds(n, args)[2], capacity)
  PROVE  Len(args) = 2 /\ args[2] < 0 - n
<1> DEFINE second == Arg(args, 2, n)
           end == AtMost(FromEnd(second, n), n)
           first == AtMost(NotBelow0(FromEnd(Arg(args, 1, 0), n)), n)
           start == AtMost(first, end)
<1>1. sliceBounds(n, args) = <<start, end>>
  BY DEF sliceBounds
<1>2. second \in Int /\ Arg(args, 1, 0) \in Int
  BY ArgIsInt
<1>3. end \in Int /\ end <= n /\ first \in 0 .. n
  BY <1>2 DEF AtMost, FromEnd, NotBelow0
<1>4. end < 0 => second < 0 - n
  BY <1>2 DEF AtMost, FromEnd
<1> HIDE DEF second, end, first
<1>5. start <= end /\ (start < 0 => end < 0)
  BY <1>3 DEF AtMost
<1>6. start \in Int
  BY <1>3 DEF AtMost
<1> HIDE DEF start
<1>7. end < 0
  BY <1>1, <1>3, <1>5, <1>6 DEF OutOfRange
<1>8. second < 0 - n
  BY <1>4, <1>7
<1>9. PICK k \in 0 .. 2 : args \in [1 .. k -> Indices]
  BY DEF Args
<1>10. Len(args) = k
  BY <1>9, LenProperties, IsASeq
<1>11. second = IF k < 2 THEN n ELSE args[2]
  BY <1>10 DEF second, Arg
<1> QED BY <1>8, <1>9, <1>10, <1>11

LEMMA SliceFollow ==
  ASSUME ArraysOK, NEW a \in Arrays, Made(a), NEW args \in Args(Indices, 0 .. 2), arraySlice(a, args)
  PROVE  Follows
<1> DEFINE bounds == sliceBounds(Length(a), args)
<1>0. /\ Length(a) \in Nat /\ arrays[a].offset \in Nat /\ Len(memory[arrays[a].memory]) \in Nat
      /\ arrays[a].offset + Length(a) <= Len(memory[arrays[a].memory])
  BY MadeIsSlice DEF InMemory, Length
<1>1. CASE OutOfRange(bounds[1], bounds[2], Capacity(arrays[a]))
  <2>1. Panics("slice", args, Length(a))
    BY <1>1 DEF arraySlice
  <2>2. Capacity(arrays[a]) \in Int /\ Length(a) <= Capacity(arrays[a])
    BY <1>0 DEF Capacity
  <2>3. Len(args) = 2 /\ args[2] < 0 - Length(a)
    BY <1>0, <1>1, <2>2, SliceRefused
  <2>4. PanicsOnlyWhere'
    BY <2>1, <2>3, PanicsFollows DEF PanicsOnlyWhere
  <2> QED BY <2>1, <2>4, PanicsFollows DEF Follows
<1>2. CASE ~OutOfRange(bounds[1], bounds[2], Capacity(arrays[a]))
  <2>1. walks' = walks /\ \E s, c, method : Makes(s, c, method)
    BY <1>2 DEF arraySlice
  <2> QED BY <2>1, MakesFollows DEF Follows, ArraysFollow
<1> QED BY <1>1, <1>2

LEMMA SpliceFollow ==
  ASSUME ArraysOK, NEW a \in Arrays, Made(a), NEW args \in Args(Indices, 0 .. 2), NEW added, arraySplice(a, args, added)
  PROVE  Follows
<1>1. CASE args = <<>>
  <2>1. walks' = walks /\ \E s, c, method : Makes(s, c, method)
    BY <1>1 DEF arraySplice
  <2> QED BY <2>1, MakesFollows DEF Follows, ArraysFollow
<1>2. CASE args # <<>> /\ Len(args) = 1
  <2>1. Panics("splice", args, Length(a))
    BY <1>2 DEF arraySplice
  <2>2. PanicsOnlyWhere'
    BY <1>2, <2>1, PanicsFollows DEF PanicsOnlyWhere
  <2> QED BY <2>1, <2>2, PanicsFollows DEF Follows
<1> DEFINE bounds == spliceBounds(Length(a), args)
           end == bounds[1] + bounds[2]
<1>3. CASE args # <<>> /\ Len(args) # 1 /\ end > Length(a)
  <2>1. Panics("splice", args, Length(a))
    BY <1>3 DEF arraySplice
  <2>2. Len(args) = 2 /\ Length(a) \in Nat
    BY <1>3, TwoArguments, MadeIsSlice
  <2>3. args[2] > MaxInt - Length(a)
    BY <1>3, <2>2, SpliceBounds
  <2> HIDE DEF bounds, end
  <2>4. PanicsOnlyWhere'
    BY <2>1, <2>2, <2>3, PanicsFollows DEF PanicsOnlyWhere
  <2> QED BY <2>1, <2>4, PanicsFollows DEF Follows
<1>4. CASE args # <<>> /\ Len(args) # 1 /\ ~(end > Length(a))
  <2>1. /\ \E r \in Arrays : ~Made(r)
        /\ \E s, t : arrays' = [arrays EXCEPT ![NewArray] = s, ![a] = t]
        /\ Moves(a) /\ panicked' = panicked
    BY <1>4 DEF arraySplice, Ok
  <2>2. ~Made(NewArray)
    BY <2>1 DEF NewArray
  <2> HIDE DEF NewArray
  <2>3. \A b \in Arrays \ {a} : Made(b) => arrays'[b] = arrays[b]
    BY <2>1, <2>2 DEF ArraysOK
  <2> QED BY <2>1, <2>3 DEF Follows, ArraysFollow
<1> QED BY <1>1, <1>2, <1>3, <1>4

LEMMA ConstructorFollows ==
  ASSUME ArraysOK, NewArrayConstructor
  PROVE  Follows
<1>1. ASSUME \E s, c, method : Makes(s, c, method), walks' = walks
      PROVE  Follows
  BY <1>1, MakesFollows DEF Follows, ArraysFollow
<1>2. ASSUME NEW n \in Indices, ~(0 <= n /\ n <= MaxMake), Panics("Array", <<n>>, 0)
      PROVE  Follows
  <2>1. n < 0 \/ n > MaxMake
    BY <1>2, IndicesAreInts, MaxIntAssumption
  <2>2. PanicsOnlyWhere'
    BY <1>2, <2>1, PanicsFollows DEF PanicsOnlyWhere
  <2> QED BY <1>2, <2>2, PanicsFollows DEF Follows
<1>3. CASE \E n \in Indices :
             IF 0 <= n /\ n <= MaxMake
             THEN n <= MaxLength /\ Makes([i \in 1 .. n |-> Undefined], n, "Array") /\ walks' = walks
             ELSE Panics("Array", <<n>>, 0)
  BY <1>1, <1>2, <1>3
<1>4. CASE \E elements \in Args(Values, 0 .. 2) :
             Makes(elements, Len(elements), "Array") /\ walks' = walks
  BY <1>1, <1>4
<1> QED BY <1>3, <1>4 DEF NewArrayConstructor

LEMMA MethodFollows ==
  ASSUME ArraysOK, NEW a \in Arrays, Method(a)
  PROVE  Follows
<1>0. Made(a)
  BY DEF Method
<1>1. CASE arrayPop(a) \/ arrayShift(a) \/ arrayReverse(a) \/ arraySort(a)
  BY <1>0, <1>1, NoArgumentsFollow DEF Follows
<1>2. ASSUME NEW v \in Values,
             \/ arrayPush(a, v) \/ arrayUnshift(a, v) \/ arrayConcat(a, <<v>>)
             \/ \E args \in Args(Indices, 0 .. 2) : arrayFill(a, v, args)
             \/ \E i \in Indices : Set(a, i, v)
      PROVE  Follows
  <2>1. CASE arrayConcat(a, <<v>>)
    BY <2>1, ConcatFollow DEF Follows
  <2>2. CASE ~arrayConcat(a, <<v>>)
    BY <1>0, <1>2, <2>2, WithAValueFollow
  <2> QED BY <2>1, <2>2
<1>3. ASSUME NEW i \in Indices, DeleteElementOperation(a, i)
      PROVE  Follows
  BY <1>0, <1>3, WithAValueFollow DEF DeleteElementOperation
<1>4. ASSUME NEW args \in Args(Indices, 0 .. 2),
             arraySlice(a, args) \/ arraySplice(a, args, <<>>) \/ \E v \in Values : arraySplice(a, args, <<v>>)
      PROVE  Follows
  BY <1>0, <1>4, SliceFollow, SpliceFollow
<1>5. ASSUME NEW b \in Arrays, Made(b), arrayConcat(a, Contents(arrays[b]))
      PROVE  Follows
  BY <1>5, ConcatFollow DEF Follows
<1> QED BY <1>1, <1>2, <1>3, <1>4, <1>5 DEF Method

LEMMA WalksAreRecords ==
  ASSUME WalksOK
  PROVE  /\ walks \in Seq(WalkRecord) /\ DOMAIN walks = 1 .. Len(walks) /\ Len(walks) \in Nat
         /\ \A i \in DOMAIN walks : /\ walks[i] \in WalkRecord /\ Made(walks[i].array)
                                    /\ walks[i].array \in Arrays /\ walks[i].moved \in BOOLEAN
                                    /\ walks[i].index \in Int /\ walks[i].elements.len \in Nat
         /\ walks # <<>> => Len(walks) \in DOMAIN walks
<1>1. walks \in Seq(WalkRecord) /\ DOMAIN walks = 1 .. Len(walks) /\ Len(walks) \in Nat
  BY LenProperties DEF WalksOK
<1>2. \A i \in DOMAIN walks : walks[i] \in WalkRecord /\ Made(walks[i].array)
  BY <1>1, ElementOfSeq DEF WalksOK
<1>3. walks # <<>> => Len(walks) \in DOMAIN walks
  BY <1>1, EmptySeq
<1> QED BY <1>1, <1>2, <1>3 DEF WalkRecord, Slice

LEMMA WalksFollowKept ==
  ASSUME WalksOK, WalksFollow, ArraysFollow
  PROVE  WalksFollow'
<1>1. CASE walks' = walks /\ \A b \in Arrays : Made(b) => arrays'[b] = arrays[b]
  BY <1>1, WalksAreRecords DEF WalksFollow
<1>2. ASSUME NEW a \in Arrays, Moves(a), \A b \in Arrays \ {a} : Made(b) => arrays'[b] = arrays[b]
      PROVE  WalksFollow'
  <2>1. DOMAIN walks' = DOMAIN walks
    BY <1>2 DEF Moves
  <2>2. SUFFICES ASSUME NEW i \in DOMAIN walks
                 PROVE  /\ ~walks'[i].moved => arrays'[walks'[i].array] = walks'[i].elements
                        /\ walks'[i].method = "reduceRight" => walks'[i].index < walks'[i].elements.len
    BY <2>1 DEF WalksFollow
  <2> DEFINE w == walks[i]
  <2>3. walks'[i] = [w EXCEPT !.moved = w.moved \/ w.array = a]
    BY <1>2 DEF Moves
  <2>4. w \in WalkRecord /\ w.array \in Arrays /\ Made(w.array)
    BY WalksAreRecords
  <2>5. /\ ~w.moved => arrays[w.array] = w.elements
        /\ w.method = "reduceRight" => w.index < w.elements.len
    BY DEF WalksFollow
  <2> HIDE DEF w
  <2>6. /\ walks'[i].moved = (w.moved \/ w.array = a) /\ walks'[i].array = w.array
        /\ walks'[i].elements = w.elements /\ walks'[i].method = w.method /\ walks'[i].index = w.index
    BY <2>3, <2>4 DEF WalkRecord
  <2> QED BY <1>2, <2>4, <2>5, <2>6
<1> QED BY <1>1, <1>2 DEF ArraysFollow

\* A walk goes on, to the index before the one that it was at, or to another.
LEMMA SetInnermostFollows ==
  ASSUME WalksOK, WalksFollow, walks # <<>>, NEW w, SetInnermost(w), arrays' = arrays,
         w.elements = Innermost.elements, w.array = Innermost.array,
         w.method = Innermost.method, w.moved = Innermost.moved,
         w.method = "reduceRight" => w.index <= Innermost.index, w.index \in Int
  PROVE  WalksFollow'
<1>1. DOMAIN walks' = DOMAIN walks /\ walks'[Len(walks)] = w
      /\ \A i \in DOMAIN walks \ {Len(walks)} : walks'[i] = walks[i]
  BY WalksAreRecords DEF SetInnermost
<1>2. Len(walks) \in DOMAIN walks /\ Innermost = walks[Len(walks)]
      /\ Innermost.index \in Int /\ Innermost.elements.len \in Nat
  BY WalksAreRecords DEF Innermost
<1>3. SUFFICES ASSUME NEW i \in DOMAIN walks
               PROVE  /\ ~walks'[i].moved => arrays'[walks'[i].array] = walks'[i].elements
                      /\ walks'[i].method = "reduceRight" => walks'[i].index < walks'[i].elements.len
  BY <1>1 DEF WalksFollow
<1>4. CASE i # Len(walks)
  BY <1>1, <1>4 DEF WalksFollow
<1>5. CASE i = Len(walks)
  <2>1. /\ ~Innermost.moved => arrays[Innermost.array] = Innermost.elements
        /\ Innermost.method = "reduceRight" => Innermost.index < Innermost.elements.len
    BY <1>2 DEF WalksFollow
  <2>2. w.method = "reduceRight" => w.index < w.elements.len
    <3> DEFINE j == Innermost.index
               n == Innermost.elements.len
               k == w.index
    <3>1. j \in Int /\ n \in Int /\ k \in Int /\ w.elements.len = n
      BY <1>2
    <3>2. w.method = "reduceRight" => k <= j /\ j < n
      BY <2>1
    <3> HIDE DEF j, n, k
    <3>3. w.method = "reduceRight" => k < n
      BY <3>1, <3>2
    <3> QED BY <3>1, <3>3 DEF k
  <2> QED BY <1>1, <1>5, <2>1, <2>2
<1> QED BY <1>4, <1>5

LEMMA BeginFollows ==
  ASSUME ArraysOK, WalksOK, WalksFollow, NEW a \in Arrays, Begin(a)
  PROVE  WalksFollow'
<1>1. Made(a) /\ arrays' = arrays /\ Length(a) \in Nat
  BY MadeIsSlice DEF Begin
<1>2. \E method, i : /\ walks' = Append(walks, Walk(method, a, i))
                     /\ method = "reduceRight" => i < Length(a)
  <2>1. CASE \E method \in RangeMethods \cup {"reduce"} : walks' = Append(walks, Walk(method, a, 0))
    BY <2>1 DEF RangeMethods
  <2>2. LastIndex(a) < Length(a) /\ LastIndex(a) - 1 < Length(a)
    BY <1>1 DEF LastIndex
  <2>3. CASE walks' = Append(walks, Walk("reduceRight", a, LastIndex(a)))
    BY <2>2, <2>3
  <2>4. CASE walks' = Append(walks, Walk("reduce", a, 1))
    BY <2>4, "reduce" # "reduceRight"
  <2>5. CASE walks' = Append(walks, Walk("reduceRight", a, LastIndex(a) - 1))
    BY <2>2, <2>5
  <2> QED BY <2>1, <2>3, <2>4, <2>5 DEF Begin
<1>3. PICK method, i : /\ walks' = Append(walks, Walk(method, a, i))
                       /\ method = "reduceRight" => i < Length(a)
  BY <1>2
<1> DEFINE w == Walk(method, a, i)
<1>4. w.elements = arrays[a] /\ w.array = a /\ w.method = method /\ w.index = i
  BY DEF Walk
<1>5. walks' = Append(walks, w)
  BY <1>3
<1> HIDE DEF w
<1>6. /\ DOMAIN walks' = 1 .. Len(walks) + 1 /\ walks'[Len(walks) + 1] = w
      /\ \A j \in DOMAIN walks : walks'[j] = walks[j]
  <2> DEFINE S == WalkRecord \cup {w}
  <2>1. walks \in [1 .. Len(walks) -> S] /\ Len(walks) \in Nat /\ DOMAIN walks = 1 .. Len(walks)
    BY WalksAreRecords
  <2>2. walks \in Seq(S) /\ w \in S
    BY <2>1, IsASeq
  <2>3. Append(walks, w) \in Seq(S) /\ Len(Append(walks, w)) = Len(walks) + 1
        /\ Append(walks, w)[Len(walks) + 1] = w /\ \A j \in 1 .. Len(walks) : Append(walks, w)[j] = walks[j]
    BY <2>2, AppendProperties
  <2> QED BY <1>5, <2>1, <2>3, LenProperties
<1>7. SUFFICES ASSUME NEW j \in DOMAIN walks'
               PROVE  /\ ~walks'[j].moved => arrays'[walks'[j].array] = walks'[j].elements
                      /\ walks'[j].method = "reduceRight" => walks'[j].index < walks'[j].elements.len
  BY DEF WalksFollow
<1>8. j \in DOMAIN walks \/ j = Len(walks) + 1
  BY <1>6, WalksAreRecords
<1>9. CASE j \in DOMAIN walks
  BY <1>1, <1>6, <1>9 DEF WalksFollow
<1>10. CASE j = Len(walks) + 1
  BY <1>1, <1>3, <1>4, <1>6, <1>10 DEF Length
<1> QED BY <1>8, <1>9, <1>10

LEMMA EndWalkFollows ==
  ASSUME WalksOK, WalksFollow, walks # <<>>, EndWalk,
         \A b \in Arrays : Made(b) => arrays'[b] = arrays[b]
  PROVE  WalksFollow'
<1> DEFINE n == Len(walks) - 1
<1>1. walks \in Seq(WalkRecord) /\ DOMAIN walks = 1 .. Len(walks) /\ n \in Nat /\ n <= Len(walks)
  BY EmptySeq, LenProperties DEF WalksOK
<1>2. \A i \in 1 .. n : i \in DOMAIN walks /\ walks[i] \in WalkRecord
  BY <1>1, ElementOfSeq
<1>3. walks' = SubSeq(walks, 1, n)
  BY DEF EndWalk
<1> HIDE DEF n
<1>4. walks' \in Seq(WalkRecord) /\ Len(walks') = n /\ \A i \in 1 .. n : walks'[i] = walks[i]
  BY <1>1, <1>2, <1>3, SubSeqProperties
<1>5. DOMAIN walks' = 1 .. n
  BY <1>4, LenProperties
<1> QED BY <1>2, <1>4, <1>5, WalksAreRecords DEF WalksFollow

\* What a callback is given, and why reduceRight panics
LEMMA VisitFollows ==
  ASSUME ArraysOK, WalksOK, WalksFollow, Visit
  PROVE  WalksFollow' /\ (panicked' = panicked \/ PanicsOnlyWhere') /\ VisitIsCurrent
<1> DEFINE w == Innermost
           s == Source(w)
<1>1. walks # <<>> /\ HasMore(w)
  BY DEF Visit, Walking
<1>2. w \in WalkRecord /\ Made(w.array) /\ Len(walks) \in DOMAIN walks /\ w = walks[Len(walks)]
  BY <1>1, WalksAreRecords DEF Innermost
<1>3. w.method \in WalkMethods /\ w.index \in Int /\ w.array \in Arrays /\ w.elements \in Slice
      /\ Length(w.array) \in Nat /\ w.elements.len \in Nat /\ w.moved \in BOOLEAN
  BY <1>2, MadeIsSlice DEF WalkRecord, Slice
<1>4. /\ ~w.moved => arrays[w.array] = w.elements
      /\ w.method = "reduceRight" => w.index < w.elements.len
  BY <1>2 DEF WalksFollow
<1>5. ~w.moved => s = arrays[w.array]
  BY <1>4 DEF Source
<1>6. w.method \notin RangeMethods => s = arrays[w.array]
  BY DEF Source
<1>7. CASE w.index >= s.len
  <2>1. Panics(w.method, <<w.index>>, Length(w.array))
    BY <1>7 DEF Visit
  <2>2. walks' = walks /\ arrays' = arrays /\ panicked'.method = w.method
    BY <2>1 DEF Panics
  <2>3. w.method = "reduceRight"
    <3>1. CASE w.method \in RangeMethods
      <4>1. s = w.elements
        BY <3>1 DEF Source
      <4>2. w.index < w.elements.len
        <5> HIDE DEF w
        <5> QED BY <1>1, <3>1 DEF HasMore, RangeMethods
      <4> HIDE DEF w, s
      <4> QED BY <1>3, <1>7, <4>1, <4>2
    <3>2. CASE w.method = "reduce"
      <4>1. w.index < Length(w.array) /\ s = arrays[w.array]
        BY <1>1, <1>6, <3>2 DEF HasMore, RangeMethods
      <4> HIDE DEF w, s
      <4> QED BY <1>3, <1>7, <4>1 DEF Length
    <3> QED BY <1>3, <3>1, <3>2 DEF WalkMethods
  <2>4. w.moved
    <3> SUFFICES ASSUME ~w.moved PROVE FALSE
      OBVIOUS
    <3>1. w.index < s.len /\ s.len \in Nat
      BY <1>3, <1>4, <1>5, <2>3
    <3> HIDE DEF w, s
    <3> QED BY <1>3, <1>7, <3>1
  <2>5. Innermost' = w
    BY <2>2 DEF Innermost
  <2>6. panicked'.len < w.elements.len
    <3>1. panicked'.len = Length(w.array) /\ s = arrays[w.array] /\ w.index < w.elements.len
      BY <1>4, <1>6, <2>1, <2>3 DEF Panics, RangeMethods
    <3> HIDE DEF w, s
    <3> QED BY <1>3, <1>7, <3>1 DEF Length
  <2> HIDE DEF w
  <2>7. PanicsOnlyWhere'
    BY <2>2, <2>3, <2>4, <2>5, <2>6 DEF PanicsOnlyWhere
  <2>8. WalksFollow'
    BY <2>2 DEF WalksFollow
  <2>9. VisitIsCurrent
    BY <2>2 DEF VisitIsCurrent, Innermost
  <2> QED BY <2>7, <2>8, <2>9
<1>8. CASE ~(w.index >= s.len)
  <2> DEFINE v == [w EXCEPT !.calling = TRUE, !.entry = Contents(s)[w.index + 1]]
  <2>1. SetInnermost(v) /\ UNCHANGED <<memory, arrays, result, panicked>>
    BY <1>8 DEF Visit
  <2>2. s.len \in Nat
    BY <1>3 DEF Source, Length
  <2>3. w.index < s.len
    BY <1>3, <1>8, <2>2
  <2> HIDE DEF s
  <2> HIDE DEF w
  <2>4. /\ v.elements = w.elements /\ v.array = w.array /\ v.method = w.method /\ v.moved = w.moved
        /\ v.index = w.index /\ v.entry = Contents(s)[w.index + 1]
    BY <1>2 DEF WalkRecord
  <2> HIDE DEF v
  <2>5. WalksFollow'
    BY <1>1, <1>3, <2>1, <2>4, SetInnermostFollows DEF w
  <2>6. walks'[Len(walks)] = v
    BY <1>2, <2>1 DEF SetInnermost
  <2>7. w.moved \/ (w.index < Length(w.array) /\ Contents(s) = Contents(arrays[w.array]))
    BY <1>5, <2>3 DEF Length
  <2>8. VisitIsCurrent
    BY <2>4, <2>6, <2>7 DEF VisitIsCurrent
  <2> QED BY <2>1, <2>5, <2>8
<1> QED BY <1>7, <1>8

LEMMA ContinuesFollows ==
  ASSUME WalksOK, WalksFollow, walks # <<>>, NEW results, Continues(results)
  PROVE  WalksFollow' /\ panicked' = panicked
<1> DEFINE w == Innermost
           i == IF w.method = "reduceRight" THEN w.index - 1 ELSE w.index + 1
           v == After(w, results)
<1>1. w \in WalkRecord
  BY InnermostIsRecord
<1>2. SetInnermost(v) /\ arrays' = arrays /\ panicked' = panicked
  BY DEF Continues
<1> HIDE DEF w
<1>3. i \in Int /\ (w.method = "reduceRight" => i <= w.index)
  BY <1>1 DEF WalkRecord
<1>4. v = [w EXCEPT !.calling = FALSE, !.entry = Undefined, !.results = results, !.index = i]
  BY DEF After
<1> HIDE DEF i, v
<1>5. /\ v.elements = w.elements /\ v.array = w.array /\ v.method = w.method /\ v.moved = w.moved
      /\ v.index = i
  BY <1>1, <1>4 DEF WalkRecord
<1> QED BY <1>2, <1>3, <1>5, SetInnermostFollows DEF w

LEMMA ReturnFollows ==
  ASSUME WalksOK, WalksFollow, Return \/ ReturnTrue \/ Throw
  PROVE  WalksFollow' /\ panicked' = panicked
<1>1. walks # <<>>
  BY DEF Return, ReturnTrue, Throw, Calling
<1>2. \/ \E results : Continues(results)
      \/ EndWalk /\ arrays' = arrays /\ panicked' = panicked
  BY DEF Return, ReturnTrue, Throw, Ok
<1> QED BY <1>1, <1>2, ContinuesFollows, EndWalkFollows

LEMMA EndOfWalkFollows ==
  ASSUME ArraysOK, WalksOK, WalksFollow, EndOfWalk
  PROVE  WalksFollow' /\ panicked' = panicked
<1>1. walks # <<>> /\ EndWalk
  BY DEF EndOfWalk, Walking
<1>2. \/ \E s, c, method : Makes(s, c, method)
      \/ arrays' = arrays /\ panicked' = panicked
  BY DEF EndOfWalk, Ok
<1> QED BY <1>1, <1>2, MakesFollows, EndWalkFollows

LEMMA NextFollows ==
  ASSUME FInv, [Next]_vars
  PROVE  FInv'
<1>1. ArraysOK /\ WalksOK /\ WalksFollow /\ IInv /\ PanicsOnlyWhere
  BY Parts DEF FInv
<1>2. IInv'
  BY <1>1, NextKeeps
<1>3. ASSUME panicked = NoPanic, panicked' = panicked \/ PanicsOnlyWhere'
      PROVE  PanicsOnlyWhere'
  BY <1>3 DEF PanicsOnlyWhere
<1>4. CASE UNCHANGED vars
  BY <1>1, <1>4 DEF vars, WalksFollow, PanicsOnlyWhere, Innermost, FInv, IInv, TypeOK, MemoryIsNotShared, InMemory, Made
<1>5. ASSUME NEW a \in Arrays, Method(a)
      PROVE  FInv'
  <2>1. ArraysFollow /\ (panicked' = panicked \/ PanicsOnlyWhere')
    BY <1>1, <1>5, MethodFollows DEF Follows
  <2>2. panicked = NoPanic
    BY <1>5 DEF Method, Called
  <2> QED BY <1>1, <1>2, <1>3, <2>1, <2>2, WalksFollowKept DEF FInv
<1>6. ASSUME NEW a \in Arrays, Begin(a)
      PROVE  FInv'
  <2>1. panicked = NoPanic /\ panicked' = panicked
    BY <1>6 DEF Begin, Called
  <2> QED BY <1>1, <1>2, <1>3, <1>6, <2>1, BeginFollows DEF FInv
<1>7. CASE Visit
  <2>1. panicked = NoPanic
    BY <1>7 DEF Visit, Walking
  <2> QED BY <1>1, <1>2, <1>3, <1>7, <2>1, VisitFollows DEF FInv
<1>8. CASE Return \/ ReturnTrue \/ Throw
  <2>1. panicked = NoPanic
    BY <1>8 DEF Return, ReturnTrue, Throw, Calling
  <2> QED BY <1>1, <1>2, <1>3, <1>8, <2>1, ReturnFollows DEF FInv
<1>9. CASE EndOfWalk
  <2>1. panicked = NoPanic
    BY <1>9 DEF EndOfWalk, Walking
  <2> QED BY <1>1, <1>2, <1>3, <1>9, <2>1, EndOfWalkFollows DEF FInv
<1>10. CASE NewArrayConstructor
  <2>1. ArraysFollow /\ (panicked' = panicked \/ PanicsOnlyWhere')
    BY <1>1, <1>10, ConstructorFollows DEF Follows
  <2>2. panicked = NoPanic
    BY <1>10 DEF NewArrayConstructor, Called
  <2> QED BY <1>1, <1>2, <1>3, <2>1, <2>2, WalksFollowKept DEF FInv
<1> QED BY <1>4, <1>5, <1>6, <1>7, <1>8, <1>9, <1>10 DEF Next

LEMMA InitFollows ==
  ASSUME Init
  PROVE  FInv
<1>1. IInv
  BY InitHolds, SomeAssumption
<1>2. walks = <<>> /\ panicked = NoPanic
  BY DEF Init
<1> QED BY <1>1, <1>2 DEF FInv, WalksFollow, PanicsOnlyWhere

\* No step but Visit starts a callback.
LEMMA OnlyVisitStarts ==
  ASSUME FInv, [Next]_vars
  PROVE  VisitIsCurrent
<1>1. ArraysOK /\ WalksOK /\ WalksFollow
  BY Parts DEF FInv
<1>2. SUFFICES ASSUME walks # <<>>, ~Innermost.calling, Len(walks') = Len(walks), walks'[Len(walks)].calling
               PROVE  VisitIsCurrent
  BY DEF VisitIsCurrent
<1>3. ~UNCHANGED vars
  BY <1>2 DEF vars, Innermost
<1>4. ~NewArrayConstructor /\ \A a \in Arrays : ~Method(a) /\ ~Begin(a)
  BY <1>2 DEF Method, Begin, NewArrayConstructor, Called
<1>5. ~Return /\ ~ReturnTrue /\ ~Throw
  BY <1>2 DEF Return, ReturnTrue, Throw, Calling
<1>6. ~EndOfWalk
  <2> SUFFICES ASSUME EndOfWalk PROVE FALSE
    OBVIOUS
  <2> DEFINE n == Len(walks) - 1
  <2>1. walks \in Seq(WalkRecord) /\ n \in Nat /\ n <= Len(walks)
    BY <1>1, <1>2, WalksAreRecords
  <2>2. \A i \in 1 .. n : walks[i] \in WalkRecord
    BY <2>1, ElementOfSeq
  <2>3. walks' = SubSeq(walks, 1, n)
    BY DEF EndOfWalk, EndWalk
  <2> HIDE DEF n
  <2>4. Len(walks') = n
    BY <2>1, <2>2, <2>3, SubSeqProperties
  <2> QED BY <1>2, <2>1, <2>4 DEF n
<1> QED BY <1>1, <1>3, <1>4, <1>5, <1>6, VisitFollows DEF Next

\* Whatever methods run and callbacks do, methods and the constructor, given
\* ints, panic only for an argument that the code does not check (a negative
\* index, splice without a count or with one that overflows, the end of a slice
\* before the array, a length that make refuses), or when reduceRight's array
\* was made shorter. Walks with range and reduce never index past the window
\* that they look at, and the other bounds of slice, splice and fill are in
\* order.
THEOREM OnlyTheseCallsPanic ==
  Spec => []PanicsOnlyWhere
<1>1. Init => FInv
  BY InitFollows
<1>2. FInv /\ [Next]_vars => FInv'
  BY NextFollows
<1>3. FInv => PanicsOnlyWhere
  BY DEF FInv
<1> QED BY <1>1, <1>2, <1>3, PTL DEF Spec

\* A callback of any of the methods is given the element that its array has now,
\* unless an earlier callback has changed the length of that array or spliced it.
THEOREM CallbacksSeeTheArray ==
  Spec => VisitsAreCurrent
<1>1. Init => FInv
  BY InitFollows
<1>2. FInv /\ [Next]_vars => FInv'
  BY NextFollows
<1>3. FInv /\ [Next]_vars => [VisitIsCurrent]_vars
  BY OnlyVisitStarts
<1> QED BY <1>1, <1>2, <1>3, PTL DEF Spec, VisitsAreCurrent
=============================================================================
