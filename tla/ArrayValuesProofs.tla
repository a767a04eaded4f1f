-------------------------- MODULE ArrayValuesProofs --------------------------
(* Arrays implement ArrayValues: through slices that move, share nothing and *)
(* grow, a script sees sequences of values that ECMAScript's methods change. *)
EXTENDS ArraysProofs, FunctionTheorems, FiniteSetTheorems

USE ValuesAssumption, NotMadeAssumption

-----------------------------------------------------------------------------
(* What a step on slices does to the values.                               *)

\* The o + 1st to the o + nth of m
LEMMA Cut ==
  ASSUME NEW m \in Seq(Values), NEW o \in Nat, NEW n \in Nat, o + n <= Len(m)
  PROVE  /\ SubSeq(m, o + 1, o + n) \in Seq(Values) /\ Len(SubSeq(m, o + 1, o + n)) = n
         /\ \A i \in 1 .. n : SubSeq(m, o + 1, o + n)[i] = m[o + i] /\ o + i \in 1 .. Len(m)
<1>1. Len(m) \in Nat /\ o + 1 \in Int /\ o + n \in Int
  BY LenProperties
<1>2. \A i \in o + 1 .. o + n : m[i] \in Values
  <2>1. \A i \in o + 1 .. o + n : i \in 1 .. Len(m)
    BY <1>1
  <2> QED BY <2>1, ElementOfSeq
<1> DEFINE i1 == o + 1
           j1 == o + n
<1>3. i1 \in Int /\ j1 \in Int /\ j1 - i1 + 1 = n /\ (i1 <= j1 <=> n > 0)
  BY <1>1
<1>4. \A i \in 1 .. n : i1 + i - 1 = o + i /\ o + i \in 1 .. Len(m)
  BY <1>1
<1>5. \A i \in i1 .. j1 : m[i] \in Values
  BY <1>2
<1> HIDE DEF i1, j1
<1>6. /\ SubSeq(m, i1, j1) \in Seq(Values) /\ Len(SubSeq(m, i1, j1)) = IF i1 <= j1 THEN j1 - i1 + 1 ELSE 0
      /\ \A i \in 1 .. j1 - i1 + 1 : SubSeq(m, i1, j1)[i] = m[i1 + i - 1]
  BY <1>3, <1>5, SubSeqProperties
<1>7. Len(SubSeq(m, i1, j1)) = n
  BY <1>3, <1>6
<1>8. \A i \in 1 .. n : SubSeq(m, i1, j1)[i] = m[o + i]
  BY <1>3, <1>4, <1>6
<1> QED BY <1>4, <1>6, <1>7, <1>8 DEF i1, j1

\* A part of a part
LEMMA CutOfCut ==
  ASSUME NEW m \in Seq(Values), NEW o \in Nat, NEW n \in Nat, o + n <= Len(m),
         NEW i \in Nat, NEW j \in Nat, i <= j, j <= n
  PROVE  SubSeq(SubSeq(m, o + 1, o + n), i + 1, j) = SubSeq(m, o + i + 1, o + i + (j - i))
<1> DEFINE q == SubSeq(m, o + 1, o + n)
           k == j - i
           p == o + i
           l == SubSeq(q, i + 1, i + k)
           r == SubSeq(m, p + 1, p + k)
<1>1. q \in Seq(Values) /\ Len(q) = n /\ \A x \in 1 .. n : q[x] = m[o + x]
  BY Cut
<1>2. k \in Nat /\ p \in Nat /\ Len(m) \in Nat /\ i + k = j /\ i + k <= n /\ p + k <= Len(m)
  <2>1. Len(m) \in Nat
    BY LenProperties
  <2> QED BY <2>1
<1>3. \A x \in 1 .. k : o + (i + x) = p + x /\ i + x \in 1 .. n
  BY <1>2
<1> HIDE DEF q, k, p
<1>4. l \in Seq(Values) /\ Len(l) = k /\ \A x \in 1 .. k : l[x] = q[i + x]
  BY <1>1, <1>2, Cut
<1>5. r \in Seq(Values) /\ Len(r) = k /\ \A x \in 1 .. k : r[x] = m[p + x]
  BY <1>2, Cut
<1> HIDE DEF l, r
<1>6. \A x \in 1 .. k : l[x] = r[x]
  <2> TAKE x \in 1 .. k
  <2>1. l[x] = q[i + x] /\ q[i + x] = m[o + (i + x)]
    BY <1>1, <1>3, <1>4
  <2> QED BY <1>3, <1>5, <2>1
<1>7. l = r
  BY <1>4, <1>5, <1>6, SeqEqual
<1> QED BY <1>2, <1>7 DEF l, r, q, k, p

LEMMA MadeValue ==
  ASSUME ArraysOK, NEW a \in Arrays, Made(a)
  PROVE  /\ Value[a] = Contents(arrays[a]) /\ Value[a] \in Seq(Values)
         /\ Len(Value[a]) = Length(a) /\ Value[a] # NotMade
<1>1. Contents(arrays[a]) \in Seq(Values) /\ Len(Contents(arrays[a])) = Length(a)
  BY MadeIsSlice, ContentsAreValues DEF ArraysOK, Length
<1> QED BY <1>1, NotAValueAssumption DEF Value

\* The contents of made array a: a part of its memory
LEMMA MadeContents ==
  ASSUME ArraysOK, NEW a \in Arrays, Made(a)
  PROVE  /\ Value[a] = SubSeq(memory[arrays[a].memory], arrays[a].offset + 1, arrays[a].offset + Length(a))
         /\ arrays[a].memory \in Memories /\ memory[arrays[a].memory] \in Seq(Values)
         /\ arrays[a].offset \in Nat /\ Length(a) \in Nat
         /\ arrays[a].offset + Length(a) <= Len(memory[arrays[a].memory])
BY MadeIsSlice, MadeValue DEF Contents, Length, InMemory

\* One array changes, and no memory of another does.
LEMMA ValueChanges ==
  ASSUME ArraysOK, ArraysOK', NEW a \in Arrays, Made(a)', NEW t, Contents(arrays[a])' = t,
         \A b \in Arrays \ {a} :
           arrays'[b] = arrays[b] /\ (Made(b) => memory'[arrays[b].memory] = memory[arrays[b].memory])
  PROVE  Value' = [Value EXCEPT ![a] = t]
<1>1. \A b \in Arrays \ {a} : Made(b)' = Made(b) /\ (Made(b) => Contents(arrays[b])' = Contents(arrays[b]))
  BY DEF Made, Contents
<1> QED BY <1>1 DEF Value

LEMMA NarrowValue ==
  ASSUME ArraysOK, NEW a \in Arrays, Made(a), NEW i \in Nat, NEW j \in Nat, i <= j, j <= Length(a), Narrow(a, i, j)
  PROVE  Value' = [Value EXCEPT ![a] = SubSeq(Value[a], i + 1, j)]
<1>1. ArraysOK' /\ Made(a)'
  BY NarrowKeeps DEF Kept
<1>2. arrays'[a] = Window(arrays[a], i, j) /\ memory' = memory
      /\ \A b \in Arrays \ {a} : arrays'[b] = arrays[b]
  BY DEF Narrow, ArraysOK
<1> DEFINE m == memory[arrays[a].memory]
           o == arrays[a].offset
           n == Length(a)
<1>3. m \in Seq(Values) /\ o \in Nat /\ n \in Nat /\ o + n <= Len(m) /\ Value[a] = SubSeq(m, o + 1, o + n)
  BY MadeContents
<1>4. Contents(arrays[a])' = SubSeq(m, o + i + 1, o + i + (j - i))
  <2>1. /\ arrays'[a].memory = arrays[a].memory /\ arrays'[a].offset = o + i /\ arrays'[a].len = j - i
        /\ memory'[arrays[a].memory] = m
    BY <1>2 DEF Window
  <2>2. Contents(arrays[a])' = SubSeq(memory'[arrays'[a].memory], arrays'[a].offset + 1, arrays'[a].offset + arrays'[a].len)
    BY DEF Contents
  <2> HIDE DEF m, o
  <2> QED BY <2>1, <2>2, Zenon
<1> HIDE DEF m, o
<1>5. Contents(arrays[a])' = SubSeq(Value[a], i + 1, j)
  BY <1>3, <1>4, CutOfCut, SMTT(40)
<1> QED BY <1>1, <1>2, <1>5, ValueChanges

LEMMA OverwriteValue ==
  ASSUME ArraysOK, NEW a \in Arrays, Made(a), NEW t \in Seq(Values), Len(t) = Length(a), Overwrite(a, t)
  PROVE  Value' = [Value EXCEPT ![a] = t]
<1> DEFINE m == arrays[a].memory
           o == arrays[a].offset
           n == Length(a)
           old == memory[m]
           new == memory'[m]
<1>0. m \in Memories /\ old \in Seq(Values) /\ o \in Nat /\ n \in Nat /\ o + n <= Len(old) /\ Len(old) \in Nat
  BY MadeContents, MadeIsSlice
<1>1. \A i \in 1 .. n : t[i] \in Values
  BY ElementOfSeq
<1>2. ArraysOK' /\ Made(a)' /\ Len(new) = Len(old)
  BY <1>0, <1>1, OverwriteKeeps, MadeIsSlice, SMTT(40) DEF Kept
<1>3. arrays' = arrays /\ \A k \in Memories \ {m} : memory'[k] = memory[k]
  BY <1>0 DEF Overwrite, ArraysOK
<1>4. new = [i \in DOMAIN old |-> IF o < i /\ i <= o + n THEN t[i - o] ELSE old[i]]
  BY <1>0 DEF Overwrite, ArraysOK
<1>5. new \in Seq(Values)
  BY <1>0, <1>2 DEF ArraysOK
<1>6. Contents(arrays[a])' = SubSeq(new, o + 1, o + n)
  BY <1>3 DEF Contents, Length
<1>7. DOMAIN old = 1 .. Len(old)
  BY <1>0, LenProperties
<1>8. \A b \in Arrays \ {a} : Made(b) => arrays[b].memory \in Memories \ {m}
  BY MadeIsSlice DEF ArraysOK, MemoryIsNotShared
<1> HIDE DEF m, o, n, old, new
<1>9. \A i \in 1 .. n : new[o + i] = t[i]
  <2> SUFFICES ASSUME NEW i \in 1 .. n PROVE new[o + i] = t[i]
    OBVIOUS
  <2>1. o + i \in DOMAIN old /\ o < o + i /\ o + i <= o + n /\ (o + i) - o = i
    BY <1>0, <1>7
  <2> QED BY <1>4, <2>1
<1> DEFINE c == SubSeq(new, o + 1, o + n)
<1>10. c \in Seq(Values) /\ Len(c) = n /\ \A i \in 1 .. n : c[i] = new[o + i]
  BY <1>0, <1>2, <1>5, Cut
<1> HIDE DEF c
<1>11. Len(t) = n
  BY DEF n
<1>12. c = t
  BY <1>9, <1>10, <1>11, SeqEqual
<1>13. Contents(arrays[a])' = t
  BY <1>6, <1>12 DEF c
<1> QED BY <1>2, <1>3, <1>8, <1>13, ValueChanges

LEMMA ReplaceValue ==
  ASSUME ArraysOK, NEW a \in Arrays, NEW t \in Seq(Values), NEW c \in Int, Replace(a, t, c)
  PROVE  Value' = [Value EXCEPT ![a] = t]
<1> DEFINE m == NewMemory
           new == Padded(t, c)
           s == [memory |-> m, offset |-> 0, len |-> Len(t)]
<1>1. m \in Memories /\ Free(m)
  BY NewMemoryIsFree DEF Replace
<1>2. ArraysOK'
  BY ReplaceKeeps DEF Kept
<1>3. arrays' = [arrays EXCEPT ![a] = s] /\ memory' = [memory EXCEPT ![m] = new]
  BY DEF Replace
<1>4. s \in Slice /\ s.memory = m /\ s.offset = 0 /\ s.len = Len(t)
  BY <1>1, LenProperties DEF Slice
<1>5. new \in Seq(Values) /\ Len(new) >= Len(t) /\ Len(t) \in Nat /\ Len(new) \in Nat
  BY PaddedIsValues, LenProperties
<1>6. \A i \in 1 .. Len(t) : new[i] = t[i]
  <2> DEFINE k == IF c < Len(t) THEN 0 ELSE c - Len(t)
             pad == [i \in 1 .. c - Len(t) |-> Undefined]
  <2>1. k \in Nat /\ 1 .. c - Len(t) = 1 .. k /\ pad \in [1 .. k -> Values]
    BY <1>5
  <2> HIDE DEF pad, k
  <2>2. pad \in Seq(Values) /\ Len(pad) \in Nat
    BY <2>1, IsASeq, LenProperties
  <2>3. new = t \o pad
    BY DEF Padded, pad
  <2> HIDE DEF new
  <2>4. \A i \in 1 .. Len(t) + Len(pad) : (t \o pad)[i] = IF i <= Len(t) THEN t[i] ELSE pad[i - Len(t)]
    BY <2>2, ConcatProperties
  <2> QED BY <1>5, <2>2, <2>3, <2>4
<1> HIDE DEF m, new, s
<1>7. /\ arrays'[a] = s /\ memory'[m] = new /\ \A b \in Arrays \ {a} : arrays'[b] = arrays[b]
      /\ \A k \in Memories \ {m} : memory'[k] = memory[k]
  BY <1>1, <1>3 DEF ArraysOK
<1>8. Made(a)'
  BY <1>4, <1>7 DEF Made
<1>9. \A b \in Arrays : Made(b) => arrays[b].memory \in Memories \ {m}
  BY <1>1, MadeIsSlice DEF Free
<1>10. Contents(arrays[a])' = SubSeq(new, 0 + 1, 0 + Len(t))
  BY <1>4, <1>7 DEF Contents
<1> DEFINE q == SubSeq(new, 0 + 1, 0 + Len(t))
<1>11. q \in Seq(Values) /\ Len(q) = Len(t) /\ \A i \in 1 .. Len(t) : q[i] = new[0 + i]
  BY <1>5, Cut
<1> HIDE DEF q
<1>12. \A i \in 1 .. Len(q) : q[i] = t[i]
  BY <1>5, <1>6, <1>11
<1>13. q = t
  BY <1>11, <1>12, SeqEqual
<1>14. Contents(arrays[a])' = t
  BY <1>10, <1>13 DEF q
<1> QED BY <1>2, <1>7, <1>8, <1>9, <1>14, ValueChanges

LEMMA ExtendValue ==
  ASSUME ArraysOK, NEW a \in Arrays, Made(a), NEW v \in Values, Extend(a, v)
  PROVE  Value' = [Value EXCEPT ![a] = Append(Value[a], v)]
<1> DEFINE s == arrays[a]
           m == s.memory
           o == s.offset
           n == s.len
           old == memory[m]
<1>0. /\ m \in Memories /\ old \in Seq(Values) /\ o \in Nat /\ n \in Nat /\ o + n <= Len(old) /\ Len(old) \in Nat
      /\ s \in Slice /\ Value[a] = SubSeq(old, o + 1, o + n)
  BY MadeContents, MadeIsSlice DEF Length
<1>1. Value[a] \in Seq(Values) /\ Len(Value[a]) = n
  BY MadeValue DEF Length
<1>2. /\ Append(Value[a], v) \in Seq(Values) /\ Len(Append(Value[a], v)) = n + 1
      /\ Append(Value[a], v)[n + 1] = v /\ \A i \in 1 .. n : Append(Value[a], v)[i] = Value[a][i]
  BY <1>1, AppendProperties
<1>3. CASE ~(s.len < Capacity(s))
  <2>1. Replace(a, Append(Value[a], v), Grown(Capacity(s), s.len + 1))
    BY <1>3, MadeValue DEF Extend
  <2>2. Capacity(s) \in Int /\ s.len + 1 \in Int
    BY <1>0, SMTT(40) DEF Capacity
  <2>3. Grown(Capacity(s), s.len + 1) \in Int
    <3> HIDE DEF s
    <3> QED BY <2>2 DEF Grown
  <2> QED BY <1>2, <2>1, <2>3, ReplaceValue
<1>4. CASE s.len < Capacity(s)
  <2> DEFINE new == [old EXCEPT ![o + n + 1] = v]
             t == [s EXCEPT !.len = n + 1]
  <2>1. o + n + 1 \in 1 .. Len(old) /\ o + (n + 1) <= Len(old)
    <3>1. n < Len(old) - o
      BY <1>4 DEF Capacity
    <3> HIDE DEF n, o, old
    <3> QED BY <1>0, <3>1
  <2>2. memory' = [memory EXCEPT ![m] = new] /\ arrays' = [arrays EXCEPT ![a] = t]
    <3>1. memory' = [memory EXCEPT ![s.memory][s.offset + s.len + 1] = v]
          /\ arrays' = [arrays EXCEPT ![a].len = s.len + 1]
      BY <1>4 DEF Extend
    <3> QED BY <3>1
  <2>3. new \in Seq(Values) /\ Len(new) = Len(old)
        /\ \A i \in 1 .. Len(old) : new[i] = IF i = o + n + 1 THEN v ELSE old[i]
    <3> HIDE DEF old, n, o
    <3> QED BY <1>0, <2>1, ExceptSeq
  <2>4. t.memory = m /\ t.offset = o /\ t.len = n + 1 /\ t \in Slice
    <3>1. n + 1 \in Nat
      BY <1>0, SMTT(40)
    <3> DEFINE k == n + 1
    <3> HIDE DEF k, n, old
    <3>2. t = [s EXCEPT !.len = k]
      BY DEF k
    <3> HIDE DEF t
    <3>3. t.memory = m /\ t.offset = o /\ t.len = k /\ t \in Slice
      BY <1>0, <3>1, <3>2 DEF Slice, k
    <3> QED BY <3>3 DEF k
  <2> HIDE DEF new, t
  <2>5. /\ arrays'[a] = t /\ memory'[m] = new /\ \A b \in Arrays \ {a} : arrays'[b] = arrays[b]
        /\ \A k \in Memories \ {m} : memory'[k] = memory[k]
    BY <1>0, <2>2 DEF ArraysOK
  <2>6. \A b \in Arrays \ {a} : Made(b) => arrays[b].memory \in Memories \ {m}
    BY MadeIsSlice DEF ArraysOK, MemoryIsNotShared
  <2>7. ArraysOK' /\ Made(a)'
    BY ExtendKeeps DEF Kept
  <2>8. Contents(arrays[a])' = SubSeq(new, o + 1, o + (n + 1))
    BY <2>4, <2>5 DEF Contents
  <2> HIDE DEF s, m, o, n, old
  <2> DEFINE q == SubSeq(new, o + 1, o + (n + 1))
             r == Append(Value[a], v)
  <2>9. n + 1 \in Nat /\ \A i \in 1 .. n + 1 : o + i \in 1 .. Len(old) /\ (o + i = o + n + 1 <=> i = n + 1)
                                              /\ (i # n + 1 => i \in 1 .. n)
    BY <1>0, <2>1
  <2>10. q \in Seq(Values) /\ Len(q) = n + 1 /\ \A i \in 1 .. n + 1 : q[i] = new[o + i]
    BY <1>0, <2>1, <2>3, <2>9, Cut
  <2>11. \A i \in 1 .. n : Value[a][i] = old[o + i]
    BY <1>0, Cut, SMTT(40)
  <2> HIDE DEF q, r
  <2>12. r \in Seq(Values) /\ Len(r) = n + 1 /\ r[n + 1] = v /\ \A i \in 1 .. n : r[i] = Value[a][i]
    BY <1>2 DEF r
  <2>13. \A i \in 1 .. n + 1 : q[i] = r[i]
    <3> SUFFICES ASSUME NEW i \in 1 .. n + 1 PROVE q[i] = r[i]
      OBVIOUS
    <3>1. q[i] = IF i = n + 1 THEN v ELSE old[o + i]
      BY <2>3, <2>9, <2>10
    <3>2. CASE i = n + 1
      BY <3>1, <3>2, <2>12
    <3>3. CASE i # n + 1
      <4>1. i \in 1 .. n
        BY <2>9, <3>3
      <4> QED BY <3>1, <3>3, <4>1, <2>11, <2>12
    <3> QED BY <3>2, <3>3
  <2>14. q = r
    BY <2>10, <2>12, <2>13, SeqEqual
  <2>15. Contents(arrays[a])' = Append(Value[a], v)
    BY <2>8, <2>14 DEF q, r
  <2> QED BY <2>5, <2>6, <2>7, <2>15, ValueChanges
<1> QED BY <1>3, <1>4

\* splice: what is removed and what is left
LEMMA SplitValue ==
  ASSUME ArraysOK, NEW a \in Arrays, Made(a), NEW r \in Arrays, ~Made(r),
         NEW m \in Memories, Free(m), NEW n \in Memories, Free(n), m # n,
         NEW removed \in Seq(Values), NEW left \in Seq(Values),
         memory' = [memory EXCEPT ![m] = removed, ![n] = left],
         arrays' = [arrays EXCEPT ![r] = [memory |-> m, offset |-> 0, len |-> Len(removed)],
                                  ![a] = [memory |-> n, offset |-> 0, len |-> Len(left)]]
  PROVE  Value'[r] = removed /\ Value'[a] = left /\ \A b \in Arrays \ {a, r} : Value'[b] = Value[b]
<1> DEFINE s == [memory |-> m, offset |-> 0, len |-> Len(removed)]
           t == [memory |-> n, offset |-> 0, len |-> Len(left)]
<1>1. r # a
  OBVIOUS
<1>2. /\ s \in Slice /\ s.memory = m /\ s.offset = 0 /\ s.len = Len(removed)
      /\ t \in Slice /\ t.memory = n /\ t.offset = 0 /\ t.len = Len(left)
  BY LenProperties DEF Slice
<1>3. arrays' = [arrays EXCEPT ![r] = s, ![a] = t]
  OBVIOUS
<1> HIDE DEF s, t
<1>4. /\ memory'[m] = removed /\ memory'[n] = left /\ \A k \in Memories \ {m, n} : memory'[k] = memory[k]
      /\ arrays'[r] = s /\ arrays'[a] = t /\ \A b \in Arrays \ {a, r} : arrays'[b] = arrays[b]
  BY <1>1, <1>3 DEF ArraysOK
<1>5. Made(a)' /\ Made(r)'
  BY <1>2, <1>4 DEF Made
<1>6. \A q \in Seq(Values) : SubSeq(q, 0 + 1, 0 + Len(q)) = q
  BY SubSeqFull
<1>7. Contents(arrays[r])' = removed
  <2>1. Contents(arrays[r])' = SubSeq(removed, 0 + 1, 0 + Len(removed))
    BY <1>2, <1>4 DEF Contents
  <2> QED BY <1>6, <2>1
<1>8. Contents(arrays[a])' = left
  <2>1. Contents(arrays[a])' = SubSeq(left, 0 + 1, 0 + Len(left))
    BY <1>2, <1>4 DEF Contents
  <2> QED BY <1>6, <2>1
<1>9. \A b \in Arrays \ {a, r} : Made(b)' = Made(b) /\ (Made(b) => Contents(arrays[b])' = Contents(arrays[b]))
  <2>1. \A b \in Arrays : Made(b) => arrays[b].memory \in Memories \ {m, n}
    BY MadeIsSlice DEF Free
  <2> QED BY <1>4, <2>1, ZenonT(40) DEF Made, Contents
<1> QED BY <1>5, <1>7, <1>8, <1>9 DEF Value

\* A new array
LEMMA MakesValue ==
  ASSUME ArraysOK, NEW s \in Seq(Values), NEW c \in Int, NEW method, Makes(s, c, method)
  PROVE  \E r \in Arrays : Script!Makes(r, s, method)
<1>1. NewArray \in Arrays /\ ~Made(NewArray)
  BY DEF Makes, NewArray
<1> HIDE DEF NewArray
<1>2. Value' = [Value EXCEPT ![NewArray] = s] /\ result' = NewBy(method)
  BY <1>1, ReplaceValue DEF Makes, Ok
<1>3. ~Script!Made(NewArray)
  BY <1>1 DEF Script!Made, Value
<1> QED BY <1>1, <1>2, <1>3 DEF Script!Makes, Script!NewBy, NewBy

LEMMA NothingChanges ==
  ASSUME UNCHANGED <<memory, arrays>>
  PROVE  Value' = Value
BY DEF Value, Made, Contents

-----------------------------------------------------------------------------
(* Each method is what ECMAScript says of it.                              *)

LEMMA FunctionIsSeq ==
  ASSUME NEW n \in Nat, NEW t \in [1 .. n -> Values]
  PROVE  t \in Seq(Values) /\ Len(t) = n
BY IsASeq, LenProperties

\* The cardinality that ArrayValues speaks of
LEMMA SameCardinality ==
  ASSUME NEW S
  PROVE  Script!Cardinality(S) = Cardinality(S)
BY DEF Script!Cardinality, Cardinality

LEMMA EmptyValue ==
  ASSUME ArraysOK, NEW a \in Arrays, Made(a)
  PROVE  /\ Length(a) = 0 <=> Value[a] = <<>>
         /\ Value = [Value EXCEPT ![a] = Value[a]]
<1>1. Value[a] \in Seq(Values) /\ Len(Value[a]) = Length(a)
  BY MadeValue
<1>2. Length(a) = 0 <=> Value[a] = <<>>
  BY <1>1, EmptySeq
<1> QED BY <1>2 DEF Value

LEMMA PopIsPop ==
  ASSUME ArraysOK, NEW a \in Arrays, Made(a), arrayPop(a)
  PROVE  Script!Pop(a)
<1>0. Length(a) \in Nat /\ Value[a] \in Seq(Values) /\ Len(Value[a]) = Length(a) /\ Contents(arrays[a]) = Value[a]
  BY MadeIsSlice, MadeValue
<1>1. CASE Length(a) = 0
  <2>1. Value' = Value /\ result' = Element(Undefined)
    BY <1>1, NothingChanges DEF arrayPop, Ok
  <2>2. Value[a] = <<>> /\ Value' = [Value EXCEPT ![a] = <<>>]
    BY <1>1, <2>1, EmptyValue
  <2> QED BY <2>1, <2>2 DEF Script!Pop, Script!Becomes, Script!Element, Element
<1>2. CASE Length(a) # 0
  <2>1. /\ result' = Element(Value[a][Length(a)])
        /\ Narrow(a, 0, Length(a) - 1)
    BY <1>0, <1>2 DEF arrayPop, Ok
  <2>2. Value' = [Value EXCEPT ![a] = SubSeq(Value[a], 1, Length(a) - 1)]
    <3>1. 0 \in Nat /\ Length(a) - 1 \in Nat /\ 0 <= Length(a) - 1 /\ Length(a) - 1 <= Length(a) /\ 0 + 1 = 1
      BY <1>0, <1>2
    <3>2. Value' = [Value EXCEPT ![a] = SubSeq(Value[a], 0 + 1, Length(a) - 1)]
      BY <2>1, <3>1, NarrowValue
    <3> QED BY <3>1, <3>2
  <2>3. Value[a] # <<>>
    BY <1>2, EmptyValue
  <2> QED BY <1>0, <2>1, <2>2, <2>3 DEF Script!Pop, Script!Becomes, Script!Element, Element,
                                         Script!Front, Script!Last
<1> QED BY <1>1, <1>2

LEMMA ShiftIsShift ==
  ASSUME ArraysOK, NEW a \in Arrays, Made(a), arrayShift(a)
  PROVE  Script!Shift(a)
<1>0. Length(a) \in Nat /\ Value[a] \in Seq(Values) /\ Len(Value[a]) = Length(a) /\ Contents(arrays[a]) = Value[a]
  BY MadeIsSlice, MadeValue
<1>1. CASE Length(a) = 0
  <2>1. Value' = Value /\ result' = Element(Undefined)
    BY <1>1, NothingChanges DEF arrayShift, Ok
  <2>2. Value[a] = <<>> /\ Value' = [Value EXCEPT ![a] = <<>>]
    BY <1>1, <2>1, EmptyValue
  <2> QED BY <2>1, <2>2 DEF Script!Shift, Script!Becomes, Script!Element, Element
<1>2. CASE Length(a) # 0
  <2>1. /\ result' = Element(Value[a][1])
        /\ Narrow(a, 1, Length(a))
    BY <1>0, <1>2 DEF arrayShift, Ok
  <2>2. Value[a] # <<>>
    BY <1>2, EmptyValue
  <2>3. Value' = [Value EXCEPT ![a] = Tail(Value[a])]
    <3>1. 1 \in Nat /\ 1 <= Length(a) /\ Length(a) <= Length(a) /\ 1 + 1 = 2
      BY <1>0, <1>2
    <3>2. Value' = [Value EXCEPT ![a] = SubSeq(Value[a], 1 + 1, Length(a))]
      BY <1>0, <2>1, <3>1, NarrowValue
    <3>3. Tail(Value[a]) = SubSeq(Value[a], 2, Length(a))
      BY <1>0, <2>2, TailIsSubSeq
    <3> QED BY <3>1, <3>2, <3>3
  <2>4. Head(Value[a]) = Value[a][1]
    BY <1>0, <2>2
  <2> QED BY <2>1, <2>2, <2>3, <2>4 DEF Script!Shift, Script!Becomes, Script!Element, Element
<1> QED BY <1>1, <1>2

LEMMA ReverseIsReverse ==
  ASSUME ArraysOK, NEW a \in Arrays, Made(a), arrayReverse(a)
  PROVE  Script!Reversed(a)
<1>0. Length(a) \in Nat /\ Value[a] \in Seq(Values) /\ Len(Value[a]) = Length(a) /\ Contents(arrays[a]) = Value[a]
  BY MadeIsSlice, MadeValue
<1> DEFINE s == Value[a]
           t == Reverse(s)
<1>1. Overwrite(a, t) /\ result' = Nothing
  BY <1>0 DEF arrayReverse, Ok
<1> HIDE DEF s
<1>2. t \in Seq(Values) /\ Len(t) = Length(a)
  <2>1. \A i \in 1 .. Len(s) : s[(Len(s) - i) + 1] \in Values
    <3>1. \A i \in 1 .. Len(s) : (Len(s) - i) + 1 \in 1 .. Len(s)
      BY <1>0 DEF s
    <3> QED BY <1>0, <3>1, ElementOfSeq DEF s
  <2>2. t = [i \in 1 .. Len(s) |-> s[(Len(s) - i) + 1]] /\ Len(s) \in Nat
    BY <1>0 DEF s, Reverse
  <2> HIDE DEF t
  <2>3. t \in [1 .. Len(s) -> Values]
    BY <2>1, <2>2
  <2> QED BY <1>0, <2>2, <2>3, FunctionIsSeq DEF s
<1> HIDE DEF t
<1>3. Value' = [Value EXCEPT ![a] = t]
  BY <1>1, <1>2, OverwriteValue
<1> QED BY <1>1, <1>3 DEF Script!Reversed, Script!Becomes, Script!Nothing, Nothing, Script!Reverse, Reverse, s, t

Times(v, s) == Cardinality({i \in DOMAIN s : s[i] = v})

\* What is exchanged is there as often as before.
LEMMA Exchanged ==
  ASSUME NEW s, IsFiniteSet(DOMAIN s), NEW p \in Bijection(DOMAIN s, DOMAIN s), NEW v
  PROVE  Times(v, [i \in DOMAIN s |-> s[p[i]]]) = Times(v, s)
<1> DEFINE D == DOMAIN s
<1> DEFINE S == {i \in D : s[p[i]] = v}
           T == {i \in D : s[i] = v}
           f == [i \in S |-> p[i]]
<1>1. /\ p \in [D -> D] /\ \A i, j \in D : p[i] = p[j] => i = j
      /\ \A j \in D : \E i \in D : p[i] = j
  BY Fun_BijectionProperties
<1>2. f \in Bijection(S, T)
  <2>1. f \in [S -> T]
    BY <1>1
  <2>2. \A i, j \in S : f[i] = f[j] => i = j
    BY <1>1
  <2>3. \A t \in T : \E i \in S : f[i] = t
    BY <1>1
  <2> HIDE DEF S, T, f
  <2> QED BY <2>1, <2>2, <2>3, Fun_IsBij
<1>3. IsFiniteSet(S)
  BY FS_Subset
<1> HIDE DEF S, T, f
<1>4. ExistsBijection(S, T)
  BY <1>2 DEF ExistsBijection
<1>5. Cardinality(T) = Cardinality(S)
  BY <1>3, <1>4, FS_Bijection
<1>6. {i \in DOMAIN [j \in D |-> s[p[j]]] : [j \in D |-> s[p[j]]][i] = v} = S
  BY DEF S
<1> QED BY <1>5, <1>6 DEF Times, T

LEMMA SortIsSort ==
  ASSUME ArraysOK, NEW a \in Arrays, Made(a), arraySort(a)
  PROVE  Script!Sort(a)
<1> DEFINE s == Value[a]
           D == DOMAIN s
<1>0. /\ Length(a) \in Nat /\ s \in Seq(Values) /\ Len(s) = Length(a) /\ Contents(arrays[a]) = s
      /\ D = 1 .. Length(a)
  BY MadeIsSlice, MadeValue, LenProperties
<1>1. PICK p \in Bijection(D, D) : /\ \A i, j \in D : i < j => s[p[i]] <= s[p[j]]
                                   /\ Overwrite(a, [i \in D |-> s[p[i]]])
  BY <1>0 DEF arraySort
<1>2. result' = Nothing
  BY DEF arraySort, Ok
<1> DEFINE t == [i \in D |-> s[p[i]]]
<1>3. \A i \in D : p[i] \in D /\ s[i] \in Values
  <2>1. \A i \in 1 .. Len(s) : s[i] \in Values
    BY <1>0, ElementOfSeq
  <2> HIDE DEF s, D
  <2>2. p \in [D -> D]
    BY Fun_BijectionProperties
  <2> QED BY <1>0, <2>1, <2>2
<1> HIDE DEF s, D
<1>4. t \in [D -> Values] /\ DOMAIN t = D
  BY <1>3
<1>5. t \in Seq(Values) /\ Len(t) = Length(a)
  <2> HIDE DEF t
  <2>1. t \in [1 .. Length(a) -> Values]
    BY <1>0, <1>4
  <2> QED BY <1>0, <2>1, FunctionIsSeq
<1>6. \A v \in Values : Cardinality({i \in DOMAIN t : t[i] = v}) = Cardinality({i \in DOMAIN t : s[i] = v})
  <2> SUFFICES ASSUME NEW v \in Values
               PROVE  Cardinality({i \in DOMAIN t : t[i] = v}) = Cardinality({i \in DOMAIN t : s[i] = v})
    OBVIOUS
  <2>1. IsFiniteSet(DOMAIN s) /\ p \in Bijection(DOMAIN s, DOMAIN s)
    BY <1>0, FS_Interval DEF D
  <2>2. Times(v, [i \in DOMAIN s |-> s[p[i]]]) = Times(v, s)
    BY <2>1, Exchanged
  <2>3. Times(v, t) = Times(v, s)
    BY <2>2 DEF D
  <2> HIDE DEF t
  <2> QED BY <1>4, <2>3 DEF Times, D
<1>7. \A i, j \in DOMAIN t : i < j => t[i] <= t[j]
  BY <1>1, <1>4
<1>8. Overwrite(a, t)
  BY <1>1
<1> HIDE DEF t
<1>9. Value' = [Value EXCEPT ![a] = t]
  BY <1>5, <1>8, OverwriteValue
<1>10. t \in [DOMAIN Value[a] -> Values]
  BY <1>4 DEF D, s
<1> QED BY <1>2, <1>6, <1>7, <1>9, <1>10, SameCardinality DEF Script!Sort, Script!Becomes, Script!Nothing, Nothing, s

LEMMA PushIsPush ==
  ASSUME ArraysOK, NEW a \in Arrays, Made(a), NEW v \in Values, arrayPush(a, v) \/ arrayUnshift(a, v)
  PROVE  Script!Push(a, v) \/ Script!Unshift(a, v)
<1>0. /\ Value[a] \in Seq(Values) /\ Len(Value[a]) = Length(a) /\ Contents(arrays[a]) = Value[a]
      /\ Length(a) \in Nat
  BY MadeIsSlice, MadeValue
<1>1. CASE arrayPush(a, v)
  <2>1. Value' = [Value EXCEPT ![a] = Append(Value[a], v)]
    BY <1>1, ExtendValue DEF arrayPush
  <2>2. result' = Number(Len(Value[a]) + 1)
    BY <1>0, <1>1 DEF arrayPush, Ok
  <2> QED BY <2>1, <2>2 DEF Script!Push, Script!Becomes, Script!Number, Number
<1>2. CASE arrayUnshift(a, v)
  <2>1. <<v>> \o Value[a] \in Seq(Values)
    BY <1>0, ConcatProperties
  <2>2. Length(a) + 1 \in Int
    BY <1>0
  <2>3. Replace(a, <<v>> \o Value[a], Length(a) + 1)
    BY <1>0, <1>2 DEF arrayUnshift
  <2>4. Value' = [Value EXCEPT ![a] = <<v>> \o Value[a]]
    BY <2>1, <2>2, <2>3, ReplaceValue
  <2>5. result' = Number(Len(Value[a]) + 1)
    BY <1>0, <1>2 DEF arrayUnshift, Ok
  <2> QED BY <2>4, <2>5 DEF Script!Unshift, Script!Becomes, Script!Number, Number
<1> QED BY <1>1, <1>2

LEMMA FillIsFill ==
  ASSUME ArraysOK, NEW a \in Arrays, Made(a), NEW v \in Values, NEW args \in Args(Indices, 0 .. 2),
         arrayFill(a, v, args)
  PROVE  \E to \in 0 .. Len(Value[a]) : \E from \in 0 .. to : Script!Fill(a, v, from, to)
<1> DEFINE s == Value[a]
           n == Length(a)
           lo == NotBelow0(FromEnd(Arg(args, 1, 0), n))
           hi == AtMost(FromEnd(Arg(args, 2, n), n), n)
           t == [i \in DOMAIN s |-> IF lo < i /\ i <= hi THEN v ELSE s[i]]
<1>0. s \in Seq(Values) /\ Len(s) = n /\ Contents(arrays[a]) = s /\ n \in Nat /\ DOMAIN s = 1 .. n
  BY MadeIsSlice, MadeValue, LenProperties
<1>1. Overwrite(a, t) /\ result' = Nothing
  BY <1>0 DEF arrayFill, fillBounds, Ok
<1>2. lo \in Nat /\ hi \in Int /\ hi <= n
  <2>1. Arg(args, 1, 0) \in Int /\ Arg(args, 2, n) \in Int
    BY <1>0, ArgIsInt
  <2> HIDE DEF n
  <2> QED BY <1>0, <2>1 DEF NotBelow0, FromEnd, AtMost
<1>3. \A i \in 1 .. n : s[i] \in Values
  BY <1>0, ElementOfSeq
<1> HIDE DEF s, lo, hi
<1>4. t \in Seq(Values) /\ Len(t) = n
  <2>1. t \in [1 .. n -> Values]
    BY <1>0, <1>3
  <2> HIDE DEF t, n
  <2> QED BY <1>0, <2>1, FunctionIsSeq
<1>5. Value' = [Value EXCEPT ![a] = t]
  <2> HIDE DEF t
  <2> QED BY <1>1, <1>4, OverwriteValue
<1> DEFINE from == IF lo < hi THEN lo ELSE 0
           to == IF lo < hi THEN hi ELSE 0
<1>6. to \in 0 .. n /\ from \in 0 .. to
  BY <1>0, <1>2
<1>7. \A i \in 1 .. n : (lo < i /\ i <= hi) <=> (from < i /\ i <= to)
  <2> HIDE DEF n
  <2> QED BY <1>0, <1>2
<1>8. t = [i \in DOMAIN s |-> IF from < i /\ i <= to THEN v ELSE s[i]]
  <2> HIDE DEF n, from, to
  <2> QED BY <1>0, <1>7
<1> HIDE DEF t, from, to
<1>9. Script!Fill(a, v, from, to)
  BY <1>1, <1>5, <1>8 DEF Script!Fill, Script!Becomes, Script!Nothing, Nothing, s
<1>10. to \in 0 .. Len(Value[a])
  BY <1>0, <1>6 DEF s
<1> QED BY <1>6, <1>9, <1>10

LEMMA SetIsSet ==
  ASSUME ArraysOK, NEW a \in Arrays, Made(a), NEW v \in Values, NEW i \in Indices, Set(a, i, v)
  PROVE  \/ \E j \in 0 .. Len(Value[a]) : Script!SetElement(a, j, v)
         \/ UNCHANGED <<Value, result>>
<1> DEFINE s == Value[a]
           n == Length(a)
<1>0. s \in Seq(Values) /\ Len(s) = n /\ Contents(arrays[a]) = s /\ n \in Nat /\ DOMAIN s = 1 .. n /\ i \in Int
  BY MadeIsSlice, MadeValue, LenProperties, IndicesAreInts
<1>1. CASE i < 0 /\ Panics("set", <<i>>, n)
  BY <1>1, NothingChanges DEF Panics
<1>2. CASE /\ 0 <= i /\ i < n
           /\ Overwrite(a, [s EXCEPT ![i + 1] = v]) /\ result' = Nothing
  <2>1. i + 1 \in 1 .. Len(s) /\ i \in 0 .. Len(s)
    BY <1>0, <1>2
  <2>2. [s EXCEPT ![i + 1] = v] \in Seq(Values) /\ Len([s EXCEPT ![i + 1] = v]) = n
    BY <1>0, <2>1, ExceptSeq
  <2>3. Value' = [Value EXCEPT ![a] = [s EXCEPT ![i + 1] = v]]
    BY <1>2, <2>2, OverwriteValue
  <2>4. Script!SetElement(a, i, v)
    BY <1>0, <1>2, <2>3 DEF Script!SetElement, Script!Becomes, Script!Nothing, Nothing
  <2> QED BY <2>1, <2>4
<1>3. CASE i = n /\ Extend(a, v) /\ result' = Nothing
  <2>1. Value' = [Value EXCEPT ![a] = Append(s, v)]
    BY <1>3, ExtendValue
  <2>2. i \in 0 .. Len(s) /\ ~(i < Len(s))
    BY <1>0, <1>3
  <2>3. Script!SetElement(a, i, v)
    BY <1>3, <2>1, <2>2 DEF Script!SetElement, Script!Becomes, Script!Nothing, Nothing
  <2> QED BY <2>2, <2>3
<1> QED BY <1>0, <1>1, <1>2, <1>3 DEF Set, Ok

LEMMA ConcatIsConcat ==
  ASSUME ArraysOK, NEW a \in Arrays, Made(a), NEW added \in Seq(Values), arrayConcat(a, added)
  PROVE  \E r \in Arrays : Script!Makes(r, Value[a] \o added, "concat")
<1>1. /\ Value[a] \o added \in Seq(Values) /\ Contents(arrays[a]) = Value[a]
      /\ Length(a) \in Nat /\ Len(added) \in Nat
  BY MadeIsSlice, MadeValue, ConcatProperties, LenProperties
<1> DEFINE c == IF added = <<>> THEN Length(a) + Len(added) ELSE Grown(Length(a), Length(a) + Len(added))
<1>2. c \in Int
  BY <1>1 DEF Grown
<1>3. Makes(Value[a] \o added, c, "concat")
  BY <1>1 DEF arrayConcat
<1> HIDE DEF c
<1> QED BY <1>1, <1>2, <1>3, MakesValue

\* A part of the contents
LEMMA WindowValue ==
  ASSUME ArraysOK, NEW a \in Arrays, Made(a), NEW i \in Nat, NEW j \in Nat, i <= j, j <= Length(a)
  PROVE  /\ Contents(Window(arrays[a], i, j)) = SubSeq(Value[a], i + 1, j)
         /\ SubSeq(Value[a], i + 1, j) \in Seq(Values) /\ Len(SubSeq(Value[a], i + 1, j)) = j - i
<1> DEFINE m == memory[arrays[a].memory]
           o == arrays[a].offset
           n == Length(a)
<1>1. m \in Seq(Values) /\ o \in Nat /\ n \in Nat /\ o + n <= Len(m) /\ Value[a] = SubSeq(m, o + 1, o + n)
  BY MadeContents
<1>2. Contents(Window(arrays[a], i, j)) = SubSeq(m, o + i + 1, o + i + (j - i))
  BY DEF Contents, Window
<1> HIDE DEF m, o
<1>3. Contents(Window(arrays[a], i, j)) = SubSeq(Value[a], i + 1, j)
  BY <1>1, <1>2, CutOfCut, SMTT(40)
<1>4. Value[a] \in Seq(Values) /\ Len(Value[a]) = n
  BY MadeValue
<1> DEFINE k == j - i
<1>5. k \in Nat /\ i + k = j /\ i + k <= Len(Value[a])
  BY <1>1, <1>4, SMTT(40)
<1> HIDE DEF k
<1>6. SubSeq(Value[a], i + 1, i + k) \in Seq(Values) /\ Len(SubSeq(Value[a], i + 1, i + k)) = k
  BY <1>4, <1>5, Cut
<1> QED BY <1>3, <1>5, <1>6 DEF k

LEMMA SliceIsSlice ==
  ASSUME ArraysOK, NEW a \in Arrays, Made(a), NEW args \in Args(Indices, 0 .. 2), arraySlice(a, args)
  PROVE  \/ UNCHANGED <<Value, result>>
         \/ \E to \in 0 .. Len(Value[a]) : \E from \in 0 .. to :
              \E r \in Arrays : Script!Makes(r, SubSeq(Value[a], from + 1, to), "slice")
<1> DEFINE bounds == sliceBounds(Length(a), args)
           from == bounds[1]
           to == bounds[2]
           n == Length(a)
<1>0. n \in Nat /\ Len(Value[a]) = n
  BY MadeIsSlice, MadeValue
<1>1. CASE OutOfRange(from, to, Capacity(arrays[a]))
  BY <1>1, NothingChanges DEF arraySlice, Panics
<1>2. CASE ~OutOfRange(from, to, Capacity(arrays[a]))
  <2>1. from \in Int /\ to \in Int /\ to <= n
    <3>1. Arg(args, 1, 0) \in Int /\ Arg(args, 2, n) \in Int
      BY <1>0, ArgIsInt
    <3> DEFINE end == AtMost(FromEnd(Arg(args, 2, n), n), n)
               start == AtMost(AtMost(NotBelow0(FromEnd(Arg(args, 1, 0), n)), n), end)
    <3>2. bounds = <<start, end>>
      BY DEF sliceBounds
    <3> HIDE DEF n
    <3>3. end \in Int /\ end <= n
      BY <1>0, <3>1 DEF FromEnd, AtMost
    <3> HIDE DEF end
    <3>4. start \in Int
      BY <1>0, <3>1, <3>3 DEF FromEnd, AtMost, NotBelow0
    <3> QED BY <3>2, <3>3, <3>4
  <2>2. Makes(Contents(Window(arrays[a], from, to)), to - from, "slice")
    BY <1>2 DEF arraySlice
  <2> HIDE DEF bounds, n
  <2>3. 0 <= from /\ from <= to
    BY <1>2 DEF OutOfRange
  <2> HIDE DEF from, to
  <2>4. from \in Nat /\ to \in Nat /\ to - from \in Int /\ to \in 0 .. n /\ from \in 0 .. to
    BY <1>0, <2>1, <2>3
  <2>5. /\ Contents(Window(arrays[a], from, to)) = SubSeq(Value[a], from + 1, to)
        /\ SubSeq(Value[a], from + 1, to) \in Seq(Values)
    BY <2>1, <2>3, <2>4, WindowValue DEF n
  <2>6. \E r \in Arrays : Script!Makes(r, SubSeq(Value[a], from + 1, to), "slice")
    BY <2>2, <2>4, <2>5, MakesValue
  <2> QED BY <1>0, <2>4, <2>6
<1> QED BY <1>1, <1>2

LEMMA SpliceIsSplice ==
  ASSUME ArraysOK, NEW a \in Arrays, Made(a), NEW args \in Args(Indices, 0 .. 2),
         NEW added \in Seq(Values), arraySplice(a, args, added)
  PROVE  \/ UNCHANGED <<Value, result>>
         \/ \E r \in Arrays : Script!Makes(r, <<>>, "splice")
         \/ \E to \in 0 .. Len(Value[a]) : \E from \in 0 .. to :
              \E r \in Arrays : Script!Splice(a, r, from, to, added)
<1> DEFINE bounds == spliceBounds(Length(a), args)
           from == bounds[1]
           count == bounds[2]
           to == from + count
           n == Length(a)
           s == Value[a]
           removed == SubSeq(s, from + 1, to)
           left == Spliced(s, from, to, added)
<1>0. n \in Nat /\ Len(s) = n /\ s \in Seq(Values) /\ Contents(arrays[a]) = s
  BY MadeIsSlice, MadeValue
<1>1. CASE args = <<>>
  <2>1. Makes(<<>>, 0, "splice") /\ 0 \in Int /\ <<>> \in Seq(Values)
    BY <1>1 DEF arraySplice
  <2> QED BY <2>1, MakesValue
<1>2. CASE args # <<>> /\ Len(args) = 1
  BY <1>2, NothingChanges DEF arraySplice, Panics
<1>3. CASE args # <<>> /\ Len(args) # 1 /\ to > n
  BY <1>3, NothingChanges DEF arraySplice, Panics
<1>4. CASE args # <<>> /\ Len(args) # 1 /\ ~(to > n)
  <2>1. Len(args) = 2
    BY <1>4, TwoArguments
  <2>2. from \in 0 .. n /\ count \in Nat
    BY <1>0, <2>1, SpliceBounds
  <2>3. PICK m \in Memories, k \in Memories :
          /\ Free(m) /\ m # k /\ Free(k)
          /\ memory' = [memory EXCEPT ![m] = removed, ![k] = left]
          /\ arrays' = [arrays EXCEPT ![NewArray] = [memory |-> m, offset |-> 0, len |-> Len(removed)],
                                      ![a] = [memory |-> k, offset |-> 0, len |-> Len(left)]]
    BY <1>0, <1>4 DEF arraySplice
  <2>4. result' = NewBy("splice") /\ \E r \in Arrays : ~Made(r)
    BY <1>4 DEF arraySplice, Ok
  <2>5. NewArray \in Arrays /\ ~Made(NewArray)
    BY <2>4 DEF NewArray
  <2> HIDE DEF bounds, s, removed, left, NewArray
  <2>6. from \in Nat /\ count \in Nat /\ to \in 0 .. n /\ from \in 0 .. to
    <3> HIDE DEF from, count, n
    <3> QED BY <1>0, <1>4, <2>2
  <2> HIDE DEF from, count, to, n
  <2>7. from \in Nat /\ to \in Nat /\ from <= to /\ to <= n /\ 0 \in Nat /\ 0 <= from /\ from <= n /\ n <= n
    BY <1>0, <2>6
  <2>8. removed \in Seq(Values) /\ SubSeq(s, 0 + 1, from) \in Seq(Values) /\ SubSeq(s, to + 1, n) \in Seq(Values)
    BY <1>0, <2>7, WindowValue DEF n, s, removed
  <2>9. left = SubSeq(s, 1, from) \o added \o SubSeq(s, to + 1, n)
    BY <1>0 DEF Spliced, left
  <2>10. left \in Seq(Values)
    BY <2>8, <2>9, ConcatProperties
  <2>11. Value' = [Value EXCEPT ![NewArray] = removed, ![a] = left]
    <3>1. PICK r \in Arrays, out \in Seq(Values), in \in Seq(Values) :
            r = NewArray /\ out = removed /\ in = left
      BY <2>5, <2>8, <2>10
    <3>2. /\ ~Made(r) /\ Free(m) /\ Free(k) /\ m # k
          /\ memory' = [memory EXCEPT ![m] = out, ![k] = in]
          /\ arrays' = [arrays EXCEPT ![r] = [memory |-> m, offset |-> 0, len |-> Len(out)],
                                      ![a] = [memory |-> k, offset |-> 0, len |-> Len(in)]]
      BY <2>3, <2>5, <3>1
    <3>3. Value'[r] = out /\ Value'[a] = in /\ \A b \in Arrays \ {a, r} : Value'[b] = Value[b]
      BY <3>2, SplitValue
    <3>4. Value = [b \in Arrays |-> Value[b]] /\ Value' = [b \in Arrays |-> Value'[b]]
      BY DEF Value
    <3>5. r # a
      BY <3>2
    <3>6. Value' = [Value EXCEPT ![r] = out, ![a] = in]
      BY <3>3, <3>4, <3>5
    <3> QED BY <3>1, <3>6
  <2>12. ~Script!Made(NewArray)
    BY <2>5 DEF Script!Made, Value
  <2>13. Script!Splice(a, NewArray, from, to, added)
    BY <1>0, <2>4, <2>9, <2>11, <2>12 DEF Script!Splice, Script!NewBy, NewBy, removed, s
  <2> QED BY <1>0, <2>5, <2>6, <2>13 DEF s
<1> QED BY <1>1, <1>2, <1>3, <1>4

\* What methods that do not call back do to the values
ValueStep == \/ \E a \in Arrays : (Script!Made(a) /\ Script!Change(a)) \/ Script!New(a)
             \/ UNCHANGED <<Value, result>>
ScriptStep == Script!Next \/ UNCHANGED <<Value, Collected, result>>

LEMMA MethodIsMethod ==
  ASSUME ArraysOK, NEW a \in Arrays, Method(a)
  PROVE  ValueStep
<1>0. Made(a) /\ Script!Made(a) /\ Value[a] \in Seq(Values)
  BY MadeValue DEF Method, Script!Made
<1>1. Script!Change(a) => ValueStep
  BY <1>0 DEF ValueStep
<1>2. \A r \in Arrays : Script!New(r) => ValueStep
  BY DEF ValueStep
<1>3. ASSUME NEW v \in Values, NEW i \in Indices, Set(a, i, v)
      PROVE  ValueStep
  BY <1>0, <1>1, <1>3, SetIsSet DEF Script!Change, ValueStep
<1>4. CASE arrayPop(a) \/ arrayShift(a) \/ arrayReverse(a) \/ arraySort(a)
  BY <1>0, <1>1, <1>4, PopIsPop, ShiftIsShift, ReverseIsReverse, SortIsSort DEF Script!Change
<1>5. ASSUME NEW v \in Values, arrayPush(a, v) \/ arrayUnshift(a, v)
      PROVE  ValueStep
  BY <1>0, <1>1, <1>5, PushIsPush DEF Script!Change
<1>6. ASSUME NEW v \in Values, arrayConcat(a, <<v>>)
      PROVE  ValueStep
  <2>1. <<v>> \in Seq(Values) /\ Append(Value[a], v) = Value[a] \o <<v>>
    BY <1>0, AppendIsConcat
  <2>2. PICK r \in Arrays : Script!Makes(r, Append(Value[a], v), "concat")
    BY <1>0, <1>6, <2>1, ConcatIsConcat
  <2> QED BY <1>0, <1>2, <2>2 DEF Script!New
<1>7. ASSUME NEW v \in Values, NEW args \in Args(Indices, 0 .. 2), arrayFill(a, v, args)
      PROVE  ValueStep
  BY <1>0, <1>1, <1>7, FillIsFill DEF Script!Change
<1>8. ASSUME NEW i \in Indices, DeleteElementOperation(a, i)
      PROVE  ValueStep
  BY <1>3, <1>8 DEF DeleteElementOperation
<1>9. ASSUME NEW args \in Args(Indices, 0 .. 2), arraySlice(a, args)
      PROVE  ValueStep
  <2>1. CASE UNCHANGED <<Value, result>>
    BY <2>1 DEF ValueStep
  <2>2. CASE \E to \in 0 .. Len(Value[a]) : \E from \in 0 .. to :
               \E r \in Arrays : Script!Makes(r, SubSeq(Value[a], from + 1, to), "slice")
    BY <1>0, <1>2, <2>2 DEF Script!New
  <2> QED BY <1>0, <1>9, <2>1, <2>2, SliceIsSlice
<1>10. ASSUME NEW args \in Args(Indices, 0 .. 2), NEW added \in {<<>>} \cup {<<v>> : v \in Values},
              arraySplice(a, args, added)
       PROVE  ValueStep
  <2>1. CASE UNCHANGED <<Value, result>>
    BY <2>1 DEF ValueStep
  <2>2. CASE \E to \in 0 .. Len(Value[a]) : \E from \in 0 .. to :
               \E r \in Arrays : Script!Splice(a, r, from, to, added)
    BY <1>0, <1>2, <2>2 DEF Script!New
  <2>3. added \in Seq(Values)
    <3>1. <<>> \in Seq(Values) /\ \A v \in Values : <<v>> \in Seq(Values)
      OBVIOUS
    <3> QED BY <3>1
  <2>4. CASE \E r \in Arrays : Script!Makes(r, <<>>, "splice")
    BY <1>0, <1>2, <2>4 DEF Script!New
  <2> QED BY <1>0, <1>10, <2>1, <2>2, <2>3, <2>4, SpliceIsSplice
<1>11. ASSUME NEW b \in Arrays, Made(b), arrayConcat(a, Contents(arrays[b]))
       PROVE  ValueStep
  <2>1. Contents(arrays[b]) = Value[b] /\ Value[b] \in Seq(Values) /\ Script!Made(b)
    BY <1>11, MadeValue DEF Script!Made
  <2>2. PICK r \in Arrays : Script!Makes(r, Value[a] \o Value[b], "concat")
    BY <1>0, <1>11, <2>1, ConcatIsConcat
  <2> QED BY <1>0, <1>2, <2>1, <2>2 DEF Script!New
<1>12. ASSUME NEW args \in Args(Indices, 0 .. 2),
              arraySlice(a, args) \/ arraySplice(a, args, <<>>) \/ \E v \in Values : arraySplice(a, args, <<v>>)
       PROVE  ValueStep
  BY <1>9, <1>10, <1>12
<1>13. ASSUME NEW v \in Values,
              \/ arrayPush(a, v) \/ arrayUnshift(a, v) \/ arrayConcat(a, <<v>>)
              \/ \E args \in Args(Indices, 0 .. 2) : arrayFill(a, v, args)
              \/ \E i \in Indices : Set(a, i, v)
       PROVE  ValueStep
  BY <1>3, <1>5, <1>6, <1>7, <1>13
<1> HIDE DEF ValueStep
<1> QED BY <1>4, <1>8, <1>11, <1>12, <1>13 DEF Method

LEMMA ConstructorIsNew ==
  ASSUME ArraysOK, NewArrayConstructor
  PROVE  ValueStep
<1>1. ASSUME NEW s \in Seq(Values), NEW c \in Int, Makes(s, c, "Array")
      PROVE  ValueStep
  <2>1. PICK r \in Arrays : Script!Makes(r, s, "Array")
    BY <1>1, MakesValue
  <2>2. Value'[r] = s
    BY <2>1 DEF Script!Makes, Value
  <2> QED BY <2>1, <2>2 DEF ValueStep, Script!New
<1>2. ASSUME NEW n \in Indices,
             IF 0 <= n /\ n <= MaxMake
             THEN n <= MaxLength /\ Makes([i \in 1 .. n |-> Undefined], n, "Array") /\ walks' = walks
             ELSE Panics("Array", <<n>>, 0)
      PROVE  ValueStep
  <2>1. CASE 0 <= n /\ n <= MaxMake
    <3> DEFINE u == [i \in 1 .. n |-> Undefined]
    <3>1. n \in Nat /\ n \in Int
      BY <2>1, IndicesAreInts
    <3>2. u \in Seq(Values)
      BY <3>1, UndefinedsAreValues
    <3>3. Makes(u, n, "Array")
      BY <1>2, <2>1
    <3> HIDE DEF u
    <3> QED BY <1>1, <3>1, <3>2, <3>3
  <2>2. CASE ~(0 <= n /\ n <= MaxMake)
    BY <1>2, <2>2, NothingChanges DEF Panics, ValueStep
  <2> QED BY <2>1, <2>2
<1>3. ASSUME NEW elements \in Args(Values, 0 .. 2), Makes(elements, Len(elements), "Array")
      PROVE  ValueStep
  <2>1. PICK k \in 0 .. 2 : elements \in [1 .. k -> Values]
    BY DEF Args
  <2>2. elements \in Seq(Values) /\ Len(elements) \in Int
    BY <2>1, FunctionIsSeq
  <2> QED BY <1>1, <1>3, <2>2
<1> QED BY <1>2, <1>3 DEF NewArrayConstructor

-----------------------------------------------------------------------------
(* Walks: what callbacks have them collect is what they return.            *)

Results(ws) == [i \in DOMAIN ws |-> ws[i].results]

LEMMA ResultsAreSequences ==
  ASSUME NEW ws \in Seq(WalkRecord)
  PROVE  /\ Results(ws) \in Seq(Seq(Values)) /\ Len(Results(ws)) = Len(ws)
         /\ DOMAIN Results(ws) = DOMAIN ws /\ DOMAIN ws = 1 .. Len(ws) /\ Len(ws) \in Nat
         /\ \A i \in 1 .. Len(ws) : Results(ws)[i] = ws[i].results
<1> DEFINE n == Len(ws)
<1>1. DOMAIN ws = 1 .. n /\ n \in Nat
  BY LenProperties
<1>2. \A i \in 1 .. n : ws[i].results \in Seq(Values)
  <2>1. \A i \in 1 .. n : ws[i] \in WalkRecord
    BY ElementOfSeq
  <2> QED BY <2>1 DEF WalkRecord
<1> HIDE DEF n
<1>3. Results(ws) \in [1 .. n -> Seq(Values)]
  BY <1>1, <1>2 DEF Results
<1>4. Results(ws) \in Seq(Seq(Values))
  BY <1>1, <1>3, IsASeq
<1>5. Len(Results(ws)) = n
  BY <1>1, <1>3, <1>4, LenProperties
<1> QED BY <1>1, <1>3, <1>4, <1>5 DEF Results, n

LEMMA CollectedStays ==
  ASSUME WalksOK, WalksStay
  PROVE  Collected' = Collected
<1>1. ASSUME NEW a \in Arrays, Moves(a)
      PROVE  Collected' = Collected
  <2>1. DOMAIN walks' = DOMAIN walks
        /\ \A i \in DOMAIN walks : walks'[i] = [walks[i] EXCEPT !.moved = @ \/ walks[i].array = a]
    BY <1>1 DEF Moves
  <2>2. \A i \in DOMAIN walks : walks[i] \in WalkRecord
    BY WalksAreRecords
  <2>3. \A i \in DOMAIN walks : walks'[i].results = walks[i].results
    BY <2>1, <2>2 DEF WalkRecord
  <2> QED BY <2>1, <2>3 DEF Collected
<1> QED BY <1>1 DEF WalksStay, Collected

LEMMA BeginCollects ==
  ASSUME ArraysOK, WalksOK, NEW a \in Arrays, Begin(a)
  PROVE  Collected' = Append(Collected, <<>>)
<1>1. walks' \in Seq(WalkRecord) /\ walks \in Seq(WalkRecord)
  BY BeginKeeps DEF WalksOK
<1>2. PICK method, i : walks' = Append(walks, Walk(method, a, i))
  BY DEF Begin
<1> DEFINE w == Walk(method, a, i)
           n == Len(walks)
           S == WalkRecord \cup {w}
<1>3. w.results = <<>>
  BY DEF Walk
<1>4. walks' = Append(walks, w)
  BY <1>2
<1> HIDE DEF w
<1>5. walks \in [1 .. n -> S] /\ n \in Nat
  BY <1>1, LenProperties
<1>6. walks \in Seq(S) /\ w \in S
  BY <1>5, IsASeq
<1>7. /\ Len(Append(walks, w)) = n + 1
      /\ Append(walks, w)[n + 1] = w /\ \A j \in 1 .. n : Append(walks, w)[j] = walks[j]
  BY <1>6, AppendProperties
<1> DEFINE old == Results(walks)
           new == Results(walks')
<1>8. /\ old \in Seq(Seq(Values)) /\ Len(old) = n /\ \A j \in 1 .. n : old[j] = walks[j].results
  BY <1>1, ResultsAreSequences
<1>9. /\ new \in Seq(Seq(Values)) /\ Len(new) = n + 1 /\ \A j \in 1 .. n + 1 : new[j] = walks'[j].results
  BY <1>1, <1>4, <1>7, ResultsAreSequences
<1> HIDE DEF n, old, new
<1>10. <<>> \in Seq(Values)
  OBVIOUS
<1>11. /\ Append(old, <<>>) \in Seq(Seq(Values)) /\ Len(Append(old, <<>>)) = n + 1
       /\ Append(old, <<>>)[n + 1] = <<>> /\ \A j \in 1 .. n : Append(old, <<>>)[j] = old[j]
  BY <1>8, <1>10, AppendProperties
<1>12. \A j \in 1 .. n + 1 : new[j] = Append(old, <<>>)[j]
  <2> SUFFICES ASSUME NEW j \in 1 .. n + 1 PROVE new[j] = Append(old, <<>>)[j]
    OBVIOUS
  <2>1. CASE j = n + 1
    <3>1. new[j] = <<>>
      BY <1>3, <1>4, <1>7, <1>9, <2>1
    <3> QED BY <1>11, <2>1, <3>1
  <2>2. CASE j # n + 1
    <3>1. j \in 1 .. n
      BY <1>5, <2>2
    <3>2. new[j] = walks[j].results
      BY <1>4, <1>7, <1>9, <3>1
    <3> QED BY <1>8, <1>11, <3>1, <3>2
  <2> QED BY <2>1, <2>2
<1>13. new = Append(old, <<>>)
  BY <1>9, <1>11, <1>12, SeqEqual
<1> QED BY <1>13 DEF new, old, Results, Collected

\* The innermost walk keeps or collects.
LEMMA InnermostCollects ==
  ASSUME WalksOK, walks # <<>>, NEW w, SetInnermost(w)
  PROVE  Collected' = [Collected EXCEPT ![Len(Collected)] = w.results]
<1>1. Len(walks) \in DOMAIN walks /\ Len(Collected) = Len(walks)
  BY WalksAreRecords, ResultsAreSequences DEF Collected, Results
<1>2. walks' = [walks EXCEPT ![Len(walks)] = w]
  BY DEF SetInnermost
<1> QED BY <1>1, <1>2 DEF Collected

LEMMA CollectedInnermost ==
  ASSUME WalksOK, walks # <<>>
  PROVE  /\ Collected \in Seq(Seq(Values)) /\ Collected # <<>> /\ Len(Collected) \in DOMAIN Collected
         /\ Len(Collected) = Len(walks) /\ Collected[Len(Collected)] = Innermost.results
<1>1. walks \in Seq(WalkRecord) /\ Len(walks) \in 1 .. Len(walks)
  BY WalksAreRecords
<1>2. /\ Results(walks) \in Seq(Seq(Values)) /\ Len(Results(walks)) = Len(walks)
      /\ DOMAIN Results(walks) = 1 .. Len(walks) /\ Results(walks)[Len(walks)] = walks[Len(walks)].results
  BY <1>1, ResultsAreSequences
<1>3. Collected = Results(walks)
  BY DEF Collected, Results
<1>4. Results(walks) # <<>>
  BY <1>1, <1>2, EmptySeq
<1> QED BY <1>1, <1>2, <1>3, <1>4 DEF Innermost

LEMMA EndWalkCollects ==
  ASSUME WalksOK, walks # <<>>, EndWalk
  PROVE  Collected' = Script!Front(Collected) /\ Script!Last(Collected) = Innermost.results
<1> DEFINE n == Len(walks) - 1
           old == Results(walks)
           new == Results(walks')
           front == SubSeq(old, 1, n)
<1>1. walks \in Seq(WalkRecord) /\ DOMAIN walks = 1 .. Len(walks) /\ n \in Nat /\ n <= Len(walks)
  BY EmptySeq, LenProperties DEF WalksOK
<1>2. \A i \in 1 .. n : i \in DOMAIN walks /\ walks[i] \in WalkRecord
  BY <1>1, ElementOfSeq
<1>3. walks' = SubSeq(walks, 1, n)
  BY DEF EndWalk
<1>4. old \in Seq(Seq(Values)) /\ Len(old) = Len(walks) /\ \A i \in 1 .. Len(walks) : old[i] = walks[i].results
  BY <1>1, ResultsAreSequences
<1>5. \A i \in 1 .. n : old[i] \in Seq(Values) /\ i \in 1 .. Len(walks)
  BY <1>1, <1>2, <1>4, ElementOfSeq
<1> HIDE DEF n, old
<1>6. walks' \in Seq(WalkRecord) /\ Len(walks') = n /\ \A i \in 1 .. n : walks'[i] = walks[i]
  BY <1>1, <1>2, <1>3, SubSeqProperties
<1>7. new \in Seq(Seq(Values)) /\ Len(new) = n /\ \A i \in 1 .. n : new[i] = walks'[i].results
  BY <1>6, ResultsAreSequences
<1>8. front \in Seq(Seq(Values)) /\ Len(front) = n /\ \A i \in 1 .. n : front[i] = old[i]
  BY <1>1, <1>5, SubSeqProperties
<1> HIDE DEF new, front
<1>9. \A i \in 1 .. n : new[i] = front[i]
  BY <1>4, <1>5, <1>6, <1>7, <1>8
<1>10. new = front
  BY <1>7, <1>8, <1>9, SeqEqual
<1>11. Collected = old /\ Collected' = new
  BY DEF Collected, old, new, Results
<1>12. Script!Front(Collected) = front
  BY <1>4, <1>11 DEF Script!Front, front, n
<1> QED BY <1>10, <1>11, <1>12, CollectedInnermost DEF Script!Last

LEMMA VisitCollects ==
  ASSUME WalksOK, Visit
  PROVE  Collected' = Collected
<1>1. walks # <<>>
  BY DEF Visit, Walking
<1> DEFINE w == Innermost
           v == [w EXCEPT !.calling = TRUE, !.entry = Contents(Source(w))[w.index + 1]]
<1>2. walks' = walks \/ SetInnermost(v)
  BY DEF Visit, Panics
<1>3. v.results = w.results
  <2>1. w \in WalkRecord
    BY <1>1, InnermostIsRecord
  <2> HIDE DEF w
  <2> QED BY <2>1 DEF WalkRecord
<1> HIDE DEF v, w
<1>4. CASE SetInnermost(v)
  BY <1>1, <1>3, <1>4, InnermostCollects, CollectedInnermost DEF w
<1> QED BY <1>2, <1>4 DEF Collected

LEMMA WalksAreWalks ==
  ASSUME ArraysOK, WalksOK,
         Return \/ ReturnTrue \/ Throw \/ EndOfWalk
  PROVE  ScriptStep
<1> DEFINE w == Innermost
<1>0. walks # <<>>
  BY DEF Return, ReturnTrue, Throw, EndOfWalk, Calling, Walking
<1>1. /\ w \in WalkRecord /\ w.results \in Seq(Values) /\ w.entry \in Values
      /\ w.elements.len \in Int /\ Len(w.results) \in Int
  BY <1>0, InnermostIsRecord, InnermostTypes, LenProperties
<1>2. Collected # <<>> /\ Collected[Len(Collected)] = w.results /\ Len(Collected) \in DOMAIN Collected
  BY <1>0, CollectedInnermost
<1> HIDE DEF w
<1>3. ASSUME NEW results, results \in {w.results, Append(w.results, w.entry)}, Continues(results)
      PROVE  ScriptStep
  <2> DEFINE v == After(w, results)
  <2>1. SetInnermost(v) /\ UNCHANGED <<memory, arrays, result>>
    BY <1>3 DEF Continues, w
  <2>2. v.results = results
    BY <1>1 DEF After, WalkRecord
  <2> HIDE DEF v
  <2>3. Value' = Value /\ Collected' = [Collected EXCEPT ![Len(Collected)] = results]
    BY <1>0, <2>1, <2>2, NothingChanges, InnermostCollects
  <2>4. CASE results = w.results
    <3>1. Collected' = Collected
      BY <1>2, <2>3, <2>4 DEF Collected
    <3> QED BY <2>1, <2>3, <3>1 DEF ScriptStep
  <2>5. CASE results = Append(w.results, w.entry)
    <3>1. Collected' = [Collected EXCEPT ![Len(Collected)] = Append(@, w.entry)]
      BY <1>2, <2>3, <2>5
    <3> QED BY <1>1, <1>2, <2>1, <2>3, <3>1 DEF ScriptStep, Script!Next, Script!Walks
  <2> QED BY <1>3, <2>4, <2>5
<1>4. ASSUME EndWalk, UNCHANGED <<memory, arrays>>, NEW v \in Values, result' \in {result, Nothing, Element(v)}
      PROVE  ScriptStep
  <2>1. Value' = Value /\ Collected' = Script!Front(Collected)
    BY <1>0, <1>4, NothingChanges, EndWalkCollects
  <2>2. result' \in {result, Script!Nothing} \cup {Script!Element(u) : u \in Values}
    BY <1>4 DEF Nothing, Element, Script!Nothing, Script!Element
  <2> QED BY <1>2, <2>1, <2>2 DEF ScriptStep, Script!Next, Script!Walks
<1>5. ASSUME EndWalk, NEW c \in Int, NEW method \in {"map", "filter"}, Makes(w.results, c, method)
      PROVE  ScriptStep
  <2>1. PICK r \in Arrays : Script!Makes(r, w.results, method)
    BY <1>1, <1>5, MakesValue
  <2>2. Collected' = Script!Front(Collected) /\ Script!Last(Collected) = w.results
    BY <1>0, <1>5, EndWalkCollects DEF w
  <2> QED BY <1>2, <2>1, <2>2 DEF ScriptStep, Script!Next, Script!Walks
<1>6. CASE Return
  <2>1. Continues(IF w.method = "map" THEN Append(w.results, w.entry) ELSE w.results)
    BY <1>6 DEF Return, w
  <2> QED BY <1>3, <2>1
<1>7. CASE Throw
  BY <1>1, <1>4, <1>7 DEF Throw
<1>8. CASE ReturnTrue
  <2>1. \/ Continues(Append(w.results, w.entry))
        \/ EndWalk /\ UNCHANGED <<memory, arrays>> /\ result' \in {Nothing, Element(w.entry)}
    BY <1>8 DEF ReturnTrue, Ok, w
  <2> QED BY <1>1, <1>3, <1>4, <2>1
<1>9. CASE EndOfWalk
  <2>1. EndWalk
        /\ \/ Makes(w.results, w.elements.len, "map")
           \/ \E spare \in {0, Len(w.results)} : Makes(w.results, Len(w.results) + spare, "filter")
           \/ UNCHANGED <<memory, arrays>> /\ result' \in {Nothing, Element(Undefined)}
    BY <1>9 DEF EndOfWalk, Ok, w
  <2>2. ASSUME NEW spare \in {0, Len(w.results)}, Makes(w.results, Len(w.results) + spare, "filter")
        PROVE  ScriptStep
    <3>1. Len(w.results) + spare \in Int
      BY <1>1
    <3> QED BY <1>5, <2>1, <2>2, <3>1
  <2> QED BY <1>1, <1>4, <1>5, <2>1, <2>2
<1> QED BY <1>6, <1>7, <1>8, <1>9

LEMMA InitIsInit ==
  ASSUME Init
  PROVE  Script!Init
<1>1. PICK first \in Arrays : first = CHOOSE a \in Arrays : TRUE
  BY SomeAssumption
<1>2. ArraysOK /\ result = Nothing
  BY InitHolds, SomeAssumption, Parts DEF Init
<1>3. Made(first) /\ \A b \in Arrays \ {first} : ~Made(b)
  <2> DEFINE m == CHOOSE m \in Memories : TRUE
             s == [memory |-> m, offset |-> 0, len |-> Len(Initial)]
  <2>1. arrays = [b \in Arrays |-> IF b = first THEN s ELSE NotMade]
    BY <1>1 DEF Init
  <2>2. s \in Slice
    BY SomeAssumption, InitialAssumption, LenProperties DEF Slice
  <2> HIDE DEF s
  <2> QED BY <2>1, <2>2 DEF Made
<1>4. Value[first] \in Seq(Values)
  BY <1>2, <1>3, MadeValue
<1>5. \A b \in Arrays \ {first} : Value[b] = NotMade
  BY <1>3 DEF Value
<1>6. result = Script!Nothing
  BY <1>2 DEF Script!Nothing, Nothing
<1>7. Collected = <<>>
  <2>1. Results(<<>>) \in Seq(Seq(Values)) /\ Len(Results(<<>>)) = 0
    <3>1. <<>> \in Seq(WalkRecord) /\ Len(<<>>) = 0
      OBVIOUS
    <3> QED BY <3>1, ResultsAreSequences
  <2>2. Collected = Results(<<>>)
    BY DEF Init, Collected, Results
  <2> QED BY <2>1, <2>2, EmptySeq
<1> QED BY <1>4, <1>5, <1>6, <1>7 DEF Script!Init, Script!Made

LEMMA NextIsNext ==
  ASSUME IInv, [Next]_vars
  PROVE  ScriptStep
<1>1. ArraysOK /\ WalksOK
  BY Parts
<1>2. ASSUME ValueStep, WalksStay
      PROVE  ScriptStep
  BY <1>1, <1>2, CollectedStays DEF ValueStep, ScriptStep, Script!Next
<1>3. CASE UNCHANGED vars
  BY <1>3, NothingChanges DEF vars, Collected, ScriptStep
<1>4. ASSUME NEW a \in Arrays, Method(a) PROVE ScriptStep
  BY <1>1, <1>2, <1>4, MethodKeeps, MethodIsMethod
<1>5. CASE NewArrayConstructor
  BY <1>1, <1>2, <1>5, ConstructorKeeps, ConstructorIsNew
<1>6. ASSUME NEW a \in Arrays, Begin(a) PROVE ScriptStep
  <2>1. Value' = Value /\ result' = result
    BY <1>6, NothingChanges DEF Begin
  <2>2. Collected' = Append(Collected, <<>>)
    BY <1>1, <1>6, BeginCollects
  <2> QED BY <2>1, <2>2 DEF ScriptStep, Script!Next, Script!Walks
<1>7. CASE Visit
  <2>1. Value' = Value /\ result' = result
    BY <1>7, NothingChanges DEF Visit, Panics
  <2> QED BY <1>1, <1>7, <2>1, VisitCollects DEF ScriptStep
<1> QED BY <1>1, <1>3, <1>4, <1>5, <1>6, <1>7, WalksAreWalks DEF Next

\* Under any sequence of methods and callbacks, an array that a script has is
\* the sequence of values that ECMAScript's methods make of it: no method
\* changes another array through memory that both look at, moves elements the
\* wrong way, or loses one when its slice grows.
THEOREM ArraysAreValues ==
  Spec => ImplementsArrayValues
<1>1. Init => Script!Init /\ IInv
  BY InitIsInit, InitHolds, SomeAssumption
<1>2. IInv /\ [Next]_vars => IInv'
  BY NextKeeps
<1>3. IInv /\ [Next]_vars => [Script!Next]_<<Value, Collected, result>>
  BY NextIsNext DEF ScriptStep
<1> QED BY <1>1, <1>2, <1>3, PTL DEF Spec, ImplementsArrayValues, Script!Spec

-----------------------------------------------------------------------------
(* Arguments: the positions that the methods work out are ECMAScript's.    *)

LEMMA IntegerArgs ==
  ASSUME NEW S \in SUBSET Int, NEW k \in 0 .. 2, NEW args \in Args(S, 0 .. k)
  PROVE  /\ Len(args) \in 0 .. k /\ \A i \in 1 .. Len(args) : args[i] \in Int
         /\ args = <<>> <=> Len(args) = 0
<1>1. PICK n \in 0 .. k : args \in [1 .. n -> S]
  BY DEF Args
<1>2. args \in Seq(S) /\ Len(args) = n /\ n \in Nat
  BY <1>1, IsASeq, LenProperties
<1>3. args = <<>> <=> Len(args) = 0
  BY <1>2, EmptySeq
<1> QED BY <1>1, <1>2, <1>3

\* A position as the code and as ECMAScript work it out: ECMAScript's is never
\* out of the array, which sets of positions do not show.
LEMMA FillPositions ==
  ASSUME NEW n \in Nat, NEW i \in Int, NEW j \in Int
  PROVE  NotBelow0(FromEnd(i, n)) .. AtMost(FromEnd(j, n), n) - 1
           = {k \in 0 .. n - 1 : Script!Relative(i, n) <= k /\ k < Script!Relative(j, n)}
<1> DEFINE lo == NotBelow0(FromEnd(i, n))
           hi == AtMost(FromEnd(j, n), n)
           from == Script!Relative(i, n)
           to == Script!Relative(j, n)
<1>1. lo \in Nat /\ hi \in Int /\ hi <= n
  BY DEF NotBelow0, FromEnd, AtMost
<1>2. from = (IF lo > n THEN n ELSE lo)
  BY DEF NotBelow0, FromEnd, Script!Relative
<1>3. to = (IF hi < 0 THEN 0 ELSE hi)
  BY DEF AtMost, FromEnd, Script!Relative
<1> HIDE DEF lo, hi, from, to
<1>4. \A k : k \in lo .. hi - 1 <=> k \in 0 .. n - 1 /\ from <= k /\ k < to
  BY <1>1, <1>2, <1>3
<1>5. lo .. hi - 1 = {k \in 0 .. n - 1 : from <= k /\ k < to}
  BY <1>4
<1> QED BY <1>5 DEF lo, hi, from, to

LEMMA SlicePositions ==
  ASSUME NEW n \in Nat, NEW i \in Int, NEW j \in Int
  PROVE  LET end == AtMost(FromEnd(j, n), n)
             start == AtMost(AtMost(NotBelow0(FromEnd(i, n)), n), end)
         IN \/ OutOfRange(start, end, n)
            \/ start .. end - 1
                 = {k \in 0 .. n - 1 : Script!Relative(i, n) <= k /\ k < Script!Relative(j, n)}
<1> DEFINE lo == NotBelow0(FromEnd(i, n))
           end == AtMost(FromEnd(j, n), n)
           start == AtMost(AtMost(lo, n), end)
<1>1. lo \in Nat /\ end \in Int
  BY DEF NotBelow0, FromEnd, AtMost
<1>2. lo .. end - 1 = {k \in 0 .. n - 1 : Script!Relative(i, n) <= k /\ k < Script!Relative(j, n)}
  BY FillPositions
<1>3. end <= n
  BY DEF AtMost, FromEnd
<1> HIDE DEF lo, end
<1>4. start = IF lo > end THEN end ELSE lo
  BY <1>1, <1>3 DEF AtMost
<1> HIDE DEF start
<1>5. start .. end - 1 = lo .. end - 1
  BY <1>1, <1>4
<1> QED BY <1>2, <1>5 DEF lo, end, start

LEMMA PositionsAreMeant ==
  ASSUME NEW n \in Nat, NEW S \in SUBSET Int, NEW args \in Args(S, 0 .. 2)
  PROVE  PositionsAgree(n, args)
<1> DEFINE i == Arg(args, 1, 0)
           j == Arg(args, 2, n)
           l == Len(args)
<1>1. l \in 0 .. 2 /\ (\A k \in 1 .. l : args[k] \in Int) /\ (args = <<>> <=> l = 0)
  BY IntegerArgs
<1>2. i \in Int /\ j \in Int
  <2>1. (l >= 1 => args[1] \in Int) /\ (l >= 2 => args[2] \in Int)
    BY <1>1
  <2> QED BY <1>1, <2>1 DEF Arg
<1>3. Script!RelativeArg(args, 1, n, 0) = Script!Relative(i, n)
  BY DEF Script!RelativeArg, Script!Relative, Arg
<1>4. Script!RelativeArg(args, 2, n, n) = Script!Relative(j, n)
  BY DEF Script!RelativeArg, Script!Relative, Arg
<1>5. Script!Between(args, n) = {k \in 0 .. n - 1 : Script!Relative(i, n) <= k /\ k < Script!Relative(j, n)}
  BY <1>3, <1>4 DEF Script!Between
<1>6. fillBounds(n, args)[1] .. fillBounds(n, args)[2] - 1 = Script!Between(args, n)
  <2> HIDE DEF i, j
  <2>1. fillBounds(n, args) = <<NotBelow0(FromEnd(i, n)), AtMost(FromEnd(j, n), n)>>
    BY DEF fillBounds, i, j
  <2> DEFINE lo == NotBelow0(FromEnd(i, n))
             hi == AtMost(FromEnd(j, n), n)
  <2>2. lo .. hi - 1 = {k \in 0 .. n - 1 : Script!Relative(i, n) <= k /\ k < Script!Relative(j, n)}
    BY <1>2, FillPositions
  <2>3. fillBounds(n, args) = <<lo, hi>>
    BY <2>1
  <2> HIDE DEF lo, hi
  <2> QED BY <1>5, <2>2, <2>3
<1>7. LET slice == sliceBounds(n, args)
      IN slice[1] .. slice[2] - 1 = Script!Between(args, n) \/ OutOfRange(slice[1], slice[2], n)
  <2> DEFINE end == AtMost(FromEnd(j, n), n)
             start == AtMost(AtMost(NotBelow0(FromEnd(i, n)), n), end)
  <2>1. sliceBounds(n, args) = <<start, end>>
    BY DEF sliceBounds
  <2> HIDE DEF i, j
  <2>2. \/ OutOfRange(start, end, n)
        \/ start .. end - 1 = {k \in 0 .. n - 1 : Script!Relative(i, n) <= k /\ k < Script!Relative(j, n)}
    BY <1>2, SlicePositions
  <2> HIDE DEF start, end
  <2> QED BY <1>5, <2>1, <2>2
<1>8. ASSUME args # <<>>, Arg(args, 2, 0) <= MaxInt - n
      PROVE  LET splice == spliceBounds(n, args)
             IN splice[1] .. splice[1] + splice[2] - 1 = Script!Removed(args, n)
  <2> DEFINE start == AtMost(NotBelow0(FromEnd(args[1], n)), n)
             given == IF l = 1 THEN n - start ELSE args[2]
             sum == Wrapped(start + NotBelow0(given))
             count == IF sum > n THEN n - start ELSE NotBelow0(given)
  <2>1. l \in {1, 2} /\ args[1] \in Int /\ (l = 2 => args[2] \in Int /\ args[2] <= MaxInt - n)
    BY <1>1, <1>8 DEF Arg
  <2>2. spliceBounds(n, args) = <<start, count>>
    <3>1. Arg(args, 2, n - start) = given
      BY <2>1 DEF Arg
    <3> QED BY <3>1 DEF spliceBounds
  <2>3. start = Script!RelativeArg(args, 1, n, 0) /\ start \in 0 .. n
    BY <2>1 DEF Script!RelativeArg, Script!Relative, AtMost, NotBelow0, FromEnd
  <2>4. Script!Removed(args, n) = {k \in 0 .. n - 1 : start <= k /\ k < start + given}
    <3>1. CASE l = 1
      BY <1>8, <2>3, <3>1 DEF Script!Removed
    <3>2. CASE l # 1
      BY <1>8, <2>3, <3>2 DEF Script!Removed
    <3> QED BY <3>1, <3>2
  <2> HIDE DEF start
  <2>5. given \in Int /\ (given <= n - start \/ given <= MaxInt - n)
    BY <2>1, <2>3
  <2> HIDE DEF given
  <2>6. sum \in Int /\ sum <= start + NotBelow0(given) /\ (start + NotBelow0(given) <= MaxInt => sum = start + NotBelow0(given))
    BY <2>3, <2>5, MaxIntAssumption DEF Wrapped, NotBelow0
  <2> HIDE DEF sum
  <2>7. count = IF given < 0 THEN 0 ELSE IF given > n - start THEN n - start ELSE given
    BY <2>3, <2>5, <2>6, MaxIntAssumption DEF NotBelow0
  <2> HIDE DEF count
  <2>8. \A k : k \in start .. start + count - 1 <=> k \in 0 .. n - 1 /\ start <= k /\ k < start + given
    BY <2>3, <2>5, <2>7
  <2>9. start .. start + count - 1 = {k \in 0 .. n - 1 : start <= k /\ k < start + given}
    BY <2>8
  <2> QED BY <2>2, <2>4, <2>9
<1> QED BY <1>6, <1>7, <1>8 DEF PositionsAgree

LEMMA PlacesAreMeant ==
  ASSUME NEW s \in Seq(Values), NEW S \in SUBSET Int, NEW args \in Args(S, 0 .. 1), NEW v \in Values
  PROVE  PlacesAgree(s, v, args)
<1> DEFINE n == Len(s)
           l == Len(args)
           from == NotBelow0(FromEnd(Arg(args, 1, 0), n))
           to == AtMost(FromEnd(Arg(args, 1, n - 1), n), n - 1)
           forwards == {i \in from .. n - 1 : s[i + 1] = v}
           backwards == {i \in 0 .. to : s[i + 1] = v}
<1>1. l \in 0 .. 1 /\ (l = 1 => args[1] \in Int) /\ (args = <<>> <=> l = 0) /\ n \in Nat
  BY IntegerArgs, LenProperties
<1>2. forwards = Script!Found(s, v, args)
  <2> DEFINE least == Script!RelativeArg(args, 1, n, 0)
  <2>1. from \in Nat /\ least = IF from > n THEN n ELSE from
    <3> HIDE DEF n
    <3> QED BY <1>1 DEF Script!RelativeArg, Script!Relative, Arg, NotBelow0, FromEnd
  <2>2. Script!Found(s, v, args) = {i \in 0 .. n - 1 : s[i + 1] = v /\ i >= least}
    BY DEF Script!Found
  <2> HIDE DEF n, from, least
  <2>3. \A i : i \in from .. n - 1 <=> i \in 0 .. n - 1 /\ i >= least
    BY <1>1, <2>1
  <2> QED BY <2>2, <2>3
<1>3. backwards = Script!FoundBackwards(s, v, args)
  <2> DEFINE most == args[1] - (IF args[1] < 0 THEN 0 - n ELSE 0)
  <2>1. Script!FoundBackwards(s, v, args) = {i \in 0 .. n - 1 : s[i + 1] = v /\ (args = <<>> \/ i <= most)}
    BY DEF Script!FoundBackwards
  <2>2. CASE l = 0
    <3>1. to = n - 1
      <4> HIDE DEF n
      <4> QED BY <1>1, <2>2 DEF Arg, AtMost, FromEnd
    <3> HIDE DEF n, to, most
    <3> QED BY <1>1, <2>1, <2>2, <3>1
  <2>3. CASE l = 1
    <3>1. most \in Int /\ to = IF most > n - 1 THEN n - 1 ELSE most
      <4> HIDE DEF n
      <4> QED BY <1>1, <2>3 DEF Arg, AtMost, FromEnd
    <3> HIDE DEF n, to, most
    <3>2. \A i : i \in 0 .. to <=> i \in 0 .. n - 1 /\ i <= most
      BY <1>1, <3>1
    <3>3. args # <<>>
      BY <1>1, <2>3
    <3> QED BY <2>1, <3>2, <3>3
  <2> QED BY <1>1, <2>2, <2>3
<1>4. arrayIndexOf(s, v, args) = IF forwards = {} THEN -1 ELSE CHOOSE i \in forwards : \A j \in forwards : i <= j
  BY DEF arrayIndexOf
<1>5. arrayLastIndexOf(s, v, args) = IF backwards = {} THEN -1 ELSE CHOOSE i \in backwards : \A j \in backwards : i >= j
  BY DEF arrayLastIndexOf
<1>6. arrayIncludes(s, v, args) = (forwards # {})
  BY DEF arrayIncludes
<1> HIDE DEF forwards, backwards
<1> QED BY <1>2, <1>3, <1>4, <1>5, <1>6 DEF PlacesAgree

\* Whatever ints a script gives to slice, splice, fill, indexOf, lastIndexOf and
\* includes, negative ones and ones past the end as well, they stand for the
\* positions that they have in ECMAScript, in arrays of any length; but for a
\* count of splice that overflows when a position is added.
THEOREM ArgumentsAreMeant ==
  Spec => []ArgumentsMeanPositions
<1>1. ArgumentsMeanPositions
  <2> SUFFICES ASSUME NEW s \in SeqOf(Values, MaxLength)
               PROVE  LET numbers == Indices \cup -Len(s) - 1 .. Len(s) + 1
                      IN /\ \A args \in Args(numbers, 0 .. 2) : PositionsAgree(Len(s), args)
                         /\ \A args \in Args(numbers, 0 .. 1), v \in Values : PlacesAgree(s, v, args)
    BY DEF ArgumentsMeanPositions
  <2>1. s \in Seq(Values) /\ Len(s) \in Nat
    <3>1. PICK n \in 0 .. MaxLength : s \in [1 .. n -> Values]
      BY DEF SeqOf
    <3>2. n \in Nat
      BY MaxLengthAssumption
    <3> QED BY <3>1, <3>2, FunctionIsSeq
  <2>2. (Indices \cup -Len(s) - 1 .. Len(s) + 1) \in SUBSET Int
    <3>1. (-Len(s) - 1 .. Len(s) + 1) \subseteq Int
      BY <2>1
    <3> QED BY <3>1, IndicesAreInts
  <2> QED BY <2>1, <2>2, PositionsAreMeant, PlacesAreMeant
<1> QED BY <1>1, PTL
=============================================================================
