-------------------------- MODULE ReferencesProofs --------------------------
(***************************************************************************)
(* For every set of names and labels, and for functions and blocks however *)
(* deep: what the parser resolves a name to is the variable that the name  *)
(* means by the rules of lexical scoping, and its loop and switch contexts *)
(* are those of the statements that are open, so that a jump without label *)
(* stays in its function when it can.                                      *)
(***************************************************************************)
EXTENDS ScopeProofs

-----------------------------------------------------------------------------
(* The declaration that is meant.                                          *)

Functions == {fs \in Seq(Function) : \A d \in DOMAIN fs : Blocks(fs[d])}

\* Of the functions from the e-th up to the d-th, only e has variable n.
OnlyIn(fs, n, e, d) == Visible(fs[e], n) /\ \A f \in e + 1 .. d : ~Visible(fs[f], n)

LEMMA FunctionsAre ==
  ASSUME IInv
  PROVE  fns \in Functions /\ Len(fns) = Depth /\ Depth \in Nat \ {0} /\ Current = fns[Depth]
<1>1. fns \in Functions
  BY DEF Functions, IInv, Shape, FunctionsOK
<1>2. Depth \in Nat \ {0}
  BY CurrentOK
<1> QED BY <1>1, <1>2 DEF Depth, Current

LEMMA FunctionsGive ==
  ASSUME NEW fs \in Functions
  PROVE  /\ fs \in Seq(Function) /\ Len(fs) \in Nat /\ DOMAIN fs = 1 .. Len(fs)
         /\ \A d \in 1 .. Len(fs) : /\ fs[d] \in Function /\ Blocks(fs[d])
                                    /\ fs[d].captures \in Seq(Capture)
<1>1. fs \in Seq(Function) /\ \A d \in DOMAIN fs : Blocks(fs[d])
  BY DEF Functions
<1>2. \A f \in Function : f.captures \in Seq(Capture)
  BY DEF Function
<1> QED BY <1>1, <1>2

\* The innermost block that declares a variable of a function
LEMMA Resolved ==
  ASSUME NEW f \in Function, Blocks(f), NEW n, Visible(f, n)
  PROVE  \E b \in DOMAIN f.blocks :
           /\ Declares(f.blocks[b], n) /\ b \in Nat
           /\ \A c \in DOMAIN f.blocks : Declares(f.blocks[c], n) => c <= b
           /\ resolveVariable(f, n).slot = SlotOf(f, b, n)
<1> DEFINE T == {c \in DOMAIN f.blocks : Declares(f.blocks[c], n)}
           b == CHOOSE c \in DOMAIN f.blocks :
                  /\ Declares(f.blocks[c], n)
                  /\ \A d \in DOMAIN f.blocks : Declares(f.blocks[d], n) => d <= c
<1>1. DOMAIN f.blocks = 1 .. Len(f.blocks) /\ Len(f.blocks) \in Nat
  BY LastBlock DEF Function
<1>2. T \in SUBSET (0 .. Len(f.blocks)) /\ T # {}
  BY <1>1 DEF Visible
<1>3. PICK m \in T : \A x \in T : x <= m
  BY <1>1, <1>2, MaxExists
<1>4. /\ b \in DOMAIN f.blocks /\ Declares(f.blocks[b], n)
      /\ \A d \in DOMAIN f.blocks : Declares(f.blocks[d], n) => d <= b
  BY <1>3
<1>5. resolveVariable(f, n).slot = SlotOf(f, b, n)
  BY DEF resolveVariable, SlotOf
<1> HIDE DEF b
<1> QED BY <1>1, <1>4, <1>5

LEMMA DeclarationsAre ==
  ASSUME NEW fs, NEW n, NEW p
  PROVE  p \in Declarations(fs, n) <=>
           \E d \in DOMAIN fs : \E b \in DOMAIN fs[d].blocks :
             Declares(fs[d].blocks[b], n) /\ p = <<d, b>>
BY DEF Declarations

\* A name means the variable that the innermost of the functions which have
\* one of that name resolves it to.
LEMMA LexicalIs ==
  ASSUME NEW fs \in Functions, NEW n, NEW e \in 1 .. Len(fs), OnlyIn(fs, n, e, Len(fs))
  PROVE  /\ Declarations(fs, n) # {}
         /\ Lexical(fs, n) = <<e, resolveVariable(fs[e], n).slot>>
<1> DEFINE D == Declarations(fs, n)
           Last1(p) == \A q \in D : q[1] < p[1] \/ (q[1] = p[1] /\ q[2] <= p[2])
           within == CHOOSE p \in D : Last1(p)
<1>1. fs[e] \in Function /\ Blocks(fs[e]) /\ Visible(fs[e], n) /\ DOMAIN fs = 1 .. Len(fs) /\ Len(fs) \in Nat
  BY FunctionsGive DEF OnlyIn
<1>2. PICK b \in DOMAIN fs[e].blocks :
        /\ Declares(fs[e].blocks[b], n) /\ b \in Nat
        /\ \A c \in DOMAIN fs[e].blocks : Declares(fs[e].blocks[c], n) => c <= b
        /\ resolveVariable(fs[e], n).slot = SlotOf(fs[e], b, n)
  BY <1>1, Resolved
<1>3. <<e, b>> \in D
  BY <1>1, <1>2, DeclarationsAre
<1>4. \A q \in D : q[1] \in Nat /\ q[2] \in Nat /\ q = <<q[1], q[2]>> /\ (q[1] < e \/ (q[1] = e /\ q[2] <= b))
  <2> SUFFICES ASSUME NEW q \in D
               PROVE  q[1] \in Nat /\ q[2] \in Nat /\ q = <<q[1], q[2]>> /\ (q[1] < e \/ (q[1] = e /\ q[2] <= b))
    OBVIOUS
  <2>0. PICK d \in DOMAIN fs : \E c \in DOMAIN fs[d].blocks : Declares(fs[d].blocks[c], n) /\ q = <<d, c>>
    BY DeclarationsAre
  <2>1. PICK c \in DOMAIN fs[d].blocks : Declares(fs[d].blocks[c], n) /\ q = <<d, c>>
    BY <2>0
  <2>2. Visible(fs[d], n)
    BY <2>1 DEF Visible
  <2>3. d \in 1 .. Len(fs) /\ d <= e
    BY <1>1, <2>2 DEF OnlyIn
  <2>4. c \in Nat
    <3>1. fs[d].blocks \in Seq(Block)
      BY <2>3, FunctionsGive DEF Function
    <3> QED BY <3>1
  <2>5. d = e => c <= b
    BY <1>2, <2>1
  <2> QED BY <2>1, <2>3, <2>4, <2>5
<1> HIDE DEF D
<1>5. Last1(<<e, b>>)
  BY <1>4
<1>6. within \in D /\ Last1(within)
  BY <1>3, <1>5
<1>7. within = <<e, b>>
  <2> HIDE DEF within
  <2>1. within[1] \in Nat /\ within[2] \in Nat /\ within = <<within[1], within[2]>>
        /\ (within[1] < e \/ (within[1] = e /\ within[2] <= b))
    BY <1>4, <1>6
  <2>2. e < within[1] \/ (e = within[1] /\ b <= within[2])
    BY <1>3, <1>6
  <2> QED BY <1>2, <2>1, <2>2
<1>8. Lexical(fs, n) = <<within[1], SlotOf(fs[within[1]], within[2], n)>>
  BY DEF Lexical, D
<1> HIDE DEF within
<1>9. Lexical(fs, n) = <<e, SlotOf(fs[e], b, n)>>
  BY <1>7, <1>8
<1> QED BY <1>2, <1>3, <1>9 DEF D

-----------------------------------------------------------------------------
(* Where entries lead.                                                     *)

LEMMA LeadsFromOwn ==
  ASSUME NEW fs, NEW d \in Nat, NEW i \in DOMAIN fs[d + 1].captures, ~fs[d + 1].captures[i].isCapture
  PROVE  LeadsTo(fs, d + 1, i, d, fs[d + 1].captures[i].index)
<1> DEFINE path == [f \in d + 1 .. d + 1 |-> i]
<1>1. (d + 1 .. d + 1) = {d + 1} /\ d < d + 1
  OBVIOUS
<1>2. path \in [d + 1 .. d + 1 -> UNION {DOMAIN fs[f].captures : f \in d + 1 .. d + 1}]
  BY <1>1
<1>3. path[d + 1] = i
  BY <1>1, SMTT(40)
<1> HIDE DEF path
<1> QED BY <1>1, <1>2, <1>3 DEF LeadsTo

LEMMA LeadsFurther ==
  ASSUME NEW fs, NEW d \in Nat, NEW e \in Nat, NEW i \in DOMAIN fs[d + 1].captures, NEW slot,
         fs[d + 1].captures[i].isCapture,
         LeadsTo(fs, d, fs[d + 1].captures[i].index, e, slot)
  PROVE  LeadsTo(fs, d + 1, i, e, slot)
<1>1. PICK was \in [e + 1 .. d -> UNION {DOMAIN fs[f].captures : f \in e + 1 .. d}] :
        /\ e < d /\ was[d] = fs[d + 1].captures[i].index
        /\ \A f \in e + 1 .. d :
             /\ was[f] \in DOMAIN fs[f].captures
             /\ LET c == fs[f].captures[was[f]]
                IN IF f = e + 1 THEN ~c.isCapture /\ c.index = slot
                                ELSE c.isCapture /\ c.index = was[f - 1]
  BY DEF LeadsTo
<1> DEFINE path == [f \in e + 1 .. d + 1 |-> IF f = d + 1 THEN i ELSE was[f]]
<1>2. path[d + 1] = i /\ (\A f \in e + 1 .. d : path[f] = was[f] /\ f \in e + 1 .. d + 1)
      /\ d + 1 \in e + 1 .. d + 1
  BY <1>1
<1>3. \A f \in e + 1 .. d + 1 : f = d + 1 \/ f \in e + 1 .. d
  BY SMTT(40)
<1>4. ASSUME NEW f \in e + 1 .. d + 1
      PROVE  /\ path[f] \in DOMAIN fs[f].captures
             /\ LET c == fs[f].captures[path[f]]
                IN IF f = e + 1 THEN ~c.isCapture /\ c.index = slot
                                ELSE c.isCapture /\ c.index = path[f - 1]
  <2>1. CASE f = d + 1
    <3>1. path[f - 1] = was[d] /\ f # e + 1
      BY <1>1, <1>2, <2>1, SMTT(40)
    <3> HIDE DEF path
    <3> QED BY <1>1, <1>2, <2>1, <3>1
  <2>2. CASE f # d + 1
    <3>1. f \in e + 1 .. d /\ path[f] = was[f]
      BY <1>2, <1>3, <2>2
    <3>2. f # e + 1 => path[f - 1] = was[f - 1]
      <4>1. f # e + 1 => f - 1 \in e + 1 .. d
        BY <3>1
      <4> QED BY <1>2, <4>1
    <3> HIDE DEF path
    <3> QED BY <1>1, <3>1, <3>2
  <2> QED BY <2>1, <2>2
<1>5. path \in [e + 1 .. d + 1 -> UNION {DOMAIN fs[f].captures : f \in e + 1 .. d + 1}]
  <2>1. \A f \in e + 1 .. d + 1 : path[f] \in UNION {DOMAIN fs[g].captures : g \in e + 1 .. d + 1}
    BY <1>4
  <2> QED BY <2>1
<1>6. e < d + 1
  BY <1>1, SMTT(40)
<1> HIDE DEF path
<1> QED BY <1>2, <1>4, <1>5, <1>6 DEF LeadsTo

LEMMA LeadsStill ==
  ASSUME NEW fs, NEW gs, NEW d, NEW i, NEW e, NEW slot, LeadsTo(fs, d, i, e, slot),
         \A f \in e + 1 .. d : \A j \in DOMAIN fs[f].captures :
           j \in DOMAIN gs[f].captures /\ gs[f].captures[j] = fs[f].captures[j]
  PROVE  LeadsTo(gs, d, i, e, slot)
<1>1. PICK path \in [e + 1 .. d -> UNION {DOMAIN fs[f].captures : f \in e + 1 .. d}] :
        /\ e < d /\ path[d] = i
        /\ \A f \in e + 1 .. d :
             /\ path[f] \in DOMAIN fs[f].captures
             /\ LET c == fs[f].captures[path[f]]
                IN IF f = e + 1 THEN ~c.isCapture /\ c.index = slot
                                ELSE c.isCapture /\ c.index = path[f - 1]
  BY DEF LeadsTo
<1>2. \A f \in e + 1 .. d : /\ path[f] \in DOMAIN gs[f].captures
                            /\ gs[f].captures[path[f]] = fs[f].captures[path[f]]
  BY <1>1
<1>3. path \in [e + 1 .. d -> UNION {DOMAIN gs[f].captures : f \in e + 1 .. d}]
  <2>1. \A f \in e + 1 .. d : path[f] \in UNION {DOMAIN gs[g].captures : g \in e + 1 .. d}
    BY <1>2
  <2> QED BY <2>1
<1>4. \A f \in e + 1 .. d :
        LET c == gs[f].captures[path[f]]
        IN IF f = e + 1 THEN ~c.isCapture /\ c.index = slot
                        ELSE c.isCapture /\ c.index = path[f - 1]
  BY <1>1, <1>2
<1> QED BY <1>1, <1>2, <1>3, <1>4, ZenonT(40) DEF LeadsTo

-----------------------------------------------------------------------------
(* What entries mean.                                                      *)

\* Entry i of function d leads to the variable that its name means there.
EntryMeans(fs, d, i) ==
  LET n == fs[d].captures[i].name
  IN \E e \in 1 .. d - 1 : /\ OnlyIn(fs, n, e, d - 1)
                           /\ LeadsTo(fs, d, i, e, resolveVariable(fs[e], n).slot)
EntriesMean(fs) == \A d \in DOMAIN fs : \A i \in DOMAIN fs[d].captures : EntryMeans(fs, d, i)

\* Entries keep their meaning while the functions around have the same blocks,
\* and perhaps more entries.
LEMMA EntryStays ==
  ASSUME NEW fs, NEW gs, NEW d \in Nat, NEW i \in DOMAIN fs[d].captures, EntryMeans(fs, d, i),
         \A f \in 1 .. d : \A j \in DOMAIN fs[f].captures :
           j \in DOMAIN gs[f].captures /\ gs[f].captures[j] = fs[f].captures[j],
         \A f \in 1 .. d - 1 : gs[f].blocks = fs[f].blocks
  PROVE  EntryMeans(gs, d, i)
<1> DEFINE n == fs[d].captures[i].name
<1>1. PICK e \in 1 .. d - 1 : OnlyIn(fs, n, e, d - 1) /\ LeadsTo(fs, d, i, e, resolveVariable(fs[e], n).slot)
  BY DEF EntryMeans
<1>2. d \in 1 .. d /\ e + 1 .. d \subseteq 1 .. d /\ e + 1 .. d - 1 \subseteq 1 .. d - 1
  BY <1>1
<1>3. gs[d].captures[i].name = n
  BY <1>2
<1>4. OnlyIn(gs, n, e, d - 1)
  BY <1>1, <1>2, SMTT(40) DEF OnlyIn, Visible
<1>5. resolveVariable(gs[e], n) = resolveVariable(fs[e], n)
  BY <1>1 DEF resolveVariable
<1>6. LeadsTo(gs, d, i, e, resolveVariable(fs[e], n).slot)
  BY <1>1, <1>2, LeadsStill, SMTT(40)
<1> HIDE DEF n
<1> QED BY <1>1, <1>3, <1>4, <1>5, <1>6 DEF EntryMeans

\* An entry that refers to an entry for the same name of the function around
LEMMA PassedMeans ==
  ASSUME NEW fs \in Functions, NEW d \in 1 .. Len(fs) - 1, NEW i \in DOMAIN fs[d + 1].captures,
         NEW j \in DOMAIN fs[d].captures, EntryMeans(fs, d, j), ~Visible(fs[d], fs[d].captures[j].name),
         fs[d + 1].captures[i] = [name |-> fs[d].captures[j].name, index |-> j, isCapture |-> TRUE]
  PROVE  EntryMeans(fs, d + 1, i)
<1> DEFINE n == fs[d].captures[j].name
<1>1. PICK e \in 1 .. d - 1 : OnlyIn(fs, n, e, d - 1) /\ LeadsTo(fs, d, j, e, resolveVariable(fs[e], n).slot)
  BY DEF EntryMeans
<1>2. d \in Nat /\ e \in Nat /\ e \in 1 .. (d + 1) - 1
  BY <1>1
<1>3. OnlyIn(fs, n, e, (d + 1) - 1)
  <2>1. \A f \in e + 1 .. (d + 1) - 1 : f = d \/ f \in e + 1 .. d - 1
    BY <1>2
  <2> QED BY <1>1, <2>1 DEF OnlyIn
<1>4. /\ fs[d + 1].captures[i].name = n /\ fs[d + 1].captures[i].index = j
      /\ fs[d + 1].captures[i].isCapture
  OBVIOUS
<1> HIDE DEF n
<1>5. LeadsTo(fs, d + 1, i, e, resolveVariable(fs[e], n).slot)
  BY <1>1, <1>2, <1>4, LeadsFurther
<1> QED BY <1>2, <1>3, <1>4, <1>5, SMTT(40) DEF EntryMeans

\* The entry that a function gets for a name that is a variable of the function
\* around it, or has an entry there
LEMMA LinkMeans ==
  ASSUME NEW fs \in Functions, NEW d \in 1 .. Len(fs) - 1, NEW i \in DOMAIN fs[d + 1].captures,
         NEW n, fs[d + 1].captures[i] = Link(fs[d], n), Visible(fs[d], n) \/ Captures(fs[d], n),
         \A j \in DOMAIN fs[d].captures : EntryMeans(fs, d, j)
  PROVE  EntryMeans(fs, d + 1, i)
<1>1. CASE Visible(fs[d], n)
  <2>1. /\ fs[d + 1].captures[i].name = n /\ ~fs[d + 1].captures[i].isCapture
        /\ fs[d + 1].captures[i].index = resolveVariable(fs[d], n).slot
    BY <1>1 DEF Link
  <2>2. LeadsTo(fs, d + 1, i, d, resolveVariable(fs[d], n).slot)
    BY <2>1, LeadsFromOwn
  <2>3. OnlyIn(fs, n, d, (d + 1) - 1) /\ d \in 1 .. (d + 1) - 1
    BY <1>1 DEF OnlyIn
  <2> QED BY <2>1, <2>2, <2>3 DEF EntryMeans
<1>2. CASE ~Visible(fs[d], n)
  <2>1. PICK j \in DOMAIN fs[d].captures : j = CaptureIndex(fs[d], n) /\ fs[d].captures[j].name = n
    BY <1>2 DEF Captures, CaptureIndex
  <2>2. fs[d + 1].captures[i] = [name |-> n, index |-> j, isCapture |-> TRUE]
    BY <1>2, <2>1 DEF Link
  <2> QED BY <1>2, <2>1, <2>2, PassedMeans
<1> QED BY <1>1, <1>2

-----------------------------------------------------------------------------
(* Every entry means what its name means.                                  *)

RInv == far \/ EntriesMean(fns)

\* While the entries of the functions that stay are kept, so is what they mean.
LEMMA EntriesStay ==
  ASSUME NEW fs \in Functions, NEW gs \in Functions, EntriesMean(fs), NEW k \in Nat,
         k <= Len(fs), Len(gs) = k \/ (Len(gs) = k + 1 /\ gs[k + 1].captures = <<>>),
         \A d \in 1 .. k : gs[d].captures = fs[d].captures,
         \A d \in 1 .. k - 1 : gs[d].blocks = fs[d].blocks
  PROVE  EntriesMean(gs)
<1>1. DOMAIN gs = 1 .. Len(gs) /\ DOMAIN fs = 1 .. Len(fs) /\ Len(fs) \in Nat
  BY FunctionsGive
<1>2. ASSUME NEW d \in DOMAIN gs, NEW i \in DOMAIN gs[d].captures
      PROVE  EntryMeans(gs, d, i)
  <2>1. d \in 1 .. k
    <3>1. gs[d].captures # <<>>
      BY <1>2, SMTT(40)
    <3>2. d \in 1 .. Len(gs)
      BY <1>1
    <3> QED BY <3>1, <3>2
  <2>2. d \in DOMAIN fs /\ i \in DOMAIN fs[d].captures /\ d \in Nat
    <3>1. d \in Nat /\ 1 <= d /\ d <= k
      BY <2>1, SMTT(40)
    <3>3. d \in DOMAIN fs
      <4>1. PICK l \in Nat : l = Len(fs)
        BY <1>1
      <4>2. d <= l
        BY <3>1, <4>1
      <4>3. d \in 1 .. l
        BY <3>1, <4>2
      <4> QED BY <1>1, <4>1, <4>3, ZenonT(40)
    <3>2. gs[d].captures = fs[d].captures
      BY <2>1
    <3> QED BY <3>1, <3>2, <3>3
  <2>3. EntryMeans(fs, d, i)
    BY <2>2 DEF EntriesMean
  <2>4. /\ \A f \in 1 .. d : \A j \in DOMAIN fs[f].captures :
             j \in DOMAIN gs[f].captures /\ gs[f].captures[j] = fs[f].captures[j]
        /\ \A f \in 1 .. d - 1 : gs[f].blocks = fs[f].blocks
    BY <2>1, SMTT(40)
  <2> QED BY <2>2, <2>3, <2>4, EntryStays
<1> QED BY <1>2 DEF EntriesMean

\* A capture adds an entry, or two, that mean what the name means.
LEMMA CaptureMeans ==
  ASSUME IInv, IInv', EntriesMean(fns), ~far', NEW n \in Reads, resolveCapture(n)
  PROVE  EntriesMean(fns')
<1>1. PICK d \in Outer(n) : /\ IsNearest(n, d) /\ fns' = WithCapture(n, d)
                            /\ far' = (far \/ d < Depth - 2)
  BY DEF resolveCapture
<1>2. /\ n \in Names /\ Depth \in Nat /\ DOMAIN fns = 1 .. Depth
      /\ fns \in Functions /\ Len(fns) = Depth
  BY CurrentOK, FunctionsAre, NamesAssumption DEF Names
<1>3. /\ Len(fns') = Depth /\ Depth > 1 /\ d \in 1 .. Depth - 1
      /\ \A e \in 1 .. Depth : fns'[e].blocks = fns[e].blocks
      /\ \A e \in 1 .. Depth - 2 : fns'[e] = fns[e]
      /\ d = Depth - 1 =>
            /\ fns'[Depth - 1] = fns[Depth - 1]
            /\ fns'[Depth].captures = Append(fns[Depth].captures, Link(fns[d], n))
      /\ d # Depth - 1 =>
            /\ fns'[Depth - 1].captures = Append(fns[Depth - 1].captures, Link(fns[d], n))
            /\ fns'[Depth].captures =
                 Append(fns[Depth].captures,
                        [name |-> n, index |-> Len(fns[Depth - 1].captures) + 1, isCapture |-> TRUE])
  BY <1>1, <1>2, CaptureOK
<1>4. fns' \in Functions
  BY DEF Functions, IInv, Shape, FunctionsOK
<1>5. d = Depth - 1 \/ d = Depth - 2
  <2>1. ~(d < Depth - 2)
    BY <1>1
  <2>2. PICK k \in Nat : k = Depth
    BY <1>2
  <2>3. d \in 1 .. k - 1
    BY ONLY <1>3, <2>2
  <2> QED BY ONLY <2>1, <2>2, <2>3
<1>6. Visible(fns[d], n) \/ Captures(fns[d], n)
  BY <1>1 DEF Outer
<1>7. \A e \in 1 .. Depth : fns[e].captures \in Seq(Capture) /\ Len(fns[e].captures) \in Nat
                            /\ DOMAIN fns[e].captures = 1 .. Len(fns[e].captures)
  BY <1>2, FunctionsGive
<1>8. PICK link : link = Link(fns[d], n)
  OBVIOUS
<1>a. ASSUME NEW e \in 1 .. Depth, NEW c, NEW i \in DOMAIN fns'[e].captures,
             i \notin DOMAIN fns[e].captures, fns'[e].captures = Append(fns[e].captures, c)
      PROVE  fns'[e].captures[i] = c
  BY <1>7, <1>a
\* The entries that were there
<1>9. \A e \in 1 .. Depth : \A j \in DOMAIN fns[e].captures :
        j \in DOMAIN fns'[e].captures /\ fns'[e].captures[j] = fns[e].captures[j]
  <2>1. \A e \in 1 .. Depth : \/ fns'[e].captures = fns[e].captures
                              \/ \E c : fns'[e].captures = Append(fns[e].captures, c)
    <3> TAKE e \in 1 .. Depth
    <3>1. e \in 1 .. Depth - 2 \/ e = Depth - 1 \/ e = Depth
      BY <1>2
    <3> QED BY <1>3, <1>5, <3>1
  <2>2. \A e \in 1 .. Depth : \A c : \A j \in DOMAIN fns[e].captures :
          /\ j \in DOMAIN Append(fns[e].captures, c)
          /\ Append(fns[e].captures, c)[j] = fns[e].captures[j]
    BY <1>7
  <2> TAKE e \in 1 .. Depth
  <2> TAKE j \in DOMAIN fns[e].captures
  <2>3. CASE fns'[e].captures = fns[e].captures
    BY <2>3
  <2>4. ASSUME NEW c, fns'[e].captures = Append(fns[e].captures, c)
        PROVE  j \in DOMAIN fns'[e].captures /\ fns'[e].captures[j] = fns[e].captures[j]
    BY <2>2, <2>4, ZenonT(40)
  <2> QED BY <2>1, <2>3, <2>4
<1>10. ASSUME NEW e \in 1 .. Depth, NEW j \in DOMAIN fns[e].captures
       PROVE  EntryMeans(fns', e, j)
  <2>1. EntryMeans(fns, e, j) /\ e \in Nat
    BY <1>2 DEF EntriesMean
  <2>2. 1 .. e \subseteq 1 .. Depth /\ 1 .. e - 1 \subseteq 1 .. Depth
    BY <1>2
  <2> QED BY <1>3, <1>9, <2>1, <2>2, EntryStays
\* The entry that the function just within d gets
<1>11. ASSUME NEW i \in DOMAIN fns'[d + 1].captures, fns'[d + 1].captures[i] = link,
              \A j \in DOMAIN fns'[d].captures : j \in DOMAIN fns[d].captures
       PROVE  EntryMeans(fns', d + 1, i)
  <2>1. d \in 1 .. Len(fns') - 1 /\ d \in 1 .. Depth
    BY <1>2, <1>3
  <2>2. fns'[d].blocks = fns[d].blocks /\ fns'[d].captures = fns[d].captures
    <3>1. d = Depth - 1 => fns'[d] = fns[d]
      BY <1>3
    <3>2. d = Depth - 2 => fns'[d] = fns[d]
      BY <1>2, <1>3
    <3> QED BY <1>5, <3>1, <3>2
  <2>3. Link(fns'[d], n) = link /\ (Visible(fns'[d], n) \/ Captures(fns'[d], n))
    BY <1>6, <1>8, <2>2 DEF Link, Visible, Captures, CaptureIndex, resolveVariable
  <2>4. \A j \in DOMAIN fns'[d].captures : EntryMeans(fns', d, j)
    BY <1>10, <1>11, <2>1
  <2> QED BY <1>4, <1>11, <2>1, <2>3, <2>4, LinkMeans
<1>12. DOMAIN fns' = 1 .. Depth
  BY <1>3, <1>4, FunctionsGive
<1>13. CASE d = Depth - 1
  <2>1. fns'[Depth].captures = Append(fns[Depth].captures, link) /\ d + 1 = Depth /\ Depth \in 1 .. Depth
        /\ fns'[d] = fns[d]
    BY <1>2, <1>3, <1>8, <1>13
  <2>2. ASSUME NEW e \in 1 .. Depth, NEW i \in DOMAIN fns'[e].captures
        PROVE  EntryMeans(fns', e, i)
    <3>1. CASE i \in DOMAIN fns[e].captures
      BY <1>10, <3>1
    <3>2. CASE i \notin DOMAIN fns[e].captures
      <4>1. e = Depth
        <5>1. e \in 1 .. Depth - 2 \/ e = Depth - 1 \/ e = Depth
          BY <1>2
        <5>2. e # Depth => fns'[e] = fns[e]
          BY <1>3, <1>13, <5>1
        <5> QED BY <2>2, <3>2, <5>2
      <4>2. fns'[e].captures[i] = link
        BY <1>7, <2>1, <2>2, <3>2, <4>1, SMTT(40)
      <4> QED BY <1>11, <2>1, <2>2, <4>1, <4>2
    <3> QED BY <3>1, <3>2
  <2> QED BY <1>12, <2>2 DEF EntriesMean
<1>14. CASE d = Depth - 2
  <2> DEFINE p == Depth - 1
             m == Len(fns[p].captures) + 1
  <2>1. /\ p \in 1 .. Depth /\ Depth \in 1 .. Depth /\ d + 1 = p /\ p + 1 = Depth /\ d # p
        /\ fns'[d] = fns[d] /\ p \in 1 .. Len(fns') - 1
    BY <1>2, <1>3, <1>14
  <2>2. /\ fns'[p].captures = Append(fns[p].captures, link)
        /\ fns'[Depth].captures = Append(fns[Depth].captures, [name |-> n, index |-> m, isCapture |-> TRUE])
    BY <1>3, <1>8, <2>1
  <2>3. m \in DOMAIN fns'[p].captures /\ fns'[p].captures[m] = link
    BY <1>7, <2>1, <2>2
  <2> HIDE DEF m
  <2>4. EntryMeans(fns', p, m)
    <3> HIDE DEF p
    <3> QED BY <1>11, <2>1, <2>3
  <2>5. link.name = n
    BY <1>8 DEF Link
  <2>6. ~Visible(fns'[p], n)
    <3>1. p \notin Outer(n)
      BY <1>1, <1>2, <1>3, <1>14 DEF IsNearest
    <3>2. ~Visible(fns[p], n)
      BY <3>1, <1>2, <1>3 DEF Outer
    <3> QED BY <1>3, <2>1, <3>2 DEF Visible
  <2> HIDE DEF p
  <2>7. ASSUME NEW e \in 1 .. Depth, NEW i \in DOMAIN fns'[e].captures
        PROVE  EntryMeans(fns', e, i)
    <3>1. CASE i \in DOMAIN fns[e].captures
      BY <1>10, <3>1
    <3>2. CASE i \notin DOMAIN fns[e].captures
      <4>1. e = p \/ e = Depth
        <5>1. e \in 1 .. Depth - 2 \/ e = p \/ e = Depth
          BY <1>2 DEF p
        <5>2. e \in 1 .. Depth - 2 => fns'[e] = fns[e]
          BY <1>3
        <5> QED BY <2>7, <3>2, <5>1, <5>2
      <4>2. CASE e = p
        <5>1. fns'[e].captures[i] = link
          <6>1. fns'[e].captures = Append(fns[e].captures, link)
            BY <2>2, <4>2
          <6> QED BY <1>a, <2>7, <3>2, <6>1
        <5> QED BY <1>11, <2>1, <2>7, <4>2, <5>1
      <4>3. CASE e = Depth
        <5>1. fns'[e].captures[i] = [name |-> n, index |-> m, isCapture |-> TRUE]
          <6>1. fns'[e].captures = Append(fns[e].captures, [name |-> n, index |-> m, isCapture |-> TRUE])
            BY <2>2, <4>3
          <6> QED BY <1>a, <2>7, <3>2, <6>1
        <5> QED BY <1>4, <2>1, <2>3, <2>4, <2>5, <2>6, <2>7, <4>3, <5>1, PassedMeans
      <4> QED BY <4>1, <4>2, <4>3
    <3> QED BY <3>1, <3>2
  <2> QED BY <1>12, <2>7 DEF EntriesMean
<1> QED BY <1>5, <1>13, <1>14

\* How the functions of the parser change, the captures of the current one apart
LEMMA FunctionsStep ==
  ASSUME IInv, Next, ~identifierNud
  PROVE  \/ UNCHANGED fns
         \/ Len(fns') = Depth + 1 /\ fns'[Depth + 1].captures = <<>> /\ \A d \in 1 .. Depth : fns'[d] = fns[d]
         \/ \E k \in 1 .. Depth : /\ Len(fns') = k /\ fns'[k].captures = fns[k].captures
                                  /\ \A d \in 1 .. k - 1 : fns'[d] = fns[d]
<1>1. CASE parenNud \/ parseBreakStatement \/ parseContinueStatement
  BY <1>1 DEF parenNud, ParenthesizedGlobal, parseBreakStatement, parseContinueStatement, Jump
<1>2. CASE parseVariableDeclaration \/ parseBlockStatement \/ parseCatchClause \/ parseWhileStatement
           \/ parseSwitchStatement \/ parseForStatement \/ EndStatement
  <2>1. PICK g \in Function : Blocks(g) /\ g.captures = Current.captures /\ Changed(g)
    BY <1>2, StatementFunctions
  <2>2. Len(fns') = Depth /\ fns'[Depth] = g /\ \A d \in 1 .. Depth - 1 : fns'[d] = fns[d]
    BY <2>1, ChangedOK
  <2> QED BY <2>1, <2>2, CurrentOK, FunctionsAre
<1>3. ASSUME NEW g \in Function, Blocks(g), g.captures = <<>>, fns' = Append(fns, g)
      PROVE  Len(fns') = Depth + 1 /\ fns'[Depth + 1].captures = <<>> /\ \A d \in 1 .. Depth : fns'[d] = fns[d]
  BY <1>3, PushedOK
<1>4. CASE parseFunctionDecl
  BY <1>3, <1>4, NewFunctionOK DEF parseFunctionDecl
<1>5. CASE parseArrowFunctionBody
  <2>1. PICK ps \in ParamLists, hasBlock \in BOOLEAN :
          fns' = Append(fns, IF hasBlock THEN WithBlock(NewFunction(ps, TRUE), "body")
                             ELSE NewFunction(ps, TRUE))
    BY <1>5 DEF parseArrowFunctionBody
  <2>2. NewFunction(ps, TRUE) \in Function /\ Blocks(NewFunction(ps, TRUE))
        /\ NewFunction(ps, TRUE).captures = <<>>
    BY NewFunctionOK
  <2>3. /\ WithBlock(NewFunction(ps, TRUE), "body") \in Function
        /\ Blocks(WithBlock(NewFunction(ps, TRUE), "body"))
        /\ WithBlock(NewFunction(ps, TRUE), "body").captures = <<>>
    BY <2>2, WithBlockOK DEF BlockKinds
  <2> QED BY <1>3, <2>1, <2>2, <2>3
<1>6. CASE restoreContext
  <2>1. /\ Depth > 1 /\ Len(fns') = Depth - 1
        /\ \A d \in 1 .. Depth - 2 : fns'[d] = fns[d]
        /\ fns'[Depth - 1].captures = fns[Depth - 1].captures
    BY <1>6, PoppedOK
  <2>2. Depth - 1 \in 1 .. Depth /\ Depth - 1 - 1 = Depth - 2
    BY <2>1, CurrentOK
  <2> QED BY <2>1, <2>2
<1> QED BY <1>1, <1>2, <1>4, <1>5, <1>6 DEF Next

LEMMA MeaningInductive == IInv /\ IInv' /\ RInv /\ [Next]_vars => RInv'
<1> SUFFICES ASSUME IInv, IInv', RInv, [Next]_vars PROVE RInv'
  OBVIOUS
<1>1. fns \in Functions /\ Len(fns) = Depth /\ Depth \in Nat /\ fns' \in Functions
  <2>1. fns' \in Functions
    BY DEF Functions, IInv, Shape, FunctionsOK
  <2> QED BY <2>1, FunctionsAre
<1>2. far => far'
  BY DEF Next, vars, identifierNud, parenNud, LocalReference, CapturedReference, resolveCapture,
         GlobalReference, ParenthesizedGlobal, parseVariableDeclaration, parseBlockStatement,
         parseCatchClause, parseWhileStatement, parseSwitchStatement, parseForStatement,
         parseBreakStatement, parseContinueStatement, Jump, EndStatement, parseFunctionDecl,
         parseArrowFunctionBody, restoreContext, Quiet
<1> SUFFICES ASSUME ~far' PROVE EntriesMean(fns')
  BY DEF RInv
<1>3. EntriesMean(fns)
  BY <1>2 DEF RInv
<1>4. CASE UNCHANGED fns
  BY <1>3, <1>4
<1>5. CASE UNCHANGED vars
  BY <1>4, <1>5 DEF vars
<1>6. CASE identifierNud
  <2>1. PICK n \in Reads : LocalReference(n) \/ CapturedReference(n) \/ resolveCapture(n) \/ GlobalReference(n)
    BY <1>6 DEF identifierNud
  <2>2. CASE resolveCapture(n)
    BY <1>3, <2>2, CaptureMeans
  <2> QED BY <1>4, <2>1, <2>2 DEF LocalReference, CapturedReference, GlobalReference
<1>7. CASE Next /\ ~identifierNud
  <2>1. CASE Len(fns') = Depth + 1 /\ fns'[Depth + 1].captures = <<>> /\ \A d \in 1 .. Depth : fns'[d] = fns[d]
    <3>1. \A d \in 1 .. Depth - 1 : d \in 1 .. Depth
      BY <1>1
    <3>2. /\ \A d \in 1 .. Depth : fns'[d].captures = fns[d].captures
          /\ \A d \in 1 .. Depth - 1 : fns'[d].blocks = fns[d].blocks
      BY <2>1, <3>1
    <3> QED BY <1>1, <1>3, <2>1, <3>2, EntriesStay
  <2>2. ASSUME NEW k \in 1 .. Depth, Len(fns') = k, fns'[k].captures = fns[k].captures,
               \A d \in 1 .. k - 1 : fns'[d] = fns[d]
        PROVE  EntriesMean(fns')
    <3>1. \A d \in 1 .. k : d = k \/ d \in 1 .. k - 1
      BY <1>1
    <3>2. k \in Nat /\ k <= Len(fns)
      BY <1>1
    <3>3. /\ \A d \in 1 .. k : fns'[d].captures = fns[d].captures
          /\ \A d \in 1 .. k - 1 : fns'[d].blocks = fns[d].blocks
      BY <2>2, <3>1
    <3> QED BY <1>1, <1>3, <2>2, <3>2, <3>3, EntriesStay
  <2> QED BY <1>4, <1>7, <2>1, <2>2, FunctionsStep
<1> QED BY <1>5, <1>6, <1>7

-----------------------------------------------------------------------------
(* References.                                                             *)

LEMMA NoDeclarations ==
  ASSUME NEW fs, NEW n, \A d \in DOMAIN fs : ~Visible(fs[d], n)
  PROVE  Declarations(fs, n) = {}
BY DeclarationsAre DEF Visible

LEMMA ReferenceIsLexical ==
  ASSUME IInv, IInv', RInv, RInv', identifierNud
  PROVE  ReferencesAreLexical'
<1>1. fns \in Functions /\ Len(fns) = Depth /\ Depth \in Nat \ {0} /\ Current = fns[Depth] /\ DOMAIN fns = 1 .. Depth
  BY FunctionsAre, CurrentOK
<1>2. fns' \in Functions
  BY DEF Functions, IInv, Shape, FunctionsOK
<1>3. PICK n \in Reads : LocalReference(n) \/ CapturedReference(n) \/ resolveCapture(n) \/ GlobalReference(n)
  BY DEF identifierNud
<1>4. CASE LocalReference(n)
  <2>1. /\ Visible(fns[Depth], n) /\ fns' = fns
        /\ ref' = [kind |-> "local", name |-> n, index |-> resolveVariable(fns[Depth], n).slot, parens |-> FALSE]
    BY <1>1, <1>4 DEF LocalReference, Refer
  <2>2. OnlyIn(fns, n, Depth, Depth) /\ Depth \in 1 .. Len(fns)
    BY <1>1, <2>1 DEF OnlyIn
  <2>3. Declarations(fns, n) # {} /\ Lexical(fns, n) = <<Depth, resolveVariable(fns[Depth], n).slot>>
    BY <1>1, <2>2, LexicalIs
  <2>4. Depth' = Depth
    BY <2>1 DEF Depth
  <2>5. ref'.kind = "local" /\ ref'.name = n /\ ref'.index = resolveVariable(fns[Depth], n).slot
    BY <2>1
  <2> QED BY <2>1, <2>3, <2>4, <2>5 DEF ReferencesAreLexical
\* The entry, old or new, that the reference has
<1>5. ASSUME NEW i, i \in DOMAIN fns'[Depth].captures, fns'[Depth].captures[i].name = n, Len(fns') = Depth,
             ~Visible(fns[Depth], n), fns'[Depth].blocks = fns[Depth].blocks,
             ref' = [kind |-> "capture", name |-> n, index |-> i, parens |-> FALSE]
      PROVE  ReferencesAreLexical'
  <2>1. SUFFICES ASSUME ~far'
                 PROVE  /\ Declarations(fns', n) # {}
                        /\ LeadsTo(fns', Depth, i, Lexical(fns', n)[1], Lexical(fns', n)[2])
    <3>1. ref'.kind = "capture" /\ ref'.name = n /\ ref'.index = i /\ Depth' = Depth
      BY <1>5 DEF Depth
    <3> QED BY <2>1, <3>1 DEF ReferencesAreLexical
  <2>2. DOMAIN fns' = 1 .. Depth /\ Depth \in 1 .. Depth
    BY <1>1, <1>2, <1>5, FunctionsGive
  <2>3. EntryMeans(fns', Depth, i)
    BY <1>5, <2>1, <2>2 DEF RInv, EntriesMean
  <2>4. PICK e \in 1 .. Depth - 1 : /\ OnlyIn(fns', n, e, Depth - 1)
                                    /\ LeadsTo(fns', Depth, i, e, resolveVariable(fns'[e], n).slot)
    BY <1>5, <2>3 DEF EntryMeans
  <2>5. OnlyIn(fns', n, e, Depth) /\ e \in 1 .. Depth
    <3>1. ~Visible(fns'[Depth], n)
      BY <1>5 DEF Visible
    <3>2. \A f \in e + 1 .. Depth : f = Depth \/ f \in e + 1 .. Depth - 1
      BY <1>1, <2>4
    <3> QED BY <1>1, <2>4, <3>1, <3>2 DEF OnlyIn
  <2>6. Declarations(fns', n) # {} /\ Lexical(fns', n) = <<e, resolveVariable(fns'[e], n).slot>>
    BY <1>2, <1>5, <2>5, LexicalIs
  <2> QED BY <2>4, <2>6
<1>6. CASE CapturedReference(n)
  <2>1. /\ fns' = fns /\ ~Visible(fns[Depth], n) /\ Captures(fns[Depth], n)
        /\ ref' = [kind |-> "capture", name |-> n, index |-> CaptureIndex(fns[Depth], n), parens |-> FALSE]
    BY <1>1, <1>6 DEF CapturedReference, Refer
  <2>2. CaptureIndex(fns[Depth], n) \in DOMAIN fns[Depth].captures
        /\ fns[Depth].captures[CaptureIndex(fns[Depth], n)].name = n
    BY <2>1 DEF Captures, CaptureIndex
  <2> QED BY <1>1, <1>5, <2>1, <2>2
<1>7. CASE resolveCapture(n)
  <2>1. PICK d \in Outer(n) : fns' = WithCapture(n, d)
    BY <1>7 DEF resolveCapture
  <2>2. /\ ~Visible(fns[Depth], n)
        /\ ref' = [kind |-> "capture", name |-> n, index |-> Len(fns[Depth].captures) + 1, parens |-> FALSE]
    BY <1>1, <1>7 DEF resolveCapture, Refer
  <2>3. n \in Names
    BY NamesAssumption DEF Names
  <2>4. /\ Len(fns') = Depth /\ fns'[Depth].blocks = fns[Depth].blocks
        /\ \E c : c.name = n /\ fns'[Depth].captures = Append(fns[Depth].captures, c)
    <3>1. /\ Len(fns') = Depth /\ \A e \in 1 .. Depth : fns'[e].blocks = fns[e].blocks
          /\ d = Depth - 1 => fns'[Depth].captures = Append(fns[Depth].captures, Link(fns[d], n))
          /\ d # Depth - 1 => fns'[Depth].captures =
               Append(fns[Depth].captures,
                      [name |-> n, index |-> Len(fns[Depth - 1].captures) + 1, isCapture |-> TRUE])
      BY <2>1, <2>3, CaptureOK
    <3>2. Link(fns[d], n).name = n
      BY DEF Link
    <3>3. [name |-> n, index |-> Len(fns[Depth - 1].captures) + 1, isCapture |-> TRUE].name = n
      OBVIOUS
    <3> QED BY <1>1, <3>1, <3>2, <3>3
  <2>5. PICK c : c.name = n /\ fns'[Depth].captures = Append(fns[Depth].captures, c)
    BY <2>4
  <2>6. fns[Depth].captures \in Seq(Capture)
    BY <1>1, FunctionsGive
  <2>7. /\ Len(fns[Depth].captures) + 1 \in DOMAIN fns'[Depth].captures
        /\ fns'[Depth].captures[Len(fns[Depth].captures) + 1] = c
    BY <2>5, <2>6
  <2> QED BY <1>5, <2>2, <2>4, <2>5, <2>7
<1>8. CASE GlobalReference(n)
  <2>1. /\ fns' = fns /\ ~Visible(fns[Depth], n) /\ Outer(n) = {}
        /\ ref' = [kind |-> "global", name |-> n, index |-> 0, parens |-> FALSE]
    BY <1>1, <1>8 DEF GlobalReference, Refer
  <2>2. \A d \in DOMAIN fns : ~Visible(fns[d], n)
    <3>1. \A d \in 1 .. Depth - 1 : ~Visible(fns[d], n)
      BY <2>1 DEF Outer
    <3>2. \A d \in 1 .. Depth : d = Depth \/ d \in 1 .. Depth - 1
      BY <1>1
    <3> QED BY <1>1, <2>1, <3>1, <3>2
  <2>3. Declarations(fns, n) = {}
    BY <2>2, NoDeclarations
  <2>4. ref'.kind = "global" /\ ref'.name = n
    BY <2>1
  <2> QED BY <2>1, <2>3, <2>4 DEF ReferencesAreLexical
<1> QED BY <1>3, <1>4, <1>6, <1>7, <1>8

LEMMA OtherSteps ==
  ASSUME ReferencesAreLexical, [Next]_vars, ~identifierNud
  PROVE  ReferencesAreLexical'
<1>1. CASE UNCHANGED vars
  BY <1>1 DEF vars, ReferencesAreLexical, Depth
<1>2. CASE ref' = NoRef
  <2>1. ref'.kind = "none"
    BY <1>2 DEF NoRef
  <2> QED BY <2>1 DEF ReferencesAreLexical
<1>3. CASE parenNud
  <2>1. ref'.parens = TRUE
    BY <1>3 DEF parenNud, ParenthesizedGlobal, Refer
  <2> QED BY <2>1 DEF ReferencesAreLexical
<1>4. CASE parseBreakStatement \/ parseContinueStatement
  <2>1. PICK label, isContinue : Jump(label, isContinue)
    BY <1>4 DEF parseBreakStatement, parseContinueStatement
  <2>2. PICK i : ref' = [kind |-> "jump", label |-> label, isContinue |-> isContinue, index |-> i]
    BY <2>1 DEF Jump
  <2>3. ref'.kind = "jump"
    BY <2>2
  <2> QED BY <2>3 DEF ReferencesAreLexical
<1> QED BY <1>1, <1>2, <1>3, <1>4
     DEF Next, parseVariableDeclaration, parseBlockStatement, parseCatchClause, parseWhileStatement,
         parseSwitchStatement, parseForStatement, EndStatement, parseFunctionDecl,
         parseArrowFunctionBody, restoreContext, Quiet

\* A name that is read, unless it is in parentheses, means the variable of the
\* innermost function and block that declare it: a slot of
\* the function, an entry of its captures that leads to that slot, or a global
\* when nothing around declares the name.  As with the captures, this is for
\* scripts that have captured no variable directly over two or more functions
\* (identifierNud, resolveVariable, resolveCapture, cascadeCapture).
THEOREM NamesAreLexical == Spec => []ReferencesAreLexical
<1>1. Init => RInv /\ ReferencesAreLexical
  <2> SUFFICES ASSUME Init PROVE RInv /\ ReferencesAreLexical
    OBVIOUS
  <2>1. DOMAIN fns = {1} /\ fns[1].captures = <<>> /\ ref.kind = "none"
    BY DEF Init, MainProgram, NoRef
  <2> QED BY <2>1 DEF RInv, EntriesMean, ReferencesAreLexical
<1>2. IInv /\ IInv' /\ RInv /\ RInv' /\ ReferencesAreLexical /\ [Next]_vars => ReferencesAreLexical'
  BY ReferenceIsLexical, OtherSteps
<1> QED BY <1>1, <1>2, MeaningInductive, Inductive, PTL DEF Spec

-----------------------------------------------------------------------------
(* Open statements.                                                        *)

\* A loop or switch is open in function f, the i-th in block b.
IsOpen(f, b, i) == b \in DOMAIN f.blocks /\ i \in OpenIn(f.blocks[b])
IsSwitchIn(f, b, i) == i > 0 /\ f.blocks[b].open[i] = "switch"
After(b, i, c, j) == b < c \/ (b = c /\ i < j)

LEMMA OpenStatementsAre ==
  ASSUME NEW fs, NEW p
  PROVE  p \in OpenStatements(fs) <=>
           \E d \in DOMAIN fs : \E b, i : IsOpen(fs[d], b, i) /\ p = <<d, b, i>>
BY DEF OpenStatements, IsOpen

LEMMA OpenNumbers ==
  ASSUME NEW f \in Function, NEW b, NEW i, IsOpen(f, b, i)
  PROVE  b \in Nat /\ i \in Nat /\ 1 <= b /\ b <= Len(f.blocks)
<1>1. f.blocks \in Seq(Block) /\ \A block \in Block : block.open \in Seq({"while", "switch"})
  BY DEF Function, Block
<1>2. b \in 1 .. Len(f.blocks) /\ f.blocks[b] \in Block
  BY <1>1 DEF IsOpen
<1>3. Len(f.blocks[b].open) \in Nat
  BY <1>1, <1>2
<1>4. i \in Nat
  BY <1>3 DEF IsOpen, OpenIn
<1> QED BY <1>2, <1>4

\* Functions f and g have the same statements open, or g has one more, the last.
SameOpen(f, g) ==
  \A b, i : /\ IsOpen(g, b, i) <=> IsOpen(f, b, i)
            /\ IsOpen(f, b, i) => IsSwitchIn(g, b, i) = IsSwitchIn(f, b, i)
OneMore(f, g, c, j) ==
  \A b, i : /\ IsOpen(g, b, i) <=> (IsOpen(f, b, i) \/ (b = c /\ i = j))
            /\ IsOpen(f, b, i) => /\ IsSwitchIn(g, b, i) = IsSwitchIn(f, b, i)
                                  /\ After(b, i, c, j)

-----------------------------------------------------------------------------
(* What matches goes on to match.                                          *)

LEMMA MatchStays ==
  ASSUME NEW cs, NEW fs, NEW gs, Matches(cs, fs), OpenStatements(gs) = OpenStatements(fs),
         \A p \in OpenStatements(fs) : IsSwitch(gs, p) = IsSwitch(fs, p)
  PROVE  Matches(cs, gs)
<1>1. PICK place \in [DOMAIN cs -> OpenStatements(fs)] :
        /\ \A p \in OpenStatements(fs) : \E i \in DOMAIN cs : place[i] = p
        /\ \A i, j \in DOMAIN cs : i < j => Within(place[i], place[j])
        /\ \A i \in DOMAIN cs : cs[i].fn = place[i][1] /\ cs[i].isSwitch = IsSwitch(fs, place[i])
  BY DEF Matches
<1>2. \A i \in DOMAIN cs : IsSwitch(gs, place[i]) = IsSwitch(fs, place[i])
  BY <1>1
<1> QED BY <1>1, <1>2, SMTT(40) DEF Matches

LEMMA MatchGrows ==
  ASSUME NEW cs \in Seq(LoopContext), NEW c \in LoopContext, NEW fs, NEW gs, Matches(cs, fs), NEW q,
         OpenStatements(gs) = OpenStatements(fs) \cup {q},
         \A p \in OpenStatements(fs) : Within(p, q) /\ IsSwitch(gs, p) = IsSwitch(fs, p),
         c.fn = q[1], c.isSwitch = IsSwitch(gs, q)
  PROVE  Matches(Append(cs, c), gs)
<1>1. PICK place \in [DOMAIN cs -> OpenStatements(fs)] :
        /\ \A p \in OpenStatements(fs) : \E i \in DOMAIN cs : place[i] = p
        /\ \A i, j \in DOMAIN cs : i < j => Within(place[i], place[j])
        /\ \A i \in DOMAIN cs : cs[i].fn = place[i][1] /\ cs[i].isSwitch = IsSwitch(fs, place[i])
  BY DEF Matches
<1> DEFINE ds == Append(cs, c)
           l == Len(cs)
           new == [i \in 1 .. l + 1 |-> IF i = l + 1 THEN q ELSE place[i]]
<1>2. /\ l \in Nat /\ DOMAIN cs = 1 .. l /\ DOMAIN ds = 1 .. l + 1 /\ ds[l + 1] = c
      /\ \A i \in 1 .. l : ds[i] = cs[i]
  OBVIOUS
<1>3. new[l + 1] = q /\ (\A i \in 1 .. l : new[i] = place[i]) /\ l + 1 \in 1 .. l + 1
      /\ \A i \in 1 .. l + 1 : i = l + 1 \/ i \in 1 .. l
  BY <1>2
<1> HIDE DEF ds
<1>4. new \in [DOMAIN ds -> OpenStatements(gs)]
  BY <1>1, <1>2, <1>3
<1> HIDE DEF l, new
<1>5. \A p \in OpenStatements(gs) : \E i \in DOMAIN ds : new[i] = p
  <2>1. \A i \in 1 .. l : i \in 1 .. l + 1
    BY <1>2
  <2> QED BY <1>1, <1>2, <1>3, <2>1, ZenonT(40)
<1>6. ASSUME NEW i \in DOMAIN ds, NEW j \in DOMAIN ds, i < j
      PROVE  Within(new[i], new[j])
  <2>1. i \in 1 .. l
    BY <1>2, <1>6
  <2>2. CASE j = l + 1
    <3>1. place[i] \in OpenStatements(fs)
      BY <1>1, <1>2, <2>1
    <3> QED BY <1>3, <2>1, <2>2, <3>1
  <2>3. CASE j \in 1 .. l
    BY <1>1, <1>2, <1>3, <1>6, <2>1, <2>3
  <2> QED BY <1>2, <1>3, <2>2, <2>3
<1>7. ASSUME NEW i \in DOMAIN ds
      PROVE  ds[i].fn = new[i][1] /\ ds[i].isSwitch = IsSwitch(gs, new[i])
  <2>1. CASE i = l + 1
    BY <1>2, <1>3, <2>1
  <2>2. CASE i \in 1 .. l
    <3>1. place[i] \in OpenStatements(fs)
      BY <1>1, <1>2, <2>2
    <3>2. ds[i] = cs[i] /\ new[i] = place[i] /\ IsSwitch(gs, place[i]) = IsSwitch(fs, place[i])
      BY <1>2, <1>3, <2>2, <3>1
    <3> QED BY <1>1, <1>2, <2>2, <3>2
  <2> QED BY <1>2, <1>3, <2>1, <2>2
<1>8. Matches(ds, gs)
  BY <1>4, <1>5, <1>6, <1>7 DEF Matches
<1> QED BY <1>8 DEF ds

LEMMA MatchShrinks ==
  ASSUME NEW cs \in Seq(LoopContext), NEW fs, NEW gs, Matches(cs, fs), NEW q,
         OpenStatements(fs) = OpenStatements(gs) \cup {q},
         \A p \in OpenStatements(gs) : Within(p, q) /\ ~Within(q, p) /\ IsSwitch(gs, p) = IsSwitch(fs, p),
         ~Within(q, q)
  PROVE  Matches(Without(cs), gs)
<1>1. PICK place \in [DOMAIN cs -> OpenStatements(fs)] :
        /\ \A p \in OpenStatements(fs) : \E i \in DOMAIN cs : place[i] = p
        /\ \A i, j \in DOMAIN cs : i < j => Within(place[i], place[j])
        /\ \A i \in DOMAIN cs : cs[i].fn = place[i][1] /\ cs[i].isSwitch = IsSwitch(fs, place[i])
  BY DEF Matches
<1> DEFINE l == Len(cs)
           new == [i \in 1 .. l - 1 |-> place[i]]
<1>2. l \in Nat /\ DOMAIN cs = 1 .. l
  OBVIOUS
<1> HIDE DEF l
<1>3. PICK k \in 1 .. l : place[k] = q
  BY <1>1, <1>2
<1>4. k = l
  <2> SUFFICES ASSUME k # l PROVE FALSE
    OBVIOUS
  <2>1. k < l /\ l \in 1 .. l
    BY <1>2
  <2>2. Within(q, place[l])
    BY <1>1, <1>2, <1>3, <2>1
  <2>3. place[l] \in OpenStatements(gs) \/ place[l] = q
    BY <1>1, <1>2, <2>1
  <2> QED BY <2>2, <2>3
<1>5. \A i \in 1 .. l - 1 : i \in 1 .. l /\ i < l
  BY <1>2
<1>6. \A i \in 1 .. l - 1 : new[i] = place[i] /\ place[i] \in OpenStatements(gs)
  <2> TAKE i \in 1 .. l - 1
  <2>1. Within(place[i], q)
    BY <1>1, <1>2, <1>3, <1>4, <1>5
  <2>2. place[i] \in OpenStatements(gs) \/ place[i] = q
    BY <1>1, <1>2, <1>5
  <2> QED BY <2>1, <2>2
<1> DEFINE ds == Without(cs)
<1>7. DOMAIN ds = 1 .. l - 1 /\ \A i \in 1 .. l - 1 : ds[i] = cs[i]
  <2>1. cs # <<>>
    BY <1>2, <1>3 DEF l
  <2>2. Len(ds) = l - 1 /\ ds \in Seq(LoopContext) /\ \A i \in 1 .. l - 1 : ds[i] = cs[i]
    BY <2>1, WithoutOK DEF l
  <2> QED BY <2>2
<1> HIDE DEF ds
<1>8. new \in [DOMAIN ds -> OpenStatements(gs)]
  BY <1>6, <1>7
<1> HIDE DEF new
<1>9. \A p \in OpenStatements(gs) : \E i \in DOMAIN ds : new[i] = p
  <2> TAKE p \in OpenStatements(gs)
  <2>1. PICK i \in 1 .. l : place[i] = p
    BY <1>1, <1>2
  <2>2. i # l
    BY <1>3, <1>4, <2>1
  <2>3. i \in 1 .. l - 1
    BY <1>2, <2>2
  <2> QED BY <1>6, <1>7, <2>1, <2>3
<1>10. \A i, j \in DOMAIN ds : i < j => Within(new[i], new[j])
  BY <1>1, <1>2, <1>5, <1>6, <1>7
<1>11. \A i \in DOMAIN ds : ds[i].fn = new[i][1] /\ ds[i].isSwitch = IsSwitch(gs, new[i])
  <2> TAKE i \in DOMAIN ds
  <2>1. IsSwitch(gs, place[i]) = IsSwitch(fs, place[i]) /\ new[i] = place[i] /\ ds[i] = cs[i] /\ i \in 1 .. l
    BY <1>5, <1>6, <1>7
  <2> QED BY <1>1, <1>2, <2>1
<1>12. Matches(ds, gs)
  BY <1>8, <1>9, <1>10, <1>11 DEF Matches
<1> QED BY <1>12 DEF ds

LEMMA UpToLast ==
  ASSUME NEW l \in Nat
  PROVE  \A d \in 1 .. l : d = l \/ d \in 1 .. l - 1
OBVIOUS

\* The functions around the last one are the same.
LEMMA SameStatements ==
  ASSUME NEW fs \in Functions, NEW gs \in Functions, Len(gs) = Len(fs), Len(fs) > 0,
         \A d \in 1 .. Len(fs) - 1 : gs[d] = fs[d], SameOpen(fs[Len(fs)], gs[Len(fs)])
  PROVE  /\ OpenStatements(gs) = OpenStatements(fs)
         /\ \A p \in OpenStatements(fs) : IsSwitch(gs, p) = IsSwitch(fs, p)
<1>1. DOMAIN fs = 1 .. Len(fs) /\ DOMAIN gs = 1 .. Len(fs) /\ Len(fs) \in Nat
  <2>1. DOMAIN fs = 1 .. Len(fs) /\ DOMAIN gs = 1 .. Len(gs) /\ Len(fs) \in Nat
    BY FunctionsGive
  <2> QED BY <2>1
<1>2. \A d \in 1 .. Len(fs) : d = Len(fs) \/ d \in 1 .. Len(fs) - 1
  <2>1. PICK l \in Nat : l = Len(fs)
    BY <1>1
  <2>2. \A d \in 1 .. l : d = l \/ d \in 1 .. l - 1
    BY Zenon, UpToLast
  <2> QED BY ONLY <2>1, <2>2, Zenon
<1>3. \A d \in 1 .. Len(fs) : \A b, i : IsOpen(gs[d], b, i) <=> IsOpen(fs[d], b, i)
  BY <1>2 DEF SameOpen
<1>4. \A d \in 1 .. Len(fs) : \A b, i : IsOpen(fs[d], b, i) => IsSwitchIn(gs[d], b, i) = IsSwitchIn(fs[d], b, i)
  BY <1>2 DEF SameOpen
<1>5. \A p : p \in OpenStatements(gs) <=> p \in OpenStatements(fs)
  BY <1>1, <1>3, OpenStatementsAre
<1>6. ASSUME NEW p \in OpenStatements(fs)
      PROVE  IsSwitch(gs, p) = IsSwitch(fs, p)
  <2>1. PICK d \in DOMAIN fs : \E b, i : IsOpen(fs[d], b, i) /\ p = <<d, b, i>>
    BY OpenStatementsAre
  <2>2. PICK b, i : IsOpen(fs[d], b, i) /\ p = <<d, b, i>>
    BY <2>1
  <2>3. IsSwitchIn(gs[d], b, i) = IsSwitchIn(fs[d], b, i)
    BY <1>1, <1>4, <2>2
  <2> QED BY <2>2, <2>3 DEF IsSwitch, IsSwitchIn
<1> QED BY <1>5, <1>6

LEMMA MoreStatements ==
  ASSUME NEW fs \in Functions, NEW gs \in Functions, Len(gs) = Len(fs), Len(fs) > 0,
         \A d \in 1 .. Len(fs) - 1 : gs[d] = fs[d],
         NEW c \in Nat, NEW j \in Nat, OneMore(fs[Len(fs)], gs[Len(fs)], c, j)
  PROVE  LET q == <<Len(fs), c, j>>
         IN /\ OpenStatements(gs) = OpenStatements(fs) \cup {q}
            /\ \A p \in OpenStatements(fs) :
                 Within(p, q) /\ ~Within(q, p) /\ IsSwitch(gs, p) = IsSwitch(fs, p)
            /\ ~Within(q, q) /\ IsSwitch(gs, q) = IsSwitchIn(gs[Len(fs)], c, j)
<1> DEFINE l == Len(fs)
           q == <<l, c, j>>
<1>1. DOMAIN fs = 1 .. l /\ DOMAIN gs = 1 .. l /\ l \in Nat
  BY FunctionsGive
<1> HIDE DEF l
<1>2. \A d \in 1 .. l : d = l \/ d \in 1 .. l - 1
  BY <1>1
<1>3. \A d \in 1 .. l : \A b, i : IsOpen(gs[d], b, i) <=> (IsOpen(fs[d], b, i) \/ (d = l /\ b = c /\ i = j))
  <2> TAKE d \in 1 .. l
  <2>1. d # l => gs[d] = fs[d]
    BY <1>2 DEF l
  <2>2. d = l => \A b, i : IsOpen(gs[d], b, i) <=> (IsOpen(fs[d], b, i) \/ (b = c /\ i = j))
    BY DEF OneMore, l
  <2> QED BY <2>1, <2>2
<1>4. \A d \in 1 .. l : \A b, i : IsOpen(fs[d], b, i) => IsSwitchIn(gs[d], b, i) = IsSwitchIn(fs[d], b, i)
  BY <1>2 DEF OneMore, l
<1>5. \A p : p \in OpenStatements(gs) <=> (p \in OpenStatements(fs) \/ p = q)
  <2>1. l \in 1 .. l
    BY <1>1 DEF l
  <2> QED BY <1>1, <1>3, <2>1, OpenStatementsAre
<1>6. ASSUME NEW p \in OpenStatements(fs)
      PROVE  Within(p, q) /\ ~Within(q, p) /\ IsSwitch(gs, p) = IsSwitch(fs, p)
  <2>1. PICK d \in DOMAIN fs : \E b, i : IsOpen(fs[d], b, i) /\ p = <<d, b, i>>
    BY OpenStatementsAre
  <2>2. PICK b, i : IsOpen(fs[d], b, i) /\ p = <<d, b, i>>
    BY <2>1
  <2>3. IsSwitchIn(gs[d], b, i) = IsSwitchIn(fs[d], b, i)
    BY <1>1, <1>4, <2>2
  <2>4. d \in Nat /\ d <= l /\ b \in Nat /\ i \in Nat
    BY <1>1, <2>2, FunctionsGive, OpenNumbers DEF l
  <2>5. d = l => After(b, i, c, j)
    BY <2>2 DEF OneMore, l
  <2>6. p[1] = d /\ p[2] = b /\ p[3] = i /\ q[1] = l /\ q[2] = c /\ q[3] = j
    BY <2>2
  <2>7. IsSwitch(gs, p) = IsSwitch(fs, p)
    BY <2>3, <2>6 DEF IsSwitch, IsSwitchIn
  <2> HIDE DEF q
  <2>8. Within(p, q) /\ ~Within(q, p)
    BY <1>1, <2>4, <2>5, <2>6 DEF Within, After
  <2> QED BY <2>7, <2>8
<1>7. ~Within(q, q)
  BY <1>1 DEF Within
<1>8. IsSwitch(gs, q) = IsSwitchIn(gs[l], c, j)
  BY DEF IsSwitch, IsSwitchIn
<1> QED BY <1>5, <1>6, <1>7, <1>8 DEF l

-----------------------------------------------------------------------------
(* What actions do to the statements of a function.                        *)

\* An arrow function's body is a block just within that of the function, in
\* which no statement is then open.
BodyOK(f) == \A b \in DOMAIN f.blocks : f.blocks[b].kind = "body" => b = 2 /\ f.blocks[1].open = <<>>

SameBlocks(f, g) ==
  /\ DOMAIN g.blocks = DOMAIN f.blocks
  /\ \A b \in DOMAIN f.blocks : g.blocks[b].kind = f.blocks[b].kind /\ g.blocks[b].open = f.blocks[b].open

LEMMA BlocksAre ==
  ASSUME NEW f \in Function, Blocks(f)
  PROVE  /\ Len(f.blocks) \in Nat /\ Len(f.blocks) >= 1 /\ DOMAIN f.blocks = 1 .. Len(f.blocks)
         /\ f.blocks \in Seq(Block) /\ Last(f.blocks) = f.blocks[Len(f.blocks)]
         /\ \A b \in 1 .. Len(f.blocks) : /\ f.blocks[b] \in Block
                                          /\ f.blocks[b].open \in Seq({"while", "switch"})
                                          /\ Len(f.blocks[b].open) \in Nat
<1>1. \A block \in Block : block.open \in Seq({"while", "switch"})
  BY DEF Block
<1>2. f.blocks \in Seq(Block) /\ Len(f.blocks) \in Nat \ {0} /\ Last(f.blocks) = f.blocks[Len(f.blocks)]
  BY LastBlock DEF Function
<1>3. \A b \in 1 .. Len(f.blocks) : f.blocks[b] \in Block
  BY <1>2
<1>4. \A b \in 1 .. Len(f.blocks) : f.blocks[b].open \in Seq({"while", "switch"})
  BY <1>1, <1>3
<1>5. \A s \in Seq({"while", "switch"}) : Len(s) \in Nat
  OBVIOUS
<1>6. \A b \in 1 .. Len(f.blocks) : Len(f.blocks[b].open) \in Nat
  BY <1>4, <1>5
<1> QED BY <1>2, <1>3, <1>4, <1>6

LEMMA SameBlocksOpen ==
  ASSUME NEW f, NEW g, SameBlocks(f, g)
  PROVE  SameOpen(f, g) /\ (BodyOK(f) /\ 1 \in DOMAIN f.blocks => BodyOK(g))
<1>1. SameOpen(f, g)
  BY DEF SameBlocks, SameOpen, IsOpen, IsSwitchIn, OpenIn
<1>2. BodyOK(f) /\ 1 \in DOMAIN f.blocks => BodyOK(g)
  BY DEF SameBlocks, BodyOK
<1> QED BY <1>1, <1>2

LEMMA SameAfter ==
  ASSUME NEW f, NEW g, NEW h, SameOpen(g, h)
  PROVE  /\ SameOpen(f, g) => SameOpen(f, h)
         /\ \A c, j : OneMore(f, g, c, j) => OneMore(f, h, c, j)
<1>1. SameOpen(f, g) => SameOpen(f, h)
  BY DEF SameOpen
<1>2. ASSUME NEW c, NEW j, OneMore(f, g, c, j)
      PROVE  OneMore(f, h, c, j)
  BY <1>2 DEF SameOpen, OneMore
<1> QED BY <1>1, <1>2

LEMMA DefinedBlocks ==
  ASSUME NEW f \in Function, Blocks(f), NEW b \in {1, Len(f.blocks)},
         NEW n \in Names, NEW decl, NEW init
  PROVE  SameBlocks(f, defineVariable(f, b, n, decl, init))
<1>1. CASE Declares(f.blocks[b], n)
  BY <1>1 DEF defineVariable, SameBlocks
<1>2. CASE ~Declares(f.blocks[b], n)
  <2> DEFINE block == f.blocks[b]
             vr == [slot |-> End(block), decl |-> decl, initialized |-> init]
             new == [block EXCEPT !.variables[n] = vr, !.slotCount = @ + 1]
             count == IF End(block) + 1 > f.varCount THEN End(block) + 1 ELSE f.varCount
             g == defineVariable(f, b, n, decl, init)
  <2>1. f.blocks \in Seq(Block) /\ DOMAIN f.blocks = 1 .. Len(f.blocks) /\ b \in DOMAIN f.blocks /\ block \in Block
    BY BlocksAre
  <2>2. new.kind = block.kind /\ new.open = block.open
    BY <2>1 DEF Block
  <2>3. g = [f EXCEPT !.blocks[b] = new, !.varCount = count]
    BY <1>2, Zenon DEF defineVariable
  <2> HIDE DEF new, count, g
  <2>4. g = [f EXCEPT !.blocks = [f.blocks EXCEPT ![b] = new], !.varCount = count]
    BY <2>3
  <2>5. g.blocks = [f.blocks EXCEPT ![b] = new]
    BY <2>4 DEF Function
  <2>6. SameBlocks(f, g)
    BY <2>1, <2>2, <2>5 DEF SameBlocks
  <2> QED BY <2>6 DEF g
<1> QED BY <1>1, <1>2

LEMMA PushedBlock ==
  ASSUME NEW f \in Function, Blocks(f), NEW kind \in BlockKinds \ {"function"}
  PROVE  LET g == WithBlock(f, kind)
             k == Len(f.blocks)
         IN /\ kind # "for" => SameOpen(f, g)
            /\ kind = "for" => OneMore(f, g, k + 1, 0) /\ ~IsSwitchIn(g, k + 1, 0)
            /\ kind # "body" /\ BodyOK(f) => BodyOK(g)
<1> DEFINE g == WithBlock(f, kind)
           k == Len(f.blocks)
           new == newBlock(f, kind)
<1>1. k \in Nat /\ k >= 1 /\ DOMAIN f.blocks = 1 .. k /\ f.blocks \in Seq(Block)
  BY BlocksAre
<1>2. new.kind = kind /\ new.open = <<>> /\ Len(new.open) = 0
  BY DEF newBlock, EmptyBlock
<1>3. g.blocks = Append(f.blocks, new)
  <2> HIDE DEF new
  <2>1. g = [f EXCEPT !.blocks = Append(f.blocks, new)]
    BY DEF WithBlock, new
  <2> HIDE DEF g
  <2> QED BY <2>1 DEF Function
<1> HIDE DEF g, k, new
<1>4. DOMAIN g.blocks = 1 .. k + 1 /\ g.blocks[k + 1] = new /\ \A b \in 1 .. k : g.blocks[b] = f.blocks[b]
  BY <1>1, <1>3 DEF k
<1>5. \A b \in 1 .. k + 1 : b = k + 1 \/ b \in 1 .. k
  BY <1>1
<1>6. \A b \in 1 .. k : b # k + 1 /\ b < k + 1 /\ b \in 1 .. k + 1
  BY <1>1
<1>7. \A b \in 1 .. k : \A i : /\ IsOpen(g, b, i) <=> IsOpen(f, b, i)
                               /\ IsSwitchIn(g, b, i) = IsSwitchIn(f, b, i)
  BY <1>1, <1>4, <1>6 DEF IsOpen, IsSwitchIn
<1>8. \A i : IsOpen(g, k + 1, i) <=> kind = "for" /\ i = 0
  <2>1. OpenIn(new) = IF kind = "for" THEN 0 .. 0 ELSE 1 .. 0
    BY <1>2 DEF OpenIn
  <2>2. k + 1 \in 1 .. k + 1 /\ 1 .. 0 = {} /\ 0 .. 0 = {0}
    BY <1>1
  <2> QED BY <1>4, <2>1, <2>2 DEF IsOpen
<1>9. \A b, i : (IsOpen(f, b, i) => b \in 1 .. k) /\ (IsOpen(g, b, i) => b = k + 1 \/ b \in 1 .. k)
  BY <1>1, <1>4, <1>5 DEF IsOpen
<1>10. kind # "for" => SameOpen(f, g)
  BY <1>6, <1>7, <1>8, <1>9 DEF SameOpen
<1>11. kind = "for" => OneMore(f, g, k + 1, 0) /\ ~IsSwitchIn(g, k + 1, 0)
  BY <1>6, <1>7, <1>8, <1>9 DEF OneMore, After, IsSwitchIn
<1>12. kind # "body" /\ BodyOK(f) => BodyOK(g)
  <2>1. 1 \in 1 .. k
    BY <1>1
  <2> QED BY <1>1, <1>2, <1>4, <1>5, <2>1, ZenonT(40) DEF BodyOK
<1> QED BY <1>10, <1>11, <1>12 DEF g, k

LEMMA PoppedBlock ==
  ASSUME NEW f \in Function, Blocks(f), Last(f.blocks).kind \in {"block", "for"}, Last(f.blocks).open = <<>>
  PROVE  LET g == WithoutBlock(f)
             k == Len(f.blocks)
         IN /\ Last(f.blocks).kind = "block" => SameOpen(f, g)
            /\ Last(f.blocks).kind = "for" => OneMore(g, f, k, 0)
            /\ BodyOK(f) => BodyOK(g)
<1> DEFINE g == WithoutBlock(f)
           k == Len(f.blocks)
           last == f.blocks[k]
<1>1. /\ k \in Nat /\ k >= 1 /\ DOMAIN f.blocks = 1 .. k /\ f.blocks \in Seq(Block)
      /\ Last(f.blocks) = last
  BY BlocksAre
<1>a. k > 1
  <2>1. k # 1
    BY <1>1 DEF Blocks
  <2> HIDE DEF k
  <2> QED BY <1>1, <2>1
<1>2. last.kind \in {"block", "for"} /\ last.open = <<>> /\ Len(last.open) = 0
  BY <1>1
<1>3. g.blocks = SubSeq(f.blocks, 1, k - 1)
  <2>1. g = [f EXCEPT !.blocks = SubSeq(f.blocks, 1, k - 1)]
    BY DEF WithoutBlock, Without
  <2> HIDE DEF g
  <2> QED BY <2>1 DEF Function
<1>4. DOMAIN g.blocks = 1 .. k - 1 /\ \A b \in 1 .. k - 1 : g.blocks[b] = f.blocks[b]
  <2>1. /\ Len(SubSeq(f.blocks, 1, k - 1)) = k - 1 /\ SubSeq(f.blocks, 1, k - 1) \in Seq(Block)
        /\ \A b \in 1 .. k - 1 : SubSeq(f.blocks, 1, k - 1)[b] = f.blocks[b]
    <3>1. \A b \in 1 .. k - 1 : f.blocks[b] \in Block
      BY <1>1
    <3> QED BY <1>1, <1>a, <3>1, SubSeqProperties
  <2> QED BY <1>3, <2>1
<1> HIDE DEF g, k
<1>5. \A b \in 1 .. k : b = k \/ b \in 1 .. k - 1
  BY <1>1
<1>6. k \in 1 .. k /\ \A b \in 1 .. k - 1 : b # k /\ b < k /\ b \in 1 .. k
  BY <1>1
<1>7. \A b \in 1 .. k - 1 : \A i : /\ IsOpen(g, b, i) <=> IsOpen(f, b, i)
                                   /\ IsSwitchIn(g, b, i) = IsSwitchIn(f, b, i)
  BY <1>1, <1>4, <1>6 DEF IsOpen, IsSwitchIn
<1>8. \A i : IsOpen(f, k, i) <=> last.kind = "for" /\ i = 0
  <2>1. OpenIn(last) = IF last.kind = "for" THEN 0 .. 0 ELSE 1 .. 0
    BY <1>2 DEF OpenIn
  <2>2. 1 .. 0 = {} /\ 0 .. 0 = {0}
    OBVIOUS
  <2> QED BY <1>1, <1>6, <2>1, <2>2 DEF IsOpen
<1>9. \A b, i : (IsOpen(g, b, i) => b \in 1 .. k - 1) /\ (IsOpen(f, b, i) => b = k \/ b \in 1 .. k - 1)
  BY <1>1, <1>4, <1>5 DEF IsOpen
<1>10. last.kind = "block" => SameOpen(f, g)
  BY <1>6, <1>7, <1>8, <1>9 DEF SameOpen
<1>11. last.kind = "for" => OneMore(g, f, k, 0)
  BY <1>6, <1>7, <1>8, <1>9 DEF OneMore, After
<1>12. BodyOK(f) => BodyOK(g)
  <2>1. 1 \in 1 .. k - 1
    BY <1>1, <1>a
  <2> QED BY <1>1, <1>4, <1>6, <2>1 DEF BodyOK
<1> QED BY <1>1, <1>10, <1>11, <1>12 DEF g, k

\* A while or switch is the last that is open in f, not in g.
LEMMA StartedOrEnded ==
  ASSUME NEW f \in Function, Blocks(f), NEW g \in Function, NEW s \in Seq({"while", "switch"}),
         NEW kind \in {"while", "switch"}, Last(f.blocks).open = Append(s, kind),
         DOMAIN g.blocks = DOMAIN f.blocks,
         \A b \in DOMAIN f.blocks : b # Len(f.blocks) => g.blocks[b] = f.blocks[b],
         g.blocks[Len(f.blocks)].open = s, g.blocks[Len(f.blocks)].kind = Last(f.blocks).kind
  PROVE  /\ OneMore(g, f, Len(f.blocks), Len(s) + 1)
         /\ IsSwitchIn(f, Len(f.blocks), Len(s) + 1) = (kind = "switch")
<1> DEFINE k == Len(f.blocks)
           m == Len(s)
           new == Append(s, kind)
<1>1. k \in Nat /\ k >= 1 /\ DOMAIN f.blocks = 1 .. k /\ DOMAIN g.blocks = 1 .. k /\ Last(f.blocks) = f.blocks[k]
      /\ \A b \in 1 .. k : Len(f.blocks[b].open) \in Nat
  BY BlocksAre
<1>2. m \in Nat /\ Len(new) = m + 1 /\ new[m + 1] = kind /\ \A i \in 1 .. m : new[i] = s[i]
  OBVIOUS
<1>3. f.blocks[k].open = new /\ g.blocks[k].open = s /\ g.blocks[k].kind = f.blocks[k].kind
  BY <1>1
<1> HIDE DEF k, m, new
<1>4. \A i : i \in OpenIn(f.blocks[k]) <=> i \in OpenIn(g.blocks[k]) \/ i = m + 1
  <2>1. \A i : i \in (0 .. m + 1) <=> i \in (0 .. m) \/ i = m + 1
    BY <1>2
  <2>2. \A i : i \in (1 .. m + 1) <=> i \in (1 .. m) \/ i = m + 1
    BY <1>2
  <2>3. Len(f.blocks[k].open) = m + 1 /\ Len(g.blocks[k].open) = m
    BY <1>2, <1>3 DEF m
  <2> QED BY <1>3, <2>1, <2>2, <2>3 DEF OpenIn
<1>5. \A i \in OpenIn(g.blocks[k]) : i < m + 1 /\ IsSwitchIn(f, k, i) = IsSwitchIn(g, k, i)
  <2> TAKE i \in OpenIn(g.blocks[k])
  <2>1. i \in 0 .. m
    BY <1>2, <1>3 DEF OpenIn, m
  <2>2. i = 0 \/ i \in 1 .. m
    BY <1>2, <2>1
  <2>3. i \in 1 .. m => f.blocks[k].open[i] = g.blocks[k].open[i]
    BY <1>2, <1>3
  <2>4. i < m + 1
    BY <1>2, <2>1
  <2>5. CASE i = 0
    BY <2>4, <2>5 DEF IsSwitchIn
  <2>6. CASE i \in 1 .. m
    BY <2>3, <2>4, <2>6 DEF IsSwitchIn
  <2> QED BY <2>2, <2>5, <2>6
<1>6. \A b \in 1 .. k : b # k => g.blocks[b] = f.blocks[b] /\ b < k
  BY <1>1 DEF k
<1>7. ASSUME NEW b, NEW i
      PROVE  /\ IsOpen(f, b, i) <=> IsOpen(g, b, i) \/ (b = k /\ i = m + 1)
             /\ IsOpen(g, b, i) => IsSwitchIn(f, b, i) = IsSwitchIn(g, b, i) /\ After(b, i, k, m + 1)
  <2>1. CASE b = k
    BY <1>1, <1>4, <1>5, <2>1 DEF IsOpen, After
  <2>2. CASE b # k /\ b \in 1 .. k
    BY <1>1, <1>6, <2>2 DEF IsOpen, IsSwitchIn, After
  <2>3. CASE b \notin 1 .. k
    <3>1. b # k
      BY <1>1, <2>3
    <3> QED BY <1>1, <2>3, <3>1 DEF IsOpen
  <2> QED BY <2>1, <2>2, <2>3
<1>8. OneMore(g, f, k, m + 1)
  BY <1>7 DEF OneMore
<1>9. IsSwitchIn(f, k, m + 1) = (kind = "switch")
  <2>1. m + 1 > 0
    BY <1>2
  <2> QED BY <1>2, <1>3, <2>1 DEF IsSwitchIn
<1> QED BY <1>8, <1>9 DEF k, m

-----------------------------------------------------------------------------
(* Contexts and statements.                                                *)

BodiesOK == \A d \in DOMAIN fns : BodyOK(fns[d])
CInv == BodiesOK /\ ContextsMatchStatements

LEMMA ChangedContexts ==
  ASSUME IInv, IInv', CInv, NEW g \in Function, Blocks(g), BodyOK(g), Changed(g)
  PROVE  /\ SameOpen(Current, g) /\ loops' = loops => CInv'
         /\ \A c, j \in Nat, context \in LoopContext :
              /\ OneMore(Current, g, c, j) /\ loops' = Append(loops, context)
              /\ context.fn = Depth /\ context.isSwitch = IsSwitchIn(g, c, j)
              => CInv'
         /\ \A c, j \in Nat : OneMore(g, Current, c, j) /\ loops' = Without(loops) => CInv'
<1>1. /\ Len(fns') = Depth /\ fns'[Depth] = g /\ \A d \in 1 .. Depth - 1 : fns'[d] = fns[d]
  BY ChangedOK
<1>2. fns \in Functions /\ fns' \in Functions /\ Len(fns) = Depth /\ Depth \in Nat /\ Depth > 0
      /\ Current = fns[Depth] /\ DOMAIN fns = 1 .. Depth
  <2>1. fns' \in Functions
    BY DEF Functions, IInv, Shape, FunctionsOK
  <2> QED BY <2>1, FunctionsAre, CurrentOK
<1>3. DOMAIN fns' = 1 .. Depth
  BY <1>1, <1>2, FunctionsGive
<1>4. BodiesOK'
  <2>1. \A d \in 1 .. Depth : d = Depth \/ d \in 1 .. Depth - 1
    BY <1>2
  <2>2. \A d \in 1 .. Depth : BodyOK(fns'[d])
    BY <1>1, <1>2, <2>1 DEF CInv, BodiesOK
  <2> QED BY <1>3, <2>2 DEF BodiesOK
<1>5. loops \in Seq(LoopContext) /\ Matches(loops, fns)
  BY DEF IInv, Shape, CInv, ContextsMatchStatements
<1>6. ASSUME SameOpen(Current, g), loops' = loops
      PROVE  CInv'
  <2>1. SameOpen(fns[Len(fns)], fns'[Len(fns)])
    BY <1>1, <1>2, <1>6
  <2>2. /\ OpenStatements(fns') = OpenStatements(fns)
        /\ \A p \in OpenStatements(fns) : IsSwitch(fns', p) = IsSwitch(fns, p)
    BY <1>1, <1>2, <2>1, SameStatements
  <2>3. Matches(loops, fns')
    BY <1>5, <2>2, MatchStays
  <2> QED BY <1>4, <1>6, <2>3 DEF CInv, ContextsMatchStatements
<1>7. ASSUME NEW c \in Nat, NEW j \in Nat, NEW context \in LoopContext,
             OneMore(Current, g, c, j), loops' = Append(loops, context),
             context.fn = Depth, context.isSwitch = IsSwitchIn(g, c, j)
      PROVE  CInv'
  <2> DEFINE q == <<Depth, c, j>>
  <2>1. OneMore(fns[Len(fns)], fns'[Len(fns)], c, j)
    BY <1>1, <1>2, <1>7
  <2>2. /\ OpenStatements(fns') = OpenStatements(fns) \cup {q}
        /\ \A p \in OpenStatements(fns) : Within(p, q) /\ IsSwitch(fns', p) = IsSwitch(fns, p)
        /\ IsSwitch(fns', q) = IsSwitchIn(g, c, j)
    BY <1>1, <1>2, <2>1, MoreStatements, SMTT(40)
  <2>3. q[1] = Depth
    OBVIOUS
  <2> HIDE DEF q
  <2>4. Matches(Append(loops, context), fns')
    BY <1>5, <1>7, <2>2, <2>3, MatchGrows
  <2> QED BY <1>4, <1>7, <2>4 DEF CInv, ContextsMatchStatements
<1>8. ASSUME NEW c \in Nat, NEW j \in Nat, OneMore(g, Current, c, j), loops' = Without(loops)
      PROVE  CInv'
  <2> DEFINE q == <<Depth, c, j>>
  <2>1. /\ OneMore(fns'[Len(fns')], fns[Len(fns')], c, j) /\ Len(fns) = Len(fns') /\ Len(fns') > 0
        /\ \A d \in 1 .. Len(fns') - 1 : fns[d] = fns'[d]
    BY <1>1, <1>2, <1>8
  <2>2. /\ OpenStatements(fns) = OpenStatements(fns') \cup {q}
        /\ \A p \in OpenStatements(fns') : Within(p, q) /\ ~Within(q, p) /\ IsSwitch(fns, p) = IsSwitch(fns', p)
        /\ ~Within(q, q)
    BY <1>1, <1>2, <2>1, MoreStatements
  <2> HIDE DEF q
  <2>3. Matches(Without(loops), fns')
    BY <1>5, <2>2, MatchShrinks
  <2> QED BY <1>4, <1>8, <2>3 DEF CInv, ContextsMatchStatements
<1> QED BY <1>6, <1>7, <1>8

LEMMA CurrentBody ==
  ASSUME IInv, CInv
  PROVE  /\ Current \in Function /\ Blocks(Current) /\ BodyOK(Current)
         /\ Len(Current.blocks) \in Nat /\ 1 \in DOMAIN Current.blocks
<1>1. Current = fns[Depth] /\ Depth \in DOMAIN fns /\ Current \in Function /\ Blocks(Current)
  BY FunctionsAre, CurrentOK
<1> QED BY <1>1, LastBlock DEF CInv, BodiesOK

\* A statement with a block of its own, where a variable is declared
LEMMA BlockWithVariable ==
  ASSUME NEW f \in Function, Blocks(f), BodyOK(f), NEW kind \in {"block", "for"},
         NEW n \in UserNames, NEW decl \in Decls, NEW g,
         g = defineVariable(WithBlock(f, kind), Len(WithBlock(f, kind).blocks), n, decl, TRUE)
  PROVE  /\ g \in Function /\ Blocks(g) /\ BodyOK(g)
         /\ kind = "block" => SameOpen(f, g)
         /\ kind = "for" => OneMore(f, g, Len(f.blocks) + 1, 0)
<1> DEFINE h == WithBlock(f, kind)
<1>1. /\ h \in Function /\ Blocks(h) /\ BodyOK(h)
      /\ kind = "block" => SameOpen(f, h)
      /\ kind = "for" => OneMore(f, h, Len(f.blocks) + 1, 0)
  BY WithBlockOK, PushedBlock DEF BlockKinds
<1>2. PICK v \in BOOLEAN : v = TRUE
  OBVIOUS
<1>a. PICK b \in {1, Len(h.blocks)} : b = Len(h.blocks)
  OBVIOUS
<1>3. g = defineVariable(h, b, n, decl, v) /\ n \in Names
  BY <1>2, <1>a DEF Names
<1> HIDE DEF h
<1>b. h \in Function /\ Blocks(h) /\ n \in Names
  BY <1>1, <1>3
<1>c. SameBlocks(h, defineVariable(h, b, n, decl, v))
  BY <1>b, DefinedBlocks, Zenon
<1>d. defineVariable(h, b, n, decl, v) \in Function /\ Blocks(defineVariable(h, b, n, decl, v))
  BY <1>b, DefineOK, Zenon
<1>4. g \in Function /\ Blocks(g) /\ SameBlocks(h, g)
  BY <1>3, <1>c, <1>d, Zenon
<1>5. 1 \in DOMAIN h.blocks
  BY <1>1, LastBlock
<1>6. SameOpen(h, g) /\ BodyOK(g)
  BY <1>1, <1>4, <1>5, SameBlocksOpen
<1> QED BY <1>1, <1>4, <1>6, SameAfter, ZenonT(40)

LEMMA DeclarationContexts ==
  ASSUME IInv, IInv', CInv, parseVariableDeclaration
  PROVE  CInv'
<1>1. PICK n \in UserNames, decl \in {"var", "let"}, init \in BOOLEAN :
        Changed(defineVariable(Current, IF decl = "var" THEN 1 ELSE Len(Current.blocks), n, decl,
                               init \/ decl = "var"))
  BY DEF parseVariableDeclaration
<1>2. loops' = loops /\ n \in Names /\ decl \in Decls /\ (init \/ decl = "var") \in BOOLEAN
  BY DEF parseVariableDeclaration, Names, Decls
<1>3. PICK b \in {1, Len(Current.blocks)} : b = IF decl = "var" THEN 1 ELSE Len(Current.blocks)
  OBVIOUS
<1>4. PICK v \in BOOLEAN : v = (init \/ decl = "var")
  BY <1>2
<1>5. PICK g : g = defineVariable(Current, b, n, decl, v)
  OBVIOUS
<1>6. g \in Function /\ Blocks(g) /\ SameBlocks(Current, g)
  BY <1>2, <1>5, CurrentBody, DefineOK, DefinedBlocks
<1>7. SameOpen(Current, g) /\ BodyOK(g)
  BY <1>6, CurrentBody, SameBlocksOpen
<1>8. Changed(g)
  BY <1>1, <1>3, <1>4, <1>5
<1> QED BY <1>2, <1>6, <1>7, <1>8, ChangedContexts

LEMMA BlockContexts ==
  ASSUME IInv, IInv', CInv, parseBlockStatement \/ parseCatchClause
  PROVE  CInv'
<1>1. CASE parseBlockStatement
  <2>1. PICK g : g = WithBlock(Current, "block")
    OBVIOUS
  <2>2. /\ g \in Function /\ Blocks(g) /\ BodyOK(g) /\ SameOpen(Current, g)
    BY <2>1, CurrentBody, WithBlockOK, PushedBlock DEF BlockKinds
  <2>3. Changed(g) /\ loops' = loops
    BY <1>1, <2>1 DEF parseBlockStatement
  <2> QED BY <2>2, <2>3, ChangedContexts
<1>2. CASE parseCatchClause
  <2>1. PICK n \in UserNames :
          Changed(defineVariable(WithBlock(Current, "block"), Len(WithBlock(Current, "block").blocks), n, "let", TRUE))
    BY <1>2 DEF parseCatchClause
  <2>2. PICK g : g = defineVariable(WithBlock(Current, "block"), Len(WithBlock(Current, "block").blocks), n, "let", TRUE)
    OBVIOUS
  <2>3. g \in Function /\ Blocks(g) /\ BodyOK(g) /\ SameOpen(Current, g)
    BY <2>2, CurrentBody, BlockWithVariable DEF Decls
  <2>4. Changed(g) /\ loops' = loops
    BY <1>2, <2>1, <2>2 DEF parseCatchClause
  <2> QED BY <2>3, <2>4, ChangedContexts
<1> QED BY <1>1, <1>2

LEMMA ContextPushed ==
  ASSUME IInv, NEW isSwitch \in BOOLEAN, pushLoopSwitchContext(isSwitch)
  PROVE  \E context \in LoopContext : /\ loops' = Append(loops, context)
                                      /\ context.fn = Depth /\ context.isSwitch = isSwitch
<1>1. PICK label \in Labels \cup {NoLabel} : loops' = Append(loops, [fn |-> Depth, label |-> label, isSwitch |-> isSwitch])
  BY DEF pushLoopSwitchContext
<1>2. PICK context : context = [fn |-> Depth, label |-> label, isSwitch |-> isSwitch]
  OBVIOUS
<1>3. context \in LoopContext
  BY <1>2, CurrentOK DEF LoopContext
<1> QED BY <1>1, <1>2, <1>3

LEMMA ForContexts ==
  ASSUME IInv, IInv', CInv, parseForStatement
  PROVE  CInv'
<1>1. PICK n \in UserNames, decl \in {"var", "let"} :
        Changed(defineVariable(WithBlock(Current, "for"), Len(WithBlock(Current, "for").blocks), n, decl, TRUE))
  BY DEF parseForStatement
<1>2. PICK g : g = defineVariable(WithBlock(Current, "for"), Len(WithBlock(Current, "for").blocks), n, decl, TRUE)
  OBVIOUS
<1>3. decl \in Decls /\ Changed(g)
  BY <1>1, <1>2 DEF Decls
<1>4. g \in Function /\ Blocks(g) /\ BodyOK(g) /\ OneMore(Current, g, Len(Current.blocks) + 1, 0)
  BY <1>2, <1>3, CurrentBody, BlockWithVariable
<1>5. PICK context \in LoopContext : loops' = Append(loops, context) /\ context.fn = Depth /\ context.isSwitch = FALSE
  BY ContextPushed DEF parseForStatement
<1>6. PICK c \in Nat : c = Len(Current.blocks) + 1
  BY CurrentBody
<1>7. context.isSwitch = IsSwitchIn(g, c, 0)
  <2>1. ~(0 > 0)
    OBVIOUS
  <2>2. IsSwitchIn(g, c, 0) = FALSE
    BY <2>1, Zenon DEF IsSwitchIn
  <2> QED BY <1>5, <2>2
<1> QED BY <1>3, <1>4, <1>5, <1>6, <1>7, ChangedContexts

LEMMA OpenedContexts ==
  ASSUME IInv, IInv', CInv, parseWhileStatement \/ parseSwitchStatement
  PROVE  CInv'
<1>1. PICK kind \in {"while", "switch"} : Changed(Open(Current, kind)) /\ pushLoopSwitchContext(kind = "switch")
  <2>1. ("while" = "switch") = FALSE /\ ("switch" = "switch") = TRUE
    OBVIOUS
  <2> QED BY <2>1 DEF parseWhileStatement, parseSwitchStatement
<1> DEFINE k == Len(Current.blocks)
           s == Current.blocks[k].open
<1>2. PICK g : g = Open(Current, kind)
  OBVIOUS
<1>3. /\ Current \in Function /\ Blocks(Current) /\ BodyOK(Current)
      /\ k \in Nat /\ k >= 1 /\ DOMAIN Current.blocks = 1 .. k /\ Current.blocks \in Seq(Block)
      /\ s \in Seq({"while", "switch"}) /\ Current.blocks[k] \in Block
  <2>1. Current \in Function /\ Blocks(Current) /\ BodyOK(Current)
    BY CurrentBody
  <2>2. k \in Nat /\ k >= 1 /\ DOMAIN Current.blocks = 1 .. k /\ Current.blocks \in Seq(Block)
        /\ \A b \in 1 .. k : Current.blocks[b].open \in Seq({"while", "switch"}) /\ Current.blocks[b] \in Block
    BY <2>1, BlocksAre
  <2> HIDE DEF k
  <2>3. k \in 1 .. k
    BY <2>2
  <2> QED BY <2>1, <2>2, <2>3
<1>4. g = [Current EXCEPT !.blocks[k].open = Append(s, kind)] /\ Append(s, kind) \in Seq({"while", "switch"})
  <2>1. \A t \in Seq({"while", "switch"}) : Append(t, kind) \in Seq({"while", "switch"})
    OBVIOUS
  <2> QED BY <1>2, <1>3, <2>1 DEF Open
<1>5. g \in Function /\ Blocks(g)
  BY <1>3, <1>4, OpenOK
<1>6. /\ DOMAIN g.blocks = 1 .. k /\ Len(g.blocks) = k
      /\ \A b \in 1 .. k : b # k => g.blocks[b] = Current.blocks[b]
      /\ g.blocks[k].open = Append(s, kind) /\ g.blocks[k].kind = Current.blocks[k].kind
  <2>1. PICK new : new = [Current.blocks[k] EXCEPT !.open = Append(s, kind)]
    OBVIOUS
  <2>2. new.open = Append(s, kind) /\ new.kind = Current.blocks[k].kind /\ new \in Block
    BY <1>3, <1>4, <2>1 DEF Block
  <2>3. g = [Current EXCEPT !.blocks = [Current.blocks EXCEPT ![k] = new]]
    BY <1>3, <1>4, <2>1 DEF Function
  <2>4. g.blocks = [Current.blocks EXCEPT ![k] = new]
    BY <1>3, <2>3 DEF Function
  <2>5. [Current.blocks EXCEPT ![k] = new] \in Seq(Block) /\ Len([Current.blocks EXCEPT ![k] = new]) = k
    BY <1>3, <2>2, ExceptSeq
  <2> QED BY <1>3, <2>2, <2>4, <2>5
<1> HIDE DEF k, s
<1>7. Last(g.blocks) = g.blocks[k]
  BY <1>6 DEF Last
<1>8. PICK j \in Nat : j = Len(s) + 1
  BY <1>3
<1>9. OneMore(Current, g, k, j) /\ IsSwitchIn(g, k, j) = (kind = "switch")
  <2>1. /\ Last(g.blocks).open = Append(s, kind) /\ DOMAIN Current.blocks = DOMAIN g.blocks
        /\ \A b \in DOMAIN g.blocks : b # Len(g.blocks) => Current.blocks[b] = g.blocks[b]
        /\ Current.blocks[Len(g.blocks)].open = s
        /\ Current.blocks[Len(g.blocks)].kind = Last(g.blocks).kind
    BY <1>3, <1>6, <1>7 DEF s
  <2>2. /\ OneMore(Current, g, Len(g.blocks), Len(s) + 1)
        /\ IsSwitchIn(g, Len(g.blocks), Len(s) + 1) = (kind = "switch")
    BY <1>3, <1>5, <2>1, StartedOrEnded
  <2> QED BY <1>6, <1>8, <2>2
<1>10. BodyOK(g)
  <2> SUFFICES ASSUME NEW b \in DOMAIN g.blocks, g.blocks[b].kind = "body"
               PROVE  b = 2 /\ g.blocks[1].open = <<>>
    BY DEF BodyOK
  <2>1. b \in 1 .. k /\ Current.blocks[b].kind = "body"
    BY <1>6
  <2>2. b = 2 /\ Current.blocks[1].open = <<>>
    BY <1>3, <2>1 DEF BodyOK
  <2>3. 1 \in 1 .. k /\ 1 # k
    BY <1>3, <2>1, <2>2
  <2> QED BY <1>6, <2>2, <2>3
<1>11. PICK context \in LoopContext : loops' = Append(loops, context) /\ context.fn = Depth
                                      /\ context.isSwitch = (kind = "switch")
  BY <1>1, ContextPushed
<1> QED BY <1>1, <1>2, <1>3, <1>5, <1>8, <1>9, <1>10, <1>11, ChangedContexts

LEMMA EndedContexts ==
  ASSUME IInv, IInv', CInv, EndStatement
  PROVE  CInv'
<1> DEFINE k == Len(Current.blocks)
           t == Current.blocks[k].open
<1>1. /\ Current \in Function /\ Blocks(Current) /\ BodyOK(Current)
      /\ k \in Nat /\ k >= 1 /\ DOMAIN Current.blocks = 1 .. k /\ Current.blocks \in Seq(Block)
      /\ t \in Seq({"while", "switch"}) /\ Current.blocks[k] \in Block /\ Last(Current.blocks) = Current.blocks[k]
  BY CurrentBody, BlocksAre
<1>2. CASE t # <<>> /\ Changed([Current EXCEPT !.blocks[k].open = Without(@)]) /\ loops' = Without(loops)
  <2>1. PICK s, kind : s = Without(t) /\ kind = t[Len(t)]
    OBVIOUS
  <2>2. s \in Seq({"while", "switch"}) /\ kind \in {"while", "switch"} /\ t = Append(s, kind)
    <3>1. Len(t) \in Nat /\ Len(t) > 0 /\ s \in Seq({"while", "switch"}) /\ Len(s) = Len(t) - 1
          /\ \A i \in 1 .. Len(t) - 1 : s[i] = t[i]
      BY <1>1, <1>2, <2>1, WithoutOK
    <3>2. kind \in {"while", "switch"}
      <4>1. Len(t) \in 1 .. Len(t)
        BY <3>1
      <4> QED BY <1>1, <2>1, <4>1
    <3> HIDE DEF t
    <3>3. Append(s, kind) \in Seq({"while", "switch"}) /\ Len(Append(s, kind)) = Len(t)
      BY <3>1, <3>2
    <3>4. \A i \in 1 .. Len(t) : t[i] = Append(s, kind)[i]
      <4> TAKE i \in 1 .. Len(t)
      <4>1. CASE i = Len(t)
        BY <2>1, <3>1, <3>2, <4>1
      <4>2. CASE i # Len(t)
        <5>1. i \in 1 .. Len(t) - 1
          BY <3>1, <4>2
        <5> QED BY <3>1, <3>2, <5>1
      <4> QED BY <4>1, <4>2
    <3>5. t = Append(s, kind)
      BY <1>1, <3>3, <3>4, SeqEqual
    <3> QED BY <3>1, <3>2, <3>5
  <2>3. PICK g : g = [Current EXCEPT !.blocks[k].open = s]
    OBVIOUS
  <2>4. Changed(g)
    BY <1>2, <2>1, <2>3
  <2>5. g \in Function /\ Blocks(g)
    BY <1>1, <2>2, <2>3, OpenOK
  <2>6. /\ DOMAIN g.blocks = 1 .. k
        /\ \A b \in 1 .. k : b # k => g.blocks[b] = Current.blocks[b]
        /\ g.blocks[k].open = s /\ g.blocks[k].kind = Current.blocks[k].kind
    <3>1. PICK new : new = [Current.blocks[k] EXCEPT !.open = s]
      OBVIOUS
    <3>2. new.open = s /\ new.kind = Current.blocks[k].kind /\ new \in Block
      BY <1>1, <2>2, <3>1 DEF Block
    <3>3. g = [Current EXCEPT !.blocks = [Current.blocks EXCEPT ![k] = new]]
      BY <1>1, <2>3, <3>1 DEF Function
    <3>4. g.blocks = [Current.blocks EXCEPT ![k] = new]
      BY <1>1, <3>3 DEF Function
    <3> QED BY <1>1, <3>2, <3>4
  <2>7. PICK j \in Nat : j = Len(s) + 1
    BY <2>2
  <2>8. OneMore(g, Current, k, j)
    <3>1. /\ Last(Current.blocks).open = Append(s, kind) /\ DOMAIN g.blocks = DOMAIN Current.blocks
          /\ \A b \in DOMAIN Current.blocks : b # k => g.blocks[b] = Current.blocks[b]
          /\ g.blocks[k].open = s /\ g.blocks[k].kind = Last(Current.blocks).kind
      BY <1>1, <2>2, <2>6
    <3>2. OneMore(g, Current, k, Len(s) + 1)
      BY <1>1, <2>2, <2>5, <3>1, StartedOrEnded, ZenonT(40)
    <3> QED BY <2>7, <3>2
  <2> HIDE DEF k
  <2>9. BodyOK(g)
    <3> SUFFICES ASSUME NEW b \in DOMAIN g.blocks, g.blocks[b].kind = "body"
                 PROVE  b = 2 /\ g.blocks[1].open = <<>>
      BY DEF BodyOK
    <3>1. b \in 1 .. k /\ Current.blocks[b].kind = "body"
      BY <2>6
    <3>2. b = 2 /\ Current.blocks[1].open = <<>>
      BY <1>1, <3>1 DEF BodyOK
    <3>3. 1 \in 1 .. k /\ 1 # k
      BY <1>1, <3>1, <3>2
    <3> QED BY <2>6, <3>2, <3>3
  <2> QED BY <1>1, <1>2, <2>4, <2>5, <2>7, <2>8, <2>9, ChangedContexts
<1>3. CASE /\ t = <<>> /\ Current.blocks[k].kind \in {"block", "for"} /\ Changed(WithoutBlock(Current))
           /\ loops' = IF Current.blocks[k].kind = "for" THEN Without(loops) ELSE loops
  <2>1. PICK g : g = WithoutBlock(Current)
    OBVIOUS
  <2>2. /\ g \in Function /\ Blocks(g) /\ BodyOK(g)
        /\ Current.blocks[k].kind = "block" => SameOpen(Current, g)
        /\ Current.blocks[k].kind = "for" => OneMore(g, Current, k, 0)
    BY <1>1, <1>3, <2>1, WithoutBlockOK, PoppedBlock
  <2> HIDE DEF k
  <2>3. CASE Current.blocks[k].kind = "block"
    <3>1. loops' = loops
      BY <1>3, <2>3
    <3> QED BY <1>3, <2>1, <2>2, <2>3, <3>1, ChangedContexts
  <2>4. CASE Current.blocks[k].kind = "for"
    <3>1. loops' = Without(loops) /\ 0 \in Nat
      BY <1>3, <2>4
    <3> QED BY <1>1, <1>3, <2>1, <2>2, <2>4, <3>1, ChangedContexts
  <2> QED BY <1>3, <2>3, <2>4
<1> QED BY <1>1, <1>2, <1>3 DEF EndStatement, popLoopContext

\* A function that is new, or has been parsed, has no statement open.
LEMMA NothingOpen ==
  ASSUME NEW f \in Function, Blocks(f), BodyOK(f), Last(f.blocks).open = <<>>,
         Last(f.blocks).kind \in {"function", "body"}
  PROVE  \A b, i : ~IsOpen(f, b, i)
<1> DEFINE k == Len(f.blocks)
<1>1. k \in Nat /\ k >= 1 /\ DOMAIN f.blocks = 1 .. k /\ Last(f.blocks) = f.blocks[k] /\ k \in 1 .. k
  <2>1. k \in Nat /\ k >= 1 /\ DOMAIN f.blocks = 1 .. k /\ Last(f.blocks) = f.blocks[k]
    BY BlocksAre
  <2> HIDE DEF k
  <2> QED BY <2>1
<1> HIDE DEF k
<1>2. \A b \in 1 .. k : f.blocks[b].open = <<>> /\ f.blocks[b].kind # "for"
  <2>1. CASE f.blocks[k].kind = "function"
    <3>1. k = 1
      BY <1>1, <2>1 DEF Blocks
    <3>2. \A b \in 1 .. k : b = k
      BY <1>1, <3>1
    <3> QED BY <1>1, <2>1, <3>2
  <2>2. CASE f.blocks[k].kind = "body"
    <3>1. k = 2 /\ f.blocks[1].open = <<>>
      BY <1>1, <2>2 DEF BodyOK
    <3>2. \A b \in 1 .. k : b = k \/ b = 1
      BY <3>1
    <3>3. f.blocks[1].kind = "function"
      BY DEF Blocks
    <3> QED BY <1>1, <2>2, <3>1, <3>2, <3>3
  <2> QED BY <1>1, <2>1, <2>2
<1>3. \A b \in 1 .. k : \A i : i \notin OpenIn(f.blocks[b])
  <2>1. Len(<<>>) = 0 /\ 1 .. 0 = {}
    OBVIOUS
  <2>2. \A b \in 1 .. k : OpenIn(f.blocks[b]) = 1 .. 0
    BY <1>2, <2>1 DEF OpenIn
  <2> QED BY <2>1, <2>2
<1> QED BY <1>1, <1>3 DEF IsOpen

LEMMA NewBody ==
  ASSUME NEW ps \in ParamLists, NEW isArrow \in BOOLEAN, NEW hasBlock \in BOOLEAN, NEW g,
         g = IF hasBlock THEN WithBlock(NewFunction(ps, isArrow), "body") ELSE NewFunction(ps, isArrow)
  PROVE  g \in Function /\ Blocks(g) /\ BodyOK(g) /\ \A b, i : ~IsOpen(g, b, i)
<1> DEFINE f == NewFunction(ps, isArrow)
<1>1. f \in Function /\ Blocks(f)
  BY NewFunctionOK
<1>2. Len(f.blocks) = 1 /\ f.blocks[1].open = <<>> /\ f.blocks[1].kind = "function" /\ DOMAIN f.blocks = {1}
  <2>1. f.blocks = <<FunctionBlock(ps, isArrow)>>
    BY DEF NewFunction
  <2>2. FunctionBlock(ps, isArrow).open = <<>> /\ FunctionBlock(ps, isArrow).kind = "function"
    BY DEF FunctionBlock
  <2> HIDE DEF f
  <2> QED BY <2>1, <2>2
<1> HIDE DEF f
<1>3. BodyOK(f) /\ Last(f.blocks) = f.blocks[1]
  BY <1>2 DEF BodyOK, Last
<1>4. CASE ~hasBlock
  <2>1. g = f
    BY <1>4 DEF f
  <2> QED BY <1>1, <1>2, <1>3, <2>1, NothingOpen
<1>5. CASE hasBlock
  <2>1. g = WithBlock(f, "body")
    BY <1>5 DEF f
  <2>2. g \in Function /\ Blocks(g)
    BY <1>1, <2>1, WithBlockOK DEF BlockKinds
  <2>3. PICK new : new = newBlock(f, "body")
    OBVIOUS
  <2>4. new.open = <<>> /\ new.kind = "body"
    BY <2>3 DEF newBlock, EmptyBlock
  <2>5. g.blocks = Append(f.blocks, new)
    <3>1. g = [f EXCEPT !.blocks = Append(f.blocks, new)]
      BY <2>1, <2>3 DEF WithBlock
    <3> QED BY <1>1, <3>1 DEF Function
  <2>6. f.blocks \in Seq(Block) /\ new \in Block
    <3>1. End(Last(f.blocks)) \in Nat
      BY <1>1, LastBlock, BlockEnd
    <3> QED BY <1>1, <2>3, <3>1, EmptyBlockOK DEF Function, newBlock, BlockKinds
  <2>7. Len(g.blocks) = 2 /\ DOMAIN g.blocks = {1, 2} /\ g.blocks[1] = f.blocks[1] /\ g.blocks[2] = new
    <3>1. PICK s \in Seq(Block) : s = f.blocks
      BY <2>6
    <3>2. PICK t \in Seq(Block) : t = Append(s, new)
      <4>1. Append(s, new) \in Seq(Block)
        BY ONLY <2>6, s \in Seq(Block), AppendProperties
      <4> QED BY <4>1
    <3>3. Len(t) = 2 /\ t[1] = s[1] /\ t[2] = new
      BY <1>2, <2>6, <3>1, <3>2
    <3>4. DOMAIN t = {1, 2}
      <4>1. DOMAIN t = 1 .. 2 /\ 1 .. 2 = {1, 2}
        BY <3>2, <3>3
      <4> QED BY <4>1
    <3> QED BY <2>5, <3>1, <3>2, <3>3, <3>4
  <2>8. BodyOK(g) /\ Last(g.blocks) = new
    BY <1>2, <2>7 DEF BodyOK, Last
  <2> QED BY <2>2, <2>4, <2>8, NothingOpen
<1> QED BY <1>4, <1>5

\* The last function comes or goes with no statement open in it.
LEMMA SameWithout ==
  ASSUME NEW fs \in Functions, NEW gs \in Functions, Len(gs) = Len(fs) + 1,
         \A d \in 1 .. Len(fs) : SameOpen(fs[d], gs[d]), \A b, i : ~IsOpen(gs[Len(gs)], b, i)
  PROVE  /\ OpenStatements(gs) = OpenStatements(fs)
         /\ \A p \in OpenStatements(fs) : IsSwitch(gs, p) = IsSwitch(fs, p)
<1> DEFINE l == Len(fs)
<1>1. DOMAIN fs = 1 .. l /\ DOMAIN gs = 1 .. l + 1 /\ l \in Nat
  <2>1. DOMAIN fs = 1 .. l /\ DOMAIN gs = 1 .. Len(gs) /\ l \in Nat
    BY FunctionsGive
  <2> QED BY <2>1
<1>2. /\ \A d \in 1 .. l : SameOpen(fs[d], gs[d])
      /\ \A b, i : ~IsOpen(gs[l + 1], b, i)
  OBVIOUS
<1> HIDE DEF l
<1>3. \A d : d \in 1 .. l + 1 <=> d \in 1 .. l \/ d = l + 1
  BY <1>1
<1>4. \A p : p \in OpenStatements(gs) <=> p \in OpenStatements(fs)
  <2> SUFFICES ASSUME NEW p PROVE p \in OpenStatements(gs) <=> p \in OpenStatements(fs)
    OBVIOUS
  <2>1. p \in OpenStatements(gs) <=> \E d \in 1 .. l : \E b, i : IsOpen(gs[d], b, i) /\ p = <<d, b, i>>
    BY <1>1, <1>2, <1>3, OpenStatementsAre
  <2>2. \A d \in 1 .. l : \A b, i : IsOpen(gs[d], b, i) <=> IsOpen(fs[d], b, i)
    BY <1>2 DEF SameOpen
  <2> QED BY <1>1, <2>1, <2>2, OpenStatementsAre
<1>5. ASSUME NEW p \in OpenStatements(fs)
      PROVE  IsSwitch(gs, p) = IsSwitch(fs, p)
  <2>1. PICK d \in DOMAIN fs : \E b, i : IsOpen(fs[d], b, i) /\ p = <<d, b, i>>
    BY OpenStatementsAre
  <2>2. PICK b, i : IsOpen(fs[d], b, i) /\ p = <<d, b, i>>
    BY <2>1
  <2>3. IsSwitchIn(gs[d], b, i) = IsSwitchIn(fs[d], b, i)
    BY <1>1, <1>2, <2>2 DEF SameOpen
  <2> QED BY <2>2, <2>3 DEF IsSwitch, IsSwitchIn
<1> QED BY <1>4, <1>5

LEMMA FunctionContexts ==
  ASSUME IInv, IInv', CInv, parseFunctionDecl \/ parseArrowFunctionBody
  PROVE  CInv'
<1>1. loops' = loops
  BY DEF parseFunctionDecl, parseArrowFunctionBody
<1>2. PICK g : /\ g \in Function /\ Blocks(g) /\ BodyOK(g) /\ fns' = Append(fns, g)
               /\ \A b, i : ~IsOpen(g, b, i)
  <2>1. CASE parseFunctionDecl
    <3>1. PICK ps \in ParamLists : fns' = Append(fns, NewFunction(ps, FALSE))
      BY <2>1 DEF parseFunctionDecl
    <3>2. PICK hasBlock \in BOOLEAN : ~hasBlock
      OBVIOUS
    <3>3. PICK isArrow \in BOOLEAN : isArrow = FALSE
      OBVIOUS
    <3>4. PICK g : g = IF hasBlock THEN WithBlock(NewFunction(ps, isArrow), "body") ELSE NewFunction(ps, isArrow)
      OBVIOUS
    <3>5. g \in Function /\ Blocks(g) /\ BodyOK(g) /\ \A b, i : ~IsOpen(g, b, i)
      BY <3>4, NewBody
    <3>6. fns' = Append(fns, g)
      BY <3>1, <3>2, <3>3, <3>4
    <3> QED BY <3>5, <3>6
  <2>2. CASE parseArrowFunctionBody
    <3>1. PICK ps \in ParamLists, hasBlock \in BOOLEAN :
            fns' = Append(fns, IF hasBlock THEN WithBlock(NewFunction(ps, TRUE), "body")
                               ELSE NewFunction(ps, TRUE))
      BY <2>2 DEF parseArrowFunctionBody
    <3>2. PICK isArrow \in BOOLEAN : isArrow = TRUE
      OBVIOUS
    <3>3. PICK g : g = IF hasBlock THEN WithBlock(NewFunction(ps, isArrow), "body") ELSE NewFunction(ps, isArrow)
      OBVIOUS
    <3>4. g \in Function /\ Blocks(g) /\ BodyOK(g) /\ \A b, i : ~IsOpen(g, b, i)
      BY <3>3, NewBody
    <3>5. fns' = Append(fns, g)
      BY <3>1, <3>2, <3>3
    <3> QED BY <3>4, <3>5
  <2> QED BY <2>1, <2>2
<1>3. /\ fns \in Functions /\ fns' \in Functions /\ Len(fns) = Depth /\ Depth \in Nat
      /\ DOMAIN fns = 1 .. Depth
      /\ Len(fns') = Depth + 1 /\ fns'[Depth + 1] = g /\ \A d \in 1 .. Depth : fns'[d] = fns[d]
  <2>1. fns' \in Functions
    BY DEF Functions, IInv, Shape, FunctionsOK
  <2> QED BY <1>2, <2>1, FunctionsAre, CurrentOK, PushedOK
<1>4. \A d \in 1 .. Len(fns) : SameOpen(fns[d], fns'[d])
  BY <1>3 DEF SameOpen
<1>5. /\ OpenStatements(fns') = OpenStatements(fns)
      /\ \A p \in OpenStatements(fns) : IsSwitch(fns', p) = IsSwitch(fns, p)
  BY <1>2, <1>3, <1>4, SameWithout
<1>6. ContextsMatchStatements'
  BY <1>1, <1>5, MatchStays DEF CInv, ContextsMatchStatements
<1>7. BodiesOK'
  <2>1. DOMAIN fns' = 1 .. Depth + 1
    BY <1>3, FunctionsGive
  <2>2. \A d \in 1 .. Depth + 1 : d = Depth + 1 \/ d \in 1 .. Depth
    BY <1>3
  <2> QED BY <1>2, <1>3, <2>1, <2>2 DEF CInv, BodiesOK
<1> QED BY <1>6, <1>7 DEF CInv

LEMMA RestoredContexts ==
  ASSUME IInv, IInv', CInv, restoreContext
  PROVE  CInv'
<1>1. /\ fns \in Functions /\ fns' \in Functions /\ Len(fns) = Depth /\ Depth \in Nat /\ Depth > 1
      /\ DOMAIN fns = 1 .. Depth
      /\ Current = fns[Depth] /\ Len(fns') = Depth - 1 /\ \A d \in 1 .. Depth - 2 : fns'[d] = fns[d]
      /\ loops' = loops
  <2>1. fns' \in Functions
    BY DEF Functions, IInv, Shape, FunctionsOK
  <2> QED BY <2>1, FunctionsAre, CurrentOK, PoppedOK DEF restoreContext
<1> DEFINE outer == fns[Depth - 1]
<1>2. Depth - 1 \in 1 .. Depth /\ outer \in Function /\ Blocks(outer) /\ BodyOK(outer) /\ 1 \in DOMAIN outer.blocks
  <2>1. Depth - 1 \in 1 .. Depth
    BY <1>1
  <2>2. outer \in Function /\ Blocks(outer) /\ BodyOK(outer)
    BY <1>1, <2>1, FunctionsGive DEF CInv, BodiesOK
  <2> QED BY <2>1, <2>2, LastBlock
<1>3. SameBlocks(outer, fns'[Depth - 1])
  <2>1. Without(fns) \in Seq(Function) /\ Len(Without(fns)) = Depth - 1 /\ Without(fns)[Depth - 1] = outer
    <3>1. fns \in Seq(Function) /\ fns # <<>>
      BY DEF IInv, Shape
    <3>2. Without(fns) \in Seq(Function) /\ Len(Without(fns)) = Len(fns) - 1
          /\ \A i \in 1 .. Len(fns) - 1 : Without(fns)[i] = fns[i]
      BY <3>1, WithoutOK
    <3>3. Depth - 1 \in 1 .. Len(fns) - 1
      BY <1>1
    <3> QED BY <1>1, <3>2, <3>3
  <2>2. CASE fns' = Without(fns)
    BY <2>1, <2>2 DEF SameBlocks
  <2>3. CASE \E name \in UserNames :
               fns' = [Without(fns) EXCEPT ![Depth - 1] = defineVariable(fns[Depth - 1], 1, name, "var", TRUE)]
    <3>1. PICK name \in UserNames :
            fns' = [Without(fns) EXCEPT ![Depth - 1] = defineVariable(outer, 1, name, "var", TRUE)]
      BY <2>3
    <3>2. PICK b \in {1, Len(outer.blocks)} : b = 1
      OBVIOUS
    <3>3. name \in Names
      BY DEF Names
    <3> HIDE DEF outer
    <3>4. SameBlocks(outer, defineVariable(outer, b, name, "var", TRUE))
      BY <1>2, <3>3, DefinedBlocks
    <3>5. Depth - 1 \in DOMAIN Without(fns)
      BY <1>1, <2>1
    <3>6. fns'[Depth - 1] = defineVariable(outer, 1, name, "var", TRUE)
      BY <3>1, <3>5
    <3> QED BY <3>2, <3>4, <3>6
  <2> QED BY <2>2, <2>3 DEF restoreContext
<1>4. SameOpen(outer, fns'[Depth - 1]) /\ BodyOK(fns'[Depth - 1])
  BY <1>2, <1>3, SameBlocksOpen
<1>5. \A d \in 1 .. Depth - 1 : d = Depth - 1 \/ d \in 1 .. Depth - 2
  BY <1>1
<1>6. \A d \in 1 .. Depth - 1 : SameOpen(fns'[d], fns[d])
  <2>1. SameOpen(fns'[Depth - 1], fns[Depth - 1])
    BY <1>4 DEF SameOpen
  <2> QED BY <1>1, <1>5, <2>1 DEF SameOpen
<1>7. \A b, i : ~IsOpen(fns[Depth], b, i)
  BY <1>1, CurrentBody, NothingOpen DEF restoreContext
<1>8. /\ OpenStatements(fns) = OpenStatements(fns')
      /\ \A p \in OpenStatements(fns') : IsSwitch(fns, p) = IsSwitch(fns', p)
  <2>1. Len(fns) = Len(fns') + 1 /\ \A d \in 1 .. Len(fns') : SameOpen(fns'[d], fns[d])
    BY <1>1, <1>6
  <2>2. \A b, i : ~IsOpen(fns[Len(fns)], b, i)
    BY <1>1, <1>7
  <2> QED BY <1>1, <2>1, <2>2, SameWithout
<1>9. ContextsMatchStatements'
  <2>1. \A p \in OpenStatements(fns) : IsSwitch(fns', p) = IsSwitch(fns, p)
    BY <1>8
  <2> QED BY <1>1, <1>8, <2>1, MatchStays DEF CInv, ContextsMatchStatements
<1>10. BodiesOK'
  <2>1. DOMAIN fns' = 1 .. Depth - 1
    BY <1>1, FunctionsGive
  <2>2. \A d \in 1 .. Depth - 2 : d \in 1 .. Depth
    BY <1>1
  <2> QED BY <1>1, <1>4, <1>5, <2>1, <2>2 DEF CInv, BodiesOK
<1> QED BY <1>9, <1>10 DEF CInv

LEMMA ContextsInductive == IInv /\ IInv' /\ CInv /\ [Next]_vars => CInv'
<1> SUFFICES ASSUME IInv, IInv', CInv, [Next]_vars PROVE CInv'
  OBVIOUS
<1>1. ASSUME loops' = loops
      PROVE  fns' = fns => CInv'
  BY <1>1 DEF CInv, BodiesOK, ContextsMatchStatements
<1>2. CASE identifierNud
  <2>1. PICK n \in Reads : LocalReference(n) \/ CapturedReference(n) \/ resolveCapture(n) \/ GlobalReference(n)
    BY <1>2 DEF identifierNud
  <2>2. CASE resolveCapture(n)
    <3>1. PICK d \in Outer(n) : fns' = WithCapture(n, d)
      BY <2>2 DEF resolveCapture
    <3>2. n \in Names /\ loops' = loops
      BY <2>2, NamesAssumption DEF Names, resolveCapture
    <3>3. Len(fns') = Depth /\ \A e \in 1 .. Depth : fns'[e].blocks = fns[e].blocks
      BY <3>1, <3>2, CaptureOK
    <3>4. fns \in Functions /\ fns' \in Functions /\ Len(fns) = Depth /\ Depth \in Nat /\ Depth > 0
          /\ DOMAIN fns = 1 .. Depth
      <4>1. fns' \in Functions
        BY DEF Functions, IInv, Shape, FunctionsOK
      <4> QED BY <4>1, FunctionsAre, CurrentOK
    <3>5. DOMAIN fns' = 1 .. Depth
      BY <3>3, <3>4, FunctionsGive
    <3>6. \A e \in 1 .. Depth : \A b, i : IsOpen(fns'[e], b, i) = IsOpen(fns[e], b, i)
                                      /\ IsSwitchIn(fns'[e], b, i) = IsSwitchIn(fns[e], b, i)
      BY <3>3 DEF IsOpen, IsSwitchIn
    <3>7. \A p : p \in OpenStatements(fns') <=> p \in OpenStatements(fns)
      BY <3>4, <3>5, <3>6, OpenStatementsAre
    <3>8. ASSUME NEW p \in OpenStatements(fns)
          PROVE  IsSwitch(fns', p) = IsSwitch(fns, p)
      <4>1. PICK d1 \in DOMAIN fns : \E b, i : IsOpen(fns[d1], b, i) /\ p = <<d1, b, i>>
        BY OpenStatementsAre
      <4>2. PICK b, i : IsOpen(fns[d1], b, i) /\ p = <<d1, b, i>>
        BY <4>1
      <4>3. fns'[d1].blocks = fns[d1].blocks /\ p[1] = d1
        BY <3>3, <3>4, <4>2
      <4> QED BY <4>3 DEF IsSwitch
    <3>9. ContextsMatchStatements'
      BY <3>2, <3>7, <3>8, MatchStays DEF CInv, ContextsMatchStatements
    <3>10. BodiesOK'
      BY <3>3, <3>4, <3>5 DEF CInv, BodiesOK, BodyOK
    <3> QED BY <3>9, <3>10 DEF CInv
  <2> QED BY <1>1, <2>1, <2>2 DEF LocalReference, CapturedReference, GlobalReference
<1>3. CASE parenNud \/ parseBreakStatement \/ parseContinueStatement \/ UNCHANGED vars
  BY <1>1, <1>3 DEF parenNud, ParenthesizedGlobal, parseBreakStatement, parseContinueStatement, Jump, vars
<1>4. CASE parseVariableDeclaration
  BY <1>4, DeclarationContexts
<1>5. CASE parseBlockStatement \/ parseCatchClause
  BY <1>5, BlockContexts
<1>6. CASE parseWhileStatement \/ parseSwitchStatement
  BY <1>6, OpenedContexts
<1>7. CASE parseForStatement
  BY <1>7, ForContexts
<1>8. CASE EndStatement
  BY <1>8, EndedContexts
<1>9. CASE parseFunctionDecl \/ parseArrowFunctionBody
  BY <1>9, FunctionContexts
<1>10. CASE restoreContext
  BY <1>10, RestoredContexts
<1> QED BY <1>2, <1>3, <1>4, <1>5, <1>6, <1>7, <1>8, <1>9, <1>10 DEF Next

LEMMA ContextsInitially == Init => CInv
<1> SUFFICES ASSUME Init PROVE CInv
  OBVIOUS
<1>1. loops = <<>> /\ DOMAIN fns = {1} /\ fns[1].blocks = <<EmptyBlock("function", 0)>>
  BY DEF Init, MainProgram
<1>2. EmptyBlock("function", 0).kind = "function" /\ EmptyBlock("function", 0).open = <<>>
  BY DEF EmptyBlock
<1>3. DOMAIN fns[1].blocks = {1} /\ fns[1].blocks[1].kind = "function" /\ fns[1].blocks[1].open = <<>>
  BY <1>1, <1>2
<1>4. BodiesOK
  BY <1>1, <1>3 DEF BodiesOK, BodyOK
<1>5. OpenStatements(fns) = {}
  <2>1. OpenIn(fns[1].blocks[1]) = {}
    <3>1. Len(<<>>) = 0 /\ 1 .. 0 = {}
      OBVIOUS
    <3> QED BY <1>3, <3>1 DEF OpenIn
  <2>2. \A d \in DOMAIN fns : \A b, i : ~IsOpen(fns[d], b, i)
    BY <1>1, <1>3, <2>1 DEF IsOpen
  <2> QED BY <2>2, OpenStatementsAre
<1>6. Matches(loops, fns)
  <2>1. DOMAIN loops = {}
    BY <1>1
  <2>2. PICK place : place \in [DOMAIN loops -> OpenStatements(fns)]
    <3>1. [i \in DOMAIN loops |-> i] \in [DOMAIN loops -> OpenStatements(fns)]
      BY <2>1
    <3> QED BY <3>1
  <2> QED BY <1>5, <2>1, <2>2 DEF Matches
<1> QED BY <1>4, <1>6 DEF CInv, ContextsMatchStatements

LEMMA ContextsAlways == Spec => [](IInv /\ CInv)
BY Inductive, ContextsInitially, ContextsInductive, PTL DEF Spec

\* The parser's stack of loop and switch contexts is at every moment that of the
\* statements that are open, within functions and blocks however deep: one
\* context for each, in the order they were started, with the function it is of
\* and whether it is a switch (pushLoopSwitchContext, popLoopContext, and the
\* functions that are parsed without a context of their own).
THEOREM ContextsFollowStatements == Spec => []ContextsMatchStatements
BY ContextsAlways, PTL DEF CInv

-----------------------------------------------------------------------------
(* Jumps.                                                                  *)

LEMMA JumpIsLocal ==
  ASSUME IInv, CInv, NEW label, NEW isContinue \in BOOLEAN, Jump(label, isContinue)
  PROVE  JumpsAreLocal'
<1>1. PICK i \in Target(label, isContinue) :
        /\ \A j \in Target(label, isContinue) : j <= i
        /\ ref' = [kind |-> "jump", label |-> label, isContinue |-> isContinue, index |-> i]
  BY DEF Jump
<1>2. fns' = fns /\ loops' = loops
  BY DEF Jump
<1> SUFFICES ASSUME label = NoLabel
             PROVE  loops[i].fn = Depth
                      <=> \E b \in DOMAIN Current.blocks : CanBeLeft(Current.blocks[b], isContinue)
  <2>1. ref'.label = label /\ ref'.isContinue = isContinue /\ ref'.index = i
    BY <1>1
  <2>2. Depth' = Depth /\ Current' = Current
    BY <1>2 DEF Depth, Current
  <2> QED BY <1>2, <2>1, <2>2 DEF JumpsAreLocal
<1>3. PICK place \in [DOMAIN loops -> OpenStatements(fns)] :
        /\ \A p \in OpenStatements(fns) : \E j \in DOMAIN loops : place[j] = p
        /\ \A j, k \in DOMAIN loops : j < k => Within(place[j], place[k])
        /\ \A j \in DOMAIN loops : loops[j].fn = place[j][1] /\ loops[j].isSwitch = IsSwitch(fns, place[j])
  BY DEF CInv, ContextsMatchStatements, Matches
<1>4. /\ fns \in Functions /\ Current = fns[Depth] /\ DOMAIN fns = 1 .. Depth /\ Depth \in 1 .. Depth /\ Depth \in Nat
      /\ Current \in Function /\ Blocks(Current) /\ loops \in Seq(LoopContext)
  BY FunctionsAre, CurrentOK DEF IInv, Shape
\* A statement may be left unless it is a switch and the jump is a continue.
<1>5. ASSUME NEW b, NEW m, IsOpen(Current, b, m), isContinue => ~IsSwitchIn(Current, b, m)
      PROVE  CanBeLeft(Current.blocks[b], isContinue) /\ b \in DOMAIN Current.blocks
  <2>1. b \in DOMAIN Current.blocks /\ m \in OpenIn(Current.blocks[b])
    BY <1>5 DEF IsOpen
  <2>2. /\ Current.blocks[b].open \in Seq({"while", "switch"}) /\ Len(Current.blocks[b].open) \in Nat
    BY <1>4, <2>1, BlocksAre
  <2>3. CASE Current.blocks[b].kind = "for"
    BY <2>1, <2>3 DEF CanBeLeft
  <2>4. CASE Current.blocks[b].kind # "for"
    <3>1. m \in 1 .. Len(Current.blocks[b].open) /\ m > 0
      BY <2>1, <2>2, <2>4 DEF OpenIn
    <3>2. m \in DOMAIN Current.blocks[b].open /\ Current.blocks[b].open[m] \in {"while", "switch"}
      BY <2>2, <3>1
    <3> QED BY <1>5, <2>1, <3>1, <3>2 DEF CanBeLeft, IsSwitchIn
  <2> QED BY <2>3, <2>4
<1>6. ASSUME NEW b \in DOMAIN Current.blocks, CanBeLeft(Current.blocks[b], isContinue)
      PROVE  \E m : IsOpen(Current, b, m) /\ (isContinue => ~IsSwitchIn(Current, b, m))
  <2>1. /\ Current.blocks[b].open \in Seq({"while", "switch"}) /\ Len(Current.blocks[b].open) \in Nat
    BY <1>4, BlocksAre
  <2>2. CASE Current.blocks[b].kind = "for"
    <3>1. 0 \in OpenIn(Current.blocks[b]) /\ ~(0 > 0)
      BY <2>1, <2>2 DEF OpenIn
    <3>2. IsOpen(Current, b, 0) /\ ~IsSwitchIn(Current, b, 0)
      BY <3>1 DEF IsOpen, IsSwitchIn
    <3> QED BY <3>2
  <2>3. CASE \E m \in DOMAIN Current.blocks[b].open : Current.blocks[b].open[m] = "while" \/ ~isContinue
    <3>1. PICK m \in DOMAIN Current.blocks[b].open : Current.blocks[b].open[m] = "while" \/ ~isContinue
      BY <2>3
    <3>2. m \in OpenIn(Current.blocks[b])
      BY <2>1, <3>1 DEF OpenIn
    <3> QED BY <3>1, <3>2 DEF IsOpen, IsSwitchIn
  <2> QED BY <1>6, <2>2, <2>3 DEF CanBeLeft
<1>7. i \in DOMAIN loops /\ (isContinue => ~loops[i].isSwitch)
  BY DEF Target
<1>8. ASSUME loops[i].fn = Depth
      PROVE  \E b \in DOMAIN Current.blocks : CanBeLeft(Current.blocks[b], isContinue)
  <2>1. PICK d \in DOMAIN fns : \E b, m : IsOpen(fns[d], b, m) /\ place[i] = <<d, b, m>>
    BY <1>3, <1>7, OpenStatementsAre
  <2>2. PICK b, m : IsOpen(fns[d], b, m) /\ place[i] = <<d, b, m>>
    BY <2>1
  <2>3. d = Depth
    BY <1>3, <1>7, <1>8, <2>2
  <2>4. loops[i].isSwitch = IsSwitchIn(Current, b, m)
    <3>1. IsSwitch(fns, place[i]) = IsSwitchIn(fns[d], b, m)
      BY <2>2 DEF IsSwitch, IsSwitchIn
    <3> QED BY <1>3, <1>4, <1>7, <2>3, <3>1
  <2> QED BY <1>4, <1>5, <1>7, <2>2, <2>3, <2>4
<1>9. ASSUME NEW b \in DOMAIN Current.blocks, CanBeLeft(Current.blocks[b], isContinue)
      PROVE  loops[i].fn = Depth
  <2>1. PICK m : IsOpen(Current, b, m) /\ (isContinue => ~IsSwitchIn(Current, b, m))
    BY <1>6, <1>9
  <2> DEFINE p == <<Depth, b, m>>
  <2>2. p \in OpenStatements(fns)
    BY <1>4, <2>1, OpenStatementsAre
  <2>3. IsSwitch(fns, p) = IsSwitchIn(Current, b, m) /\ p[1] = Depth
    BY <1>4 DEF IsSwitch, IsSwitchIn
  <2> HIDE DEF p
  <2>4. PICK j \in DOMAIN loops : place[j] = p
    BY <1>3, <2>2
  <2>5. loops[j].isSwitch = IsSwitchIn(Current, b, m)
    BY <1>3, <2>3, <2>4
  <2>6. j \in Target(label, isContinue)
    BY <2>1, <2>5 DEF Target
  <2>7. j <= i /\ i \in Nat /\ j \in Nat
    BY <1>1, <1>4, <1>7, <2>6
  <2>8. j = i \/ Within(p, place[i])
    BY <1>3, <1>7, <2>4, <2>7
  <2>9. place[i][1] \in 1 .. Depth
    <3>1. PICK d \in DOMAIN fns : \E c, k : IsOpen(fns[d], c, k) /\ place[i] = <<d, c, k>>
      BY <1>3, <1>7, OpenStatementsAre
    <3> QED BY <1>4, <3>1
  <2>10. place[i][1] = Depth
    BY <1>4, <2>3, <2>4, <2>8, <2>9 DEF Within
  <2> QED BY <1>3, <1>7, <2>10
<1> QED BY <1>8, <1>9

\* A break or a continue without a label goes to a statement of its own function
\* whenever one that it can leave is open there, however functions and statements
\* are within each other; only when none is does the code take one of a function
\* around (parseBreakStatement, parseContinueStatement).
THEOREM JumpsStayInFunctions == Spec => []JumpsAreLocal
<1>1. Init => JumpsAreLocal
  <2> SUFFICES ASSUME Init PROVE JumpsAreLocal
    OBVIOUS
  <2>1. ref.kind = "none"
    BY DEF Init, NoRef
  <2> QED BY <2>1 DEF JumpsAreLocal
<1>2. IInv /\ CInv /\ JumpsAreLocal /\ [Next]_vars => JumpsAreLocal'
  <2> SUFFICES ASSUME IInv, CInv, JumpsAreLocal, [Next]_vars PROVE JumpsAreLocal'
    OBVIOUS
  <2>1. CASE UNCHANGED vars
    BY <2>1 DEF vars, JumpsAreLocal, Depth, Current
  <2>2. ASSUME ref'.kind # "jump"
        PROVE  JumpsAreLocal'
    BY <2>2 DEF JumpsAreLocal
  <2>3. CASE ref' = NoRef
    <3>1. ref'.kind = "none"
      BY <2>3 DEF NoRef
    <3> QED BY <2>2, <3>1
  <2>4. ASSUME NEW n, NEW kind, NEW index, NEW parens, Refer(n, kind, index, parens), kind # "jump"
        PROVE  JumpsAreLocal'
    <3>1. ref'.kind = kind
      BY <2>4 DEF Refer
    <3> QED BY <2>2, <2>4, <3>1
  <2>5. CASE identifierNud \/ parenNud
    BY <2>4, <2>5 DEF identifierNud, LocalReference, CapturedReference, resolveCapture, GlobalReference,
                      parenNud, ParenthesizedGlobal
  <2>6. CASE parseBreakStatement \/ parseContinueStatement
    BY <2>6, JumpIsLocal DEF parseBreakStatement, parseContinueStatement
  <2> QED BY <2>1, <2>3, <2>5, <2>6
       DEF Next, parseVariableDeclaration, parseBlockStatement, parseCatchClause, parseWhileStatement,
           parseSwitchStatement, parseForStatement, EndStatement, parseFunctionDecl,
           parseArrowFunctionBody, restoreContext, Quiet
<1> QED BY <1>1, <1>2, ContextsAlways, PTL DEF Spec
=============================================================================
