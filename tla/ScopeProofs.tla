----------------------------- MODULE ScopeProofs -----------------------------
(***************************************************************************)
(* For every set of names, labels and parameter lists, and for functions   *)
(* and blocks however deep: the parser's contexts keep their types, the    *)
(* captures of a function lead to variables of the function around it, and *)
(* variables that are alive together have slots of their own.              *)
(***************************************************************************)
EXTENDS Scope, SequenceTheorems, WellFoundedInduction, TLAPS

-----------------------------------------------------------------------------
(* What is inductive of a function's blocks.                               *)

\* The slots of a block's variables are its own, and different.
BlockSlots(block) ==
  /\ \A n \in Names : Declares(block, n) =>
       /\ block.variables[n] \in Variable
       /\ block.variables[n].slot \in block.slotBase .. End(block) - 1
  /\ \A n, m \in Names :
       Declares(block, n) /\ Declares(block, m)
         /\ block.variables[n].slot = block.variables[m].slot => n = m

\* Blocks within each other come one after the other, those of a function's
\* outermost block excepted once something was hoisted past an open block.
InOrder(f) ==
  \A b, c \in DOMAIN f.blocks : 1 < b /\ b < c => End(f.blocks[b]) <= f.blocks[c].slotBase
FirstBelow(f) == \A c \in DOMAIN f.blocks : 1 < c => End(f.blocks[1]) <= f.blocks[c].slotBase
Blocks(f) ==
  /\ f.blocks # <<>> /\ f.blocks[1].kind = "function"
  /\ \A b \in DOMAIN f.blocks : b # 1 => f.blocks[b].kind # "function"
  /\ \A b \in DOMAIN f.blocks : BlockSlots(f.blocks[b]) /\ End(f.blocks[b]) <= f.varCount
  /\ InOrder(f) /\ (HoistedPast(f) \/ FirstBelow(f))

Shape == /\ fns \in Seq(Function) /\ fns # <<>>
         /\ loops \in Seq(LoopContext) /\ far \in BOOLEAN
FunctionsOK == \A d \in DOMAIN fns : Blocks(fns[d])
IInv == Shape /\ FunctionsOK

LEMMA BlockEnd ==
  ASSUME NEW block \in Block
  PROVE  /\ block.slotBase \in Nat /\ block.slotCount \in Nat /\ End(block) \in Nat
         /\ block.slotBase <= End(block) /\ block.kind \in BlockKinds
  BY DEF Block, End

LEMMA BlocksGive ==
  ASSUME NEW f \in Function, Blocks(f)
  PROVE  BlocksOK(f) /\ (HoistedPast(f) \/ OwnSlots(f))
  <1>1. BlocksOK(f)
    <2>1. ASSUME NEW b \in DOMAIN f.blocks, NEW n \in Names, Declares(f.blocks[b], n)
          PROVE  /\ SlotOf(f, b, n) \in f.blocks[b].slotBase .. End(f.blocks[b]) - 1
                 /\ SlotOf(f, b, n) < f.varCount
      <3>1. f.blocks[b] \in Block /\ f.varCount \in Nat
        BY DEF Function
      <3>2. /\ SlotOf(f, b, n) \in f.blocks[b].slotBase .. End(f.blocks[b]) - 1
            /\ End(f.blocks[b]) <= f.varCount
        BY <2>1 DEF Blocks, BlockSlots, SlotOf
      <3>. QED
        BY <3>1, <3>2, BlockEnd
    <2>. QED
      BY <2>1 DEF Blocks, BlocksOK
  <1>2. ASSUME ~HoistedPast(f)
        PROVE  OwnSlots(f)
    <2>1. \A b, c \in DOMAIN f.blocks : b < c => End(f.blocks[b]) <= f.blocks[c].slotBase
      <3>1. InOrder(f) /\ FirstBelow(f)
        BY <1>2 DEF Blocks
      <3>. QED
        BY <3>1, SMTT(40) DEF InOrder, FirstBelow, Function
    <2>2. ASSUME NEW b \in DOMAIN f.blocks, NEW c \in DOMAIN f.blocks, NEW n \in Names, NEW m \in Names,
                 Declares(f.blocks[b], n), Declares(f.blocks[c], m),
                 SlotOf(f, b, n) = SlotOf(f, c, m)
          PROVE  b = c /\ n = m
      <3>1. f.blocks[b] \in Block /\ f.blocks[c] \in Block /\ b \in Nat /\ c \in Nat
        BY SMTT(40) DEF Function
      <3>2. /\ SlotOf(f, b, n) \in f.blocks[b].slotBase .. End(f.blocks[b]) - 1
            /\ SlotOf(f, c, m) \in f.blocks[c].slotBase .. End(f.blocks[c]) - 1
        BY <2>2 DEF Blocks, BlockSlots, SlotOf
      <3>3. ~(b < c) /\ ~(c < b)
        BY <2>1, <2>2, <3>1, <3>2, SMTT(40) DEF End, Block
      <3>4. b = c
        BY <3>1, <3>3
      <3>. QED
        BY <3>4, <2>2 DEF Blocks, BlockSlots, SlotOf
    <2>. QED
      BY <2>2 DEF OwnSlots
  <1>. QED
    BY <1>1, <1>2

-----------------------------------------------------------------------------
(* Operators of the model.                                                 *)

\* A set of numbers up to N has a greatest one: the innermost declaration exists.
LEMMA MaxExists ==
  ASSUME NEW N \in Nat, NEW T \in SUBSET (0 .. N), T # {}
  PROVE  \E m \in T : \A x \in T : x <= m
  <1>. DEFINE U == {N - x : x \in T}
              R == OpToRel(<, Nat)
  <1>1. U \subseteq Nat /\ U # {}
    <2>1. \A x \in T : N - x \in Nat
      OBVIOUS
    <2>2. U # {}
      <3>1. PICK x \in T : TRUE
        OBVIOUS
      <3>2. N - x \in U
        BY <3>1
      <3>. QED
        BY <3>2
    <2>. QED
      BY <2>1, <2>2
  <1>2. IsWellFoundedOn(R, Nat)
    BY NatLessThanWellFounded
  <1>3. \A y, z \in Nat : y < z => <<y, z>> \in R
    BY DEF OpToRel
  <1>. HIDE DEF R, U
  <1>4. PICK u \in U : \A y \in U : <<y, u>> \notin R
    BY <1>1, <1>2, WFMin
  <1>. USE DEF U
  <1>5. PICK m \in T : u = N - m
    BY <1>4
  <1>6. \A x \in T : x <= m
    <2>. TAKE x \in T
    <2>1. N - x \in U /\ N - x \in Nat /\ u \in Nat
      BY <1>1, <1>4
    <2>2. ~ (N - x < u)
      BY <2>1, <1>3, <1>4
    <2>. QED
      BY <2>2, <1>5
  <1>. QED
    BY <1>6

LEMMA LastBlock ==
  ASSUME NEW f \in Function, Blocks(f)
  PROVE  /\ Len(f.blocks) \in DOMAIN f.blocks /\ Len(f.blocks) \in Nat \ {0}
         /\ 1 \in DOMAIN f.blocks /\ Last(f.blocks) = f.blocks[Len(f.blocks)]
         /\ Last(f.blocks) \in Block /\ \A b \in DOMAIN f.blocks : f.blocks[b] \in Block
  BY DEF Blocks, Function, Last

LEMMA EmptyBlockOK ==
  ASSUME NEW kind \in BlockKinds, NEW base \in Nat
  PROVE  /\ EmptyBlock(kind, base) \in Block /\ BlockSlots(EmptyBlock(kind, base))
         /\ End(EmptyBlock(kind, base)) = base
         /\ EmptyBlock(kind, base).kind = kind /\ EmptyBlock(kind, base).slotBase = base
  <1>1. EmptyBlock(kind, base) \in Block
    BY DEF EmptyBlock, Block
  <1>2. BlockSlots(EmptyBlock(kind, base))
    BY DEF EmptyBlock, BlockSlots, Declares
  <1>. QED
    BY <1>1, <1>2 DEF EmptyBlock, End

LEMMA WithBlockOK ==
  ASSUME NEW f \in Function, Blocks(f), NEW kind \in BlockKinds \ {"function"}
  PROVE  /\ WithBlock(f, kind) \in Function /\ Blocks(WithBlock(f, kind))
         /\ WithBlock(f, kind).captures = f.captures
  <1>. DEFINE g == WithBlock(f, kind)
              new == newBlock(f, kind)
              k == Len(f.blocks)
  <1>1. /\ k \in Nat \ {0} /\ f.blocks \in Seq(Block) /\ f.varCount \in Nat
        /\ End(f.blocks[k]) \in Nat /\ k \in DOMAIN f.blocks /\ Last(f.blocks) = f.blocks[k]
    BY LastBlock, BlockEnd DEF Function
  <1>2. /\ new \in Block /\ BlockSlots(new) /\ End(new) = End(f.blocks[k])
        /\ new.slotBase = End(f.blocks[k]) /\ new.kind = kind
    BY <1>1, EmptyBlockOK DEF newBlock
  <1>3. g = [f EXCEPT !.blocks = Append(f.blocks, new)]
    BY DEF WithBlock
  <1>. HIDE DEF new
  <1>4. g \in Function /\ g.captures = f.captures /\ g.varCount = f.varCount
        /\ g.blocks = Append(f.blocks, new)
    BY <1>1, <1>2, <1>3, SMTT(30) DEF Function
  <1>. HIDE DEF g
  <1>5. /\ DOMAIN g.blocks = 1 .. k + 1 /\ g.blocks[k + 1] = new /\ g.blocks # <<>> /\ Len(g.blocks) = k + 1
        /\ \A b \in 1 .. k : g.blocks[b] = f.blocks[b]
        /\ DOMAIN f.blocks = 1 .. k
    BY <1>1, <1>2, <1>4, SMTT(40)
  <1>6. \A b \in 1 .. k : f.blocks[b] \in Block /\ End(f.blocks[b]) \in Nat /\ f.blocks[b].slotBase \in Nat
                          /\ f.blocks[b].slotBase <= End(f.blocks[b])
    BY <1>1, <1>5, BlockEnd, SMTT(40)
  <1>7. \A b \in DOMAIN g.blocks : BlockSlots(g.blocks[b]) /\ End(g.blocks[b]) <= g.varCount
    BY <1>1, <1>2, <1>4, <1>5, SMTT(40) DEF Blocks
  <1>. InOrder(f)
    BY DEF Blocks
  <1>8. ASSUME NEW b \in DOMAIN g.blocks, NEW c \in DOMAIN g.blocks, 1 < b, b < c
        PROVE  End(g.blocks[b]) <= g.blocks[c].slotBase
    <2>1. \A a \in 1 .. k : 1 < a => End(f.blocks[a]) <= End(f.blocks[k])
      <3>. TAKE a \in 1 .. k
      <3>1. CASE a < k
        <4>1. 1 < a => End(f.blocks[a]) <= f.blocks[k].slotBase
          BY <1>1, <1>5, <3>1 DEF InOrder
        <4>. QED
          BY <4>1, <1>1, <1>6, SMTT(30)
      <3>2. CASE a = k
        BY <3>2, <1>1
      <3>. QED
        BY <3>1, <3>2, <1>1
    <2>2. CASE c = k + 1
      BY <1>1, <1>2, <1>5, <1>8, <2>1, <2>2, SMTT(40)
    <2>3. CASE c \in 1 .. k
      BY <1>1, <1>5, <1>8, <2>3, SMTT(30) DEF InOrder
    <2>. QED
      BY <2>2, <2>3, <1>1, <1>5
  <1>9. HoistedPast(g) \/ FirstBelow(g)
    <2>1. ASSUME HoistedPast(f)
          PROVE  HoistedPast(g)
      BY <2>1, <1>1, <1>5, SMTT(30) DEF HoistedPast
    <2>2. ASSUME FirstBelow(f)
          PROVE  FirstBelow(g)
      <3>1. End(f.blocks[1]) <= End(f.blocks[k])
        BY <2>2, <1>1, <1>5, <1>6, SMTT(40) DEF FirstBelow
      <3>. QED
        BY <2>2, <3>1, <1>1, <1>2, <1>5, <1>6, SMTT(30) DEF FirstBelow
    <2>. QED
      BY <2>1, <2>2 DEF Blocks
  <1>10. g.blocks[1].kind = "function" /\ \A b \in DOMAIN g.blocks : b # 1 => g.blocks[b].kind # "function"
    <2>1. \A b \in 1 .. k : b # 1 => g.blocks[b].kind # "function"
      BY <1>5 DEF Blocks
    <2>2. g.blocks[1].kind = "function"
      BY <1>1, <1>5, SMTT(40) DEF Blocks
    <2>. QED
      BY <2>1, <2>2, <1>1, <1>2, <1>5, SMTT(40)
  <1>11. Blocks(g)
    BY <1>5, <1>7, <1>8, <1>9, <1>10 DEF Blocks, InOrder
  <1>. QED
    BY <1>4, <1>11 DEF g

LEMMA WithoutBlockOK ==
  ASSUME NEW f \in Function, Blocks(f), Last(f.blocks).kind # "function"
  PROVE  /\ WithoutBlock(f) \in Function /\ Blocks(WithoutBlock(f))
         /\ WithoutBlock(f).captures = f.captures
  <1>. DEFINE g == WithoutBlock(f)
              k == Len(f.blocks)
  <1>1. k \in Nat /\ k > 1 /\ f.blocks \in Seq(Block) /\ f.varCount \in Nat /\ DOMAIN f.blocks = 1 .. k
    BY LastBlock DEF Function, Blocks
  <1>a. /\ SubSeq(f.blocks, 1, k - 1) \in Seq(Block) /\ Len(SubSeq(f.blocks, 1, k - 1)) = k - 1
        /\ \A b \in 1 .. k - 1 : SubSeq(f.blocks, 1, k - 1)[b] = f.blocks[b]
    <2>1. \A b \in 1 .. k - 1 : f.blocks[b] \in Block
      BY <1>1
    <2>. QED
      BY <2>1, <1>1, SubSeqProperties
  <1>b. g = [f EXCEPT !.blocks = SubSeq(f.blocks, 1, k - 1)]
    BY DEF WithoutBlock, Without
  <1>2. g \in Function /\ g.captures = f.captures /\ g.varCount = f.varCount
        /\ g.blocks = SubSeq(f.blocks, 1, k - 1)
    BY <1>a, <1>b DEF Function
  <1>. HIDE DEF g
  <1>3. /\ DOMAIN g.blocks = 1 .. k - 1 /\ g.blocks # <<>> /\ Len(g.blocks) = k - 1
        /\ \A b \in 1 .. k - 1 : g.blocks[b] = f.blocks[b]
    <2>1. Len(g.blocks) = k - 1 /\ g.blocks \in Seq(Block) /\ \A b \in 1 .. k - 1 : g.blocks[b] = f.blocks[b]
      BY <1>2, <1>a
    <2>2. k - 1 \in Nat /\ k - 1 > 0
      BY <1>1
    <2>. QED
      BY <2>1, <2>2
  <1>4. /\ g.blocks[1].kind = "function"
        /\ \A b \in DOMAIN g.blocks : b # 1 => g.blocks[b].kind # "function"
        /\ \A b \in DOMAIN g.blocks : BlockSlots(g.blocks[b]) /\ End(g.blocks[b]) <= g.varCount
    BY <1>1, <1>2, <1>3, SMTT(40) DEF Blocks
  <1>c. InOrder(g)
    <2>1. InOrder(f)
      BY DEF Blocks
    <2>. QED
      BY <2>1, <1>1, <1>3, SMTT(40) DEF InOrder
  <1>5. HoistedPast(g) \/ FirstBelow(g)
    <2>1. ASSUME HoistedPast(f), k > 2
          PROVE  HoistedPast(g)
      BY <2>1, <1>1, <1>3, SMTT(40) DEF HoistedPast
    <2>2. ASSUME k = 2
          PROVE  FirstBelow(g)
      BY <2>2, <1>1, <1>3 DEF FirstBelow
    <2>3. ASSUME FirstBelow(f)
          PROVE  FirstBelow(g)
      BY <2>3, <1>1, <1>3, SMTT(40) DEF FirstBelow
    <2>4. k > 2 \/ k = 2
      <3>1. k \in Nat /\ k > 1
        BY <1>1
      <3>. HIDE DEF k
      <3>. QED
        BY <3>1
    <2>. QED
      BY <2>1, <2>2, <2>3, <2>4, Zenon DEF Blocks
  <1>6. Blocks(g)
    BY <1>3, <1>4, <1>5, <1>c DEF Blocks
  <1>. QED
    BY <1>2, <1>6 DEF g

\* A while or a switch that starts or ends leaves the blocks alone.
LEMMA OpenOK ==
  ASSUME NEW f \in Function, Blocks(f), NEW statements \in Seq({"while", "switch"}),
         NEW g, g = [f EXCEPT !.blocks[Len(f.blocks)].open = statements]
  PROVE  g \in Function /\ Blocks(g) /\ g.captures = f.captures
  <1>. DEFINE k == Len(f.blocks)
              new == [f.blocks[k] EXCEPT !.open = statements]
  <1>1. k \in Nat \ {0} /\ f.blocks \in Seq(Block) /\ DOMAIN f.blocks = 1 .. k /\ f.blocks[k] \in Block
    BY LastBlock DEF Function
  <1>2. new \in Block /\ new.slotBase = f.blocks[k].slotBase /\ new.slotCount = f.blocks[k].slotCount
        /\ new.variables = f.blocks[k].variables /\ new.kind = f.blocks[k].kind
    BY <1>1 DEF Block
  <1>3. g = [f EXCEPT !.blocks = [f.blocks EXCEPT ![k] = new]]
    BY <1>1 DEF Function
  <1>. HIDE DEF new
  <1>a. [f.blocks EXCEPT ![k] = new] \in Seq(Block)
    BY <1>1, <1>2, ExceptSeq
  <1>4. g \in Function /\ g.captures = f.captures /\ g.varCount = f.varCount
        /\ g.blocks = [f.blocks EXCEPT ![k] = new]
    BY <1>3, <1>a DEF Function
  <1>5. /\ DOMAIN g.blocks = DOMAIN f.blocks /\ Len(g.blocks) = k /\ g.blocks # <<>>
        /\ \A b \in DOMAIN f.blocks :
             /\ g.blocks[b].slotBase = f.blocks[b].slotBase /\ g.blocks[b].kind = f.blocks[b].kind
             /\ g.blocks[b].slotCount = f.blocks[b].slotCount
             /\ g.blocks[b].variables = f.blocks[b].variables
    BY <1>1, <1>2, <1>4, SMTT(30)
  <1>6. \A b \in DOMAIN f.blocks : /\ End(g.blocks[b]) = End(f.blocks[b])
                                   /\ BlockSlots(f.blocks[b]) => BlockSlots(g.blocks[b])
    <2>. SUFFICES ASSUME NEW b \in DOMAIN f.blocks
                  PROVE  /\ End(g.blocks[b]) = End(f.blocks[b])
                         /\ BlockSlots(f.blocks[b]) => BlockSlots(g.blocks[b])
      OBVIOUS
    <2>1. PICK was, is : was = f.blocks[b] /\ is = g.blocks[b]
      OBVIOUS
    <2>2. is.slotBase = was.slotBase /\ is.slotCount = was.slotCount /\ is.variables = was.variables
      BY <1>5, <2>1
    <2>3. End(is) = End(was) /\ (BlockSlots(was) => BlockSlots(is))
      BY ONLY <2>2 DEF End, BlockSlots, Declares
    <2>. QED
      BY <2>1, <2>3
  <1>7. HoistedPast(g) \/ FirstBelow(g)
    <2>1. ASSUME HoistedPast(f)
          PROVE  HoistedPast(g)
      <3>1. k > 1 /\ 1 \in DOMAIN f.blocks /\ 2 \in DOMAIN f.blocks
        BY <2>1, <1>1 DEF HoistedPast
      <3>2. End(g.blocks[1]) = End(f.blocks[1]) /\ g.blocks[2].slotBase = f.blocks[2].slotBase
        BY <3>1, <1>5, <1>6
      <3>. QED
        BY <2>1, <3>2, <1>5 DEF HoistedPast
    <2>2. ASSUME FirstBelow(f)
          PROVE  FirstBelow(g)
      BY <2>2, <1>1, <1>5, <1>6, SMTT(40) DEF FirstBelow
    <2>. QED
      BY <2>1, <2>2 DEF Blocks
  <1>b. InOrder(g)
    BY <1>5, <1>6 DEF Blocks, InOrder
  <1>8. Blocks(g)
    <2>1. 1 \in DOMAIN f.blocks
      BY <1>1
    <2>2. g.blocks[1].kind = "function" /\ \A b \in DOMAIN g.blocks : b # 1 => g.blocks[b].kind # "function"
      BY <1>5, <2>1 DEF Blocks
    <2>3. \A b \in DOMAIN g.blocks : BlockSlots(g.blocks[b]) /\ End(g.blocks[b]) <= g.varCount
      BY <1>4, <1>5, <1>6 DEF Blocks
    <2>. QED
      BY <2>2, <2>3, <1>5, <1>7, <1>b DEF Blocks
  <1>. QED
    BY <1>4, <1>8

\* A declaration goes to the block of the function or to the innermost one.
LEMMA DefineOK ==
  ASSUME NEW f \in Function, Blocks(f), NEW b \in {1, Len(f.blocks)},
         NEW n \in Names, NEW decl \in Decls, NEW init \in BOOLEAN
  PROVE  /\ defineVariable(f, b, n, decl, init) \in Function
         /\ Blocks(defineVariable(f, b, n, decl, init))
         /\ defineVariable(f, b, n, decl, init).captures = f.captures
  <1>1. CASE Declares(f.blocks[b], n)
    BY <1>1 DEF defineVariable
  <1>2. CASE ~Declares(f.blocks[b], n)
    <2>. DEFINE block == f.blocks[b]
                k == Len(f.blocks)
                vr == [slot |-> End(block), decl |-> decl, initialized |-> init]
                new == [block EXCEPT !.variables[n] = vr, !.slotCount = @ + 1]
                count == IF End(block) + 1 > f.varCount THEN End(block) + 1 ELSE f.varCount
                g == defineVariable(f, b, n, decl, init)
    <2>1. /\ k \in Nat \ {0} /\ f.blocks \in Seq(Block) /\ DOMAIN f.blocks = 1 .. k
          /\ b \in 1 .. k /\ block \in Block /\ End(block) \in Nat /\ f.varCount \in Nat
          /\ block.slotBase \in Nat /\ block.slotCount \in Nat /\ block.slotBase <= End(block)
      BY LastBlock, BlockEnd, SMTT(40) DEF Function
    <2>2. vr \in Variable
      BY <2>1 DEF Variable
    <2>a. block.variables \in [Names -> Variable \cup {Absent}]
      BY <2>1 DEF Block
    <2>b. [block.variables EXCEPT ![n] = vr] \in [Names -> Variable \cup {Absent}]
      BY <2>2, <2>a
    <2>3. /\ new \in Block /\ new.slotBase = block.slotBase /\ new.kind = block.kind
          /\ new.slotCount = block.slotCount + 1
          /\ new.variables = [block.variables EXCEPT ![n] = vr]
      <3>. HIDE DEF vr
      <3>1. block.slotCount + 1 \in Nat
        BY <2>1, SMTT(40)
      <3>. QED
        BY <2>1, <2>b, <3>1 DEF Block
    <2>4. g = [f EXCEPT !.blocks[b] = new, !.varCount = count]
      BY <1>2, Zenon DEF defineVariable
    <2>5. BlockSlots(new) /\ End(new) = End(block) + 1
      <3>1. End(new) = End(block) + 1
        <4>. HIDE DEF new
        <4>1. End(new) = new.slotBase + new.slotCount /\ End(block) = block.slotBase + block.slotCount
          BY DEF End
        <4>. QED
          BY <4>1, <2>1, <2>3, SMTT(40)
      <3>2. \A m \in Names \ {n} : new.variables[m] = block.variables[m]
        BY <2>3, <2>a
      <3>3. new.variables[n] = vr /\ vr.slot = End(block)
        BY <2>3, <2>a
      <3>4. BlockSlots(block)
        BY <2>1 DEF Blocks
      <3>5. \A m \in Names \ {n} : Declares(block, m) =>
              block.variables[m].slot \in block.slotBase .. End(block) - 1
        BY <3>4 DEF BlockSlots
      <3>. HIDE DEF new, vr, block
      <3>6. ASSUME NEW m \in Names, Declares(new, m)
            PROVE  /\ new.variables[m] \in Variable
                   /\ new.variables[m].slot \in new.slotBase .. End(new) - 1
        <4>1. CASE m = n
          BY <4>1, <2>1, <2>2, <2>3, <3>1, <3>3
        <4>2. CASE m # n
          <5>1. new.variables[m] = block.variables[m] /\ Declares(block, m)
            BY <4>2, <3>2, <3>6 DEF Declares
          <5>2. new.variables[m] \in Variable
            BY <5>1, <3>4 DEF BlockSlots
          <5>. QED
            BY <5>1, <5>2, <4>2, <3>1, <3>5, <2>1, <2>3, SMTT(40)
        <4>. QED
          BY <4>1, <4>2
      <3>7. ASSUME NEW m \in Names, NEW o \in Names, Declares(new, m), Declares(new, o),
                   new.variables[m].slot = new.variables[o].slot
            PROVE  m = o
        <4>1. \A p \in Names \ {n} : Declares(new, p) =>
                /\ Declares(block, p) /\ new.variables[p] = block.variables[p]
                /\ new.variables[p].slot # End(block)
          BY <3>2, <3>5, <2>1, SMTT(40) DEF Declares
        <4>2. CASE m = n \/ o = n
          BY <4>1, <4>2, <3>3, <3>7
        <4>3. CASE m # n /\ o # n
          BY <4>1, <4>3, <3>4, <3>7 DEF BlockSlots
        <4>. QED
          BY <4>2, <4>3
      <3>. QED
        BY <3>1, <3>6, <3>7 DEF BlockSlots
    <2>6. count \in Nat /\ count >= f.varCount /\ count >= End(block) + 1
      BY <2>1
    <2>. HIDE DEF new, vr, count, g
    <2>c. [f.blocks EXCEPT ![b] = new] \in Seq(Block)
      BY <2>1, <2>3, ExceptSeq
    <2>d. g = [f EXCEPT !.blocks = [f.blocks EXCEPT ![b] = new], !.varCount = count]
      BY <2>4
    <2>7. /\ g \in Function /\ g.captures = f.captures /\ g.varCount = count
          /\ g.blocks = [f.blocks EXCEPT ![b] = new]
      BY <2>6, <2>c, <2>d DEF Function
    <2>8. /\ DOMAIN g.blocks = 1 .. k /\ Len(g.blocks) = k /\ g.blocks # <<>>
          /\ g.blocks[b] = new
          /\ \A c \in 1 .. k : c # b => g.blocks[c] = f.blocks[c]
          /\ \A c \in 1 .. k : g.blocks[c].slotBase = f.blocks[c].slotBase
                               /\ g.blocks[c].kind = f.blocks[c].kind
      BY <2>1, <2>3, <2>7, SMTT(40)
    <2>9. \A c \in 1 .. k : f.blocks[c].slotBase \in Nat /\ End(f.blocks[c]) \in Nat
                            /\ f.blocks[c].slotBase <= End(f.blocks[c])
      BY LastBlock, BlockEnd, <2>1
    <2>10. \A c \in DOMAIN g.blocks : BlockSlots(g.blocks[c]) /\ End(g.blocks[c]) <= g.varCount
      <3>1. \A c \in 1 .. k : BlockSlots(f.blocks[c]) /\ End(f.blocks[c]) <= f.varCount
        BY <2>1 DEF Blocks
      <3>. TAKE c \in DOMAIN g.blocks
      <3>2. CASE c = b
        BY <3>2, <2>5, <2>6, <2>7, <2>8
      <3>3. CASE c # b
        <4>1. BlockSlots(g.blocks[c]) /\ End(g.blocks[c]) = End(f.blocks[c]) /\ End(f.blocks[c]) <= f.varCount
          BY <3>1, <3>3, <2>8
        <4>2. f.varCount \in Nat /\ End(f.blocks[c]) \in Nat /\ g.varCount \in Nat /\ g.varCount >= f.varCount
          BY <2>1, <2>6, <2>7, <2>8, <2>9
        <4>. QED
          BY <4>1, <4>2
      <3>. QED
        BY <3>2, <3>3
    <2>11. InOrder(g)
      <3>1. \A c, d \in 1 .. k : 1 < c /\ c < d => c # b
        BY <2>1
      <3>. QED
        BY <3>1, <2>1, <2>8, SMTT(40) DEF Blocks, InOrder
    <2>12. HoistedPast(g) \/ FirstBelow(g)
      <3>1. CASE k = 1
        BY <3>1, <2>8 DEF FirstBelow
      <3>2. CASE k > 1 /\ b = 1
        <4>1. \A c \in 1 .. k : 2 < c => f.blocks[2].slotBase <= f.blocks[c].slotBase
          <5>1. \A c \in 1 .. k : 2 < c => End(f.blocks[2]) <= f.blocks[c].slotBase
            BY <2>1, <3>2, SMTT(30) DEF Blocks, InOrder
          <5>2. f.blocks[2].slotBase \in Nat /\ End(f.blocks[2]) \in Nat
                /\ f.blocks[2].slotBase <= End(f.blocks[2])
            BY <2>1, <2>9, <3>2
          <5>. QED
            BY <5>1, <5>2, <2>9, SMTT(40)
        <4>2. End(g.blocks[1]) \in Nat /\ f.blocks[2].slotBase \in Nat
          BY <2>1, <2>5, <2>8, <2>9, <3>2, SMTT(40)
        <4>3. ASSUME End(g.blocks[1]) > f.blocks[2].slotBase
              PROVE  HoistedPast(g)
          BY <4>3, <2>8, <2>1, <3>2 DEF HoistedPast
        <4>4. ASSUME End(g.blocks[1]) <= f.blocks[2].slotBase
              PROVE  FirstBelow(g)
          <5>1. \A c \in 1 .. k : 1 < c => End(g.blocks[1]) <= f.blocks[c].slotBase
            <6>. TAKE c \in 1 .. k
            <6>1. 2 < c => f.blocks[2].slotBase <= f.blocks[c].slotBase
              BY <4>1
            <6>2. f.blocks[c].slotBase \in Nat
              BY <2>9
            <6>. QED
              BY <6>1, <6>2, <4>2, <4>4, <2>1, SMTT(40)
          <5>. QED
            BY <5>1, <2>8 DEF FirstBelow
        <4>5. End(g.blocks[1]) > f.blocks[2].slotBase \/ End(g.blocks[1]) <= f.blocks[2].slotBase
          BY <4>2
        <4>. QED
          BY <4>3, <4>4, <4>5, Zenon
      <3>3. CASE k > 1 /\ b = k
        <4>1. g.blocks[1] = f.blocks[1]
          BY <3>3, <2>1, <2>8
        <4>2. ASSUME HoistedPast(f)
              PROVE  HoistedPast(g)
          BY <4>1, <4>2, <3>3, <2>1, <2>8, SMTT(40) DEF HoistedPast
        <4>3. ASSUME FirstBelow(f)
              PROVE  FirstBelow(g)
          BY <4>1, <4>3, <2>1, <2>8 DEF FirstBelow
        <4>. QED
          BY <4>2, <4>3 DEF Blocks
      <3>4. k = 1 \/ (k > 1 /\ b = 1) \/ (k > 1 /\ b = k)
        <4>1. k \in Nat /\ k > 0 /\ b \in {1, k}
          BY <2>1
        <4>. HIDE DEF k
        <4>. QED
          BY <4>1
      <3>. QED
        BY <3>1, <3>2, <3>3, <3>4, Zenon
    <2>13. g.blocks[1].kind = "function" /\ \A c \in DOMAIN g.blocks : c # 1 => g.blocks[c].kind # "function"
      BY <2>1, <2>8, SMTT(40) DEF Blocks
    <2>14. Blocks(g)
      BY <2>8, <2>10, <2>11, <2>12, <2>13 DEF Blocks
    <2>. QED
      BY <2>7, <2>14 DEF g
  <1>. QED
    BY <1>1, <1>2

LEMMA NewFunctionOK ==
  ASSUME NEW ps \in ParamLists, NEW isArrow \in BOOLEAN
  PROVE  /\ NewFunction(ps, isArrow) \in Function /\ Blocks(NewFunction(ps, isArrow))
         /\ NewFunction(ps, isArrow).captures = <<>>
  <1>. DEFINE block == FunctionBlock(ps, isArrow)
              own == IF isArrow THEN {} ELSE {"this", "arguments"}
              slot(n) == IF n = "this" THEN Len(ps)
                         ELSE IF n = "arguments" THEN Len(ps) + 1 ELSE ParamSlot(ps, n)
              count == Len(ps) + IF isArrow THEN 0 ELSE 2
              f == NewFunction(ps, isArrow)
  <1>1. ps \in Seq(UserNames) /\ Len(ps) \in Nat /\ count \in Nat
        /\ (own # {} => count = Len(ps) + 2) /\ count >= Len(ps)
    BY ParamsAssumption
  <1>2. \A n \in ParamNames(ps) : /\ ParamSlot(ps, n) \in 0 .. Len(ps) - 1
                                  /\ ps[ParamSlot(ps, n) + 1] = n
                                  /\ n \in UserNames
    <2>. TAKE n \in ParamNames(ps)
    <2>1. PICK i \in DOMAIN ps : ps[i] = n
      BY DEF ParamNames
    <2>. DEFINE j == CHOOSE k \in DOMAIN ps : ps[k] = n
    <2>2. j \in DOMAIN ps /\ ps[j] = n
      BY <2>1
    <2>3. j \in 1 .. Len(ps) /\ ParamSlot(ps, n) = j - 1
      BY <2>2, <1>1 DEF ParamSlot
    <2>. HIDE DEF j
    <2>. QED
      BY <2>2, <2>3, <1>1
  <1>3. \A n \in ParamNames(ps) \cup own : slot(n) \in 0 .. count - 1
    <2>1. \A n \in ParamNames(ps) : slot(n) = ParamSlot(ps, n)
      BY <1>2, NamesAssumption
    <2>2. \A n \in own : slot(n) \in Len(ps) .. Len(ps) + 1 /\ own # {}
      BY <1>1
    <2>. QED
      BY <2>1, <2>2, <1>1, <1>2
  <1>4. \A n, m \in ParamNames(ps) \cup own : slot(n) = slot(m) => n = m
    <2>1. \A n \in ParamNames(ps) : slot(n) = ParamSlot(ps, n) /\ slot(n) < Len(ps) /\ ps[slot(n) + 1] = n
      BY <1>1, <1>2, NamesAssumption
    <2>2. \A n \in own : slot(n) >= Len(ps) /\ n \in {"this", "arguments"}
      BY <1>1
    <2>3. \A n, m \in own : slot(n) = slot(m) => n = m
      BY <2>2, <1>1
    <2>4. \A n \in ParamNames(ps), m \in own : slot(n) # slot(m)
      <3>1. \A n \in ParamNames(ps) : slot(n) \in Int
        BY <2>1, <1>2
      <3>2. \A m \in own : slot(m) \in Int
        BY <2>2, <1>1
      <3>. HIDE DEF slot, own
      <3>. QED
        BY <3>1, <3>2, <2>1, <2>2, <1>1
    <2>5. \A n, m \in ParamNames(ps) : slot(n) = slot(m) => n = m
      <3>. HIDE DEF slot
      <3>. QED
        BY <2>1
    <2>. HIDE DEF slot, own
    <2>. QED
      BY <2>3, <2>4, <2>5
  <1>. DEFINE decl(n) == IF n = "this" THEN "const" ELSE "var"
              vr(n) == [slot |-> slot(n), decl |-> decl(n), initialized |-> TRUE]
              variables == [n \in Names |-> IF n \notin ParamNames(ps) \cup own THEN Absent ELSE vr(n)]
  <1>5. block = [kind |-> "function", open |-> <<>>, variables |-> variables,
                 slotBase |-> 0, slotCount |-> count]
    BY DEF FunctionBlock
  <1>6. \A n \in ParamNames(ps) \cup own : vr(n) \in Variable /\ vr(n) # Absent /\ vr(n).slot = slot(n)
    <2>1. \A n \in ParamNames(ps) \cup own : slot(n) \in Nat /\ decl(n) \in Decls
      BY <1>1, <1>3 DEF Decls
    <2>2. \A n : vr(n).decl = decl(n) /\ decl(n) # "none" /\ vr(n).slot = slot(n)
      OBVIOUS
    <2>. HIDE DEF slot, decl, own
    <2>. QED
      BY <2>1, <2>2 DEF Variable, Absent
  <1>7. variables \in [Names -> Variable \cup {Absent}]
    <2>. HIDE DEF vr, own
    <2>. QED
      BY <1>6
  <1>8. \A n \in Names : variables[n] # Absent =>
          n \in ParamNames(ps) \cup own /\ variables[n] = vr(n)
    OBVIOUS
  <1>. HIDE DEF variables, vr, slot, own, count
  <1>9. block \in Block /\ block.kind = "function" /\ End(block) = count /\ block.slotCount = count
    <2>1. 0 + count = count /\ 0 \in Nat
      BY <1>1
    <2>. QED
      BY <1>1, <1>5, <1>7, <2>1 DEF Block, BlockKinds, End
  <1>10. BlockSlots(block)
    <2>1. \A n \in Names : Declares(block, n) =>
            n \in ParamNames(ps) \cup own /\ block.variables[n] = vr(n)
      BY <1>5, <1>8 DEF Declares
    <2>. QED
      BY <2>1, <1>3, <1>4, <1>5, <1>6, <1>9 DEF BlockSlots
  <1>. HIDE DEF block
  <1>11. f = [blocks |-> <<block>>, captures |-> <<>>, varCount |-> count]
    BY <1>9 DEF NewFunction, block
  <1>12. f \in Function
    BY <1>1, <1>9, <1>11 DEF Function
  <1>13. Blocks(f)
    <2>1. DOMAIN f.blocks = {1} /\ f.blocks[1] = block /\ f.blocks # <<>> /\ f.varCount = count
      BY <1>11
    <2>2. InOrder(f) /\ FirstBelow(f)
      BY <2>1 DEF InOrder, FirstBelow
    <2>3. End(block) <= count
      BY <1>1, <1>9
    <2>. QED
      BY <2>1, <2>2, <2>3, <1>9, <1>10 DEF Blocks
  <1>. QED
    BY <1>11, <1>12, <1>13

-----------------------------------------------------------------------------
(* The parser's contexts.                                                  *)

LEMMA CurrentOK ==
  ASSUME IInv
  PROVE  /\ Depth \in Nat /\ Depth > 0 /\ Depth \in DOMAIN fns /\ DOMAIN fns = 1 .. Depth
         /\ Current \in Function /\ Blocks(Current)
         /\ \A d \in 1 .. Depth : fns[d] \in Function /\ Blocks(fns[d])
  BY DEF IInv, Shape, FunctionsOK, Depth, Current

LEMMA ChangedOK ==
  ASSUME IInv, NEW g \in Function, Blocks(g), Changed(g)
  PROVE  /\ fns' \in Seq(Function) /\ fns' # <<>> /\ FunctionsOK'
         /\ Len(fns') = Depth /\ fns'[Depth] = g /\ \A d \in 1 .. Depth - 1 : fns'[d] = fns[d]
  <1>1. /\ fns' \in Seq(Function) /\ Len(fns') = Depth
        /\ \A d \in 1 .. Depth : fns'[d] = IF d = Depth THEN g ELSE fns[d]
    BY CurrentOK, ExceptSeq DEF Changed, IInv, Shape, Depth
  <1>2. DOMAIN fns' = 1 .. Depth /\ fns' # <<>>
    BY <1>1, CurrentOK
  <1>3. \A d \in 1 .. Depth : Blocks(fns'[d])
    BY <1>1, CurrentOK
  <1>. QED
    BY <1>1, <1>2, <1>3, CurrentOK DEF FunctionsOK

LEMMA PushedOK ==
  ASSUME IInv, NEW g \in Function, Blocks(g), fns' = Append(fns, g)
  PROVE  /\ fns' \in Seq(Function) /\ fns' # <<>> /\ FunctionsOK'
         /\ Len(fns') = Depth + 1 /\ fns'[Depth + 1] = g /\ \A d \in 1 .. Depth : fns'[d] = fns[d]
  <1>1. /\ fns' \in Seq(Function) /\ Len(fns') = Depth + 1 /\ DOMAIN fns' = 1 .. Depth + 1 /\ fns' # <<>>
        /\ fns'[Depth + 1] = g /\ \A d \in 1 .. Depth : fns'[d] = fns[d]
    BY CurrentOK DEF IInv, Shape, Depth
  <1>2. \A d \in 1 .. Depth + 1 : Blocks(fns'[d])
    BY <1>1, CurrentOK
  <1>. QED
    BY <1>1, <1>2 DEF FunctionsOK

LEMMA WithoutOK ==
  ASSUME NEW S, NEW s \in Seq(S)
  PROVE  /\ Without(s) \in Seq(S)
         /\ s # <<>> => /\ Len(Without(s)) = Len(s) - 1
                        /\ \A i \in 1 .. Len(s) - 1 : Without(s)[i] = s[i]
  <1>1. Len(s) \in Nat /\ \A i \in 1 .. Len(s) - 1 : s[i] \in S
    OBVIOUS
  <1>a. Len(s) - 1 \in Int
    BY <1>1
  <1>2. PICK k \in Int : k = Len(s) - 1
    BY <1>a
  <1>3. /\ SubSeq(s, 1, k) \in Seq(S)
        /\ Len(SubSeq(s, 1, k)) = IF 1 <= k THEN k - 1 + 1 ELSE 0
        /\ \A i \in 1 .. k - 1 + 1 : SubSeq(s, 1, k)[i] = s[1 + i - 1]
    BY <1>1, <1>2, SubSeqProperties
  <1>4. Without(s) = SubSeq(s, 1, k)
    BY <1>2 DEF Without
  <1>5. ASSUME s # <<>>
        PROVE  k \in Nat
    BY <1>1, <1>2, <1>5
  <1>6. ASSUME s # <<>>
        PROVE  Len(SubSeq(s, 1, k)) = k /\ \A i \in 1 .. k : SubSeq(s, 1, k)[i] = s[i]
    BY <1>3, <1>5, <1>6
  <1>. QED
    BY <1>2, <1>3, <1>4, <1>6

\* What a function leaves behind: the functions around it, that just around it
\* perhaps with a declaration.
LEMMA PoppedOK ==
  ASSUME IInv, restoreContext
  PROVE  /\ fns' \in Seq(Function) /\ fns' # <<>> /\ FunctionsOK'
         /\ Depth > 1 /\ Len(fns') = Depth - 1 /\ \A d \in 1 .. Depth - 2 : fns'[d] = fns[d]
         /\ fns'[Depth - 1].captures = fns[Depth - 1].captures
  <1>. DEFINE rest == Without(fns)
              outer == fns[Depth - 1]
  <1>1. Depth > 1 /\ Depth \in Nat
    BY CurrentOK, SMTT(30) DEF restoreContext
  <1>2. /\ rest \in Seq(Function) /\ Len(rest) = Depth - 1
        /\ \A d \in 1 .. Depth - 1 : rest[d] = fns[d]
    BY WithoutOK, CurrentOK DEF IInv, Shape, Depth
  <1>3. PICK g \in Function :
          /\ Blocks(g) /\ g.captures = outer.captures
          /\ fns' = rest \/ fns' = [rest EXCEPT ![Depth - 1] = g]
    <2>1. outer \in Function /\ Blocks(outer)
      BY <1>1, CurrentOK
    <2>2. CASE fns' = rest
      BY <2>1, <2>2
    <2>3. ASSUME NEW name \in UserNames,
                 fns' = [rest EXCEPT ![Depth - 1] = defineVariable(outer, 1, name, "var", TRUE)]
          PROVE  \E g \in Function : /\ Blocks(g) /\ g.captures = outer.captures
                                     /\ fns' = [rest EXCEPT ![Depth - 1] = g]
      <3>1. name \in Names /\ "var" \in Decls /\ TRUE \in BOOLEAN /\ 1 \in {1, Len(outer.blocks)}
        BY DEF Names, Decls
      <3>. QED
        BY <2>1, <2>3, <3>1, DefineOK
    <2>. QED
      BY <2>2, <2>3 DEF restoreContext
  <1>. HIDE DEF rest, outer
  <1>4. [rest EXCEPT ![Depth - 1] = g] \in Seq(Function) /\ Len([rest EXCEPT ![Depth - 1] = g]) = Depth - 1
        /\ \A d \in 1 .. Depth - 1 : [rest EXCEPT ![Depth - 1] = g][d] = IF d = Depth - 1 THEN g ELSE rest[d]
    BY <1>1, <1>2, ExceptSeq
  <1>5. /\ fns' \in Seq(Function) /\ Len(fns') = Depth - 1
        /\ \A d \in 1 .. Depth - 1 : fns'[d] = fns[d] \/ (d = Depth - 1 /\ fns'[d] = g)
    BY <1>2, <1>3, <1>4
  <1>6. DOMAIN fns' = 1 .. Depth - 1 /\ fns' # <<>>
    BY <1>1, <1>5
  <1>7. \A d \in 1 .. Depth - 1 : Blocks(fns'[d])
    BY <1>1, <1>3, <1>5, CurrentOK
  <1>8. fns'[Depth - 1].captures = fns[Depth - 1].captures
    BY <1>1, <1>3, <1>5 DEF outer
  <1>9. \A d \in 1 .. Depth - 2 : fns'[d] = fns[d]
    BY <1>1, <1>5
  <1>. QED
    BY <1>1, <1>5, <1>6, <1>7, <1>8, <1>9 DEF FunctionsOK

LEMMA LoopsOK ==
  ASSUME IInv
  PROVE  /\ popLoopContext \in Seq(LoopContext)
         /\ \A isSwitch \in BOOLEAN : pushLoopSwitchContext(isSwitch) => loops' \in Seq(LoopContext)
  <1>1. popLoopContext \in Seq(LoopContext)
    BY WithoutOK DEF popLoopContext, IInv, Shape
  <1>2. ASSUME NEW isSwitch \in BOOLEAN, pushLoopSwitchContext(isSwitch)
        PROVE  loops' \in Seq(LoopContext)
    <2>1. PICK label \in Labels \cup {NoLabel} :
            loops' = Append(loops, [fn |-> Depth, label |-> label, isSwitch |-> isSwitch])
      BY <1>2 DEF pushLoopSwitchContext
    <2>2. [fn |-> Depth, label |-> label, isSwitch |-> isSwitch] \in LoopContext
      BY CurrentOK DEF LoopContext
    <2>. QED
      BY <2>1, <2>2 DEF IInv, Shape
  <1>. QED
    BY <1>1, <1>2

\* The entry that a capture adds, whoever gets it
LEMMA ResolveType ==
  ASSUME NEW f \in Function, Blocks(f), NEW n \in Names, Visible(f, n)
  PROVE  resolveVariable(f, n) \in Variable
  <1>. DEFINE T == {c \in DOMAIN f.blocks : Declares(f.blocks[c], n)}
  <1>1. DOMAIN f.blocks = 1 .. Len(f.blocks) /\ Len(f.blocks) \in Nat
    BY LastBlock DEF Function
  <1>2. T \in SUBSET (0 .. Len(f.blocks)) /\ T # {}
    BY <1>1 DEF Visible
  <1>3. PICK m \in T : \A x \in T : x <= m
    BY <1>1, <1>2, MaxExists
  <1>4. /\ m \in DOMAIN f.blocks /\ Declares(f.blocks[m], n)
        /\ \A d \in DOMAIN f.blocks : Declares(f.blocks[d], n) => d <= m
    BY <1>3
  <1>. DEFINE b == CHOOSE c \in DOMAIN f.blocks :
                     /\ Declares(f.blocks[c], n)
                     /\ \A d \in DOMAIN f.blocks : Declares(f.blocks[d], n) => d <= c
  <1>5. b \in DOMAIN f.blocks /\ Declares(f.blocks[b], n)
    BY <1>4
  <1>6. resolveVariable(f, n) = f.blocks[b].variables[n]
    BY DEF resolveVariable
  <1>. HIDE DEF b
  <1>. QED
    BY <1>5, <1>6 DEF Blocks, BlockSlots

LEMMA LinkType ==
  ASSUME NEW f \in Function, Blocks(f), NEW n \in Names, Visible(f, n) \/ Captures(f, n)
  PROVE  Link(f, n) \in Capture
  <1>1. CASE Visible(f, n)
    <2>1. resolveVariable(f, n).slot \in Nat
      BY <1>1, ResolveType DEF Variable
    <2>. QED
      BY <1>1, <2>1 DEF Link, Capture
  <1>2. CASE ~Visible(f, n)
    <2>1. CaptureIndex(f, n) \in DOMAIN f.captures
      BY <1>2 DEF Captures, CaptureIndex
    <2>2. CaptureIndex(f, n) \in Nat
      BY <2>1 DEF Function
    <2>. QED
      BY <1>2, <2>2 DEF Link, Capture
  <1>. QED
    BY <1>1, <1>2

\* A function that gets another entry keeps its blocks.
LEMMA EntryOK ==
  ASSUME NEW f \in Function, Blocks(f), NEW c \in Capture,
         NEW g, g = [f EXCEPT !.captures = Append(@, c)]
  PROVE  /\ g \in Function /\ Blocks(g) /\ g.captures = Append(f.captures, c)
         /\ g.blocks = f.blocks
  <1>1. Append(f.captures, c) \in Seq(Capture)
    BY DEF Function
  <1>2. g \in Function /\ g.captures = Append(f.captures, c) /\ g.blocks = f.blocks /\ g.varCount = f.varCount
    BY <1>1 DEF Function
  <1>3. Blocks(g)
    BY <1>2 DEF Blocks, InOrder, FirstBelow, HoistedPast
  <1>. QED
    BY <1>2, <1>3

\* Where the name is the nearest function's, the current function gets an entry,
\* and so does the function around it if it is not that one.
LEMMA CaptureOK ==
  ASSUME IInv, NEW n \in Names, NEW d \in Outer(n), fns' = WithCapture(n, d)
  PROVE  /\ fns' \in Seq(Function) /\ fns' # <<>> /\ FunctionsOK' /\ Len(fns') = Depth
         /\ Depth > 1 /\ d \in 1 .. Depth - 1
         /\ \A e \in 1 .. Depth : fns'[e].blocks = fns[e].blocks
         /\ \A e \in 1 .. Depth - 2 : fns'[e] = fns[e]
         /\ d = Depth - 1 =>
              /\ fns'[Depth - 1] = fns[Depth - 1]
              /\ fns'[Depth].captures = Append(fns[Depth].captures, Link(fns[d], n))
         /\ d # Depth - 1 =>
              /\ fns'[Depth - 1].captures = Append(fns[Depth - 1].captures, Link(fns[d], n))
              /\ fns'[Depth].captures =
                   Append(fns[Depth].captures,
                          [name |-> n, index |-> Len(fns[Depth - 1].captures) + 1, isCapture |-> TRUE])
  <1>1. /\ Depth \in Nat /\ Depth > 1 /\ d \in 1 .. Depth - 1 /\ Depth - 1 \in 1 .. Depth
        /\ Visible(fns[d], n) \/ Captures(fns[d], n)
    BY CurrentOK DEF Outer
  <1>2. /\ \A e \in 1 .. Depth : fns[e] \in Function /\ Blocks(fns[e])
        /\ fns \in Seq(Function) /\ Len(fns) = Depth
    BY CurrentOK DEF IInv, Shape, Depth
  <1>. DEFINE link == Link(fns[d], n)
              passed == [name |-> n, index |-> Len(fns[Depth - 1].captures) + 1, isCapture |-> TRUE]
              to(e, c) == [fns[e] EXCEPT !.captures = Append(@, c)]
  <1>3. link \in Capture
    BY <1>1, <1>2, LinkType
  <1>4. passed \in Capture
    BY <1>1, <1>2, SMTT(40) DEF Capture, Function
  <1>. HIDE DEF link, passed
  <1>5. \A e \in 1 .. Depth, c \in Capture :
          /\ to(e, c) \in Function /\ Blocks(to(e, c)) /\ to(e, c).captures = Append(fns[e].captures, c)
          /\ to(e, c).blocks = fns[e].blocks
    BY <1>2, EntryOK
  <1>6. CASE d = Depth - 1
    <2>1. fns' = [fns EXCEPT ![Depth] = to(Depth, link)]
      BY <1>6 DEF WithCapture, link
    <2>. HIDE DEF to
    <2>2. /\ fns' \in Seq(Function) /\ Len(fns') = Depth
          /\ \A e \in 1 .. Depth : fns'[e] = IF e = Depth THEN to(Depth, link) ELSE fns[e]
      BY <2>1, <1>1, <1>2, <1>3, <1>5, ExceptSeq
    <2>3. DOMAIN fns' = 1 .. Depth /\ fns' # <<>>
      BY <2>2, <1>1
    <2>4. FunctionsOK'
      BY <2>2, <2>3, <1>1, <1>2, <1>3, <1>5, SMTT(40) DEF FunctionsOK
    <2>5. \A e \in 1 .. Depth : fns'[e].blocks = fns[e].blocks
      BY <2>2, <1>1, <1>3, <1>5
    <2>6. fns'[Depth].captures = Append(fns[Depth].captures, link)
      BY <2>2, <1>1, <1>3, <1>5
    <2>7. \A e \in 1 .. Depth - 1 : fns'[e] = fns[e]
      BY <2>2, <1>1
    <2>. QED
      BY <2>2, <2>3, <2>4, <2>5, <2>6, <2>7, <1>1, <1>6 DEF link
  <1>7. CASE d # Depth - 1
    <2>1. fns' = [fns EXCEPT ![Depth - 1] = to(Depth - 1, link), ![Depth] = to(Depth, passed)]
      BY <1>1, <1>7 DEF WithCapture, link, passed
    <2>. HIDE DEF to
    <2>2. /\ fns' \in Seq(Function) /\ Len(fns') = Depth
          /\ \A e \in 1 .. Depth :
               fns'[e] = IF e = Depth THEN to(Depth, passed)
                         ELSE IF e = Depth - 1 THEN to(Depth - 1, link) ELSE fns[e]
      <3>. DEFINE once == [fns EXCEPT ![Depth - 1] = to(Depth - 1, link)]
      <3>1. /\ once \in Seq(Function) /\ Len(once) = Depth
            /\ \A e \in 1 .. Depth : once[e] = IF e = Depth - 1 THEN to(Depth - 1, link) ELSE fns[e]
        BY <1>1, <1>2, <1>3, <1>5, ExceptSeq
      <3>2. fns' = [once EXCEPT ![Depth] = to(Depth, passed)]
        BY <2>1
      <3>. HIDE DEF once
      <3>. QED
        BY <3>1, <3>2, <1>1, <1>4, <1>5, ExceptSeq
    <2>3. DOMAIN fns' = 1 .. Depth /\ fns' # <<>>
      BY <2>2, <1>1
    <2>4. FunctionsOK'
      BY <2>2, <2>3, <1>1, <1>2, <1>3, <1>4, <1>5 DEF FunctionsOK
    <2>5. \A e \in 1 .. Depth : fns'[e].blocks = fns[e].blocks
      <3>. TAKE e \in 1 .. Depth
      <3>1. Depth \in 1 .. Depth
        BY <1>1
      <3>2. /\ to(Depth, passed).blocks = fns[Depth].blocks
            /\ to(Depth - 1, link).blocks = fns[Depth - 1].blocks
        BY <3>1, <1>1, <1>3, <1>4, <1>5
      <3>. QED
        BY <2>2, <3>2
    <2>6. /\ fns'[Depth].captures = Append(fns[Depth].captures, passed)
          /\ fns'[Depth - 1].captures = Append(fns[Depth - 1].captures, link)
      BY <2>2, <1>1, <1>3, <1>4, <1>5, SMTT(40)
    <2>7. \A e \in 1 .. Depth - 2 : fns'[e] = fns[e]
      BY <2>2, <1>1
    <2>. QED
      BY <2>2, <2>3, <2>4, <2>5, <2>6, <2>7, <1>1, <1>7 DEF link, passed
  <1>. QED
    BY <1>6, <1>7

-----------------------------------------------------------------------------
(* The invariants.                                                         *)

LEMMA InitOK == Init => IInv
  <1>. SUFFICES ASSUME Init PROVE IInv
    OBVIOUS
  <1>. DEFINE block == EmptyBlock("function", 0)
  <1>1. block \in Block /\ BlockSlots(block) /\ End(block) = 0 /\ block.kind = "function"
    BY EmptyBlockOK DEF BlockKinds
  <1>2. MainProgram = [blocks |-> <<block>>, captures |-> <<>>, varCount |-> 0]
    BY DEF MainProgram
  <1>. HIDE DEF block
  <1>3. MainProgram \in Function
    BY <1>1, <1>2 DEF Function
  <1>4. Blocks(MainProgram)
    <2>1. DOMAIN MainProgram.blocks = {1} /\ MainProgram.blocks[1] = block /\ MainProgram.blocks # <<>>
          /\ MainProgram.varCount = 0
      BY <1>2
    <2>2. InOrder(MainProgram) /\ FirstBelow(MainProgram)
      BY <2>1 DEF InOrder, FirstBelow
    <2>. QED
      BY <2>1, <2>2, <1>1 DEF Blocks
  <1>5. fns = <<MainProgram>> /\ loops = <<>> /\ far = FALSE
    BY DEF Init
  <1>6. Shape
    <2>1. <<MainProgram>> \in Seq(Function) /\ <<MainProgram>> # <<>>
      BY <1>3
    <2>2. <<>> \in Seq(LoopContext)
      OBVIOUS
    <2>. QED
      BY <1>5, <2>1, <2>2 DEF Shape
  <1>7. FunctionsOK
    <2>1. DOMAIN fns = {1} /\ fns[1] = MainProgram
      BY <1>5
    <2>. QED
      BY <2>1, <1>4 DEF FunctionsOK
  <1>. QED
    BY <1>6, <1>7 DEF IInv

\* A step that changes the current function in a lawful way
LEMMA ChangeKeeps ==
  ASSUME IInv, NEW g \in Function, Blocks(g), Changed(g), loops' \in Seq(LoopContext), UNCHANGED far
  PROVE  IInv'
  BY ChangedOK DEF IInv, Shape

\* What the statements make of the current function
LEMMA StatementFunctions ==
  ASSUME IInv, parseVariableDeclaration \/ parseBlockStatement \/ parseCatchClause \/ parseWhileStatement
               \/ parseSwitchStatement \/ parseForStatement \/ EndStatement
  PROVE  /\ \E g \in Function : Blocks(g) /\ g.captures = Current.captures /\ Changed(g)
         /\ loops' \in Seq(LoopContext) /\ UNCHANGED far
  <1>. USE CurrentOK
  <1>1. CASE parseVariableDeclaration
    <2>1. PICK n \in UserNames, decl \in {"var", "let"}, init \in BOOLEAN :
            Changed(defineVariable(Current, IF decl = "var" THEN 1 ELSE Len(Current.blocks),
                                   n, decl, init \/ decl = "var"))
      BY <1>1 DEF parseVariableDeclaration
    <2>2. n \in Names /\ decl \in Decls /\ (init \/ decl = "var") \in BOOLEAN
          /\ (IF decl = "var" THEN 1 ELSE Len(Current.blocks)) \in {1, Len(Current.blocks)}
      BY DEF Names, Decls
    <2>3. loops' = loops /\ far' = far
      BY <1>1 DEF parseVariableDeclaration, Quiet
    <2>. QED
      BY <2>1, <2>2, <2>3, DefineOK DEF IInv, Shape
  <1>2. CASE parseBlockStatement
    BY <1>2, WithBlockOK DEF parseBlockStatement, Quiet, BlockKinds, IInv, Shape
  <1>3. ASSUME NEW f, f = WithBlock(Current, "block") \/ f = WithBlock(Current, "for"),
               NEW n \in UserNames, NEW decl \in {"var", "let"},
               Changed(defineVariable(f, Len(f.blocks), n, decl, TRUE))
        PROVE  \E g \in Function : Blocks(g) /\ g.captures = Current.captures /\ Changed(g)
    <2>1. f \in Function /\ Blocks(f) /\ f.captures = Current.captures
      BY <1>3, WithBlockOK DEF BlockKinds
    <2>2. n \in Names /\ decl \in Decls /\ TRUE \in BOOLEAN /\ Len(f.blocks) \in {1, Len(f.blocks)}
      BY DEF Names, Decls
    <2>. QED
      BY <1>3, <2>1, <2>2, DefineOK
  <1>4. CASE parseCatchClause
    <2>1. PICK n \in UserNames :
            Changed(defineVariable(WithBlock(Current, "block"), Len(WithBlock(Current, "block").blocks),
                                   n, "let", TRUE))
      BY <1>4 DEF parseCatchClause
    <2>2. loops' = loops /\ far' = far
      BY <1>4 DEF parseCatchClause, Quiet
    <2>. QED
      BY <2>1, <2>2, <1>3 DEF IInv, Shape
  <1>5. CASE parseForStatement
    <2>1. PICK n \in UserNames, decl \in {"var", "let"} :
            Changed(defineVariable(WithBlock(Current, "for"), Len(WithBlock(Current, "for").blocks),
                                   n, decl, TRUE))
      BY <1>5 DEF parseForStatement
    <2>2. loops' \in Seq(LoopContext) /\ far' = far
      BY <1>5, LoopsOK DEF parseForStatement, Quiet
    <2>. QED
      BY <2>1, <2>2, <1>3
  <1>6. ASSUME NEW kind \in {"while", "switch"}, Changed(Open(Current, kind))
        PROVE  \E g \in Function : Blocks(g) /\ g.captures = Current.captures /\ Changed(g)
    <2>. DEFINE k == Len(Current.blocks)
                statements == Append(Current.blocks[k].open, kind)
    <2>1. Current.blocks[k] \in Block
      BY LastBlock
    <2>2. statements \in Seq({"while", "switch"})
      BY <2>1 DEF Block
    <2>3. Open(Current, kind) = [Current EXCEPT !.blocks[k].open = statements]
      BY DEF Open
    <2>. QED
      BY <1>6, <2>2, <2>3, OpenOK
  <1>7. CASE parseWhileStatement
    BY <1>6, <1>7, LoopsOK DEF parseWhileStatement, Quiet
  <1>8. CASE parseSwitchStatement
    BY <1>6, <1>8, LoopsOK DEF parseSwitchStatement, Quiet
  <1>9. CASE EndStatement
    <2>1. loops' \in Seq(LoopContext) /\ far' = far
      BY <1>9, LoopsOK DEF EndStatement, Quiet, IInv, Shape
    <2>2. ASSUME Last(Current.blocks).open # <<>>,
                 Changed([Current EXCEPT !.blocks[Len(Current.blocks)].open = Without(@)])
          PROVE  \E g \in Function : Blocks(g) /\ g.captures = Current.captures /\ Changed(g)
      <3>. DEFINE k == Len(Current.blocks)
                  statements == Without(Current.blocks[k].open)
      <3>1. Current.blocks[k] \in Block
        BY LastBlock
      <3>2. statements \in Seq({"while", "switch"})
        BY <3>1, WithoutOK DEF Block
      <3>. QED
        BY <2>2, <3>2, OpenOK
    <2>3. ASSUME Last(Current.blocks).kind \in {"block", "for"}, Changed(WithoutBlock(Current))
          PROVE  \E g \in Function : Blocks(g) /\ g.captures = Current.captures /\ Changed(g)
      BY <2>3, WithoutBlockOK
    <2>. QED
      BY <1>9, <2>1, <2>2, <2>3 DEF EndStatement
  <1>. QED
    BY <1>1, <1>2, <1>4, <1>5, <1>7, <1>8, <1>9

LEMMA NextOK == IInv /\ [Next]_vars => IInv'
  <1>. SUFFICES ASSUME IInv, [Next]_vars PROVE IInv'
    OBVIOUS
  <1>1. ASSUME UNCHANGED <<fns, loops, far>>
        PROVE  IInv'
    BY <1>1 DEF IInv, Shape, FunctionsOK
  <1>2. CASE identifierNud
    <2>1. PICK n \in Reads : LocalReference(n) \/ CapturedReference(n) \/ resolveCapture(n) \/ GlobalReference(n)
      BY <1>2 DEF identifierNud
    <2>2. CASE resolveCapture(n)
      <3>1. PICK d \in Outer(n) : fns' = WithCapture(n, d) /\ far' = (far \/ d < Depth - 2)
        BY <2>2 DEF resolveCapture
      <3>2. n \in Names
        BY NamesAssumption DEF Names
      <3>3. far' \in BOOLEAN /\ loops' = loops
        BY <2>2, <3>1 DEF resolveCapture
      <3>. QED
        BY <3>1, <3>2, <3>3, CaptureOK DEF IInv, Shape
    <2>. QED
      BY <1>1, <2>1, <2>2 DEF LocalReference, CapturedReference, GlobalReference
  <1>3. CASE parenNud
    BY <1>1, <1>3 DEF parenNud, ParenthesizedGlobal
  <1>4. CASE parseVariableDeclaration \/ parseBlockStatement \/ parseCatchClause \/ parseWhileStatement
             \/ parseSwitchStatement \/ parseForStatement \/ EndStatement
    BY <1>4, StatementFunctions, ChangeKeeps
  <1>5. CASE parseBreakStatement
    BY <1>1, <1>5 DEF parseBreakStatement, Jump
  <1>6. CASE parseContinueStatement
    BY <1>1, <1>6 DEF parseContinueStatement, Jump
  <1>7. ASSUME NEW g \in Function, Blocks(g), fns' = Append(fns, g), UNCHANGED <<loops, far>>
        PROVE  IInv'
    BY <1>7, PushedOK DEF IInv, Shape
  <1>8. CASE parseFunctionDecl
    <2>1. PICK ps \in ParamLists : fns' = Append(fns, NewFunction(ps, FALSE))
      BY <1>8 DEF parseFunctionDecl
    <2>2. UNCHANGED <<loops, far>>
      BY <1>8 DEF parseFunctionDecl, Quiet
    <2>. QED
      BY <1>7, <2>1, <2>2, NewFunctionOK
  <1>9. CASE parseArrowFunctionBody
    <2>1. PICK ps \in ParamLists, hasBlock \in BOOLEAN :
            fns' = Append(fns, IF hasBlock THEN WithBlock(NewFunction(ps, TRUE), "body")
                               ELSE NewFunction(ps, TRUE))
      BY <1>9 DEF parseArrowFunctionBody
    <2>2. UNCHANGED <<loops, far>>
      BY <1>9 DEF parseArrowFunctionBody, Quiet
    <2>3. NewFunction(ps, TRUE) \in Function /\ Blocks(NewFunction(ps, TRUE))
      BY NewFunctionOK
    <2>4. /\ WithBlock(NewFunction(ps, TRUE), "body") \in Function
          /\ Blocks(WithBlock(NewFunction(ps, TRUE), "body"))
      BY <2>3, WithBlockOK DEF BlockKinds
    <2>. QED
      BY <1>7, <2>1, <2>2, <2>3, <2>4
  <1>10. CASE restoreContext
    <2>1. UNCHANGED <<loops, far>>
      BY <1>10 DEF restoreContext, Quiet
    <2>. QED
      BY <1>10, <2>1, PoppedOK DEF IInv, Shape
  <1>11. CASE UNCHANGED vars
    BY <1>1, <1>11 DEF vars
  <1>. QED
    BY <1>2, <1>3, <1>4, <1>5, <1>6, <1>8, <1>9, <1>10, <1>11 DEF Next

LEMMA Inductive == Spec => []IInv
  BY InitOK, NextOK, PTL DEF Spec

\* The parser's contexts keep their types, and every variable has a slot within
\* its block and within the frame of its function (defineVariable, newBlock).
THEOREM TypeCorrect == Spec => []TypeOK
  <1>1. IInv => TypeOK
    <2>. SUFFICES ASSUME IInv PROVE TypeOK
      OBVIOUS
    <2>1. \A d \in DOMAIN fns : BlocksOK(fns[d])
      BY CurrentOK, BlocksGive
    <2>. QED
      BY <2>1 DEF TypeOK, IInv, Shape
  <1>. QED
    BY <1>1, Inductive, PTL

\* Variables that are alive together have different slots, however many blocks
\* and functions are around, unless a declaration was hoisted past a block.
THEOREM DistinctSlots == Spec => []SlotsAreDistinct
  <1>1. IInv => SlotsAreDistinct
    BY CurrentOK, BlocksGive DEF SlotsAreDistinct
  <1>. QED
    BY <1>1, Inductive, PTL

-----------------------------------------------------------------------------
(* What functions capture.                                                 *)

\* An entry stays right while the blocks of the function around stay and it at
\* most captures more.
LEMMA LinkKept ==
  ASSUME NEW f \in Function, NEW g, g.blocks = f.blocks, NEW c,
         \/ g.captures = f.captures
         \/ \E x \in Capture : g.captures = Append(f.captures, x),
         LinkOK(f, c)
  PROVE  LinkOK(g, c)
  <1>1. Visible(g, c.name) = Visible(f, c.name) /\ resolveVariable(g, c.name) = resolveVariable(f, c.name)
    BY DEF Visible, resolveVariable
  <1>2. \A i \in DOMAIN f.captures : i \in DOMAIN g.captures /\ g.captures[i] = f.captures[i]
    BY SMTT(40) DEF Function
  <1>. QED
    BY <1>1, <1>2 DEF LinkOK

LEMMA LinkIsOK ==
  ASSUME NEW f, NEW n, Visible(f, n) \/ Captures(f, n)
  PROVE  LinkOK(f, Link(f, n))
  <1>1. CASE Visible(f, n)
    BY <1>1 DEF Link, LinkOK
  <1>2. CASE ~Visible(f, n)
    <2>1. CaptureIndex(f, n) \in DOMAIN f.captures /\ f.captures[CaptureIndex(f, n)].name = n
      BY <1>2 DEF Captures, CaptureIndex
    <2>. QED
      BY <1>2, <2>1 DEF Link, LinkOK
  <1>. QED
    BY <1>1, <1>2

\* While only blocks of the innermost function change, all entries stay right,
\* and so do those of the functions around one that ends.
LEMMA LinksKept ==
  ASSUME IInv, LinksAgree, ~far, NEW k \in 1 .. Depth,
         fns' \in Seq(Function), Len(fns') = k, \A d \in 1 .. k - 1 : fns'[d] = fns[d],
         fns'[k].captures = fns[k].captures
  PROVE  LinksAgree'
  <1>1. \A d \in DOMAIN fns : \A i \in DOMAIN fns[d].captures :
          d > 1 /\ LinkOK(fns[d - 1], fns[d].captures[i])
    BY DEF LinksAgree
  <1>2. k \in 1 .. Depth /\ Depth \in Nat /\ DOMAIN fns = 1 .. Depth /\ DOMAIN fns' = 1 .. k
    BY CurrentOK
  <1>3. ASSUME NEW d \in 1 .. k, NEW i \in DOMAIN fns'[d].captures
        PROVE  d > 1 /\ LinkOK(fns'[d - 1], fns'[d].captures[i])
    <2>1. fns'[d].captures = fns[d].captures /\ d \in DOMAIN fns
      BY <1>2
    <2>2. d > 1 /\ LinkOK(fns[d - 1], fns[d].captures[i])
      BY <1>1, <2>1, <1>3
    <2>3. fns'[d - 1] = fns[d - 1]
      BY <1>2, <2>2
    <2>. QED
      BY <2>1, <2>2, <2>3
  <1>. QED
    BY <1>2, <1>3 DEF LinksAgree

\* Two steps of the chain are built at once where the name is of the function
\* around the one around.
LEMMA CaptureAgrees ==
  ASSUME IInv, LinksAgree, ~far, NEW n \in Reads, resolveCapture(n)
  PROVE  LinksAgree'
  <1>1. PICK d \in Outer(n) : /\ IsNearest(n, d) /\ fns' = WithCapture(n, d)
                              /\ far' = (far \/ d < Depth - 2)
    BY DEF resolveCapture
  <1>2. /\ n \in Names /\ Depth \in Nat /\ DOMAIN fns = 1 .. Depth
        /\ \A e \in 1 .. Depth : fns[e] \in Function /\ fns[e].captures \in Seq(Capture)
    BY CurrentOK, NamesAssumption DEF Names, Function
  <1>3. /\ fns' \in Seq(Function) /\ Len(fns') = Depth
        /\ Depth > 1 /\ d \in 1 .. Depth - 1
        /\ \A e \in 1 .. Depth : fns'[e].blocks = fns[e].blocks
        /\ \A e \in 1 .. Depth - 2 : fns'[e] = fns[e]
        /\ d = Depth - 1 =>
              /\ fns'[Depth - 1] = fns[Depth - 1]
              /\ fns'[Depth].captures = Append(fns[Depth].captures, Link(fns[d], n))
        /\ d # Depth - 1 =>
              /\ fns'[Depth - 1].captures = Append(fns[Depth - 1].captures, Link(fns[d], n))
              /\ fns'[Depth].captures =
                   Append(fns[Depth].captures,
                          [name |-> n, index |-> Len(fns[Depth - 1].captures) + 1, isCapture |-> TRUE])
    BY <1>1, <1>2, CaptureOK
  <1>4. /\ Visible(fns[d], n) \/ Captures(fns[d], n)
        /\ LinkOK(fns[d], Link(fns[d], n)) /\ Link(fns[d], n) \in Capture
    <2>1. fns[d] \in Function /\ Blocks(fns[d]) /\ (Visible(fns[d], n) \/ Captures(fns[d], n))
      BY <1>2, CurrentOK DEF Outer
    <2>. QED
      BY <2>1, <1>2, LinkIsOK, LinkType
  <1>5. \A e \in 1 .. Depth : \A i \in DOMAIN fns[e].captures :
          e > 1 /\ LinkOK(fns[e - 1], fns[e].captures[i])
    BY <1>2 DEF LinksAgree
  \* The entries that were there
  <1>6. ASSUME NEW e \in 1 .. Depth, NEW i \in DOMAIN fns[e].captures
        PROVE  e > 1 /\ LinkOK(fns'[e - 1], fns[e].captures[i])
    <2>1. e > 1 /\ e - 1 \in 1 .. Depth /\ LinkOK(fns[e - 1], fns[e].captures[i])
      BY <1>5, <1>6, <1>2
    <2>2. fns'[e - 1] = fns[e - 1] \/ (e - 1 = Depth - 1 /\ d # Depth - 1)
      BY <2>1, <1>2, <1>3
    <2>3. \/ fns'[e - 1].captures = fns[e - 1].captures
          \/ \E x \in Capture : fns'[e - 1].captures = Append(fns[e - 1].captures, x)
      BY <2>2, <1>3, <1>4
    <2>4. fns[e - 1] \in Function /\ fns'[e - 1].blocks = fns[e - 1].blocks
      BY <2>1, <1>2, <1>3
    <2>5. LinkOK(fns'[e - 1], fns[e].captures[i])
      BY <2>1, <2>3, <2>4, LinkKept
    <2>. QED
      BY <2>1, <2>5
  <1>7. DOMAIN fns' = 1 .. Depth
    BY <1>2, <1>3
  <1>8. CASE d = Depth - 1
    <2>1. ASSUME NEW e \in 1 .. Depth, NEW i \in DOMAIN fns'[e].captures
          PROVE  e > 1 /\ LinkOK(fns'[e - 1], fns'[e].captures[i])
      <3>1. CASE e < Depth \/ i \in DOMAIN fns[e].captures
        <4>1. i \in DOMAIN fns[e].captures /\ fns'[e].captures[i] = fns[e].captures[i]
          <5>1. CASE e < Depth - 1
            BY <5>1, <2>1, <1>2, <1>3
          <5>2. CASE e = Depth - 1
            BY <5>2, <2>1, <1>3, <1>8
          <5>3. CASE e = Depth
            <6>1. i \in DOMAIN fns[e].captures
              BY <5>3, <3>1, <1>2
            <6>2. fns'[e].captures = Append(fns[e].captures, Link(fns[d], n)) /\ fns[e].captures \in Seq(Capture)
              BY <5>3, <1>2, <1>3, <1>8
            <6>. QED
              BY <6>1, <6>2, <1>4
          <5>. QED
            BY <5>1, <5>2, <5>3, <1>2
        <4>. QED
          BY <4>1, <1>6
      <3>2. CASE e = Depth /\ i \notin DOMAIN fns[e].captures
        <4>1. fns'[e].captures[i] = Link(fns[d], n)
          BY <2>1, <3>2, <1>2, <1>3, <1>4, <1>8
        <4>. QED
          BY <4>1, <3>2, <1>2, <1>3, <1>4, <1>8
      <3>. QED
        BY <3>1, <3>2, <1>2
    <2>. QED
      BY <2>1, <1>7 DEF LinksAgree
  <1>9. CASE d = Depth - 2
    <2>. DEFINE passed == [name |-> n, index |-> Len(fns[Depth - 1].captures) + 1, isCapture |-> TRUE]
    <2>1. d # Depth - 1 /\ Depth - 1 \in 1 .. Depth /\ Depth \in 1 .. Depth
      BY <1>2, <1>3, <1>9
    <2>2. LinkOK(fns'[Depth - 1], passed)
      <3>1. Depth - 1 \notin Outer(n)
        BY <1>1, <1>2, <1>3, <1>9 DEF IsNearest
      <3>2. ~Visible(fns[Depth - 1], n)
        BY <3>1, <1>2, <1>3 DEF Outer
      <3>3. ~Visible(fns'[Depth - 1], n)
        BY <3>2, <1>3, <2>1 DEF Visible
      <3>4. /\ fns'[Depth - 1].captures = Append(fns[Depth - 1].captures, Link(fns[d], n))
            /\ fns[Depth - 1].captures \in Seq(Capture) /\ Link(fns[d], n) \in Capture
        BY <1>2, <1>3, <1>4, <2>1
      <3>5. /\ Len(fns[Depth - 1].captures) + 1 \in DOMAIN fns'[Depth - 1].captures
            /\ fns'[Depth - 1].captures[Len(fns[Depth - 1].captures) + 1] = Link(fns[d], n)
        BY <3>4
      <3>6. Link(fns[d], n).name = n
        BY DEF Link
      <3>7. passed.name = n /\ passed.isCapture /\ passed.index = Len(fns[Depth - 1].captures) + 1
        OBVIOUS
      <3>. QED
        BY <3>3, <3>5, <3>6, <3>7 DEF LinkOK
    <2>. HIDE DEF passed
    <2>3. fns'[Depth].captures = Append(fns[Depth].captures, passed)
      BY <1>3, <2>1 DEF passed
    <2>4. ASSUME NEW e \in 1 .. Depth, NEW i \in DOMAIN fns'[e].captures
          PROVE  e > 1 /\ LinkOK(fns'[e - 1], fns'[e].captures[i])
      <3>1. CASE i \in DOMAIN fns[e].captures
        <4>1. fns'[e].captures[i] = fns[e].captures[i]
          <5>1. CASE e < Depth - 1
            BY <5>1, <1>2, <1>3
          <5>2. CASE e = Depth - 1
            <6>1. fns'[e].captures = Append(fns[e].captures, Link(fns[d], n)) /\ fns[e].captures \in Seq(Capture)
              BY <5>2, <1>2, <1>3, <2>1
            <6>. QED
              BY <6>1, <3>1, <1>4
          <5>3. CASE e = Depth
            BY <5>3, <3>1, <1>2, <2>3
          <5>. QED
            BY <5>1, <5>2, <5>3, <1>2
        <4>. QED
          BY <4>1, <3>1, <1>6
      <3>2. CASE i \notin DOMAIN fns[e].captures
        <4>1. CASE e < Depth - 1
          BY <4>1, <3>2, <2>4, <1>2, <1>3
        <4>2. CASE e = Depth - 1
          <5>1. fns'[e].captures[i] = Link(fns[d], n)
            BY <4>2, <3>2, <2>4, <1>2, <1>3, <1>4, <2>1, SMTT(40)
          <5>2. fns'[e - 1] = fns[d] /\ e > 1
            BY <4>2, <1>2, <1>3, <1>9
          <5>. QED
            BY <5>1, <5>2, <1>4
        <4>3. CASE e = Depth
          <5>1. fns'[e].captures[i] = passed
            BY <4>3, <3>2, <2>4, <1>2, <2>3
          <5>. QED
            BY <5>1, <4>3, <2>2, <1>2, <1>3
        <4>. QED
          BY <4>1, <4>2, <4>3, <1>2
      <3>. QED
        BY <3>1, <3>2
    <2>. QED
      BY <2>4, <1>7 DEF LinksAgree
  <1>10. CASE d < Depth - 2
    BY <1>1, <1>10 DEF LinksAgree
  <1>. QED
    BY <1>8, <1>9, <1>10, <1>2, <1>3

LEMMA LinksInductive == IInv /\ LinksAgree /\ [Next]_vars => LinksAgree'
  <1>. SUFFICES ASSUME IInv, LinksAgree, [Next]_vars PROVE LinksAgree'
    OBVIOUS
  <1>1. CASE far
    <2>1. far'
      BY <1>1 DEF Next, vars, identifierNud, parenNud, LocalReference, CapturedReference, resolveCapture,
            GlobalReference, ParenthesizedGlobal, parseVariableDeclaration, parseBlockStatement,
            parseCatchClause, parseWhileStatement, parseSwitchStatement, parseForStatement,
            parseBreakStatement, parseContinueStatement, Jump, EndStatement, parseFunctionDecl,
            parseArrowFunctionBody, restoreContext, Quiet
    <2>. QED
      BY <2>1 DEF LinksAgree
  <1>2. CASE ~far
    <2>1. ASSUME UNCHANGED fns
          PROVE  LinksAgree'
      BY <2>1, <1>2 DEF LinksAgree
    <2>2. CASE identifierNud
      BY <1>2, <2>1, <2>2, CaptureAgrees
         DEF identifierNud, LocalReference, CapturedReference, GlobalReference
    <2>3. CASE parenNud \/ parseBreakStatement \/ parseContinueStatement \/ UNCHANGED vars
      BY <2>1, <2>3 DEF parenNud, ParenthesizedGlobal, parseBreakStatement, parseContinueStatement, Jump, vars
    <2>4. CASE parseVariableDeclaration \/ parseBlockStatement \/ parseCatchClause \/ parseWhileStatement
               \/ parseSwitchStatement \/ parseForStatement \/ EndStatement
      <3>1. PICK g \in Function : Blocks(g) /\ g.captures = Current.captures /\ Changed(g)
        BY <2>4, StatementFunctions
      <3>2. /\ fns' \in Seq(Function) /\ Len(fns') = Depth /\ fns'[Depth] = g
            /\ \A d \in 1 .. Depth - 1 : fns'[d] = fns[d]
        BY <3>1, ChangedOK
      <3>3. Depth \in 1 .. Depth /\ fns'[Depth].captures = fns[Depth].captures
        BY <3>1, <3>2, CurrentOK DEF Current, Depth
      <3>. QED
        BY <3>2, <3>3, <1>2, LinksKept
    <2>5. ASSUME NEW g \in Function, Blocks(g), g.captures = <<>>, fns' = Append(fns, g)
          PROVE  LinksAgree'
      <3>1. /\ fns' \in Seq(Function) /\ Len(fns') = Depth + 1 /\ fns'[Depth + 1] = g
            /\ \A d \in 1 .. Depth : fns'[d] = fns[d]
        BY <2>5, PushedOK
      <3>2. Depth \in Nat /\ DOMAIN fns = 1 .. Depth /\ DOMAIN fns' = 1 .. Depth + 1
        BY <3>1, CurrentOK
      <3>3. ASSUME NEW d \in 1 .. Depth + 1, NEW i \in DOMAIN fns'[d].captures
            PROVE  d > 1 /\ LinkOK(fns'[d - 1], fns'[d].captures[i])
        <4>1. d # Depth + 1
          BY <2>5, <3>1, <3>3
        <4>2. d \in 1 .. Depth /\ fns'[d] = fns[d]
          BY <4>1, <3>1, <3>2
        <4>3. d > 1 /\ LinkOK(fns[d - 1], fns[d].captures[i])
          BY <4>2, <3>2, <3>3, <1>2 DEF LinksAgree
        <4>4. fns'[d - 1] = fns[d - 1]
          BY <4>2, <4>3, <3>1, <3>2
        <4>. QED
          BY <4>2, <4>3, <4>4
      <3>. QED
        BY <3>2, <3>3 DEF LinksAgree
    <2>6. CASE parseFunctionDecl
      BY <2>5, <2>6, NewFunctionOK DEF parseFunctionDecl
    <2>7. CASE parseArrowFunctionBody
      <3>1. PICK ps \in ParamLists, hasBlock \in BOOLEAN :
              fns' = Append(fns, IF hasBlock THEN WithBlock(NewFunction(ps, TRUE), "body")
                                 ELSE NewFunction(ps, TRUE))
        BY <2>7 DEF parseArrowFunctionBody
      <3>2. NewFunction(ps, TRUE) \in Function /\ Blocks(NewFunction(ps, TRUE))
            /\ NewFunction(ps, TRUE).captures = <<>>
        BY NewFunctionOK
      <3>3. /\ WithBlock(NewFunction(ps, TRUE), "body") \in Function
            /\ Blocks(WithBlock(NewFunction(ps, TRUE), "body"))
            /\ WithBlock(NewFunction(ps, TRUE), "body").captures = <<>>
        BY <3>2, WithBlockOK DEF BlockKinds
      <3>. QED
        BY <2>5, <3>1, <3>2, <3>3
    <2>8. CASE restoreContext
      <3>1. /\ fns' \in Seq(Function) /\ Depth > 1 /\ Len(fns') = Depth - 1
            /\ \A d \in 1 .. Depth - 2 : fns'[d] = fns[d]
            /\ fns'[Depth - 1].captures = fns[Depth - 1].captures
        BY <2>8, PoppedOK
      <3>2. Depth - 1 \in 1 .. Depth /\ Depth - 1 - 1 = Depth - 2
        BY <3>1, CurrentOK
      <3>. QED
        BY <3>1, <3>2, <1>2, LinksKept
    <2>. QED
      BY <2>2, <2>3, <2>4, <2>6, <2>7, <2>8 DEF Next
  <1>. QED
    BY <1>1, <1>2

\* However deep functions are within each other: every entry of a function's
\* captures leads, in the function around it, to the variable of that name or to
\* the entry for that name, as long as no variable has been captured directly over
\* two or more functions (far: resolveCapture, cascadeCapture).
THEOREM CapturesAgree == Spec => []LinksAgree
  <1>1. Init => LinksAgree
    <2>. SUFFICES ASSUME Init PROVE LinksAgree
      OBVIOUS
    <2>1. fns = <<MainProgram>> /\ MainProgram.captures = <<>>
      BY DEF Init, MainProgram
    <2>2. DOMAIN fns = {1} /\ fns[1].captures = <<>>
      BY <2>1
    <2>. QED
      BY <2>2 DEF LinksAgree
  <1>. QED
    BY <1>1, Inductive, LinksInductive, PTL DEF Spec
=============================================================================
