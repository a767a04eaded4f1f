--------------------------- MODULE IsolationProofs ---------------------------
(* Proof about Contexts: each context is a store of its own.  The types of *)
(* what contexts refer to, what running scripts see of their context, and  *)
(* that Contexts implements IsolatedContexts.                              *)
EXTENDS ContextsProofs

USE PackageAssumption

Begins(s, t) == Len(s) <= Len(t) /\ \A i \in 1 .. Len(s) : t[i] = s[i]
NothingBound == [n \in Names |-> Unbound]
Content(c) == arrays[contexts[c].constructors.array]

\* Arrays are full, and one that a context has not come to use is empty.
SliceOK(c) ==
  LET s == contexts[c].constructors
  IN IF Made(c)
     THEN /\ s \in Slice /\ s.len >= 1 /\ Len(arrays[s.array]) = s.len
          /\ s.array = <<c, MaxConstructors>> \/ arrays[<<c, MaxConstructors>>] = <<>>
     ELSE \A n \in 1 .. MaxConstructors : arrays[<<c, n>>] = <<>>
SlicesOK == \A c \in Contexts : SliceOK(c)
StoresOK ==
  /\ maps \in [MapRef -> [Names -> Values \cup {Unbound}]]
  /\ arrays \in [ArrayRef -> Seq(Constructors \cup {Builtin})]
  /\ \A ref \in ArrayRef : Len(arrays[ref]) <= ref[2]
  /\ arrays[<<Package, 1>>] = <<Builtin>>
  /\ SlicesOK
  /\ \A c \in Contexts : Made(c) \/ maps[<<c, "globals">>] = NothingBound

\* What a process resolves with is the beginning of what its context has.
Sees(p, s) == /\ p \in Slice /\ p.len <= Len(arrays[p.array]) /\ p.len <= Len(arrays[s.array])
              /\ \A i \in 1 .. p.len : arrays[p.array][i] = arrays[s.array][i]
ProcessesSee ==
  \A g \in Goroutines : \A i \in DOMAIN processes[g] :
    Sees(processes[g][i].constructors, contexts[processes[g][i].context].constructors)

\* What a call that has begun goes on to do.
BindsItsOwn(g, args) ==
  \E c \in Contexts, kind \in Kinds, n \in Names, v \in Plain : Owns(g, c) /\ args = <<<<c, kind>>, n, v>>
CallsOK ==
  \A g \in Goroutines :
    /\ InCall(g, "Bind") => BindsItsOwn(g, Args(g))
    /\ InCall(g, "RegisterConstructor") => contexts[Args(g)[1]].constructors.len < MaxConstructors

Inv == Ownership /\ StoresOK /\ ProcessesSee /\ CallsOK /\ changes \in Nat

-----------------------------------------------------------------------------
(* Facts of a state.                                                       *)

LEMMA Elsewhere ==
  ASSUME NEW c \in Contexts, NEW n \in 1 .. MaxConstructors
  PROVE  /\ <<c, n>> \in ArrayRef /\ <<c, n>>[2] = n /\ <<c, n>> # <<Package, 1>>
         /\ \A d \in Contexts, m \in Nat : <<d, m>> = <<c, n>> => d = c /\ m = n
BY DEF ArrayRef

LEMMA LibraryArray == <<Package, 1>> \in ArrayRef /\ NativeConstructors \in Slice
BY BoundsAssumption DEF ArrayRef, NativeConstructors, Slice

LEMMA MadeOK ==
  ASSUME Inv, NEW c \in Contexts, Made(c)
  PROVE  LET s == contexts[c].constructors
         IN /\ contexts[c] \in Context1 /\ contexts[c] \in ScriptContext
            /\ contexts[c].natives = <<c, "natives">> /\ contexts[c].globals = <<c, "globals">>
            /\ s \in Slice /\ s.len \in Nat \ {0} /\ s.len <= MaxConstructors /\ Len(Content(c)) = s.len
            /\ s.array \in ArrayRef /\ Content(c) \in Seq(Constructors \cup {Builtin})
            /\ s.array = <<Package, 1>> \/ s.array[1] = c
            /\ s = NativeConstructors \/ \E n \in 1 .. MaxConstructors : s.array = <<c, n>>
<1> DEFINE s == contexts[c].constructors
<1>1. contexts[c] \in Context1 /\ RefersToItsOwn(c, contexts[c]) /\ SliceOf(c, s)
  BY MadeIsRecord DEF Inv, Ownership
<1>2. s \in Slice /\ s.len >= 1 /\ Len(arrays[s.array]) = s.len
  BY DEF Inv, StoresOK, SlicesOK, SliceOK
<1>3. s.array \in ArrayRef /\ s.len \in Nat /\ s.len <= MaxConstructors
  BY <1>2, BoundsAssumption DEF Slice
<1>4. arrays[s.array] \in Seq(Constructors \cup {Builtin})
  BY <1>3 DEF Inv, StoresOK
<1>5. s = NativeConstructors \/ \E n \in 1 .. MaxConstructors : s.array = <<c, n>>
  BY <1>1, <1>3 DEF SliceOf, ArrayRef
<1>6. s.array = <<Package, 1>> \/ s.array[1] = c
  BY <1>5 DEF NativeConstructors
<1>7. contexts[c] \in ScriptContext
  BY <1>1, <1>2 DEF Context1, ScriptContext
<1> QED BY <1>1, <1>2, <1>3, <1>4, <1>5, <1>6, <1>7 DEF RefersToItsOwn, Content

\* The slice of a context is all of its array.
LEMMA ItemsAreContent ==
  ASSUME Inv, NEW c \in Contexts, Made(c)
  PROVE  Items(contexts[c].constructors) = Content(c)
<1> DEFINE t == Content(c)
<1>1. t \in Seq(Constructors \cup {Builtin}) /\ Len(t) = contexts[c].constructors.len
      /\ Items(contexts[c].constructors) = SubSeq(t, 1, Len(t))
  BY MadeOK DEF Items, Content
<1> HIDE DEF t
<1>2. SubSeq(t, 1, Len(t)) = t
  BY <1>1
<1> QED BY <1>1, <1>2 DEF t

LEMMA BeginsItself ==
  ASSUME NEW S, NEW s \in Seq(S)
  PROVE  Begins(s, s) /\ Begins(<<>>, s)
<1>1. Len(s) \in Nat /\ Len(<<>>) = 0
  BY LenProperties
<1> QED BY <1>1 DEF Begins

LEMMA BeginsAppended ==
  ASSUME NEW S, NEW s \in Seq(S), NEW x \in S
  PROVE  Begins(s, Append(s, x))
<1>1. Len(s) \in Nat /\ Len(Append(s, x)) = Len(s) + 1 /\ \A i \in 1 .. Len(s) : Append(s, x)[i] = s[i]
  BY AppendProperties, LenProperties
<1> QED BY <1>1 DEF Begins

LEMMA BeginningsAgree ==
  ASSUME NEW n \in Nat, NEW s, NEW t, NEW s1, NEW t1, Begins(s, s1), Begins(t, t1),
         Len(s) \in Nat, Len(t) \in Nat, Len(s1) \in Nat, Len(t1) \in Nat,
         n <= Len(s), n <= Len(t), \A i \in 1 .. n : s[i] = t[i]
  PROVE  n <= Len(s1) /\ n <= Len(t1) /\ \A i \in 1 .. n : s1[i] = t1[i]
<1> SUFFICES ASSUME NEW i \in 1 .. n
             PROVE  n <= Len(s1) /\ n <= Len(t1) /\ s1[i] = t1[i]
  BY DEF Begins
<1>1. i \in 1 .. Len(s) /\ i \in 1 .. Len(t)
  OBVIOUS
<1> QED BY <1>1 DEF Begins

LEMMA ProcessIsHome ==
  ASSUME Inv, NEW g \in Goroutines, NEW i \in DOMAIN processes[g]
  PROVE  LET p == processes[g][i]
         IN /\ p \in Process1 /\ p.context \in Contexts /\ Owns(g, p.context) /\ Made(p.context)
            /\ p.natives = <<p.context, "natives">> /\ p.globals = <<p.context, "globals">>
            /\ RefersToItsOwn(p.context, p)
<1> DEFINE p == processes[g][i]
<1>1. processes[g] \in Seq(Process1)
  BY DEF Inv, Ownership, ProcessesRunAtHome
<1>2. p \in Process1
  BY <1>1, ElementOfSeq, LenProperties
<1>3. p.context \in Contexts
  BY <1>2 DEF Process1
<1>4. Owns(g, p.context) /\ RefersToItsOwn(p.context, p)
  BY DEF Inv, Ownership, ProcessesRunAtHome
<1> QED BY <1>2, <1>3, <1>4 DEF Owns, RefersToItsOwn

-----------------------------------------------------------------------------
(* What the kinds of steps keep.                                           *)

CallKept(g) == /\ calls'[g] = calls[g]
               /\ \A c \in Contexts : Owns(g, c) => Owns(g, c)' /\ contexts'[c].constructors = contexts[c].constructors

LEMMA CallsKeep ==
  ASSUME Inv, \A g \in Goroutines : calls'[g] = Idle \/ CallKept(g)
  PROVE  CallsOK'
<1> SUFFICES ASSUME NEW g \in Goroutines
             PROVE  /\ InCall(g, "Bind")' => BindsItsOwn(g, Args(g))'
                    /\ InCall(g, "RegisterConstructor")' => contexts'[calls'[g].args[1]].constructors.len < MaxConstructors
  BY DEF CallsOK, Args
<1>1. CASE calls'[g] = Idle
  BY <1>1 DEF Idle, InCall
<1>2. CASE CallKept(g)
  <2>1. ASSUME InCall(g, "Bind")'
        PROVE  BindsItsOwn(g, Args(g))'
    <3>1. BindsItsOwn(g, Args(g)) /\ Args(g)' = Args(g)
      BY <1>2, <2>1 DEF CallKept, Inv, CallsOK, InCall, Args
    <3> QED BY <1>2, <3>1 DEF CallKept, BindsItsOwn
  <2>2. ASSUME InCall(g, "RegisterConstructor")'
        PROVE  contexts'[calls'[g].args[1]].constructors.len < MaxConstructors
    <3>1. calls[g].op = "RegisterConstructor" /\ calls'[g] = calls[g]
      BY <1>2, <2>2 DEF CallKept, InCall
    <3>2. PICK c \in Contexts, k \in Constructors : calls[g].args = <<c, k>> /\ Owns(g, c)
      BY <3>1 DEF Inv, Ownership, CallsStayAtHome
    <3>3. contexts[c].constructors.len < MaxConstructors
      BY <3>1, <3>2, SMTT(40) DEF Inv, CallsOK, InCall, Args
    <3> QED BY <1>2, <3>1, <3>2, <3>3 DEF CallKept
  <2> QED BY <2>1, <2>2
<1> QED BY <1>1, <1>2

ContentsGrow ==
  /\ \A ref \in ArrayRef : Begins(arrays[ref], arrays'[ref])
  /\ \A c \in Contexts : Made(c) => /\ Content(c)' \in Seq(Constructors \cup {Builtin})
                                 /\ Begins(Content(c), Content(c)')

LEMMA ProcessesKeep ==
  ASSUME Inv, ContentsGrow, StoresOK', UNCHANGED processes
  PROVE  ProcessesSee'
<1> SUFFICES ASSUME NEW g \in Goroutines, NEW i \in DOMAIN processes[g]
             PROVE  Sees(processes[g][i].constructors, contexts[processes[g][i].context].constructors)'
  BY DEF ProcessesSee
<1>1. PICK c \in Contexts : c = processes[g][i].context /\ Made(c)
  BY ProcessIsHome
<1> PICK p : p = processes[g][i].constructors
  OBVIOUS
<1>2. Sees(p, contexts[c].constructors)
  BY <1>1, SMTT(40) DEF Inv, ProcessesSee
<1>3. p.array \in ArrayRef /\ p.len \in Nat
  BY <1>2, BoundsAssumption DEF Sees, Slice
<1>4. Begins(arrays[p.array], arrays'[p.array]) /\ Begins(Content(c), Content(c)')
      /\ Content(c)' \in Seq(Constructors \cup {Builtin})
  BY <1>1, <1>3 DEF ContentsGrow
<1>5. arrays[p.array] \in Seq(Constructors \cup {Builtin}) /\ arrays'[p.array] \in Seq(Constructors \cup {Builtin})
  BY <1>3, SMTT(40) DEF Inv, StoresOK
<1>6. /\ Len(arrays[p.array]) \in Nat /\ Len(arrays'[p.array]) \in Nat
      /\ Len(Content(c)) \in Nat /\ Len(Content(c)') \in Nat
  <2>1. Content(c) \in Seq(Constructors \cup {Builtin})
    BY <1>1, MadeOK
  <2> QED BY <1>4, <1>5, <2>1, LenProperties
<1>7. p.len <= Len(Content(c)) /\ p.len <= Len(arrays[p.array])
      /\ \A j \in 1 .. p.len : arrays[p.array][j] = Content(c)[j]
  BY <1>2, SMTT(40) DEF Sees, Content
<1>8. p.len <= Len(Content(c)') /\ p.len <= Len(arrays'[p.array])
      /\ \A j \in 1 .. p.len : arrays'[p.array][j] = (Content(c)')[j]
  <2> DEFINE n == p.len
             s == arrays[p.array]
             t == Content(c)
             s1 == arrays'[p.array]
             t1 == Content(c)'
  <2>1. /\ n \in Nat /\ Begins(s, s1) /\ Begins(t, t1) /\ Len(s) \in Nat /\ Len(t) \in Nat
        /\ Len(s1) \in Nat /\ Len(t1) \in Nat /\ n <= Len(s) /\ n <= Len(t)
        /\ \A j \in 1 .. n : s[j] = t[j]
    BY <1>3, <1>4, <1>6, <1>7
  <2> HIDE DEF n, s, t, s1, t1
  <2>2. n <= Len(s1) /\ n <= Len(t1) /\ \A j \in 1 .. n : s1[j] = t1[j]
    BY <2>1, BeginningsAgree, SMTT(40)
  <2> QED BY <2>2, SMTT(40) DEF n, s1, t1
<1> QED BY <1>1, <1>2, <1>8 DEF Sees, Content

LEMMA ContentsStay ==
  ASSUME Inv, UNCHANGED <<contexts, arrays>>
  PROVE  ContentsGrow /\ SlicesOK'
<1>1. SlicesOK'
  BY DEF Inv, StoresOK, SlicesOK, SliceOK, Made
<1>2. ASSUME NEW ref \in ArrayRef
      PROVE  Begins(arrays[ref], arrays'[ref])
  BY BeginsItself DEF Inv, StoresOK
<1>3. ASSUME NEW c \in Contexts, Made(c)
      PROVE  Content(c)' \in Seq(Constructors \cup {Builtin}) /\ Begins(Content(c), Content(c)')
  <2>1. Content(c) \in Seq(Constructors \cup {Builtin}) /\ Content(c)' = Content(c)
    BY <1>3, MadeOK DEF Content
  <2> QED BY <2>1, BeginsItself
<1> QED BY <1>1, <1>2, <1>3 DEF ContentsGrow

LEMMA StoresStay ==
  ASSUME Inv, UNCHANGED <<contexts, maps, arrays>>
  PROVE  StoresOK' /\ ContentsGrow /\ View' = View
<1>1. StoresOK'
  BY ContentsStay DEF Inv, StoresOK, Made
<1>2. View' = View
  BY DEF View, Made, Items
<1> QED BY <1>1, <1>2, ContentsStay

LEMMA BeginStep ==
  ASSUME Inv, Ownership', NEW g \in Goroutines, NEW op, NEW args, NEW reads, NEW writes,
         Begin(g, op, args, reads, writes),
         op = "Bind" => BindsItsOwn(g, args),
         op = "RegisterConstructor" => contexts[args[1]].constructors.len < MaxConstructors
  PROVE  Inv' /\ View' = View
<1>1. /\ UNCHANGED <<contexts, maps, arrays, processes>> /\ changes' \in Nat
      /\ calls' = [calls EXCEPT ![g] = [op |-> op, args |-> args, reads |-> reads, writes |-> writes]]
  BY DEF Begin, Inv
<1>2. StoresOK' /\ ProcessesSee' /\ View' = View
  BY <1>1, StoresStay, ProcessesKeep
<1>3. /\ calls'[g] = [op |-> op, args |-> args, reads |-> reads, writes |-> writes]
      /\ \A h \in Goroutines \ {g} : calls'[h] = calls[h]
  BY <1>1 DEF Inv, Ownership, CallsStayAtHome
<1>4. ASSUME NEW h \in Goroutines
      PROVE  /\ InCall(h, "Bind")' => BindsItsOwn(h, Args(h))'
             /\ InCall(h, "RegisterConstructor")' => contexts[calls'[h].args[1]].constructors.len < MaxConstructors
  <2>1. CASE h = g
    BY <1>1, <1>3, <2>1 DEF InCall, Args, BindsItsOwn, Owns, Made
  <2>2. CASE h # g
    <3>1. calls'[h] = calls[h]
      BY <1>3, <2>2
    <3> QED BY <1>1, <3>1 DEF InCall, Inv, CallsOK, Args, BindsItsOwn, Owns, Made
  <2> QED BY <2>1, <2>2
<1>5. CallsOK'
  BY <1>1, <1>4 DEF CallsOK, Args
<1> QED BY <1>1, <1>2, <1>5 DEF Inv

\* All contexts but c, and what they refer to, stay as they are.
OthersStay(c) ==
  \A d \in Contexts \ {c} :
    /\ contexts'[d] = contexts[d]
    /\ Made(d) => /\ maps'[<<d, "natives">>] = maps[<<d, "natives">>] /\ maps'[<<d, "globals">>] = maps[<<d, "globals">>]
                  /\ Content(d)' = Content(d)

LEMMA ViewOfMade ==
  ASSUME Inv, NEW c \in Contexts, Made(c)
  PROVE  View[c] = [natives |-> maps[<<c, "natives">>], globals |-> maps[<<c, "globals">>], constructors |-> Content(c)]
BY MadeOK, ItemsAreContent DEF View

ViewsAreContents ==
  \A c \in Contexts : Made(c) =>
    View[c] = [natives |-> maps[<<c, "natives">>], globals |-> maps[<<c, "globals">>], constructors |-> Content(c)]
LEMMA ViewsOfMade == Inv => ViewsAreContents
BY ViewOfMade DEF ViewsAreContents
LEMMA ViewsOfMadeNext == Inv' => ViewsAreContents'
BY ViewsOfMade, PTL

LEMMA ViewOfOthers ==
  ASSUME Inv, Inv', NEW c \in Contexts, OthersStay(c)
  PROVE  View' = [View EXCEPT ![c] = View'[c]]
<1>1. ASSUME NEW d \in Contexts \ {c}
      PROVE  View'[d] = View[d]
  <2>1. CASE Made(d)
    <3>1. Made(d)'
      BY <1>1, <2>1 DEF OthersStay, Made
    <3>2. View'[d] = [natives |-> maps'[<<d, "natives">>], globals |-> maps'[<<d, "globals">>],
                      constructors |-> Content(d)']
      <4>1. ViewsAreContents'
        BY ViewsOfMadeNext
      <4> QED BY <3>1, <4>1 DEF ViewsAreContents
    <3> QED BY <1>1, <2>1, <3>2, ViewOfMade DEF OthersStay
  <2>2. CASE ~Made(d)
    BY <1>1, <2>2 DEF OthersStay, Made, View
  <2> QED BY <2>1, <2>2
<1>2. View = [d \in Contexts |-> View[d]] /\ View' = [d \in Contexts |-> View'[d]]
  BY DEF View
<1> QED BY <1>1, <1>2

\* A step that changes what belongs to c only.
TouchesOnly(c) ==
  /\ \A d \in Contexts \ {c} : contexts'[d] = contexts[d]
  /\ \A d \in Contexts \ {c} : \A kind \in Kinds : maps'[<<d, kind>>] = maps[<<d, kind>>]
  /\ \A ref \in ArrayRef : ref[1] # c => arrays'[ref] = arrays[ref]

LEMMA TouchesOnlyLeavesOthers ==
  ASSUME Inv, NEW c \in Contexts, TouchesOnly(c)
  PROVE  OthersStay(c)
<1> SUFFICES ASSUME NEW d \in Contexts \ {c}, Made(d)
             PROVE  /\ maps'[<<d, "natives">>] = maps[<<d, "natives">>] /\ maps'[<<d, "globals">>] = maps[<<d, "globals">>]
                    /\ Content(d)' = Content(d)
  BY DEF OthersStay, TouchesOnly
<1>1. contexts[d].constructors.array \in ArrayRef /\ contexts[d].constructors.array[1] # c
  BY MadeOK
<1>2. Content(d)' = Content(d)
  BY <1>1 DEF TouchesOnly, Content
<1> QED BY <1>2 DEF TouchesOnly, Kinds

LEMMA NotMadeIsEmpty ==
  ASSUME Inv, NEW c \in Contexts, ~Made(c)
  PROVE  /\ \A n \in 1 .. MaxConstructors : arrays[<<c, n>>] = <<>>
         /\ <<c, MaxConstructors>> \in ArrayRef /\ arrays[<<c, MaxConstructors>>] = <<>>
<1>1. \A n \in 1 .. MaxConstructors : arrays[<<c, n>>] = <<>>
  BY DEF Inv, StoresOK, SlicesOK, SliceOK
<1>2. MaxConstructors \in 1 .. MaxConstructors
  BY BoundsAssumption
<1> QED BY <1>1, <1>2, Elsewhere

LEMMA SliceIsOK ==
  ASSUME NEW c \in Contexts, NEW s \in Slice, Made(c)', contexts'[c].constructors = s, s.len >= 1,
         Len(arrays'[s.array]) = s.len, s.array = <<c, MaxConstructors>> \/ arrays'[<<c, MaxConstructors>>] = <<>>
  PROVE  SliceOK(c)'
BY DEF SliceOK

LEMMA OthersSlices ==
  ASSUME Inv, NEW c \in Contexts, TouchesOnly(c), NEW d \in Contexts \ {c}
  PROVE  SliceOK(d)'
<1>1. contexts'[d] = contexts[d] /\ \A n \in 1 .. MaxConstructors : arrays'[<<d, n>>] = arrays[<<d, n>>]
  BY Elsewhere DEF TouchesOnly
<1>2. SliceOK(d) /\ MaxConstructors \in 1 .. MaxConstructors
  BY BoundsAssumption DEF Inv, StoresOK, SlicesOK
<1>3. CASE Made(d)
  <2>1. contexts[d].constructors.array \in ArrayRef /\ contexts[d].constructors.array[1] # c
    BY <1>3, MadeOK
  <2>2. arrays'[contexts[d].constructors.array] = arrays[contexts[d].constructors.array]
    BY <2>1 DEF TouchesOnly
  <2> QED BY <1>1, <1>2, <1>3, <2>2 DEF SliceOK, Made
<1>4. CASE ~Made(d)
  BY <1>1, <1>2, <1>4 DEF SliceOK, Made
<1> QED BY <1>3, <1>4

LEMMA OthersGrow ==
  ASSUME Inv, StoresOK', NEW c \in Contexts, TouchesOnly(c),
         \A n \in 1 .. MaxConstructors : Begins(arrays[<<c, n>>], arrays'[<<c, n>>]),
         Made(c) => Content(c)' \in Seq(Constructors \cup {Builtin}) /\ Begins(Content(c), Content(c)')
  PROVE  ContentsGrow
<1>1. ASSUME NEW ref \in ArrayRef
      PROVE  Begins(arrays[ref], arrays'[ref])
  <2>1. CASE ref[1] = c
    <3>1. ref = <<c, ref[2]>> /\ ref[2] \in 1 .. MaxConstructors
      BY <2>1 DEF ArrayRef
    <3> QED BY <3>1
  <2>2. CASE ref[1] # c
    <3>1. arrays'[ref] = arrays[ref] /\ arrays[ref] \in Seq(Constructors \cup {Builtin})
      BY <2>2 DEF TouchesOnly, Inv, StoresOK
    <3> QED BY <3>1, BeginsItself
  <2> QED BY <2>1, <2>2
<1>2. ASSUME NEW d \in Contexts, Made(d)
      PROVE  Content(d)' \in Seq(Constructors \cup {Builtin}) /\ Begins(Content(d), Content(d)')
  <2>1. CASE d # c
    <3>1. Content(d)' = Content(d) /\ Content(d) \in Seq(Constructors \cup {Builtin})
      BY <1>2, <2>1, TouchesOnlyLeavesOthers, MadeOK DEF OthersStay
    <3> QED BY <3>1, BeginsItself
  <2> QED BY <1>2, <2>1
<1> QED BY <1>1, <1>2 DEF ContentsGrow

\* A context is made, by NewScriptContext or Clone.
LEMMA Making ==
  ASSUME Inv, Ownership', StoresOK', NEW c \in Contexts, ~Made(c), TouchesOnly(c), changes' \in Nat,
         UNCHANGED processes, \A g \in Goroutines : calls'[g] = Idle \/ calls'[g] = calls[g]
  PROVE  Inv' /\ OthersStay(c)
<1>1. ASSUME NEW n \in 1 .. MaxConstructors
      PROVE  Begins(arrays[<<c, n>>], arrays'[<<c, n>>])
  <2>1. <<c, n>> \in ArrayRef /\ arrays[<<c, n>>] = <<>>
    BY Elsewhere, ZenonT(40) DEF Inv, StoresOK, SlicesOK, SliceOK
  <2>2. arrays'[<<c, n>>] \in Seq(Constructors \cup {Builtin})
    BY <2>1 DEF StoresOK
  <2> QED BY <2>1, <2>2, BeginsItself
<1>2. ContentsGrow
  BY <1>1, OthersGrow
<1>3. ProcessesSee'
  BY <1>2, ProcessesKeep
<1>4. ASSUME NEW g \in Goroutines, calls'[g] # Idle
      PROVE  CallKept(g)
  BY <1>4 DEF CallKept, TouchesOnly, Owns, Made
<1>5. CallsOK'
  BY <1>4, CallsKeep
<1> QED BY <1>3, <1>5, TouchesOnlyLeavesOthers DEF Inv

LEMMA MapsTyped ==
  ASSUME Inv, NEW ref \in MapRef, NEW m \in [Names -> Values \cup {Unbound}]
  PROVE  [maps EXCEPT ![ref] = m] \in [MapRef -> [Names -> Values \cup {Unbound}]]
BY DEF Inv, StoresOK

LEMMA NewScriptContextMakes ==
  ASSUME Inv, Ownership', NEW g \in Goroutines, NewScriptContext(g)
  PROVE  Inv' /\ \E c \in Contexts : Isolated!Make(c)
<1>1. PICK c \in Contexts :
        /\ ~Made(c)
        /\ contexts' = [contexts EXCEPT ![c] =
             [natives |-> <<c, "natives">>, globals |-> <<c, "globals">>,
              constructors |-> NativeConstructors, owner |-> g, shared |-> FALSE]]
        /\ maps' = [maps EXCEPT ![<<c, "natives">>] = NativeFunctions]
        /\ UNCHANGED <<arrays, calls, processes, changes>>
  BY DEF NewScriptContext
<1> DEFINE r == [natives |-> <<c, "natives">>, globals |-> <<c, "globals">>,
                 constructors |-> NativeConstructors, owner |-> g, shared |-> FALSE]
<1>2. DOMAIN contexts = Contexts /\ contexts'[c] = r /\ r # NotMade /\ Made(c)'
  <2>1. contexts \in [Contexts -> {NotMade} \cup Context1]
    BY DEF Inv, Ownership, ContextsOwnTheirs
  <2>2. DOMAIN r # DOMAIN NotMade
    <3>1. "natives" \in DOMAIN r /\ "natives" \notin DOMAIN NotMade
      BY DEF NotMade
    <3> QED BY <3>1
  <2> QED BY <1>1, <2>1, <2>2 DEF Made
<1>3. <<c, "natives">> \in MapRef /\ NativeFunctions \in [Names -> Values \cup {Unbound}]
  BY DEF MapRef, Kinds, NativeFunctions
<1>4. maps' \in [MapRef -> [Names -> Values \cup {Unbound}]] /\ maps'[<<c, "natives">>] = NativeFunctions
      /\ \A ref \in MapRef \ {<<c, "natives">>} : maps'[ref] = maps[ref]
  BY <1>1, <1>3, MapsTyped DEF Inv, StoresOK
<1>5. TouchesOnly(c)
  BY <1>1, <1>2, <1>4 DEF TouchesOnly, MapRef
<1>6. arrays[<<Package, 1>>] = <<Builtin>> /\ Len(<<Builtin>>) = 1
  BY DEF Inv, StoresOK
<1>7. SlicesOK'
  <2>1. NativeConstructors.array = <<Package, 1>> /\ NativeConstructors.len = 1 /\ NativeConstructors \in Slice
    BY LibraryArray DEF NativeConstructors
  <2>2. arrays[<<c, MaxConstructors>>] = <<>>
    BY <1>1, BoundsAssumption DEF Inv, StoresOK, SlicesOK, SliceOK
  <2>3. SliceOK(c)'
    <3>1. contexts'[c].constructors = NativeConstructors
      BY <1>2
    <3>2. Len(arrays'[NativeConstructors.array]) = NativeConstructors.len /\ NativeConstructors.len >= 1
      BY <1>1, <1>6, <2>1, SMTT(40)
    <3>3. arrays'[<<c, MaxConstructors>>] = <<>>
      BY <1>1, <2>2
    <3> QED BY <1>2, <2>1, <3>1, <3>2, <3>3, SliceIsOK
  <2> QED BY <1>5, <2>3, OthersSlices DEF SlicesOK
<1>8. \A d \in Contexts : Made(d)' \/ maps'[<<d, "globals">>] = NothingBound
  BY <1>2, <1>4, <1>5 DEF TouchesOnly, Inv, StoresOK, Made, MapRef, Kinds
<1>9. StoresOK'
  BY <1>1, <1>4, <1>7, <1>8 DEF Inv, StoresOK, NothingBound
<1>10. Inv' /\ OthersStay(c)
  BY <1>1, <1>5, <1>9, Making DEF Inv
<1>11. View'[c] = [natives |-> NativeFunctions, globals |-> NothingBound, constructors |-> <<Builtin>>]
  <2>1. View'[c] = [natives |-> maps'[<<c, "natives">>], globals |-> maps'[<<c, "globals">>], constructors |-> Content(c)']
    BY <1>2, <1>10, ViewsOfMadeNext DEF ViewsAreContents
  <2>2. maps'[<<c, "globals">>] = NothingBound
    BY <1>1, <1>4 DEF Inv, StoresOK, MapRef, Kinds
  <2>3. Content(c)' = <<Builtin>>
    BY <1>1, <1>2, <1>6 DEF Content, NativeConstructors
  <2> QED BY <1>4, <2>1, <2>2, <2>3
<1>12. View[c] = Isolated!NotMade
  BY <1>1 DEF View, Isolated!NotMade, NotMade
<1>13. Isolated!Make(c)
  BY <1>10, <1>11, <1>12, ViewOfOthers DEF Isolated!Make, NothingBound, Isolated!Unbound, Unbound
<1> QED BY <1>10, <1>13

LEMMA CloneCopies ==
  ASSUME Inv, Ownership', NEW g \in Goroutines, Clone(g)
  PROVE  Inv' /\ (View' = View \/ \E c, d \in Contexts : Isolated!Copy(c, d))
<1>1. ASSUME NEW c \in Contexts, NEW d \in Contexts, NEW reads, Begin(g, "Clone", <<c, d>>, reads, {})
      PROVE  Inv' /\ View' = View
  BY <1>1, BeginStep
<1>2. ASSUME InCall(g, "Clone"), NEW c, NEW d, c = Args(g)[1], d = Args(g)[2], NEW copy, copy = CopyOf(c, d),
             ~Made(d),
             contexts' = [contexts EXCEPT ![d] =
               [natives |-> copy.natives, globals |-> copy.globals, constructors |-> copy.constructors,
                owner |-> g, shared |-> FALSE]],
             maps' = [maps EXCEPT ![copy.natives] = maps[contexts[c].natives],
                                  ![copy.globals] = maps[contexts[c].globals]],
             arrays' = [arrays EXCEPT ![copy.constructors.array] = Items(contexts[c].constructors)],
             End(g), UNCHANGED processes
      PROVE  Inv' /\ \E e, f \in Contexts : Isolated!Copy(e, f)
  <2>1. c \in Contexts /\ d \in Contexts /\ Made(c) /\ c # d
    BY <1>2 DEF Inv, Ownership, CallsStayAtHome, InCall, Args, Readable
  <2> PICK n : n = contexts[c].constructors.len
    OBVIOUS
  <2> PICK items : items = Content(c)
    OBVIOUS
  <2> DEFINE r == [natives |-> copy.natives, globals |-> copy.globals, constructors |-> copy.constructors,
                   owner |-> g, shared |-> FALSE]
  <2>2. /\ n \in 1 .. MaxConstructors /\ Len(items) = n /\ items \in Seq(Constructors \cup {Builtin})
        /\ contexts[c].natives = <<c, "natives">> /\ contexts[c].globals = <<c, "globals">>
        /\ Items(contexts[c].constructors) = items
    BY <2>1, MadeOK, ItemsAreContent, BoundsAssumption
  <2>3. /\ copy.natives = <<d, "natives">> /\ copy.globals = <<d, "globals">>
        /\ copy.constructors = [array |-> <<d, n>>, len |-> n]
    BY <1>2 DEF CopyOf
  <2>4. DOMAIN contexts = Contexts /\ contexts'[d] = r /\ Made(d)' /\ contexts'[d].constructors = [array |-> <<d, n>>, len |-> n]
        /\ \A e \in Contexts \ {d} : contexts'[e] = contexts[e]
    <3>1. contexts \in [Contexts -> {NotMade} \cup Context1]
      BY DEF Inv, Ownership, ContextsOwnTheirs
    <3>2. "natives" \in DOMAIN r /\ "natives" \notin DOMAIN NotMade
      BY DEF NotMade
    <3>3. r # NotMade
      BY <3>2
    <3>4. r.constructors = [array |-> <<d, n>>, len |-> n]
      BY <2>3
    <3> HIDE DEF r
    <3> QED BY <1>2, <2>1, <3>1, <3>3, <3>4 DEF Made, r
  <2>5. /\ maps' \in [MapRef -> [Names -> Values \cup {Unbound}]]
        /\ maps'[<<d, "natives">>] = maps[<<c, "natives">>] /\ maps'[<<d, "globals">>] = maps[<<c, "globals">>]
        /\ \A ref \in MapRef : ref[1] # d => maps'[ref] = maps[ref]
    <3>1. maps' = [maps EXCEPT ![<<d, "natives">>] = maps[<<c, "natives">>], ![<<d, "globals">>] = maps[<<c, "globals">>]]
      BY <1>2, <2>2, <2>3
    <3>2. <<c, "natives">> \in MapRef /\ <<c, "globals">> \in MapRef
          /\ <<d, "natives">> \in MapRef /\ <<d, "globals">> \in MapRef
      BY <2>1 DEF MapRef, Kinds
    <3>3. <<d, "natives">>[1] = d /\ <<d, "globals">>[1] = d /\ <<d, "natives">> # <<d, "globals">>
      OBVIOUS
    <3>4. maps \in [MapRef -> [Names -> Values \cup {Unbound}]]
      BY SMTT(40) DEF Inv, StoresOK
    <3> QED BY <3>1, <3>2, <3>3, <3>4
  <2>6. /\ arrays' \in [ArrayRef -> Seq(Constructors \cup {Builtin})] /\ arrays'[<<d, n>>] = items
        /\ \A ref \in ArrayRef \ {<<d, n>>} : arrays'[ref] = arrays[ref]
        /\ <<d, n>> \in ArrayRef /\ <<d, n>>[1] = d /\ <<d, n>>[2] = n
    BY <1>2, <2>1, <2>2, <2>3, Elsewhere, SMTT(40) DEF Inv, StoresOK
  <2>7. TouchesOnly(d)
    BY <2>4, <2>5, <2>6 DEF TouchesOnly, MapRef
  <2>8. SlicesOK'
    <3> PICK s : s = [array |-> <<d, n>>, len |-> n]
      OBVIOUS
    <3>1. s \in Slice /\ s.array = <<d, n>> /\ s.len = n /\ s.len >= 1
      BY <2>2, <2>6 DEF Slice
    <3>4. contexts'[d].constructors = s
      BY <2>4
    <3>5. Len(arrays'[s.array]) = s.len
      BY <2>2, <2>6, <3>1
    <3>2. <<d, MaxConstructors>> = <<d, n>> \/ arrays'[<<d, MaxConstructors>>] = <<>>
      <4>1. <<d, MaxConstructors>> \in ArrayRef /\ arrays[<<d, MaxConstructors>>] = <<>>
        BY <1>2, <2>1, NotMadeIsEmpty
      <4> QED BY <2>6, <4>1
    <3>3. SliceOK(d)'
      BY <2>1, <2>4, <3>1, <3>2, <3>4, <3>5, SliceIsOK
    <3> QED BY <2>1, <2>7, <3>3, OthersSlices DEF SlicesOK
  <2>9. StoresOK'
    <3>1. \A ref \in ArrayRef : Len(arrays'[ref]) <= ref[2]
      <4>1. ASSUME NEW ref \in ArrayRef
            PROVE  Len(arrays'[ref]) <= ref[2]
        <5>1. CASE ref = <<d, n>>
          BY <2>2, <2>6, <5>1
        <5>2. CASE ref # <<d, n>>
          BY <2>6, <5>2 DEF Inv, StoresOK
        <5> QED BY <5>1, <5>2
      <4> QED BY <4>1
    <3>2. arrays'[<<Package, 1>>] = <<Builtin>>
      BY <2>1, <2>2, <2>6, LibraryArray, Elsewhere DEF Inv, StoresOK
    <3>3. \A e \in Contexts : Made(e)' \/ maps'[<<e, "globals">>] = NothingBound
      BY <2>4, <2>5 DEF Inv, StoresOK, Made, MapRef, Kinds
    <3> QED BY <2>5, <2>6, <2>8, <3>1, <3>2, <3>3 DEF StoresOK, NothingBound
  <2>10. \A h \in Goroutines : calls'[h] = Idle \/ calls'[h] = calls[h]
    BY <1>2 DEF End, Inv, Ownership, CallsStayAtHome
  <2>11. Inv' /\ OthersStay(d)
    BY <1>2, <2>1, <2>7, <2>9, <2>10, Making DEF End, Inv
  <2>12. View'[d] = View[c]
    <3>1. View'[d] = [natives |-> maps'[<<d, "natives">>], globals |-> maps'[<<d, "globals">>], constructors |-> Content(d)']
      BY <2>1, <2>4, <2>11, ViewsOfMadeNext DEF ViewsAreContents
    <3>2. Content(d)' = items
      <4>1. contexts'[d].constructors.array = <<d, n>>
        BY <2>4
      <4> QED BY <2>6, <4>1 DEF Content
    <3> QED BY <2>1, <2>5, <3>1, <3>2, ViewOfMade
  <2>13. View[d] = Isolated!NotMade /\ View[c] # Isolated!NotMade
    <3>1. View[c] = [natives |-> maps[<<c, "natives">>], globals |-> maps[<<c, "globals">>], constructors |-> items]
      BY <2>1, ViewOfMade
    <3>2. "natives" \in DOMAIN View[c] /\ "natives" \notin DOMAIN Isolated!NotMade
      BY <3>1 DEF Isolated!NotMade
    <3> QED BY <1>2, <2>1, <3>2 DEF View, Isolated!NotMade, NotMade
  <2>14. Isolated!Copy(c, d)
    BY <2>1, <2>11, <2>12, <2>13, ViewOfOthers DEF Isolated!Copy
  <2> QED BY <2>1, <2>11, <2>14
<1> QED BY <1>1, <1>2 DEF Clone

LEMMA EndOfBindBinds ==
  ASSUME Inv, Ownership', NEW g \in Goroutines, EndOfBind(g)
  PROVE  Inv' /\ \E c \in Contexts, kind \in {"natives", "globals"}, n \in Names, v \in Plain : Isolated!Bind(c, kind, n, v)
<1>1. PICK c \in Contexts, kind \in Kinds, n \in Names, v \in Plain : Owns(g, c) /\ Args(g) = <<<<c, kind>>, n, v>>
  BY DEF EndOfBind, Inv, CallsOK, BindsItsOwn
<1>2. /\ Made(c) /\ maps' = [maps EXCEPT ![<<c, kind>>] = [maps[<<c, kind>>] EXCEPT ![n] = v]]
      /\ UNCHANGED <<contexts, arrays, processes>> /\ changes' \in Nat
  BY <1>1 DEF EndOfBind, Bind, End, Owns, Inv
<1> DEFINE m == [maps[<<c, kind>>] EXCEPT ![n] = v]
<1>3. <<c, kind>> \in MapRef /\ m \in [Names -> Values \cup {Unbound}]
  BY DEF MapRef, Inv, StoresOK, Values
<1>4. maps' \in [MapRef -> [Names -> Values \cup {Unbound}]] /\ maps'[<<c, kind>>] = m
      /\ \A ref \in MapRef \ {<<c, kind>>} : maps'[ref] = maps[ref]
  BY <1>2, <1>3, MapsTyped DEF Inv, StoresOK
<1>5. TouchesOnly(c)
  BY <1>2, <1>4 DEF TouchesOnly, MapRef
<1>6. \A d \in Contexts : Made(d)' \/ maps'[<<d, "globals">>] = NothingBound
  BY <1>2, <1>5 DEF TouchesOnly, Inv, StoresOK, Made, Kinds
<1>7. StoresOK'
  BY <1>2, <1>4, <1>6, ContentsStay DEF Inv, StoresOK, NothingBound
<1>8. ASSUME NEW h \in Goroutines, calls'[h] # Idle
      PROVE  CallKept(h)
  <2>1. calls'[h] = calls[h]
    BY <1>8 DEF EndOfBind, End, Inv, Ownership, CallsStayAtHome
  <2> QED BY <1>2, <2>1 DEF CallKept, Owns, Made
<1>9. Inv'
  BY <1>2, <1>7, <1>8, ContentsStay, ProcessesKeep, CallsKeep DEF Inv
<1>10. Isolated!Bind(c, kind, n, v)
  <2>1. View[c] = [natives |-> maps[<<c, "natives">>], globals |-> maps[<<c, "globals">>], constructors |-> Content(c)]
    BY <1>2, ViewOfMade
  <2>2. View'[c] = [natives |-> maps'[<<c, "natives">>], globals |-> maps'[<<c, "globals">>], constructors |-> Content(c)]
    BY <1>2, <1>9, ViewsOfMadeNext DEF ViewsAreContents, Made, Content
  <2>3. View'[c] = [View[c] EXCEPT ![kind][n] = v]
    <3> PICK a, b, a1, b1, x :
          /\ a = maps[<<c, "natives">>] /\ b = maps[<<c, "globals">>] /\ x = Content(c)
          /\ a1 = maps'[<<c, "natives">>] /\ b1 = maps'[<<c, "globals">>]
      OBVIOUS
    <3>1. CASE kind = "natives"
      <4>1. a1 = [a EXCEPT ![n] = v] /\ b1 = b
        BY <1>4, <3>1 DEF MapRef, Kinds
      <4> QED BY <2>1, <2>2, <3>1, <4>1
    <3>2. CASE kind = "globals"
      <4>1. b1 = [b EXCEPT ![n] = v] /\ a1 = a
        BY <1>4, <3>2 DEF MapRef, Kinds
      <4> QED BY <2>1, <2>2, <3>2, <4>1
    <3> QED BY <3>1, <3>2 DEF Kinds
  <2>4. View[c] # Isolated!NotMade
    <3>1. "natives" \in DOMAIN View[c] /\ "natives" \notin DOMAIN Isolated!NotMade
      BY <2>1 DEF Isolated!NotMade
    <3> QED BY <3>1
  <2>5. View' = [View EXCEPT ![c] = View'[c]]
    BY <1>5, <1>9, TouchesOnlyLeavesOthers, ViewOfOthers
  <2> QED BY <2>3, <2>4, <2>5 DEF Isolated!Bind
<1> QED BY <1>9, <1>10 DEF Kinds

\* append, in place or to a new array, leaves the context with a slice that is
\* all of its array, which holds one constructor more.
LEMMA Appends ==
  ASSUME Inv, NEW c \in Contexts, NEW k \in Constructors, Made(c),
         contexts[c].constructors.len < MaxConstructors, Append1(c, k)
  PROVE  \E t \in Slice :
           /\ t.array \in ArrayRef /\ t.array[1] = c /\ t.len = contexts[c].constructors.len + 1 /\ t.len <= t.array[2]
           /\ contexts' = [contexts EXCEPT ![c] = [contexts[c] EXCEPT !.constructors = t]]
           /\ arrays' = [arrays EXCEPT ![t.array] = Append(Content(c), k)]
           /\ t.array = contexts[c].constructors.array \/ arrays[t.array] = <<>>
           /\ t.array = <<c, MaxConstructors>> \/ arrays[<<c, MaxConstructors>>] = <<>>
<1> PICK s : s = contexts[c].constructors
  OBVIOUS
<1>1. /\ s \in Slice /\ s.len \in Nat \ {0} /\ s.len <= MaxConstructors /\ s.array \in ArrayRef
      /\ s = NativeConstructors \/ \E n \in 1 .. MaxConstructors : s.array = <<c, n>>
      /\ Items(s) = Content(c)
  BY MadeOK, ItemsAreContent
<1>2. s.array = <<c, MaxConstructors>> \/ arrays[<<c, MaxConstructors>>] = <<>>
  BY DEF Inv, StoresOK, SlicesOK, SliceOK
<1>3. DOMAIN contexts = Contexts
  BY DEF Inv, Ownership, ContextsOwnTheirs
<1>4. MaxConstructors \in 1 .. MaxConstructors /\ <<c, MaxConstructors>> \in ArrayRef
  BY BoundsAssumption, Elsewhere
<1>5. CASE s.len < Capacity(s)
  <2> DEFINE t == [s EXCEPT !.len = s.len + 1]
  <2>1. t.array = s.array /\ t.len = s.len + 1 /\ t \in Slice
    BY <1>1, <1>4 DEF Slice
  <2>2. s # NativeConstructors /\ s.array[1] = c /\ s.len + 1 <= s.array[2]
    BY <1>1, <1>5 DEF Capacity, NativeConstructors
  <2>3. contexts' = [contexts EXCEPT ![c] = [contexts[c] EXCEPT !.constructors = t]]
        /\ arrays' = [arrays EXCEPT ![s.array] = Append(Content(c), k)]
    BY <1>1, <1>3, <1>5 DEF Append1
  <2> HIDE DEF t
  <2> QED BY <1>1, <1>2, <2>1, <2>2, <2>3
<1>6. CASE ~(s.len < Capacity(s))
  <2> DEFINE t == [array |-> <<c, MaxConstructors>>, len |-> s.len + 1]
  <2>1. contexts' = [contexts EXCEPT ![c] = [contexts[c] EXCEPT !.constructors = t]]
        /\ arrays' = [arrays EXCEPT ![t.array] = Append(Content(c), k)]
    BY <1>1, <1>3, <1>6 DEF Append1
  <2>2. t \in Slice /\ t.array = <<c, MaxConstructors>> /\ t.len = s.len + 1
    BY <1>1, <1>4 DEF Slice
  <2>3. s.len + 1 <= MaxConstructors
    BY <1>1, <1>4
  <2> HIDE DEF t
  <2>4. t.array \in ArrayRef /\ t.array[1] = c /\ t.len <= t.array[2]
    BY <1>4, <2>2, <2>3
  <2>5. t.array = s.array \/ arrays[t.array] = <<>>
    BY <1>2, <2>2
  <2> QED BY <2>1, <2>2, <2>4, <2>5
<1> QED BY <1>5, <1>6

LEMMA RegisterConstructorRegisters ==
  ASSUME Inv, Ownership', NEW g \in Goroutines, RegisterConstructor(g)
  PROVE  Inv' /\ (View' = View \/ \E c \in Contexts, k \in Constructors : Isolated!Register(c, k))
<1>1. ASSUME NEW c \in Contexts, NEW k \in Constructors, NEW reads, NEW writes,
             contexts[c].constructors.len < MaxConstructors,
             Begin(g, "RegisterConstructor", <<c, k>>, reads, writes)
      PROVE  Inv' /\ View' = View
  BY <1>1, BeginStep
<1>2. ASSUME InCall(g, "RegisterConstructor"), Bind(contexts[Args(g)[1]].natives, Args(g)[2], Args(g)[2]),
             Append1(Args(g)[1], Args(g)[2]), End(g), UNCHANGED processes
      PROVE  Inv' /\ \E c \in Contexts, k \in Constructors : Isolated!Register(c, k)
  <2>1. PICK c \in Contexts, k \in Constructors : Args(g) = <<c, k>> /\ Owns(g, c)
    BY <1>2 DEF Inv, Ownership, CallsStayAtHome, InCall, Args
  <2>2. Made(c) /\ contexts[c].constructors.len < MaxConstructors /\ contexts[c].natives = <<c, "natives">>
    BY <1>2, <2>1, MadeOK DEF Owns, Inv, CallsOK
  <2> PICK items : items = Content(c)
    OBVIOUS
  <2> PICK m : m = [maps[<<c, "natives">>] EXCEPT ![k] = k]
    OBVIOUS
  <2>3. PICK t \in Slice :
           /\ t.array \in ArrayRef /\ t.array[1] = c /\ t.len = contexts[c].constructors.len + 1 /\ t.len <= t.array[2]
           /\ contexts' = [contexts EXCEPT ![c] = [contexts[c] EXCEPT !.constructors = t]]
           /\ arrays' = [arrays EXCEPT ![t.array] = Append(items, k)]
           /\ t.array = contexts[c].constructors.array \/ arrays[t.array] = <<>>
           /\ t.array = <<c, MaxConstructors>> \/ arrays[<<c, MaxConstructors>>] = <<>>
    <3>1. Append1(c, k)
      BY <1>2, <2>1
    <3>2. PICK t \in Slice :
           /\ t.array \in ArrayRef /\ t.array[1] = c /\ t.len = contexts[c].constructors.len + 1 /\ t.len <= t.array[2]
           /\ contexts' = [contexts EXCEPT ![c] = [contexts[c] EXCEPT !.constructors = t]]
           /\ arrays' = [arrays EXCEPT ![t.array] = Append(Content(c), k)]
           /\ t.array = contexts[c].constructors.array \/ arrays[t.array] = <<>>
           /\ t.array = <<c, MaxConstructors>> \/ arrays[<<c, MaxConstructors>>] = <<>>
      BY <2>2, <3>1, Appends
    <3> QED BY <3>2
  <2>4. /\ items \in Seq(Constructors \cup {Builtin}) /\ Append(items, k) \in Seq(Constructors \cup {Builtin})
        /\ Len(items) = contexts[c].constructors.len /\ Len(Append(items, k)) = t.len /\ t.len >= 1
    BY <2>2, <2>3, MadeOK, AppendProperties
  <2>5. /\ contexts'[c].constructors = t /\ Made(c)' /\ contexts'[c].owner = contexts[c].owner
        /\ contexts'[c].shared = contexts[c].shared
        /\ \A d \in Contexts \ {c} : contexts'[d] = contexts[d]
    <3>1. contexts \in [Contexts -> {NotMade} \cup Context1] /\ contexts[c] \in Context1
      BY <2>2, MadeOK DEF Inv, Ownership, ContextsOwnTheirs
    <3> PICK r : r = [contexts[c] EXCEPT !.constructors = t]
      OBVIOUS
    <3>2. r.constructors = t /\ r.owner = contexts[c].owner /\ r.shared = contexts[c].shared
          /\ "natives" \in DOMAIN r /\ "natives" \notin DOMAIN NotMade
      BY <3>1 DEF Context1, NotMade
    <3>3. r # NotMade
      BY <3>2
    <3> QED BY <2>3, <3>1, <3>2, <3>3 DEF Made
  <2>6. /\ arrays' \in [ArrayRef -> Seq(Constructors \cup {Builtin})] /\ arrays'[t.array] = Append(items, k)
        /\ \A ref \in ArrayRef \ {t.array} : arrays'[ref] = arrays[ref]
    BY <2>3, <2>4 DEF Inv, StoresOK
  <2>7. <<c, "natives">> \in MapRef /\ m \in [Names -> Values \cup {Unbound}]
    BY NamesAssumption DEF MapRef, Kinds, Inv, StoresOK, Values
  <2>8. /\ maps' \in [MapRef -> [Names -> Values \cup {Unbound}]] /\ maps'[<<c, "natives">>] = m
        /\ \A ref \in MapRef \ {<<c, "natives">>} : maps'[ref] = maps[ref]
    <3>1. contexts[Args(g)[1]].natives = <<c, "natives">> /\ Args(g)[2] = k
      BY <2>1, <2>2
    <3>2. maps' = [maps EXCEPT ![<<c, "natives">>] = m]
      BY <1>2, <3>1 DEF Bind
    <3> QED BY <2>7, <3>2, MapsTyped DEF Inv, StoresOK
  <2>9. TouchesOnly(c)
    BY <2>3, <2>5, <2>6, <2>8 DEF TouchesOnly, MapRef
  <2>10. SlicesOK'
    <3>1. t.array = <<c, MaxConstructors>> \/ arrays'[<<c, MaxConstructors>>] = <<>>
      <4>1. <<c, MaxConstructors>> \in ArrayRef
        BY BoundsAssumption, Elsewhere
      <4> QED BY <2>3, <2>6, <4>1
    <3>2. SliceOK(c)'
      BY <2>3, <2>4, <2>5, <2>6, <3>1, SliceIsOK
    <3> QED BY <2>9, <3>2, OthersSlices DEF SlicesOK
  <2>11. StoresOK'
    <3>1. \A ref \in ArrayRef : Len(arrays'[ref]) <= ref[2]
      <4> SUFFICES ASSUME NEW ref \in ArrayRef
                   PROVE  Len(arrays'[ref]) <= ref[2]
        OBVIOUS
      <4>1. CASE ref = t.array
        BY <2>3, <2>4, <2>6, <4>1
      <4>2. CASE ref # t.array
        BY <2>6, <4>2 DEF Inv, StoresOK
      <4> QED BY <4>1, <4>2
    <3>2. arrays'[<<Package, 1>>] = <<Builtin>>
      <4>1. t.array # <<Package, 1>>
        BY <2>3
      <4> QED BY <2>6, <4>1, LibraryArray DEF Inv, StoresOK
    <3>3. \A e \in Contexts : Made(e)' \/ maps'[<<e, "globals">>] = NothingBound
      BY <2>5, <2>9 DEF TouchesOnly, Inv, StoresOK, Made, Kinds
    <3> QED BY <2>6, <2>8, <2>10, <3>1, <3>2, <3>3 DEF StoresOK, NothingBound
  <2>12. Content(c)' = Append(items, k)
    BY <2>5, <2>6 DEF Content
  <2>13. ContentsGrow
    <3>1. Begins(items, Append(items, k))
      BY <2>4, BeginsAppended DEF Begins
    <3>2. ASSUME NEW n \in 1 .. MaxConstructors
          PROVE  Begins(arrays[<<c, n>>], arrays'[<<c, n>>])
      <4>1. <<c, n>> \in ArrayRef /\ arrays[<<c, n>>] \in Seq(Constructors \cup {Builtin})
        BY Elsewhere DEF Inv, StoresOK
      <4>2. CASE <<c, n>> # t.array
        BY <2>6, <4>1, <4>2, BeginsItself
      <4>3. CASE <<c, n>> = t.array
        <5>1. arrays[<<c, n>>] = items \/ arrays[<<c, n>>] = <<>>
          BY <2>3, <4>3 DEF Content
        <5>2. arrays'[<<c, n>>] = Append(items, k)
          BY <2>6, <4>3
        <5> QED BY <2>4, <3>1, <5>1, <5>2, BeginsItself
      <4> QED BY <4>2, <4>3
    <3> QED BY <2>4, <2>9, <2>11, <2>12, <3>1, <3>2, OthersGrow
  <2>14. ASSUME NEW h \in Goroutines, calls'[h] # Idle
         PROVE  CallKept(h)
    <3>1. calls'[h] = calls[h] /\ h # g
      BY <1>2, <2>14 DEF End, Inv, Ownership, CallsStayAtHome
    <3>2. ASSUME NEW d \in Contexts, Owns(h, d)
          PROVE  Owns(h, d)' /\ contexts'[d].constructors = contexts[d].constructors
      <4>1. d # c
        BY <2>1, <3>1, <3>2 DEF Owns
      <4> QED BY <2>5, <3>2, <4>1 DEF Owns, Made
    <3> QED BY <3>1, <3>2 DEF CallKept
  <2>15. Inv'
    BY <1>2, <2>11, <2>13, <2>14, ProcessesKeep, CallsKeep DEF Inv, End
  <2>16. Isolated!Register(c, k)
    <3>1. View[c] = [natives |-> maps[<<c, "natives">>], globals |-> maps[<<c, "globals">>], constructors |-> items]
      BY <2>2, ViewOfMade
    <3>2. View'[c] = [natives |-> maps'[<<c, "natives">>], globals |-> maps'[<<c, "globals">>], constructors |-> Append(items, k)]
      BY <2>5, <2>12, <2>15, ViewsOfMadeNext DEF ViewsAreContents
    <3>3. maps'[<<c, "globals">>] = maps[<<c, "globals">>]
      BY <2>8 DEF MapRef, Kinds
    <3>4. View' = [View EXCEPT ![c] = View'[c]]
      BY <2>9, <2>15, TouchesOnlyLeavesOthers, ViewOfOthers
    <3>5. View[c] # Isolated!NotMade
      <4>1. "natives" \in DOMAIN View[c] /\ "natives" \notin DOMAIN Isolated!NotMade
        BY <3>1 DEF Isolated!NotMade
      <4> QED BY <4>1
    <3>6. View'[c] = [natives |-> [View[c].natives EXCEPT ![k] = k], globals |-> View[c].globals,
                      constructors |-> Append(View[c].constructors, k)]
      BY <2>8, <3>1, <3>2, <3>3
    <3> QED BY <3>4, <3>5, <3>6 DEF Isolated!Register
  <2> QED BY <2>1, <2>15, <2>16
<1> QED BY <1>1, <1>2 DEF RegisterConstructor

\* The calls that bind a name begin with a context of the goroutine's own.
LEMMA BindingsBegin ==
  ASSUME Inv, Ownership', NEW g \in Goroutines, RegisterFunction(g) \/ SetGlobal(g) \/ StoreGlobalOperation(g)
  PROVE  Inv' /\ View' = View
<1>1. ASSUME NEW c \in Contexts, NEW kind \in Kinds, NEW n \in Names, NEW v \in Plain, Owns(g, c),
             BeginBind(g, <<c, kind>>, n, v)
      PROVE  Inv' /\ View' = View
  <2>1. BindsItsOwn(g, <<<<c, kind>>, n, v>>)
    BY <1>1 DEF BindsItsOwn
  <2> QED BY <1>1, <2>1, BeginStep DEF BeginBind
<1>2. ASSUME NEW c \in Contexts, NEW n \in Names, NEW v \in Plain, Owns(g, c),
             BeginBind(g, contexts[c].natives, n, v) \/ BeginBind(g, contexts[c].globals, n, v)
      PROVE  Inv' /\ View' = View
  <2>1. contexts[c].natives = <<c, "natives">> /\ contexts[c].globals = <<c, "globals">>
    BY <1>2, MadeOK DEF Owns
  <2> QED BY <1>1, <1>2, <2>1 DEF Kinds
<1>3. ASSUME processes[g] # <<>>, NEW n \in Names, NEW v \in Plain, BeginBind(g, Current(g).globals, n, v)
      PROVE  Inv' /\ View' = View
  <2>1. PICK c \in Contexts : Owns(g, c) /\ Current(g).globals = <<c, "globals">>
    BY <1>3, CurrentIsAtHome DEF Inv, RefersToItsOwn
  <2> QED BY <1>1, <1>3, <2>1 DEF Kinds
<1> QED BY <1>2, <1>3 DEF RegisterFunction, SetGlobal, StoreGlobalOperation

LEMMA ReadsBegin ==
  ASSUME Inv, Ownership', NEW g \in Goroutines, GetGlobal(g) \/ Lookup(g)
  PROVE  Inv' /\ View' = View
<1>1. ASSUME NEW reads, Begin(g, "read", <<>>, reads, {})
      PROVE  Inv' /\ View' = View
  BY <1>1, BeginStep
<1> QED BY <1>1 DEF GetGlobal, Lookup

LEMMA EndOfReadEnds ==
  ASSUME Inv, Ownership', NEW g \in Goroutines, EndOfRead(g)
  PROVE  Inv' /\ View' = View
<1>1. UNCHANGED <<contexts, maps, arrays, processes, changes>>
  BY DEF EndOfRead, End
<1>2. ASSUME NEW h \in Goroutines, calls'[h] # Idle
      PROVE  CallKept(h)
  <2>1. calls'[h] = calls[h]
    BY <1>2 DEF EndOfRead, End, Inv, Ownership, CallsStayAtHome
  <2> QED BY <1>1, <2>1 DEF CallKept, Owns, Made
<1> QED BY <1>1, <1>2, StoresStay, ProcessesKeep, CallsKeep DEF Inv

\* A process begins, with the constructors that its context or the current
\* process has, or the last one ends.
LEMMA ProcessesStep ==
  ASSUME Inv, Ownership', NEW g \in Goroutines, UNCHANGED <<contexts, maps, arrays, calls, changes>>, NEW q,
         processes' = [processes EXCEPT ![g] = q],
         \A i \in DOMAIN q : Sees(q[i].constructors, contexts[q[i].context].constructors)
  PROVE  Inv' /\ View' = View
<1>1. StoresOK' /\ View' = View
  BY StoresStay
<1>2. processes'[g] = q /\ \A h \in Goroutines \ {g} : processes'[h] = processes[h]
  BY DEF Inv, Ownership, ProcessesRunAtHome
<1>3. ASSUME NEW h \in Goroutines, NEW i \in DOMAIN processes'[h]
      PROVE  Sees(processes'[h][i].constructors, contexts[processes'[h][i].context].constructors)
  <2>1. CASE h = g
    BY <1>2, <1>3, <2>1
  <2>2. CASE h # g
    BY <1>2, <1>3, <2>2 DEF Inv, ProcessesSee
  <2> QED BY <2>1, <2>2
<1>4. ProcessesSee'
  <2>1. \A p, s : Sees(p, s)' = Sees(p, s)
    BY DEF Sees
  <2>2. contexts' = contexts
    OBVIOUS
  <2> QED BY <1>3, <2>1, <2>2 DEF ProcessesSee
<1>5. CallsOK'
  <2>1. \A h \in Goroutines : CallKept(h)
    BY DEF CallKept, Owns, Made
  <2> QED BY <2>1, CallsKeep
<1> QED BY <1>1, <1>4, <1>5 DEF Inv

LEMMA ProcessBegins ==
  ASSUME Inv, Ownership', NEW g \in Goroutines, UNCHANGED <<contexts, maps, arrays, calls, changes>>,
         NEW p \in Process1, Running(g, p),
         Sees(p.constructors, contexts[p.context].constructors)
  PROVE  Inv' /\ View' = View
<1> PICK old \in Seq(Process1) : old = processes[g]
  BY DEF Inv, Ownership, ProcessesRunAtHome
<1> PICK q : q = Append(old, p)
  OBVIOUS
<1>1. DOMAIN q = 1 .. Len(old) + 1 /\ q[Len(old) + 1] = p /\ DOMAIN old = 1 .. Len(old)
      /\ Len(old) \in Nat /\ \A i \in 1 .. Len(old) : q[i] = old[i]
  BY AppendProperties, LenProperties
<1>2. \A i \in DOMAIN old : Sees(old[i].constructors, contexts[old[i].context].constructors)
  BY DEF Inv, ProcessesSee
<1>3. ASSUME NEW i \in DOMAIN q
      PROVE  Sees(q[i].constructors, contexts[q[i].context].constructors)
  <2>1. CASE i = Len(old) + 1
    BY <1>1, <2>1
  <2>2. CASE i # Len(old) + 1
    BY <1>1, <1>2, <2>2
  <2> QED BY <2>1, <2>2
<1>4. processes' = [processes EXCEPT ![g] = q]
  BY DEF Running
<1> QED BY <1>3, <1>4, ProcessesStep

LEMMA StartsSee ==
  ASSUME Inv, Ownership', NEW g \in Goroutines, RunWithContext(g) \/ evalFunc(g)
  PROVE  Inv' /\ View' = View
<1>1. ASSUME NEW c \in Contexts, Owns(g, c), UNCHANGED <<contexts, maps, arrays, calls, changes>>,
             Running(g, NewProcess(c, contexts[c].natives, contexts[c].globals, contexts[c].constructors))
      PROVE  Inv' /\ View' = View
  <2> PICK s : s = contexts[c].constructors
    OBVIOUS
  <2> PICK p : p = NewProcess(c, contexts[c].natives, contexts[c].globals, s)
    OBVIOUS
  <2>1. s \in Slice /\ Len(arrays[s.array]) = s.len /\ s.len \in Nat
    BY <1>1, MadeOK DEF Owns, Content
  <2>2. Sees(s, s)
    BY <2>1 DEF Sees
  <2>3. p.context = c /\ p.constructors = s /\ p \in Process1
    BY <1>1, MadeOK DEF NewProcess, Owns, Context1, Process1
  <2>4. Running(g, p)
    BY <1>1
  <2> QED BY <1>1, <2>2, <2>3, <2>4, ProcessBegins
<1>2. ASSUME processes[g] # <<>>, UNCHANGED <<contexts, maps, arrays, calls, changes>>, NEW q, q = Current(g),
             Running(g, NewProcess(q.context, q.natives, q.globals, q.constructors))
      PROVE  Inv' /\ View' = View
  <2> PICK p : p = NewProcess(q.context, q.natives, q.globals, q.constructors)
    OBVIOUS
  <2>1. Len(processes[g]) \in DOMAIN processes[g]
    <3>1. processes[g] \in Seq(Process1)
      BY DEF Inv, Ownership, ProcessesRunAtHome
    <3> QED BY <1>2, <3>1, EmptySeq, LenProperties
  <2>2. Sees(q.constructors, contexts[q.context].constructors)
    BY <1>2, <2>1 DEF Inv, ProcessesSee, Current
  <2>3. p.context = q.context /\ p.constructors = q.constructors /\ p \in Process1
    BY <1>2, CurrentIsAtHome DEF NewProcess, Inv, Process1
  <2>4. Running(g, p)
    BY <1>2
  <2> QED BY <1>2, <2>2, <2>3, <2>4, ProcessBegins
<1> QED BY <1>1, <1>2 DEF RunWithContext, evalFunc, IsRunning

LEMMA EndsSee ==
  ASSUME Inv, Ownership', NEW g \in Goroutines, EndOfScript(g)
  PROVE  Inv' /\ View' = View
<1> PICK old \in Seq(Process1) : old = processes[g]
  BY DEF Inv, Ownership, ProcessesRunAtHome
<1> PICK n : n = Len(old) - 1
  OBVIOUS
<1> PICK q : q = SubSeq(old, 1, n)
  OBVIOUS
<1>1. n \in Nat /\ Len(old) \in Nat /\ DOMAIN old = 1 .. Len(old)
  BY EmptySeq, LenProperties DEF EndOfScript, IsRunning
<1>2. \A i \in 1 .. n : i \in DOMAIN old /\ old[i] \in Process1
  BY <1>1, ElementOfSeq
<1>3. q \in Seq(Process1) /\ Len(q) = n /\ \A i \in 1 .. n : q[i] = old[i]
  BY <1>1, <1>2, SubSeqProperties
<1>4. DOMAIN q = 1 .. n
  BY <1>3, LenProperties
<1>5. \A i \in DOMAIN old : Sees(old[i].constructors, contexts[old[i].context].constructors)
  BY DEF Inv, ProcessesSee
<1>6. \A i \in DOMAIN q : Sees(q[i].constructors, contexts[q[i].context].constructors)
  BY <1>2, <1>3, <1>4, <1>5
<1>7. processes' = [processes EXCEPT ![g] = q] /\ UNCHANGED <<contexts, maps, arrays, calls, changes>>
  BY DEF EndOfScript
<1> QED BY <1>6, <1>7, ProcessesStep

\* Sharing changes nothing of what a context holds.
LEMMA ShareShows ==
  ASSUME Inv, Ownership', NEW g \in Goroutines, Share(g)
  PROVE  Inv' /\ View' = View
<1>1. PICK c \in Contexts :
        /\ calls[g] = Idle /\ Owns(g, c) /\ contexts' = [contexts EXCEPT ![c].shared = TRUE]
        /\ UNCHANGED <<maps, arrays, calls, processes, changes>>
  BY DEF Share
<1>2. contexts \in [Contexts -> {NotMade} \cup Context1] /\ contexts[c] \in Context1
  BY <1>1, MadeOK DEF Inv, Ownership, ContextsOwnTheirs, Owns
<1>3. contexts'[c] = [contexts[c] EXCEPT !.shared = TRUE] /\ \A d \in Contexts \ {c} : contexts'[d] = contexts[d]
  BY <1>1, <1>2
<1>4. contexts'[c] \in Context1
  BY <1>2, <1>3 DEF Context1
<1>5. /\ contexts'[c].natives = contexts[c].natives /\ contexts'[c].globals = contexts[c].globals
      /\ contexts'[c].constructors = contexts[c].constructors /\ contexts'[c].owner = contexts[c].owner
  BY <1>2, <1>3 DEF Context1
<1>6. Made(c) /\ Made(c)'
  BY <1>1, <1>4, RecordsAreMade DEF Owns, Made
<1>7. \A d \in Contexts :
        /\ Made(d)' = Made(d)
        /\ Made(d) => /\ contexts'[d].natives = contexts[d].natives /\ contexts'[d].globals = contexts[d].globals
                      /\ contexts'[d].constructors = contexts[d].constructors
  BY <1>3, <1>5, <1>6 DEF Made
<1>8. SlicesOK'
  BY <1>1, <1>7, SMTT(40) DEF Inv, StoresOK, SlicesOK, SliceOK, Made
<1>9. StoresOK'
  BY <1>1, <1>7, <1>8 DEF Inv, StoresOK, Made
<1>10. ContentsGrow
  <2>1. ASSUME NEW ref \in ArrayRef
        PROVE  Begins(arrays[ref], arrays'[ref])
    BY <1>1, BeginsItself DEF Inv, StoresOK
  <2>2. ASSUME NEW d \in Contexts, Made(d)
        PROVE  Content(d)' \in Seq(Constructors \cup {Builtin}) /\ Begins(Content(d), Content(d)')
    <3>1. Content(d) \in Seq(Constructors \cup {Builtin}) /\ Content(d)' = Content(d)
      BY <1>1, <1>7, <2>2, MadeOK DEF Content
    <3> QED BY <3>1, BeginsItself
  <2> QED BY <2>1, <2>2 DEF ContentsGrow
<1>11. ASSUME NEW h \in Goroutines, calls'[h] # Idle
       PROVE  CallKept(h)
  <2>1. calls'[h] = calls[h] /\ h # g
    BY <1>1, <1>11
  <2>2. ASSUME NEW d \in Contexts, Owns(h, d)
        PROVE  Owns(h, d)' /\ contexts'[d].constructors = contexts[d].constructors
    <3>1. d # c
      BY <1>1, <2>1, <2>2 DEF Owns
    <3> QED BY <1>3, <2>2, <3>1 DEF Owns, Made
  <2> QED BY <2>1, <2>2 DEF CallKept
<1>12. Inv'
  BY <1>1, <1>9, <1>10, <1>11, ProcessesKeep, CallsKeep DEF Inv
<1>13. View' = View
  BY <1>1, <1>7 DEF View, Made, Items
<1> QED BY <1>12, <1>13

-----------------------------------------------------------------------------

LEMMA InvAtFirst ==
  ASSUME Init
  PROVE  Inv /\ Isolated!Init
<1>1. ASSUME NEW c \in Contexts
      PROVE  ~Made(c)
  BY DEF Init, Made
<1>2. maps \in [MapRef -> [Names -> Values \cup {Unbound}]] /\ \A c \in Contexts : maps[<<c, "globals">>] = NothingBound
  BY DEF Init, NothingBound, MapRef, Kinds
<1>3. <<>> \in Seq(Constructors \cup {Builtin}) /\ <<Builtin>> \in Seq(Constructors \cup {Builtin})
      /\ Len(<<>>) = 0 /\ Len(<<Builtin>>) = 1
  OBVIOUS
<1>4. arrays \in [ArrayRef -> Seq(Constructors \cup {Builtin})] /\ arrays[<<Package, 1>>] = <<Builtin>>
  BY <1>3, LibraryArray DEF Init
<1>5. ASSUME NEW ref \in ArrayRef
      PROVE  Len(arrays[ref]) <= ref[2]
  <2>1. ref[2] \in Nat /\ ref[2] >= 1
    BY DEF ArrayRef
  <2>2. arrays[ref] = IF ref = <<Package, 1>> THEN <<Builtin>> ELSE <<>>
    BY DEF Init
  <2> QED BY <1>3, <2>1, <2>2
<1>6. SlicesOK
  <2> SUFFICES ASSUME NEW c \in Contexts, NEW n \in 1 .. MaxConstructors
               PROVE  arrays[<<c, n>>] = <<>>
    BY <1>1 DEF SlicesOK, SliceOK
  <2>1. <<c, n>> \in ArrayRef /\ <<c, n>> # <<Package, 1>>
    BY Elsewhere
  <2> QED BY <2>1 DEF Init
<1>7. StoresOK
  BY <1>2, <1>4, <1>5, <1>6 DEF StoresOK
<1>8. ASSUME NEW g \in Goroutines
      PROVE  DOMAIN processes[g] = {}
  <2>1. processes[g] = <<>>
    BY DEF Init
  <2>2. processes[g] \in Seq(Process1) /\ Len(processes[g]) = 0
    BY <2>1
  <2>3. DOMAIN processes[g] = 1 .. 0
    BY <2>2, LenProperties
  <2> QED BY <2>3
<1>9. ProcessesSee
  BY <1>8 DEF ProcessesSee
<1>10. CallsOK /\ changes \in Nat
  BY DEF Init, CallsOK, InCall, Idle
<1>11. Isolated!Init
  BY <1>1 DEF Isolated!Init, View, Isolated!NotMade, NotMade
<1> QED BY <1>7, <1>9, <1>10, <1>11, OwnershipAtFirst DEF Inv

\* A step of Contexts is a step of one of the stores, or changes none of them.
LEMMA InvIsKept ==
  ASSUME Inv, [Next]_vars
  PROVE  Inv' /\ [Isolated!Next]_View
<1>1. Ownership'
  BY OwnershipIsKept DEF Inv
<1>2. CASE Next
  <2> PICK g \in Goroutines :
        \/ NewScriptContext(g) \/ Clone(g) \/ Share(g)
        \/ RegisterFunction(g) \/ RegisterConstructor(g) \/ SetGlobal(g) \/ EndOfBind(g) \/ GetGlobal(g)
        \/ RunWithContext(g) \/ evalFunc(g) \/ EndOfScript(g)
        \/ Lookup(g) \/ EndOfRead(g) \/ StoreGlobalOperation(g)
    BY <1>2 DEF Next
  <2>1. CASE NewScriptContext(g)
    BY <1>1, <2>1, NewScriptContextMakes DEF Isolated!Next
  <2>2. CASE Clone(g)
    BY <1>1, <2>2, CloneCopies DEF Isolated!Next
  <2>3. CASE EndOfBind(g)
    BY <1>1, <2>3, EndOfBindBinds DEF Isolated!Next
  <2>4. CASE RegisterConstructor(g)
    BY <1>1, <2>4, RegisterConstructorRegisters DEF Isolated!Next
  <2>5. CASE RegisterFunction(g) \/ SetGlobal(g) \/ StoreGlobalOperation(g)
    BY <1>1, <2>5, BindingsBegin
  <2>6. CASE GetGlobal(g) \/ Lookup(g) \/ EndOfRead(g)
    BY <1>1, <2>6, ReadsBegin, EndOfReadEnds
  <2>7. CASE RunWithContext(g) \/ evalFunc(g) \/ EndOfScript(g) \/ Share(g)
    BY <1>1, <2>7, StartsSee, EndsSee, ShareShows
  <2> QED BY <2>1, <2>2, <2>3, <2>4, <2>5, <2>6, <2>7
<1>3. CASE UNCHANGED vars
  <2>1. UNCHANGED <<contexts, maps, arrays, calls, processes, changes>>
    BY <1>3 DEF vars
  <2>2. \A g \in Goroutines : CallKept(g)
    BY <2>1 DEF CallKept, Owns, Made
  <2> QED BY <1>1, <2>1, <2>2, StoresStay, ProcessesKeep, CallsKeep DEF Inv
<1> QED BY <1>2, <1>3

LEMMA InvSuffices ==
  ASSUME Inv
  PROVE  TypeOK /\ ProcessesSeeTheirContext
<1>1. ASSUME NEW c \in Contexts
      PROVE  contexts[c] \in {NotMade} \cup ScriptContext
  BY MadeOK DEF Made
<1>2. contexts \in [Contexts -> {NotMade} \cup ScriptContext]
  BY <1>1 DEF Inv, Ownership, ContextsOwnTheirs
<1>3. ASSUME NEW g \in Goroutines
      PROVE  processes[g] \in Seq(Process)
  <2>1. processes[g] \in Seq(Process1)
    BY DEF Inv, Ownership, ProcessesRunAtHome
  <2>2. ASSUME NEW i \in 1 .. Len(processes[g])
        PROVE  processes[g][i] \in Process
    <3>1. i \in DOMAIN processes[g]
      BY <2>1, LenProperties, SMTT(40)
    <3>2. processes[g][i] \in Process1 /\ processes[g][i].constructors \in Slice
      BY <3>1, ProcessIsHome DEF Inv, ProcessesSee, Sees
    <3> QED BY <3>2 DEF Process, Process1
  <2> PICK s : s = processes[g]
    OBVIOUS
  <2> QED BY <2>1, <2>2, LenProperties
<1>4. processes \in [Goroutines -> Seq(Process)]
  BY <1>3 DEF Inv, Ownership, ProcessesRunAtHome
<1>5. DOMAIN calls = Goroutines
  BY DEF Inv, Ownership, CallsStayAtHome
<1>6. TypeOK
  BY <1>2, <1>4, <1>5 DEF TypeOK, Inv, StoresOK
<1>7. ASSUME NEW g \in Goroutines, NEW i \in DOMAIN processes[g], NEW p, p = processes[g][i],
             NEW c, c = contexts[p.context]
      PROVE  /\ maps[p.natives] = maps[c.natives] /\ maps[p.globals] = maps[c.globals]
             /\ p.constructors.len <= c.constructors.len
             /\ Items(p.constructors) = SubSeq(Items(c.constructors), 1, p.constructors.len)
  <2>1. /\ p.context \in Contexts /\ Made(p.context)
        /\ p.natives = <<p.context, "natives">> /\ p.globals = <<p.context, "globals">>
    BY <1>7, ProcessIsHome
  <2>2. /\ c.natives = <<p.context, "natives">> /\ c.globals = <<p.context, "globals">>
        /\ c.constructors.len = Len(arrays[c.constructors.array]) /\ c.constructors.len \in Nat
        /\ arrays[c.constructors.array] \in Seq(Constructors \cup {Builtin})
        /\ Items(c.constructors) = arrays[c.constructors.array]
    BY <1>7, <2>1, MadeOK, ItemsAreContent DEF Content
  <2>3. Sees(p.constructors, c.constructors)
    BY <1>7 DEF Inv, ProcessesSee
  <2>4. p.constructors.len <= c.constructors.len
    BY <2>2, <2>3 DEF Sees
  <2>5. p.constructors.array \in ArrayRef /\ p.constructors.len \in Nat
    BY <2>3, BoundsAssumption DEF Sees, Slice
  <2>6. arrays[p.constructors.array] \in Seq(Constructors \cup {Builtin})
    BY <2>5 DEF Inv, StoresOK
  <2> PICK a, b, n : a = arrays[p.constructors.array] /\ b = arrays[c.constructors.array] /\ n = p.constructors.len
    OBVIOUS
  <2>7. /\ n \in Nat /\ n <= Len(a) /\ n <= Len(b) /\ \A j \in 1 .. n : a[j] = b[j]
        /\ a \in Seq(Constructors \cup {Builtin}) /\ b \in Seq(Constructors \cup {Builtin})
    BY <2>2, <2>3, <2>5, <2>6 DEF Sees
  <2>8. SubSeq(a, 1, n) = SubSeq(b, 1, n)
    <3>1. \A j \in 1 .. n : a[j] \in Constructors \cup {Builtin} /\ b[j] \in Constructors \cup {Builtin}
      BY <2>7, LenProperties, ElementOfSeq
    <3>2. SubSeq(a, 1, n) \in Seq(Constructors \cup {Builtin}) /\ Len(SubSeq(a, 1, n)) = n
          /\ \A j \in 1 .. n : SubSeq(a, 1, n)[j] = a[j]
      BY <2>7, <3>1, SubSeqProperties
    <3>3. SubSeq(b, 1, n) \in Seq(Constructors \cup {Builtin}) /\ Len(SubSeq(b, 1, n)) = n
          /\ \A j \in 1 .. n : SubSeq(b, 1, n)[j] = b[j]
      BY <2>7, <3>1, SubSeqProperties
    <3> QED BY <2>7, <3>2, <3>3, SeqEqual
  <2> QED BY <2>1, <2>2, <2>4, <2>8 DEF Items
<1>8. ProcessesSeeTheirContext
  BY <1>7 DEF ProcessesSeeTheirContext
<1> QED BY <1>6, <1>8

\* What contexts and processes refer to has its type, and an array holds no
\* more constructors than its capacity.
THEOREM TypeCorrect == Spec => []TypeOK
<1>1. Init => Inv
  BY InvAtFirst
<1>2. Inv /\ [Next]_vars => Inv'
  BY InvIsKept
<1>3. Inv => TypeOK
  BY InvSuffices
<1> QED BY <1>1, <1>2, <1>3, PTL DEF Spec

\* However many goroutines and contexts there are, a script, also one that
\* eval runs, has the maps of its context, so that it sees and changes what its
\* context has, and resolves with the first of the constructors of its context,
\* also when append has moved those since (NewProcess, Replica,
\* RegisterConstructor).
THEOREM ScriptsSeeTheirContext == Spec => []ProcessesSeeTheirContext
<1>1. Init => Inv
  BY InvAtFirst
<1>2. Inv /\ [Next]_vars => Inv'
  BY InvIsKept
<1>3. Inv => ProcessesSeeTheirContext
  BY InvSuffices
<1> QED BY <1>1, <1>2, <1>3, PTL DEF Spec

\* Contexts, with the maps and arrays that they refer to and the calls of the
\* goroutines in between, implements the stores of IsolatedContexts: nothing
\* done with a context, or a clone of it, is seen in another one (the comment
\* on Clone).
THEOREM ContextsAreIsolated == Spec => ImplementsIsolation
<1>1. Init => Inv /\ Isolated!Init
  BY InvAtFirst
<1>2. Inv /\ [Next]_vars => Inv' /\ [Isolated!Next]_View
  BY InvIsKept
<1> QED BY <1>1, <1>2, PTL DEF Spec, ImplementsIsolation, Isolated!Spec
=============================================================================
