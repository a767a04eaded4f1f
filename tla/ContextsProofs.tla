--------------------------- MODULE ContextsProofs ---------------------------
(* Proof about Contexts: goroutines do not race, however many there are    *)
(* and however many contexts they make and clone.                          *)
EXTENDS Contexts, SequenceTheorems, TLAPS

USE PackageAssumption

\* The memory that belongs to a context: its header, its maps, its arrays
Memory(c) == {<<"map", <<c, kind>>>> : kind \in Kinds} \cup {<<"context", c>>}
               \cup {<<"element", <<c, n>>, i>> : n \in Nat, i \in Nat}
PackageMemory == {<<"element", <<Package, 1>>, 1>>}

\* A slice of constructors is the library's, which is full, or the context's.
SliceOf(c, s) == /\ s.len \in Nat
                 /\ s = NativeConstructors \/ \E n \in Nat : s.array = <<c, n>>
RefersToItsOwn(c, r) == /\ r.natives = <<c, "natives">> /\ r.globals = <<c, "globals">>
                        /\ SliceOf(c, r.constructors)
Readable(g, c) == Made(c) /\ (contexts[c].owner = g \/ contexts[c].shared)

\* The types without the bounds
Constructors1 == [array : (Contexts \cup {Package}) \X Nat, len : Nat]
Context1 == [natives : MapRef, globals : MapRef, constructors : Constructors1, owner : Goroutines, shared : BOOLEAN]
Process1 == [context : Contexts, natives : MapRef, globals : MapRef, constructors : Constructors1]

ContextsOwnTheirs ==
  /\ contexts \in [Contexts -> {NotMade} \cup Context1]
  /\ \A c \in Contexts : Made(c) => RefersToItsOwn(c, contexts[c])
ProcessesRunAtHome ==
  /\ processes \in [Goroutines -> Seq(Process1)]
  /\ \A g \in Goroutines : \A i \in DOMAIN processes[g] :
       Owns(g, processes[g][i].context) /\ RefersToItsOwn(processes[g][i].context, processes[g][i])
CallsStayAtHome ==
  /\ calls = [g \in Goroutines |-> calls[g]]
  /\ \A g \in Goroutines :
       /\ \A x \in calls[g].writes : \E c \in Contexts : Owns(g, c) /\ x \in Memory(c)
       /\ \A x \in calls[g].reads : x \in PackageMemory \/ \E c \in Contexts : Readable(g, c) /\ x \in Memory(c)
       /\ calls[g].op = "Clone" =>
            \E c, d \in Contexts : calls[g].args = <<c, d>> /\ Readable(g, c)
       /\ calls[g].op = "RegisterConstructor" =>
            \E c \in Contexts, k \in Constructors : calls[g].args = <<c, k>> /\ Owns(g, c)

Ownership == ContextsOwnTheirs /\ ProcessesRunAtHome /\ CallsStayAtHome

-----------------------------------------------------------------------------

LEMMA MemoriesAreDisjoint ==
  ASSUME NEW c \in Contexts, NEW d \in Contexts, NEW x, x \in Memory(c), x \in Memory(d)
  PROVE  c = d
BY DEF Memory

LEMMA NotThePackages ==
  ASSUME NEW c \in Contexts, NEW x, x \in Memory(c)
  PROVE  x \notin PackageMemory
BY DEF Memory, PackageMemory

LEMMA OwnershipSuffices ==
  ASSUME Ownership
  PROVE  NoRace
<1> SUFFICES ASSUME NEW g \in Goroutines, NEW h \in Goroutines, g # h,
                    NEW x \in calls[g].writes, x \in calls[h].reads \cup calls[h].writes
             PROVE  FALSE
  BY DEF NoRace
<1>1. PICK c \in Contexts : Owns(g, c) /\ x \in Memory(c)
  BY DEF Ownership, CallsStayAtHome
<1>2. PICK d \in Contexts : (Owns(h, d) \/ Readable(h, d)) /\ x \in Memory(d)
  BY <1>1, NotThePackages DEF Ownership, CallsStayAtHome
<1>3. c = d
  BY <1>1, <1>2, MemoriesAreDisjoint
<1> QED BY <1>1, <1>2, <1>3 DEF Owns, Readable

-----------------------------------------------------------------------------
(* What the kinds of steps keep.                                           *)

LEMMA RecordsAreMade ==
  ASSUME NEW r \in Context1
  PROVE  r # NotMade
BY DEF Context1, NotMade

LEMMA MadeIsRecord ==
  ASSUME ContextsOwnTheirs, NEW c \in Contexts, Made(c)
  PROVE  /\ contexts[c] \in Context1 /\ RefersToItsOwn(c, contexts[c])
         /\ contexts[c].constructors \in Constructors1 /\ SliceOf(c, contexts[c].constructors)
BY DEF ContextsOwnTheirs, Made, Context1, RefersToItsOwn

ContextsGrow ==
  \A c \in Contexts : Made(c) => /\ Made(c)'
                                 /\ contexts'[c].owner = contexts[c].owner
                                 /\ contexts'[c].shared = contexts[c].shared

LEMMA ContextStep ==
  ASSUME Ownership, ContextsOwnTheirs', ContextsGrow, UNCHANGED processes,
         calls' = calls \/ \E g \in Goroutines : calls' = [calls EXCEPT ![g] = Idle]
  PROVE  Ownership'
<1>1. \A g \in Goroutines, c \in Contexts : (Owns(g, c) => Owns(g, c)') /\ (Readable(g, c) => Readable(g, c)')
  BY DEF ContextsGrow, Owns, Readable, Made
<1>2. ProcessesRunAtHome'
  <2>1. ASSUME NEW g \in Goroutines, NEW i \in DOMAIN processes[g]
        PROVE  processes[g][i].context \in Contexts
    <3>1. processes[g] \in Seq(Process1)
      BY DEF Ownership, ProcessesRunAtHome
    <3>2. processes[g][i] \in Process1
      BY <3>1, LenProperties, ElementOfSeq
    <3> QED BY <3>2 DEF Process1
  <2>2. ASSUME NEW g \in Goroutines, NEW i \in DOMAIN processes[g]
        PROVE  /\ contexts'[processes[g][i].context] # NotMade
               /\ contexts'[processes[g][i].context].owner = g /\ ~contexts'[processes[g][i].context].shared
               /\ RefersToItsOwn(processes[g][i].context, processes[g][i])
    <3>1. PICK c \in Contexts : c = processes[g][i].context
      BY <2>1
    <3>2. Owns(g, c) /\ RefersToItsOwn(c, processes[g][i])
      BY <3>1 DEF Ownership, ProcessesRunAtHome
    <3>3. Owns(g, c)'
      BY <1>1, <3>2
    <3> QED BY <3>1, <3>2, <3>3 DEF Owns, Made
  <2> QED BY <2>2 DEF Ownership, ProcessesRunAtHome, Owns, Made, RefersToItsOwn, SliceOf
<1>3. ASSUME NEW g \in Goroutines
      PROVE  calls'[g] = Idle \/ calls'[g] = calls[g]
  BY DEF Ownership, CallsStayAtHome
<1>4. calls' = [g \in Goroutines |-> calls'[g]]
  BY DEF Ownership, CallsStayAtHome
<1>5. ASSUME NEW g \in Goroutines
      PROVE  /\ \A x \in calls'[g].writes : \E c \in Contexts : Owns(g, c)' /\ x \in Memory(c)
             /\ \A x \in calls'[g].reads : x \in PackageMemory \/ \E c \in Contexts : Readable(g, c)' /\ x \in Memory(c)
             /\ calls'[g].op = "Clone" =>
                  \E c, d \in Contexts : calls'[g].args = <<c, d>> /\ Readable(g, c)'
             /\ calls'[g].op = "RegisterConstructor" =>
                  \E c \in Contexts, k \in Constructors : calls'[g].args = <<c, k>> /\ Owns(g, c)'
  <2>1. CASE calls'[g] = Idle
    BY <2>1 DEF Idle
  <2>2. CASE calls'[g] = calls[g]
    BY <1>1, <2>2 DEF Ownership, CallsStayAtHome
  <2> QED BY <1>3, <2>1, <2>2
<1>6. CallsStayAtHome'
  BY <1>4, <1>5 DEF CallsStayAtHome, Owns, Readable, Made, Memory
<1> QED BY <1>2, <1>6 DEF Ownership

LEMMA MakeKeeps ==
  ASSUME Ownership, NEW c \in Contexts, ~Made(c), NEW r \in Context1, RefersToItsOwn(c, r),
         contexts' = [contexts EXCEPT ![c] = r], UNCHANGED processes,
         calls' = calls \/ \E g \in Goroutines : calls' = [calls EXCEPT ![g] = Idle]
  PROVE  Ownership'
<1>1. contexts \in [Contexts -> {NotMade} \cup Context1]
  BY DEF Ownership, ContextsOwnTheirs
<1>2. contexts' \in [Contexts -> {NotMade} \cup Context1] /\ contexts'[c] = r
      /\ \A d \in Contexts \ {c} : contexts'[d] = contexts[d]
  BY <1>1
<1>3. ContextsOwnTheirs'
  BY <1>2 DEF Ownership, ContextsOwnTheirs, Made, RefersToItsOwn, SliceOf
<1>4. ContextsGrow
  BY <1>2 DEF ContextsGrow, Made
<1> QED BY <1>3, <1>4, ContextStep

LEMMA BeginKeeps ==
  ASSUME Ownership, NEW g \in Goroutines, NEW op, NEW args, NEW reads, NEW writes,
         Begin(g, op, args, reads, writes),
         \A x \in writes : \E c \in Contexts : Owns(g, c) /\ x \in Memory(c),
         \A x \in reads : x \in PackageMemory \/ \E c \in Contexts : Readable(g, c) /\ x \in Memory(c),
         op = "Clone" => \E c, d \in Contexts : args = <<c, d>> /\ Readable(g, c),
         op = "RegisterConstructor" => \E c \in Contexts, k \in Constructors : args = <<c, k>> /\ Owns(g, c)
  PROVE  Ownership'
<1>1. UNCHANGED <<contexts, processes>>
      /\ calls' = [calls EXCEPT ![g] = [op |-> op, args |-> args, reads |-> reads, writes |-> writes]]
  BY DEF Begin
<1>2. ContextsOwnTheirs' /\ ProcessesRunAtHome'
  BY <1>1, SMTT(40)
  DEF Ownership, ContextsOwnTheirs, ProcessesRunAtHome, Owns, Made, RefersToItsOwn, SliceOf
<1>3. /\ calls' = [h \in Goroutines |-> calls'[h]]
      /\ calls'[g] = [op |-> op, args |-> args, reads |-> reads, writes |-> writes]
      /\ \A h \in Goroutines \ {g} : calls'[h] = calls[h]
  BY <1>1 DEF Ownership, CallsStayAtHome
<1>4. ASSUME NEW h \in Goroutines
      PROVE  /\ \A x \in calls'[h].writes : \E c \in Contexts : Owns(h, c) /\ x \in Memory(c)
             /\ \A x \in calls'[h].reads : x \in PackageMemory \/ \E c \in Contexts : Readable(h, c) /\ x \in Memory(c)
             /\ calls'[h].op = "Clone" =>
                  \E c, d \in Contexts : calls'[h].args = <<c, d>> /\ Readable(h, c)
             /\ calls'[h].op = "RegisterConstructor" =>
                  \E c \in Contexts, k \in Constructors : calls'[h].args = <<c, k>> /\ Owns(h, c)
  <2>1. CASE h = g
    BY <1>3, <2>1
  <2>2. CASE h # g
    BY <1>3, <2>2 DEF Ownership, CallsStayAtHome
  <2> QED BY <2>1, <2>2
<1>5. CallsStayAtHome'
  BY <1>1, <1>3, <1>4 DEF CallsStayAtHome, Owns, Readable, Made, Memory
<1> QED BY <1>2, <1>5 DEF Ownership

\* A process that refers to what its context has, and that the goroutine owns,
\* or the end of one.
LEMMA ProcessStep ==
  ASSUME Ownership, NEW g \in Goroutines, UNCHANGED <<contexts, calls>>, NEW s \in Seq(Process1),
         processes' = [processes EXCEPT ![g] = s],
         \A i \in DOMAIN s : Owns(g, s[i].context) /\ RefersToItsOwn(s[i].context, s[i])
  PROVE  Ownership'
<1>1. ContextsOwnTheirs' /\ CallsStayAtHome'
  BY DEF Ownership, ContextsOwnTheirs, CallsStayAtHome, Owns, Readable, Made, RefersToItsOwn, SliceOf, Memory
<1>2. /\ processes' \in [Goroutines -> Seq(Process1)] /\ processes'[g] = s
      /\ \A h \in Goroutines \ {g} : processes'[h] = processes[h]
  BY DEF Ownership, ProcessesRunAtHome
<1>3. ASSUME NEW h \in Goroutines, NEW i \in DOMAIN processes'[h]
      PROVE  Owns(h, processes'[h][i].context) /\ RefersToItsOwn(processes'[h][i].context, processes'[h][i])
  <2>1. CASE h = g
    BY <1>2, <1>3, <2>1
  <2>2. CASE h # g
    BY <1>2, <1>3, <2>2 DEF Ownership, ProcessesRunAtHome
  <2> QED BY <2>1, <2>2
<1>4. ProcessesRunAtHome'
  BY <1>2, <1>3 DEF ProcessesRunAtHome, Owns, Made, RefersToItsOwn, SliceOf
<1> QED BY <1>1, <1>4 DEF Ownership

LEMMA StartKeeps ==
  ASSUME Ownership, NEW g \in Goroutines, UNCHANGED <<contexts, calls>>, NEW p \in Process1, Running(g, p),
         Owns(g, p.context), RefersToItsOwn(p.context, p)
  PROVE  Ownership'
<1> DEFINE old == processes[g]
           s == Append(old, p)
<1>1. old \in Seq(Process1)
  BY DEF Ownership, ProcessesRunAtHome
<1>2. \A i \in DOMAIN old : Owns(g, old[i].context) /\ RefersToItsOwn(old[i].context, old[i])
  BY DEF Ownership, ProcessesRunAtHome
<1>3. processes' = [processes EXCEPT ![g] = s]
  BY DEF Running
<1> HIDE DEF old
<1>4. s \in Seq(Process1) /\ DOMAIN s = 1 .. Len(old) + 1 /\ s[Len(old) + 1] = p /\ DOMAIN old = 1 .. Len(old)
      /\ Len(old) \in Nat /\ \A i \in 1 .. Len(old) : s[i] = old[i]
  BY <1>1, AppendProperties, LenProperties
<1> HIDE DEF s
<1>5. \A i \in DOMAIN s : Owns(g, s[i].context) /\ RefersToItsOwn(s[i].context, s[i])
  <2> SUFFICES ASSUME NEW i \in DOMAIN s
               PROVE  Owns(g, s[i].context) /\ RefersToItsOwn(s[i].context, s[i])
    OBVIOUS
  <2>1. CASE i = Len(old) + 1
    BY <1>4, <2>1
  <2>2. CASE i # Len(old) + 1
    <3>1. i \in DOMAIN old
      BY <1>4, <2>2
    <3> QED BY <1>2, <1>4, <3>1
  <2> QED BY <2>1, <2>2
<1> QED BY <1>3, <1>4, <1>5, ProcessStep

LEMMA EndKeeps ==
  ASSUME Ownership, NEW g \in Goroutines, EndOfScript(g)
  PROVE  Ownership'
<1> DEFINE old == processes[g]
           n == Len(old) - 1
           s == SubSeq(old, 1, n)
<1>1. old \in Seq(Process1) /\ old # <<>>
  BY DEF Ownership, ProcessesRunAtHome, EndOfScript, IsRunning
<1>2. \A i \in DOMAIN old : Owns(g, old[i].context) /\ RefersToItsOwn(old[i].context, old[i])
  BY DEF Ownership, ProcessesRunAtHome
<1>3. processes' = [processes EXCEPT ![g] = s] /\ UNCHANGED <<contexts, calls>>
  BY DEF EndOfScript
<1> HIDE DEF old
<1>4. n \in Nat /\ Len(old) \in Nat /\ DOMAIN old = 1 .. Len(old)
  BY <1>1, EmptySeq, LenProperties
<1>5. \A i \in 1 .. n : i \in DOMAIN old /\ old[i] \in Process1
  BY <1>1, <1>4, ElementOfSeq
<1> HIDE DEF n
<1>6. s \in Seq(Process1) /\ Len(s) = n /\ \A i \in 1 .. n : s[i] = old[i]
  BY <1>4, <1>5, SubSeqProperties
<1> HIDE DEF s
<1>7. DOMAIN s = 1 .. n
  BY <1>6, LenProperties
<1>8. \A i \in DOMAIN s : Owns(g, s[i].context) /\ RefersToItsOwn(s[i].context, s[i])
  BY <1>2, <1>5, <1>6, <1>7
<1> QED BY <1>3, <1>6, <1>8, ProcessStep

-----------------------------------------------------------------------------
(* The actions.                                                            *)

LEMMA MapsAreItsOwn ==
  ASSUME NEW c \in Contexts, NEW r, RefersToItsOwn(c, r)
  PROVE  MapOf(r.natives) \in Memory(c) /\ MapOf(r.globals) \in Memory(c)
BY DEF RefersToItsOwn, MapOf, Memory, Kinds

LEMMA ElementsAreItsOwn ==
  ASSUME NEW c \in Contexts, NEW s, SliceOf(c, s), NEW x \in Elements(s)
  PROVE  x \in PackageMemory \/ x \in Memory(c)
<1>1. CASE s = NativeConstructors
  BY <1>1 DEF Elements, NativeConstructors, PackageMemory
<1>2. ASSUME NEW n \in Nat, s.array = <<c, n>>
      PROVE  x \in Memory(c)
  <2>1. PICK i \in 1 .. s.len : x = <<"element", s.array, i>>
    BY DEF Elements
  <2>2. i \in Nat
    BY DEF SliceOf
  <2> QED BY <1>2, <2>1, <2>2 DEF Memory
<1> QED BY <1>1, <1>2 DEF SliceOf

LEMMA NewScriptContextKeeps ==
  ASSUME Ownership, NEW g \in Goroutines, NewScriptContext(g)
  PROVE  Ownership'
<1>1. PICK c \in Contexts :
        /\ ~Made(c)
        /\ contexts' = [contexts EXCEPT ![c] =
             [natives |-> <<c, "natives">>, globals |-> <<c, "globals">>,
              constructors |-> NativeConstructors, owner |-> g, shared |-> FALSE]]
        /\ UNCHANGED <<calls, processes>>
  BY DEF NewScriptContext
<1> DEFINE r == [natives |-> <<c, "natives">>, globals |-> <<c, "globals">>,
                 constructors |-> NativeConstructors, owner |-> g, shared |-> FALSE]
<1>2. NativeConstructors \in Constructors1 /\ SliceOf(c, NativeConstructors)
  BY DEF NativeConstructors, Constructors1, SliceOf
<1>3. r \in Context1 /\ RefersToItsOwn(c, r)
  BY <1>2 DEF Context1, RefersToItsOwn, MapRef, Kinds
<1> QED BY <1>1, <1>3, MakeKeeps

LEMMA CloneKeeps ==
  ASSUME Ownership, NEW g \in Goroutines, Clone(g)
  PROVE  Ownership'
<1>1. ASSUME NEW c \in Contexts, NEW d \in Contexts,
             Owns(g, c) \/ (Made(c) /\ contexts[c].shared),
             Begin(g, "Clone", <<c, d>>,
                   {MapOf(contexts[c].natives), MapOf(contexts[c].globals), HeaderOf(c)}
                     \cup Elements(contexts[c].constructors), {})
      PROVE  Ownership'
  <2>1. Readable(g, c)
    BY <1>1 DEF Owns, Readable
  <2>2. RefersToItsOwn(c, contexts[c]) /\ SliceOf(c, contexts[c].constructors)
    BY <2>1, MadeIsRecord DEF Ownership, Readable
  <2>3. HeaderOf(c) \in Memory(c)
    BY DEF HeaderOf, Memory
  <2>4. \A x \in {MapOf(contexts[c].natives), MapOf(contexts[c].globals), HeaderOf(c)}
                   \cup Elements(contexts[c].constructors) :
          x \in PackageMemory \/ \E e \in Contexts : Readable(g, e) /\ x \in Memory(e)
    BY <2>1, <2>2, <2>3, MapsAreItsOwn, ElementsAreItsOwn
  <2>5. \E e, f \in Contexts : <<c, d>> = <<e, f>> /\ Readable(g, e)
    BY <2>1
  <2> QED BY <1>1, <2>4, <2>5, BeginKeeps
<1>2. ASSUME InCall(g, "Clone"),
             NEW c, NEW d, c = Args(g)[1], d = Args(g)[2], ~Made(d), End(g), UNCHANGED processes,
             contexts' = [contexts EXCEPT ![d] =
               [natives |-> CopyOf(c, d).natives, globals |-> CopyOf(c, d).globals,
                constructors |-> CopyOf(c, d).constructors, owner |-> g, shared |-> FALSE]]
      PROVE  Ownership'
  <2> DEFINE r == [natives |-> CopyOf(c, d).natives, globals |-> CopyOf(c, d).globals,
                   constructors |-> CopyOf(c, d).constructors, owner |-> g, shared |-> FALSE]
             n == contexts[c].constructors.len
  <2>1. c \in Contexts /\ d \in Contexts /\ Readable(g, c)
    BY <1>2 DEF Ownership, CallsStayAtHome, InCall, Args
  <2>2. n \in Nat
    BY <2>1, MadeIsRecord DEF Ownership, Readable, SliceOf
  <2>3. /\ CopyOf(c, d).natives = <<d, "natives">> /\ CopyOf(c, d).globals = <<d, "globals">>
        /\ CopyOf(c, d).constructors = [array |-> <<d, n>>, len |-> n]
    BY DEF CopyOf
  <2> HIDE DEF n
  <2>4. CopyOf(c, d).constructors \in Constructors1 /\ SliceOf(d, CopyOf(c, d).constructors)
    BY <2>1, <2>2, <2>3 DEF Constructors1, SliceOf
  <2>5. r \in Context1 /\ RefersToItsOwn(d, r)
    BY <2>1, <2>3, <2>4 DEF Context1, RefersToItsOwn, MapRef, Kinds
  <2>6. \E h \in Goroutines : calls' = [calls EXCEPT ![h] = Idle]
    BY <1>2 DEF End
  <2> QED BY <1>2, <2>1, <2>5, <2>6, MakeKeeps
<1> QED BY <1>1, <1>2 DEF Clone

LEMMA BindKeeps ==
  ASSUME Ownership, NEW g \in Goroutines, NEW c \in Contexts, Owns(g, c), NEW r, RefersToItsOwn(c, r),
         NEW ref \in {r.natives, r.globals}, NEW n, NEW v, BeginBind(g, ref, n, v)
  PROVE  Ownership'
<1>1. MapOf(ref) \in Memory(c)
  BY MapsAreItsOwn
<1>2. \A x \in {MapOf(ref)} : \E e \in Contexts : Owns(g, e) /\ x \in Memory(e)
  BY <1>1
<1> QED BY <1>2, BeginKeeps DEF BeginBind

LEMMA CurrentIsAtHome ==
  ASSUME Ownership, NEW g \in Goroutines, processes[g] # <<>>
  PROVE  /\ Current(g) \in Process1 /\ Current(g).context \in Contexts
         /\ Owns(g, Current(g).context) /\ RefersToItsOwn(Current(g).context, Current(g))
<1>1. processes[g] \in Seq(Process1)
  BY DEF Ownership, ProcessesRunAtHome
<1>2. Len(processes[g]) \in DOMAIN processes[g]
  BY <1>1, EmptySeq, LenProperties
<1>3. Current(g) \in Process1
  BY <1>1, <1>2, ElementOfSeq, LenProperties DEF Current
<1>4. Current(g).context \in Contexts
  BY <1>3 DEF Process1
<1> QED BY <1>2, <1>3, <1>4 DEF Ownership, ProcessesRunAtHome, Current

LEMMA BindingsKeep ==
  ASSUME Ownership, NEW g \in Goroutines, RegisterFunction(g) \/ SetGlobal(g) \/ StoreGlobalOperation(g)
  PROVE  Ownership'
<1>1. ASSUME NEW c \in Contexts, NEW n \in Names, NEW v \in Plain, Owns(g, c),
             BeginBind(g, contexts[c].natives, n, v) \/ BeginBind(g, contexts[c].globals, n, v)
      PROVE  Ownership'
  <2>1. RefersToItsOwn(c, contexts[c])
    BY <1>1, MadeIsRecord DEF Ownership, Owns
  <2> QED BY <1>1, <2>1, BindKeeps
<1>2. ASSUME processes[g] # <<>>, NEW n \in Names, NEW v \in Plain, BeginBind(g, Current(g).globals, n, v)
      PROVE  Ownership'
  BY <1>2, CurrentIsAtHome, BindKeeps
<1> QED BY <1>1, <1>2 DEF RegisterFunction, SetGlobal, StoreGlobalOperation

LEMMA ReadsKeep ==
  ASSUME Ownership, NEW g \in Goroutines, GetGlobal(g) \/ Lookup(g)
  PROVE  Ownership'
<1>1. ASSUME NEW c \in Contexts, Owns(g, c), Begin(g, "read", <<>>, {MapOf(contexts[c].globals)}, {})
      PROVE  Ownership'
  <2>1. RefersToItsOwn(c, contexts[c]) /\ Readable(g, c)
    BY <1>1, MadeIsRecord DEF Ownership, Owns, Readable
  <2>2. \A x \in {MapOf(contexts[c].globals)} : \E e \in Contexts : Readable(g, e) /\ x \in Memory(e)
    BY <2>1, MapsAreItsOwn
  <2> QED BY <1>1, <2>2, BeginKeeps
<1>2. ASSUME processes[g] # <<>>, NEW p, p = Current(g),
             Begin(g, "read", <<>>, {MapOf(p.globals), MapOf(p.natives)} \cup Elements(p.constructors), {})
      PROVE  Ownership'
  <2>1. PICK c \in Contexts : Owns(g, c) /\ RefersToItsOwn(c, p)
    BY <1>2, CurrentIsAtHome
  <2>2. Readable(g, c) /\ SliceOf(c, p.constructors)
    BY <2>1 DEF Owns, Readable, RefersToItsOwn
  <2>3. \A x \in {MapOf(p.globals), MapOf(p.natives)} \cup Elements(p.constructors) :
          x \in PackageMemory \/ \E e \in Contexts : Readable(g, e) /\ x \in Memory(e)
    BY <2>1, <2>2, MapsAreItsOwn, ElementsAreItsOwn
  <2> QED BY <1>2, <2>3, BeginKeeps
<1> QED BY <1>1, <1>2 DEF GetGlobal, Lookup

LEMMA EndsKeep ==
  ASSUME Ownership, NEW g \in Goroutines, EndOfBind(g) \/ EndOfRead(g)
  PROVE  Ownership'
<1>1. UNCHANGED <<contexts, processes>> /\ calls' = [calls EXCEPT ![g] = Idle]
  BY DEF EndOfBind, EndOfRead, End
<1>2. ContextsOwnTheirs' /\ ContextsGrow
  BY <1>1 DEF Ownership, ContextsOwnTheirs, ContextsGrow, Made, RefersToItsOwn, SliceOf
<1> QED BY <1>1, <1>2, ContextStep

LEMMA RegisterConstructorKeeps ==
  ASSUME Ownership, NEW g \in Goroutines, RegisterConstructor(g)
  PROVE  Ownership'
<1>1. ASSUME NEW c \in Contexts, NEW k \in Constructors, Owns(g, c), NEW s, s = contexts[c].constructors,
             Begin(g, "RegisterConstructor", <<c, k>>, Elements(s),
                   {MapOf(contexts[c].natives), HeaderOf(c)}
                     \cup IF s.len < Capacity(s) THEN {<<"element", s.array, s.len + 1>>} ELSE {})
      PROVE  Ownership'
  <2> DEFINE next == IF s.len < Capacity(s) THEN {<<"element", s.array, s.len + 1>>} ELSE {}
  <2>1. RefersToItsOwn(c, contexts[c]) /\ Readable(g, c) /\ SliceOf(c, s)
    BY <1>1, MadeIsRecord DEF Ownership, Owns, Readable
  <2>2. \A x \in Elements(s) : x \in PackageMemory \/ \E e \in Contexts : Readable(g, e) /\ x \in Memory(e)
    BY <2>1, ElementsAreItsOwn
  <2>3. next \subseteq Memory(c)
    <3>1. CASE s = NativeConstructors
      BY <3>1 DEF NativeConstructors, Capacity
    <3>2. ASSUME NEW n \in Nat, s.array = <<c, n>>
          PROVE  next \subseteq Memory(c)
      <4>1. s.len + 1 \in Nat
        BY <2>1 DEF SliceOf
      <4> QED BY <3>2, <4>1 DEF Memory
    <3> QED BY <2>1, <3>1, <3>2 DEF SliceOf
  <2>4. {MapOf(contexts[c].natives), HeaderOf(c)} \subseteq Memory(c)
    BY <2>1, MapsAreItsOwn DEF HeaderOf, Memory
  <2>5. \A x \in {MapOf(contexts[c].natives), HeaderOf(c)} \cup next :
          \E e \in Contexts : Owns(g, e) /\ x \in Memory(e)
    BY <1>1, <2>3, <2>4
  <2>6. \E e \in Contexts, l \in Constructors : <<c, k>> = <<e, l>> /\ Owns(g, e)
    BY <1>1
  <2> QED BY <1>1, <2>2, <2>5, <2>6, BeginKeeps
<1>2. ASSUME InCall(g, "RegisterConstructor"), Append1(Args(g)[1], Args(g)[2]), End(g), UNCHANGED processes
      PROVE  Ownership'
  <2>1. PICK c \in Contexts, k \in Constructors : Args(g) = <<c, k>> /\ Owns(g, c)
    BY <1>2 DEF Ownership, CallsStayAtHome, InCall, Args
  <2> DEFINE s == contexts[c].constructors
  <2>2. /\ contexts[c] \in Context1 /\ RefersToItsOwn(c, contexts[c])
        /\ s \in Constructors1 /\ SliceOf(c, s)
    BY <2>1, MadeIsRecord DEF Ownership, Owns
  <2>3. contexts \in [Contexts -> {NotMade} \cup Context1] /\ contexts[c] # NotMade
    BY <2>1 DEF Ownership, ContextsOwnTheirs, Owns, Made
  <2>4. PICK t : /\ t \in Constructors1 /\ SliceOf(c, t)
                 /\ contexts' = [contexts EXCEPT ![c] = [contexts[c] EXCEPT !.constructors = t]]
    <3>1. CASE s.len < Capacity(s)
      <4> DEFINE t == [s EXCEPT !.len = s.len + 1]
      <4>1. contexts' = [contexts EXCEPT ![c] = [contexts[c] EXCEPT !.constructors = t]]
        BY <1>2, <2>1, <3>1, <2>3 DEF Append1
      <4>2. s # NativeConstructors
        BY <3>1 DEF NativeConstructors, Capacity
      <4>3. t.array = s.array /\ t.len = s.len + 1 /\ t \in Constructors1
        BY <2>2 DEF Constructors1
      <4>4. SliceOf(c, t)
        BY <2>2, <4>2, <4>3 DEF SliceOf
      <4> QED BY <4>1, <4>3, <4>4
    <3>2. CASE ~(s.len < Capacity(s))
      <4> DEFINE t == [array |-> <<c, MaxConstructors>>, len |-> s.len + 1]
      <4>1. contexts' = [contexts EXCEPT ![c] = [contexts[c] EXCEPT !.constructors = t]]
        BY <1>2, <2>1, <3>2, <2>3 DEF Append1
      <4>2. s.len + 1 \in Nat
        BY <2>2 DEF SliceOf
      <4>3. t \in Constructors1 /\ SliceOf(c, t)
        BY <4>2, BoundsAssumption DEF Constructors1, SliceOf
      <4> QED BY <4>1, <4>3
    <3> QED BY <3>1, <3>2
  <2> DEFINE r == [contexts[c] EXCEPT !.constructors = t]
  <2>5. r \in Context1 /\ RefersToItsOwn(c, r) /\ r.owner = contexts[c].owner /\ r.shared = contexts[c].shared
    BY <2>2, <2>4 DEF Context1, RefersToItsOwn
  <2> HIDE DEF r
  <2>6. contexts' \in [Contexts -> {NotMade} \cup Context1] /\ contexts'[c] = r
        /\ \A d \in Contexts \ {c} : contexts'[d] = contexts[d]
    BY <2>3, <2>4, <2>5 DEF r
  <2>7. r # NotMade
    BY <2>5, RecordsAreMade
  <2>8. ContextsOwnTheirs'
    BY <2>5, <2>6 DEF Ownership, ContextsOwnTheirs, Made, RefersToItsOwn, SliceOf
  <2>9. ContextsGrow
    BY <2>5, <2>6, <2>7 DEF ContextsGrow, Made
  <2> QED BY <1>2, <2>8, <2>9, ContextStep DEF End
<1> QED BY <1>1, <1>2 DEF RegisterConstructor

LEMMA StartsKeep ==
  ASSUME Ownership, NEW g \in Goroutines, RunWithContext(g) \/ evalFunc(g)
  PROVE  Ownership'
<1>1. ASSUME NEW c \in Contexts, Owns(g, c), UNCHANGED <<contexts, calls>>,
             Running(g, NewProcess(c, contexts[c].natives, contexts[c].globals, contexts[c].constructors))
      PROVE  Ownership'
  <2> DEFINE p == NewProcess(c, contexts[c].natives, contexts[c].globals, contexts[c].constructors)
  <2>1. contexts[c] \in Context1 /\ RefersToItsOwn(c, contexts[c])
    BY <1>1, MadeIsRecord DEF Ownership, Owns
  <2>2. p \in Process1 /\ p.context = c /\ RefersToItsOwn(c, p)
    BY <2>1 DEF NewProcess, Context1, Process1, RefersToItsOwn
  <2> QED BY <1>1, <2>2, StartKeeps
<1>2. ASSUME processes[g] # <<>>, UNCHANGED <<contexts, calls>>, NEW q, q = Current(g),
             Running(g, NewProcess(q.context, q.natives, q.globals, q.constructors))
      PROVE  Ownership'
  <2> DEFINE p == NewProcess(q.context, q.natives, q.globals, q.constructors)
  <2>1. q \in Process1 /\ Owns(g, q.context) /\ RefersToItsOwn(q.context, q)
    BY <1>2, CurrentIsAtHome
  <2>2. p \in Process1 /\ p.context = q.context /\ RefersToItsOwn(p.context, p)
    BY <2>1 DEF NewProcess, Process1, RefersToItsOwn
  <2> QED BY <1>2, <2>1, <2>2, StartKeeps
<1> QED BY <1>1, <1>2 DEF RunWithContext, evalFunc, IsRunning

\* A context is shared by its owner, which then neither runs it nor is in a
\* call on it: everyone may read it, and nobody writes it any more.
LEMMA ShareKeeps ==
  ASSUME Ownership, NEW g \in Goroutines, Share(g)
  PROVE  Ownership'
<1>1. PICK c \in Contexts :
        /\ calls[g] = Idle /\ Owns(g, c) /\ \A i \in DOMAIN processes[g] : processes[g][i].context # c
        /\ contexts' = [contexts EXCEPT ![c].shared = TRUE]
        /\ UNCHANGED <<calls, processes>>
  BY DEF Share
<1> DEFINE r == [contexts[c] EXCEPT !.shared = TRUE]
<1>2. contexts[c] \in Context1 /\ RefersToItsOwn(c, contexts[c])
  BY <1>1, MadeIsRecord DEF Ownership, Owns
<1>3. r \in Context1 /\ RefersToItsOwn(c, r) /\ r.owner = contexts[c].owner /\ r.shared
  BY <1>2 DEF Context1, RefersToItsOwn
<1>4. r # NotMade
  BY <1>3, RecordsAreMade
<1> HIDE DEF r
<1>5. contexts \in [Contexts -> {NotMade} \cup Context1]
  BY DEF Ownership, ContextsOwnTheirs
<1>6. contexts' \in [Contexts -> {NotMade} \cup Context1] /\ contexts'[c] = r
      /\ \A d \in Contexts \ {c} : contexts'[d] = contexts[d]
  BY <1>1, <1>3, <1>5 DEF r
<1>7. ContextsOwnTheirs'
  BY <1>3, <1>6 DEF Ownership, ContextsOwnTheirs, Made, RefersToItsOwn, SliceOf
<1>8. ASSUME NEW h \in Goroutines, NEW d \in Contexts
      PROVE  /\ Owns(h, d) /\ (h # g \/ d # c) => Owns(h, d)'
             /\ Readable(h, d) => Readable(h, d)'
  BY <1>1, <1>3, <1>4, <1>6 DEF Owns, Readable, Made
<1>9. ASSUME NEW h \in Goroutines, NEW i \in DOMAIN processes[h]
      PROVE  /\ Made(processes[h][i].context)' /\ Owns(h, processes[h][i].context)'
             /\ RefersToItsOwn(processes[h][i].context, processes[h][i])
  <2>1. processes[h] \in Seq(Process1)
    BY DEF Ownership, ProcessesRunAtHome
  <2>2. processes[h][i] \in Process1
    BY <2>1, ElementOfSeq, LenProperties
  <2>3. PICK d \in Contexts : d = processes[h][i].context
    BY <2>2 DEF Process1
  <2>4. Owns(h, d) /\ RefersToItsOwn(d, processes[h][i])
    BY <2>3 DEF Ownership, ProcessesRunAtHome
  <2>5. Owns(h, d)'
    BY <1>1, <1>8, <2>3, <2>4
  <2> QED BY <1>1, <2>3, <2>4, <2>5 DEF Owns, Made
<1>10. ProcessesRunAtHome'
  BY <1>1, <1>9 DEF Ownership, ProcessesRunAtHome, Owns, Made, RefersToItsOwn, SliceOf
<1>11. ASSUME NEW h \in Goroutines
       PROVE  /\ \A x \in calls[h].writes : \E d \in Contexts : Owns(h, d)' /\ x \in Memory(d)
              /\ \A x \in calls[h].reads : x \in PackageMemory \/ \E d \in Contexts : Readable(h, d)' /\ x \in Memory(d)
              /\ calls[h].op = "Clone" =>
                   \E d, e \in Contexts : calls[h].args = <<d, e>> /\ Readable(h, d)'
              /\ calls[h].op = "RegisterConstructor" =>
                   \E d \in Contexts, k \in Constructors : calls[h].args = <<d, k>> /\ Owns(h, d)'
  <2>1. CASE h = g
    BY <1>1, <2>1 DEF Idle
  <2>2. CASE h # g
    BY <1>8, <2>2 DEF Ownership, CallsStayAtHome
  <2> QED BY <2>1, <2>2
<1>12. CallsStayAtHome'
  BY <1>1, <1>11 DEF Ownership, CallsStayAtHome, Owns, Readable, Made, Memory
<1> QED BY <1>7, <1>10, <1>12 DEF Ownership

-----------------------------------------------------------------------------

LEMMA OwnershipAtFirst ==
  ASSUME Init
  PROVE  Ownership
<1>1. ContextsOwnTheirs
  BY DEF Init, ContextsOwnTheirs, Made
<1>2. ProcessesRunAtHome
  <2>1. processes = [g \in Goroutines |-> <<>>]
    BY DEF Init
  <2>2. processes \in [Goroutines -> Seq(Process1)]
    BY <2>1
  <2>3. \A g \in Goroutines : DOMAIN processes[g] = {}
    <3> SUFFICES ASSUME NEW g \in Goroutines
                 PROVE  DOMAIN processes[g] = {}
      OBVIOUS
    <3>1. processes[g] \in Seq(Process1) /\ Len(processes[g]) = 0
      BY <2>1
    <3>2. DOMAIN processes[g] = 1 .. 0
      BY <3>1, LenProperties
    <3> QED BY <3>2
  <2> QED BY <2>2, <2>3 DEF ProcessesRunAtHome
<1>3. CallsStayAtHome
  BY DEF Init, CallsStayAtHome, Idle
<1> QED BY <1>1, <1>2, <1>3 DEF Ownership

LEMMA OwnershipIsKept ==
  ASSUME Ownership, [Next]_vars
  PROVE  Ownership'
<1>1. CASE Next
  <2> SUFFICES ASSUME NEW g \in Goroutines,
                      \/ NewScriptContext(g) \/ Clone(g) \/ Share(g)
                      \/ RegisterFunction(g) \/ RegisterConstructor(g) \/ SetGlobal(g) \/ EndOfBind(g) \/ GetGlobal(g)
                      \/ RunWithContext(g) \/ evalFunc(g) \/ EndOfScript(g)
                      \/ Lookup(g) \/ EndOfRead(g) \/ StoreGlobalOperation(g)
               PROVE  Ownership'
    BY <1>1 DEF Next
  <2> QED BY NewScriptContextKeeps, CloneKeeps, ShareKeeps, BindingsKeep, RegisterConstructorKeeps, EndsKeep,
             ReadsKeep, StartsKeep, EndKeeps
<1>2. CASE UNCHANGED vars
  <2>1. ContextsOwnTheirs' /\ ContextsGrow
    BY <1>2 DEF vars, Ownership, ContextsOwnTheirs, ContextsGrow, Made, RefersToItsOwn, SliceOf
  <2> QED BY <1>2, <2>1, ContextStep DEF vars
<1> QED BY <1>1, <1>2

\* Goroutines that use contexts of their own, and clones of shared ones, never
\* race for the memory of a context: not for its maps, not for its array of
\* constructors, also where append leaves that array shared with the slices of
\* running processes (gescript.go, the doc of Clone).
THEOREM GoroutinesDoNotRace == Spec => []NoRace
<1>1. Init => Ownership
  BY OwnershipAtFirst
<1>2. Ownership /\ [Next]_vars => Ownership'
  BY OwnershipIsKept
<1>3. Ownership => NoRace
  BY OwnershipSuffices
<1> QED BY <1>1, <1>2, <1>3, PTL DEF Spec
=============================================================================
