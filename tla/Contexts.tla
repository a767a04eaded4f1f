------------------------------ MODULE Contexts ------------------------------
(***************************************************************************)
(* Script contexts (gescript.go) used by several goroutines: the maps and  *)
(* the slice that a context holds, that processes share with it and that a *)
(* clone copies.  There is no lock; what keeps goroutines apart is that a  *)
(* context is used by one of them, and that others may only clone it, once *)
(* its owner has done with it.                                             *)
(*                                                                         *)
(* A map is known by the context that it was made for.  A call takes two   *)
(* steps, Begin and the call's own, so that calls of goroutines overlap    *)
(* where nothing orders them.                                              *)
(***************************************************************************)
EXTENDS Naturals, Sequences

CONSTANTS
  Goroutines, Contexts,
  Names,         \* names of globals and natives
  Constructors,  \* names among them that constructors have
  Plain,         \* other values; what is behind a pointer is left out
  MaxConstructors, MaxProcesses,  \* bounds: a context's constructors, nested runs
  MaxChanges                      \* bound: calls that change something

ASSUME NamesAssumption == Constructors \subseteq Names
ASSUME BoundsAssumption == MaxConstructors \in Nat \ {0}
ASSUME ValuesAssumption == "unbound" \notin Plain \cup Constructors

VARIABLES
  contexts,    \* the ScriptContexts
  maps,        \* what the maps hold
  arrays,      \* the arrays that slices of constructors are in
  calls,       \* the call that each goroutine is in
  processes,   \* the processes that run in each goroutine, the innermost last
  changes      \* how many calls have changed something, for the bound
vars == <<contexts, maps, arrays, calls, processes, changes>>

NotMade == [absent |-> TRUE]
Unbound == "unbound"
Values == Plain \cup Constructors
Kinds == {"natives", "globals"}
MapRef == Contexts \X Kinds
Package == "package"
ASSUME PackageAssumption == Package \notin Contexts
\* An array is known by the context that allocated it and its capacity.
ArrayRef == (Contexts \cup {Package}) \X (1 .. MaxConstructors)
Slice == [array : ArrayRef, len : 0 .. MaxConstructors]
Builtin == "builtin"
ScriptContext == [natives : MapRef, globals : MapRef, constructors : Slice,
                  owner : Goroutines, shared : BOOLEAN]
Process == [context : Contexts, natives : MapRef, globals : MapRef, constructors : Slice]

NativeConstructors == [array |-> <<Package, 1>>, len |-> 1]  \* of the library
NativeFunctions == [n \in Names |-> Unbound]                 \* those of other names

Made(c) == contexts[c] # NotMade
Items(s) == SubSeq(arrays[s.array], 1, s.len)
Capacity(s) == s.array[2]
Current(g) == processes[g][Len(processes[g])]

-----------------------------------------------------------------------------
(* A call and the memory that it reads and writes.  What it reads and      *)
(* writes is fixed when it begins: only its own goroutine could change it. *)

Idle == [op |-> "none", reads |-> {}, writes |-> {}]
Begin(g, op, args, reads, writes) ==
  /\ calls[g] = Idle
  /\ IF writes = {} THEN UNCHANGED changes ELSE changes < MaxChanges /\ changes' = changes + 1
  /\ calls' = [calls EXCEPT ![g] = [op |-> op, args |-> args, reads |-> reads, writes |-> writes]]
  /\ UNCHANGED <<contexts, maps, arrays, processes>>
InCall(g, op) == calls[g].op = op
Args(g) == calls[g].args
End(g) == calls' = [calls EXCEPT ![g] = Idle] /\ UNCHANGED changes

MapOf(ref) == <<"map", ref>>
HeaderOf(c) == <<"context", c>>
Elements(s) == {<<"element", s.array, i>> : i \in 1 .. s.len}

-----------------------------------------------------------------------------
(* Contexts.  A goroutine calls the methods of a context that it made and  *)
(* has not shared; a shared one can be cloned.  Calls that read and write  *)
(* only what their goroutine has at hand take one step.                    *)

Owns(g, c) == Made(c) /\ contexts[c].owner = g /\ ~contexts[c].shared
Bind(ref, n, v) == maps' = [maps EXCEPT ![ref] = [@ EXCEPT ![n] = v]]
\* The calls that bind a name do it in their second step, EndOfBind.
BeginBind(g, ref, n, v) == Begin(g, "Bind", <<ref, n, v>>, {}, {MapOf(ref)})
EndOfBind(g) == /\ InCall(g, "Bind")
                /\ Bind(Args(g)[1], Args(g)[2], Args(g)[3])
                /\ End(g) /\ UNCHANGED <<contexts, arrays, processes>>

NewScriptContext(g) ==
  \E c \in Contexts :
    /\ calls[g] = Idle /\ ~Made(c)
    /\ contexts' = [contexts EXCEPT ![c] =
         [natives |-> <<c, "natives">>, globals |-> <<c, "globals">>,
          constructors |-> NativeConstructors, owner |-> g, shared |-> FALSE]]
    /\ maps' = [maps EXCEPT ![<<c, "natives">>] = NativeFunctions]
    /\ UNCHANGED <<arrays, calls, processes, changes>>

\* Variants of CopyOf: a map of the context itself is used.
SharedGlobals(c, d) ==
  [natives |-> <<d, "natives">>, globals |-> contexts[c].globals,
   constructors |-> [array |-> <<d, contexts[c].constructors.len>>, len |-> contexts[c].constructors.len]]
SharedNatives(c, d) ==
  [natives |-> contexts[c].natives, globals |-> <<d, "globals">>,
   constructors |-> [array |-> <<d, contexts[c].constructors.len>>, len |-> contexts[c].constructors.len]]
\* What a clone d of c refers to: maps and an array of its own
CopyOf(c, d) ==
  [natives |-> <<d, "natives">>, globals |-> <<d, "globals">>,
   constructors |-> [array |-> <<d, contexts[c].constructors.len>>, len |-> contexts[c].constructors.len]]

Clone(g) ==
  \/ \E c, d \in Contexts :
       /\ Owns(g, c) \/ (Made(c) /\ contexts[c].shared)
       /\ ~Made(d)
       /\ LET from == contexts[c]
          IN Begin(g, "Clone", <<c, d>>,
                   {MapOf(from.natives), MapOf(from.globals), HeaderOf(c)} \cup Elements(from.constructors), {})
  \/ /\ InCall(g, "Clone")
     /\ LET c == Args(g)[1]
            d == Args(g)[2]
            copy == CopyOf(c, d)
        IN /\ ~Made(d)
           /\ contexts' = [contexts EXCEPT ![d] =
                [natives |-> copy.natives, globals |-> copy.globals, constructors |-> copy.constructors,
                 owner |-> g, shared |-> FALSE]]
           /\ maps' = [maps EXCEPT ![copy.natives] = maps[contexts[c].natives],
                                   ![copy.globals] = maps[contexts[c].globals]]
           /\ arrays' = [arrays EXCEPT ![copy.constructors.array] = Items(contexts[c].constructors)]
     /\ End(g) /\ UNCHANGED processes

RegisterFunction(g) == \E c \in Contexts, n \in Names, v \in Plain : Owns(g, c) /\ BeginBind(g, contexts[c].natives, n, v)

\* A variant of Append1: always in place.
AppendInPlace(c, k) ==
  LET s == contexts[c].constructors
  IN /\ arrays' = [arrays EXCEPT ![s.array] = Append(Items(s), k)]
     /\ contexts' = [contexts EXCEPT ![c].constructors.len = s.len + 1]
\* append: in place while there is capacity, else to a new array, with more
Append1(c, k) ==
  LET s == contexts[c].constructors
      items == Append(Items(s), k)
  IN IF s.len < Capacity(s)
     THEN /\ arrays' = [arrays EXCEPT ![s.array] = items]
          /\ contexts' = [contexts EXCEPT ![c].constructors.len = s.len + 1]
     ELSE LET grown == <<c, MaxConstructors>>
          IN /\ arrays' = [arrays EXCEPT ![grown] = items]
             /\ contexts' = [contexts EXCEPT ![c].constructors = [array |-> grown, len |-> s.len + 1]]
RegisterConstructor(g) ==
  \/ \E c \in Contexts, k \in Constructors :
       /\ Owns(g, c) /\ contexts[c].constructors.len < MaxConstructors
       /\ LET s == contexts[c].constructors
          IN Begin(g, "RegisterConstructor", <<c, k>>, Elements(s),
                   {MapOf(contexts[c].natives), HeaderOf(c)}
                     \cup IF s.len < Capacity(s) THEN {<<"element", s.array, s.len + 1>>} ELSE {})
  \/ /\ InCall(g, "RegisterConstructor")
     /\ Bind(contexts[Args(g)[1]].natives, Args(g)[2], Args(g)[2])
     /\ Append1(Args(g)[1], Args(g)[2])
     /\ End(g) /\ UNCHANGED processes

SetGlobal(g) ==
  \E c \in Contexts, n \in Names, v \in Plain : Owns(g, c) /\ BeginBind(g, contexts[c].globals, n, v)
\* GetGlobal and GetFunction
GetGlobal(g) == \E c \in Contexts : Owns(g, c) /\ Begin(g, "read", <<>>, {MapOf(contexts[c].globals)}, {})

-----------------------------------------------------------------------------
(* Scripts that run with a context.                                        *)

\* A variant of NewProcess: two of its arguments are in the wrong order.
SwappedMaps(c, natives, globals, constructors) ==
  [context |-> c, natives |-> globals, globals |-> natives, constructors |-> constructors]
NewProcess(c, natives, globals, constructors) ==
  [context |-> c, natives |-> natives, globals |-> globals, constructors |-> constructors]
Running(g, p) == processes' = [processes EXCEPT ![g] = Append(@, p)]

RunWithContext(g) ==
  /\ calls[g] = Idle /\ processes[g] = <<>>
  /\ \E c \in Contexts :
       /\ Owns(g, c)
       /\ Running(g, NewProcess(c, contexts[c].natives, contexts[c].globals, contexts[c].constructors))
  /\ UNCHANGED <<contexts, maps, arrays, calls, changes>>

IsRunning(g) == calls[g] = Idle /\ processes[g] # <<>>
\* eval, which runs a process with what the current one has
evalFunc(g) ==
  /\ IsRunning(g) /\ Len(processes[g]) < MaxProcesses
  /\ LET p == Current(g) IN Running(g, NewProcess(p.context, p.natives, p.globals, p.constructors))
  /\ UNCHANGED <<contexts, maps, arrays, calls, changes>>
EndOfScript(g) ==
  /\ IsRunning(g)
  /\ processes' = [processes EXCEPT ![g] = SubSeq(@, 1, Len(@) - 1)]
  /\ UNCHANGED <<contexts, maps, arrays, calls, changes>>

\* LoadGlobalOperation, and resolveInstanceMember with the constructors
Lookup(g) ==
  /\ processes[g] # <<>>
  /\ LET p == Current(g)
     IN Begin(g, "read", <<>>, {MapOf(p.globals), MapOf(p.natives)} \cup Elements(p.constructors), {})
EndOfRead(g) == InCall(g, "read") /\ End(g) /\ UNCHANGED <<contexts, maps, arrays, processes>>
\* A function statement of the script, and SetGlobal of a process
StoreGlobalOperation(g) ==
  /\ processes[g] # <<>>
  /\ \E n \in Names, v \in Plain : BeginBind(g, Current(g).globals, n, v)

\* The program hands a context on, to be cloned by goroutines that it starts.
Share(g) ==
  \E c \in Contexts :
    /\ calls[g] = Idle /\ Owns(g, c) /\ \A i \in DOMAIN processes[g] : processes[g][i].context # c
    /\ contexts' = [contexts EXCEPT ![c].shared = TRUE]
    /\ UNCHANGED <<maps, arrays, calls, processes, changes>>

-----------------------------------------------------------------------------
Init == /\ contexts = [c \in Contexts |-> NotMade]
        /\ maps = [ref \in MapRef |-> [n \in Names |-> Unbound]]
        /\ arrays = [ref \in ArrayRef |-> IF ref = <<Package, 1>> THEN <<Builtin>> ELSE <<>>]
        /\ calls = [g \in Goroutines |-> Idle]
        /\ processes = [g \in Goroutines |-> <<>>] /\ changes = 0

Next == \E g \in Goroutines :
          \/ NewScriptContext(g) \/ Clone(g) \/ Share(g)
          \/ RegisterFunction(g) \/ RegisterConstructor(g) \/ SetGlobal(g) \/ EndOfBind(g) \/ GetGlobal(g)
          \/ RunWithContext(g) \/ evalFunc(g) \/ EndOfScript(g)
          \/ Lookup(g) \/ EndOfRead(g) \/ StoreGlobalOperation(g)
Spec == Init /\ [][Next]_vars

-----------------------------------------------------------------------------
(* Correctness.                                                            *)

TypeOK == /\ contexts \in [Contexts -> {NotMade} \cup ScriptContext]
          /\ maps \in [MapRef -> [Names -> Values \cup {Unbound}]]
          /\ arrays \in [ArrayRef -> Seq(Constructors \cup {Builtin})]
          /\ \A ref \in ArrayRef : Len(arrays[ref]) <= ref[2]
          /\ DOMAIN calls = Goroutines /\ changes \in Nat
          /\ processes \in [Goroutines -> Seq(Process)]

\* No goroutine writes what another reads or writes at the same time: there is
\* no data race while clones are made of a context that is no longer changed
\* (Clone; README, goroutines).
NoRace == \A g, h \in Goroutines :
            g # h => calls[g].writes \cap (calls[h].reads \cup calls[h].writes) = {}

\* A script sees what is put into its context while it runs, and leaves there
\* what it defines; the constructors it resolves members with are the first of
\* those of its context (NewProcess, Replica, RegisterConstructor).
ProcessesSeeTheirContext ==
  \A g \in Goroutines : \A i \in DOMAIN processes[g] :
    LET p == processes[g][i]
        c == contexts[p.context]
    IN /\ maps[p.natives] = maps[c.natives] /\ maps[p.globals] = maps[c.globals]
       /\ p.constructors.len <= c.constructors.len
       /\ Items(p.constructors) = SubSeq(Items(c.constructors), 1, p.constructors.len)

\* Each context is a store of its own: what a script sees in it is what
\* IsolatedContexts keeps (the comment on Clone).
View == [c \in Contexts |->
           IF Made(c) THEN [natives |-> maps[contexts[c].natives], globals |-> maps[contexts[c].globals],
                            constructors |-> Items(contexts[c].constructors)]
           ELSE NotMade]
Isolated == INSTANCE IsolatedContexts WITH
  Values <- Plain, StandardNatives <- NativeFunctions, StandardConstructors <- <<Builtin>>, view <- View
ImplementsIsolation == Isolated!Spec
=============================================================================
