--------------------------- MODULE IsolatedContexts ---------------------------
(* What script contexts promise: each is a store of its own.  A clone starts *)
(* as a copy, and from then on nothing that is done with one is seen in the  *)
(* other (the comment on Clone in gescript.go).                              *)
EXTENDS Sequences

CONSTANTS Contexts, Names, Values, Constructors, StandardNatives, StandardConstructors

VARIABLE view   \* what a script sees in each context, NotMade before it exists

NotMade == [absent |-> TRUE]
Unbound == "unbound"

Make(c) ==
  /\ view[c] = NotMade
  /\ view' = [view EXCEPT ![c] = [natives |-> StandardNatives,
                                  globals |-> [n \in Names |-> Unbound],
                                  constructors |-> StandardConstructors]]
Copy(c, d) ==
  /\ view[c] # NotMade /\ view[d] = NotMade
  /\ view' = [view EXCEPT ![d] = view[c]]
Bind(c, kind, n, v) ==
  /\ view[c] # NotMade
  /\ view' = [view EXCEPT ![c][kind][n] = v]
Register(c, k) ==
  /\ view[c] # NotMade
  /\ view' = [view EXCEPT ![c] = [natives |-> [view[c].natives EXCEPT ![k] = k],
                                  globals |-> view[c].globals,
                                  constructors |-> Append(view[c].constructors, k)]]

Init == view = [c \in Contexts |-> NotMade]
Next == \E c \in Contexts :
          \/ Make(c)
          \/ \E d \in Contexts : Copy(c, d)
          \/ \E kind \in {"natives", "globals"}, n \in Names, v \in Values : Bind(c, kind, n, v)
          \/ \E k \in Constructors : Register(c, k)
Spec == Init /\ [][Next]_view
=============================================================================
