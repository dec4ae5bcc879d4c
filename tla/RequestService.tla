--------------------------- MODULE RequestService ---------------------------
(***************************************************************************)
(* What a compute node promises for the requests it has decided to         *)
(* execute: each one is either taken in and answered exactly once, or      *)
(* handed on to another node at the moment it is offered, never both and   *)
(* never twice.  NfnExecution is shown to implement this specification.    *)
(***************************************************************************)
CONSTANT Jobs           \* request instances

VARIABLES open,         \* taken in, not answered yet
          answered,     \* result sent, not offered again since
          handedOn      \* passed to another node, not offered again since

vars == <<open, answered, handedOn>>

Offered == open \union answered \union handedOn

Init ==
  /\ open = {}
  /\ answered = {}
  /\ handedOn = {}

Accept(j) ==
  /\ j \notin Offered
  /\ open' = open \union {j}
  /\ UNCHANGED <<answered, handedOn>>

HandOn(j) ==
  /\ j \notin Offered
  /\ handedOn' = handedOn \union {j}
  /\ UNCHANGED <<open, answered>>

Answer(j) ==
  /\ j \in open
  /\ open' = open \ {j}
  /\ answered' = answered \union {j}
  /\ UNCHANGED handedOn

\* What was answered or handed on may be offered again, as a new request.
Renew(j) ==
  /\ j \in answered \union handedOn
  /\ answered' = answered \ {j}
  /\ handedOn' = handedOn \ {j}
  /\ UNCHANGED open

Next == \E j \in Jobs : Accept(j) \/ HandOn(j) \/ Answer(j) \/ Renew(j)

Spec == Init /\ [][Next]_vars
=============================================================================
