--------------------------- MODULE RequestStream ---------------------------
(***************************************************************************)
(* What a consumer does to its network: it asks for consecutively numbered *)
(* items, may ask again for one that is still unanswered, and never again  *)
(* for one that has been answered.  IncConsumer is shown to implement this *)
(* specification.                                                          *)
(***************************************************************************)
EXTENDS Naturals, Sequences

VARIABLES issued,   \* number of items asked for so far: 0 .. issued - 1
          open,     \* those not answered yet
          log       \* every question, in the order it was asked

vars == <<issued, open, log>>

Init ==
  /\ issued = 0
  /\ open = {}
  /\ log = <<>>

Ask ==
  /\ issued' = issued + 1
  /\ open' = open \union {issued}
  /\ log' = Append(log, issued)

AskAgain(s) ==
  /\ log' = Append(log, s)
  /\ UNCHANGED <<issued, open>>

Answered(s) ==
  /\ open' = open \ {s}
  /\ UNCHANGED <<issued, log>>

Next == Ask \/ \E s \in open : AskAgain(s) \/ Answered(s)

Spec == Init /\ [][Next]_vars
=============================================================================
