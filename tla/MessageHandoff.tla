--------------------------- MODULE MessageHandoff ---------------------------
(***************************************************************************)
(* What a stream reader promises its route: a slot for one message.  A      *)
(* message is fetched into the empty slot, lent to the route at most once,  *)
(* and released; it may be released without having been lent (the reader    *)
(* failed on it), and an event that is no message never shows.              *)
(***************************************************************************)
EXTENDS Naturals, Sequences

VARIABLES next,       \* number of events fetched so far; a message is named by it
          slot,       \* the message in the slot, or 0
          on_loan,    \* the route holds the slot's message
          delivered   \* the messages lent, oldest first

vars == <<next, slot, on_loan, delivered>>

Init == next = 0 /\ slot = 0 /\ on_loan = FALSE /\ delivered = <<>>

Fetch ==
  /\ slot = 0
  /\ next' = next + 1
  /\ slot' \in {next', 0}
  /\ UNCHANGED <<on_loan, delivered>>

Lend ==
  /\ slot # 0 /\ ~on_loan
  /\ on_loan' = TRUE
  /\ delivered' = Append(delivered, slot)
  /\ UNCHANGED <<next, slot>>

Release ==
  /\ slot # 0
  /\ slot' = 0 /\ on_loan' = FALSE
  /\ UNCHANGED <<next, delivered>>

Next == Fetch \/ Lend \/ Release

Spec == Init /\ [][Next]_vars
=============================================================================
