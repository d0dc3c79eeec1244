-------------------------- MODULE ReportedOutput --------------------------
(***************************************************************************)
(* What a stream writer promises, without its queue, its retries and its    *)
(* flush: samples become messages in their order, some are left out, each   *)
(* message is reported once, in any order, and the output is closed either  *)
(* with every message reported or by giving up on the rest.                 *)
(***************************************************************************)
EXTENDS Integers, Sequences

CONSTANT Ids   \* identities of samples: numbers, in the order they are written

VARIABLES
  accepted,  \* the samples that became messages, oldest first
  reported,  \* the ones a delivery report was seen for
  state      \* "open", "complete" or "abandoned"

vars == <<accepted, reported, state>>

Init == accepted = <<>> /\ reported = {} /\ state = "open"

(* A sample newer than every message so far becomes a message.              *)
Accept ==
  /\ state = "open"
  /\ \E id \in Ids :
       /\ \A k \in 1 .. Len(accepted) : accepted[k] < id
       /\ accepted' = Append(accepted, id)
  /\ UNCHANGED <<reported, state>>

Messages == {accepted[k] : k \in 1 .. Len(accepted)}

(* Some messages that have no report yet, one or more, are reported.        *)
Report ==
  /\ state = "open"
  /\ \E batch \in SUBSET (Messages \ reported) :
       batch # {} /\ reported' = reported \cup batch
  /\ UNCHANGED <<accepted, state>>

Close ==
  /\ state = "open"
  /\ \/ state' = "complete" /\ reported = Messages
     \/ state' = "abandoned"
  /\ UNCHANGED <<accepted, reported>>

Next == Accept \/ Report \/ Close

Spec == Init /\ [][Next]_vars
============================================================================
