------------------------- MODULE KafkaStreamWriter -------------------------
(***************************************************************************)
(* The Kafka output of the adapter: write() of one stream writer            *)
(* (KafkaStreamWriter.c), its delivery report callback and its deletion     *)
(* (KafkaConnection.c), against the bounded output queue of librdkafka.     *)
(*                                                                          *)
(* A payload is a sequence of octets, 0 being the NUL that strlen() looks   *)
(* for.  buffer_seq is a local of write() that DDS_DynamicData_get_octet_seq*)
(* refills for every sample: it grows when a payload does not fit and keeps *)
(* its bytes beyond a shorter one.                                          *)
(*                                                                          *)
(* External, modelled from the way the adapter uses it: librdkafka accepts  *)
(* a message unless its queue is full or it rejects the message, settles    *)
(* accepted messages (delivered or failed for good) in any order, producev  *)
(* naming neither key nor partition, and runs the delivery report callback  *)
(* for the settled ones inside rd_kafka_poll() and rd_kafka_flush(); only   *)
(* then does a message leave the queue.                                     *)
(***************************************************************************)
EXTENDS Integers, Sequences, FiniteSets

CONSTANTS Payloads,    \* the payloads a route may write
          MaxBatch,    \* bound on the samples of one write()
          MaxSamples,  \* bound on the samples of a behaviour
          QueueMax,    \* queue.buffering.max.messages
          Garbage,     \* what may lie in memory behind the buffer
          Faults       \* which calls may fail: "sample", "produce"

Octets == {0, 1, 2}

ASSUME PayloadsAssumption == Payloads \subseteq Seq(Octets)
ASSUME BoundsAssumption ==
  MaxBatch \in Nat \ {0} /\ MaxSamples \in Nat /\ QueueMax \in Nat \ {0}
ASSUME GarbageAssumption == Garbage \subseteq Seq(Octets \ {0}) /\ Garbage # {}
ASSUME WriterFaultsAssumption == Faults \subseteq {"sample", "produce"}

VARIABLES
  samples,   \* every payload handed to write(), oldest first; index = identity
  cur,       \* the sample write() works on
  failed,    \* the samples for which a call has failed
  wpc,       \* control point of write()
  buf,       \* the memory of buffer_seq
  value,     \* what strlen() makes of it: the bytes passed to producev
  produced,  \* the messages librdkafka accepted: records [id, value]
  outq,      \* librdkafka's queue: positions in produced
  settled,   \* the queued messages whose delivery report is waiting
  reports,   \* reports[id]: calls of dr_msg_cb for sample id
  writer     \* progress of delete_stream_writer

libVars == <<produced, outq, settled, reports>>
vars == <<samples, cur, failed, wpc, buf, value, produced, outq, settled, reports, writer>>

Ids == 1 .. MaxSamples

TypeOK ==
  /\ samples \in Seq(Payloads) /\ Len(samples) <= MaxSamples
  /\ cur \in 1 .. Len(samples) + 1 /\ failed \subseteq Ids
  /\ wpc \in {"idle", "get", "strlen", "produce", "full", "retry", "poll"}
  /\ buf \in Seq(Octets) /\ value \in Seq(Octets)
  /\ produced \in Seq([id : Ids, value : Seq(Octets)])
  /\ outq \subseteq 1 .. Len(produced) /\ settled \subseteq outq
  /\ Cardinality(outq) <= QueueMax
  /\ reports \in [Ids -> Nat]
  /\ writer \in {"open", "flushing", "flushed", "timed_out", "deleted", "deleted_early"}

Init ==
  /\ samples = <<>> /\ cur = 1 /\ failed = {} /\ wpc = "idle" /\ buf = <<>> /\ value = <<>>
  /\ produced = <<>> /\ outq = {} /\ settled = {} /\ reports = [id \in Ids |-> 0]
  /\ writer = "open"

-----------------------------------------------------------------------------
(* librdkafka.                                                              *)

(* The broker acknowledges a message, or it fails for good: its delivery    *)
(* report now waits for the writer to poll.                                 *)
Settle ==
  /\ writer # "deleted" /\ writer # "deleted_early"
  /\ \E k \in outq \ settled : settled' = settled \cup {k}
  /\ UNCHANGED <<samples, cur, failed, wpc, buf, value, produced, outq, reports, writer>>

(* The delivery report callback runs once for each of these messages.  It   *)
(* logs, which is all a route learns of a delivery.                         *)
dr_msg_cb(messages) ==
  reports' = [id \in Ids |->
    reports[id] + Cardinality({k \in messages : produced[k].id = id})]

(* rd_kafka_poll runs the callback for every waiting report; a reported     *)
(* message leaves the queue.                                                *)
ServeReports ==
  /\ dr_msg_cb(settled)
  /\ outq' = outq \ settled
  /\ settled' = {}

(* rd_kafka_producev accepts the value of the current sample.               *)
Accept ==
  /\ Cardinality(outq) < QueueMax
  /\ produced' = Append(produced, [id |-> cur, value |-> value])
  /\ outq' = outq \cup {Len(produced) + 1}
  /\ UNCHANGED <<settled, reports>>

QueueFull == Cardinality(outq) = QueueMax

-----------------------------------------------------------------------------
(* RTI_RS_KafkaStreamWriter_write.                                          *)

(* write(count samples): buffer_seq starts empty.                           *)
Write ==
  /\ wpc = "idle" /\ writer = "open"
  /\ \E n \in 1 .. MaxBatch : \E batch \in [1 .. n -> Payloads] :
       /\ Len(samples) + n <= MaxSamples
       /\ samples' = samples \o batch
  /\ buf' = <<>>
  /\ wpc' = "get"
  /\ UNCHANGED <<cur, failed, value, libVars, writer>>

(* Variant: `continue' steps over the next sample as well.                  *)
NextSampleTwice ==
  /\ cur' = cur + 2
  /\ wpc' = IF cur' <= Len(samples) THEN "get" ELSE "idle"

(* i++ and the loop test.                                                   *)
NextSample ==
  /\ cur' = cur + 1
  /\ wpc' = IF cur' <= Len(samples) THEN "get" ELSE "idle"

(* The bytes of a refilled buffer: a payload that fits overwrites the front *)
(* of the memory, a longer one gets new memory.                             *)
Refill(mem, payload) ==
  IF Len(payload) > Len(mem)
  THEN payload
  ELSE payload \o SubSeq(mem, Len(payload) + 1, Len(mem))

(* DDS_DynamicData_get_octet_seq and the contiguous buffer; without memory  *)
(* there is none and the sample is skipped.                                 *)
GetPayload ==
  /\ wpc = "get"
  /\ buf' = Refill(buf, samples[cur])
  /\ IF buf' = <<>> THEN NextSample ELSE wpc' = "strlen" /\ UNCHANGED cur
  /\ UNCHANGED <<failed, samples, value, libVars, writer>>

GetPayloadFails ==
  /\ wpc = "get"
  /\ "sample" \in Faults
  /\ failed' = failed \cup {cur}
  /\ NextSample
  /\ UNCHANGED <<samples, buf, value, libVars, writer>>

(* Variant: the length includes the terminator.                             *)
CStringWithNul(mem) ==
  LET Nuls == {k \in 1 .. Len(mem) : mem[k] = 0}
  IN IF Nuls = {}
     THEN {mem \o g : g \in Garbage}
     ELSE {SubSeq(mem, 1, (CHOOSE k \in Nuls : \A j \in Nuls : k <= j))}

(* The bytes strlen() counts: up to the first NUL in the memory of the      *)
(* buffer, or, without one, beyond it.                                      *)
CString(mem) ==
  LET Nuls == {k \in 1 .. Len(mem) : mem[k] = 0}
  IN IF Nuls = {}
     THEN {mem \o g : g \in Garbage}
     ELSE {SubSeq(mem, 1, (CHOOSE k \in Nuls : \A j \in Nuls : k <= j) - 1)}

(* len = strlen(buffer).                                                    *)
Measure ==
  /\ wpc = "strlen"
  /\ value' \in CString(buf)
  /\ wpc' = "produce"
  /\ UNCHANGED <<failed, samples, cur, buf, libVars, writer>>

(* Variant: a full queue is an error like any other.                        *)
ProduceOnce ==
  /\ wpc = "produce"
  /\ \/ Accept /\ wpc' = "poll"
     \/ QueueFull /\ wpc' = "poll" /\ UNCHANGED libVars
  /\ UNCHANGED <<failed, samples, cur, buf, value, writer>>

(* Variant: the retry loop runs its body before it tests the error.         *)
ProduceThenRetry ==
  /\ wpc = "produce"
  /\ \/ Accept /\ wpc' = "full"
     \/ QueueFull /\ wpc' = "full" /\ UNCHANGED libVars
  /\ UNCHANGED <<failed, samples, cur, buf, value, writer>>

(* The first producev: accepted, queue full, or rejected (and dropped).     *)
Produce ==
  /\ wpc = "produce"
  /\ \/ Accept /\ wpc' = "poll" /\ UNCHANGED failed
     \/ QueueFull /\ wpc' = "full" /\ UNCHANGED <<failed, libVars>>
     \/ "produce" \in Faults /\ wpc' = "poll" /\ failed' = failed \cup {cur} /\ UNCHANGED libVars
  /\ UNCHANGED <<samples, cur, buf, value, writer>>

(* Variant: the retry loop does not poll.                                   *)
RetryWithoutPoll ==
  /\ wpc = "full"
  /\ wpc' = "retry"
  /\ UNCHANGED <<failed, samples, cur, buf, value, libVars, writer>>

(* The queue is full: rd_kafka_poll for 10 ms ...                           *)
PollWhenFull ==
  /\ wpc = "full"
  /\ ServeReports
  /\ wpc' = "retry"
  /\ UNCHANGED <<failed, samples, cur, buf, value, produced, writer>>

(* Variant: err is not updated by the second producev.                      *)
RetryForgetsResult ==
  /\ wpc = "retry"
  /\ \/ Accept /\ wpc' = "full"
     \/ QueueFull /\ wpc' = "full" /\ UNCHANGED libVars
  /\ UNCHANGED <<failed, samples, cur, buf, value, writer>>

(* ... and producev again, until the error is another one than QUEUE_FULL.  *)
Retry ==
  /\ wpc = "retry"
  /\ \/ Accept /\ wpc' = "poll" /\ UNCHANGED failed
     \/ QueueFull /\ wpc' = "full" /\ UNCHANGED <<failed, libVars>>
     \/ "produce" \in Faults /\ wpc' = "poll" /\ failed' = failed \cup {cur} /\ UNCHANGED libVars
  /\ UNCHANGED <<samples, cur, buf, value, writer>>

(* rd_kafka_poll(0) after every sample that reached producev.               *)
PollAfterProduce ==
  /\ wpc = "poll"
  /\ ServeReports
  /\ NextSample
  /\ UNCHANGED <<failed, samples, buf, value, produced, writer>>

WriteSteps == GetPayload \/ GetPayloadFails \/ Measure \/ Produce
                \/ PollWhenFull \/ Retry \/ PollAfterProduce

-----------------------------------------------------------------------------
(* RTI_RS_KafkaConnection_delete_stream_writer.                             *)

DeleteBegin ==
  /\ wpc = "idle" /\ writer = "open"
  /\ writer' = "flushing"
  /\ UNCHANGED <<failed, samples, cur, wpc, buf, value, libVars>>

(* rd_kafka_flush serves reports while messages are outstanding.            *)
Flush ==
  /\ writer = "flushing"
  /\ settled # {}
  /\ ServeReports
  /\ UNCHANGED <<failed, samples, cur, wpc, buf, value, produced, writer>>

(* Variant: flush returns at once.                                          *)
FlushReturnsAtOnce ==
  /\ writer = "flushing"
  /\ writer' = "flushed"
  /\ UNCHANGED <<failed, samples, cur, wpc, buf, value, libVars>>

FlushDone ==
  /\ writer = "flushing" /\ outq = {}
  /\ writer' = "flushed"
  /\ UNCHANGED <<failed, samples, cur, wpc, buf, value, libVars>>

(* The 10 seconds are over: the rest is only counted and logged.            *)
FlushTimeout ==
  /\ writer = "flushing" /\ outq # {}
  /\ writer' = "timed_out"
  /\ UNCHANGED <<failed, samples, cur, wpc, buf, value, libVars>>

(* cleanup_stream_writer: rd_kafka_destroy drops what is still queued.      *)
Cleanup ==
  /\ \/ writer = "flushed" /\ writer' = "deleted"
     \/ writer = "timed_out" /\ writer' = "deleted_early"
  /\ outq' = {} /\ settled' = {}
  /\ UNCHANGED <<failed, samples, cur, wpc, buf, value, produced, reports>>

DeleteSteps == Flush \/ FlushDone \/ FlushTimeout \/ Cleanup

Next == Settle \/ Write \/ WriteSteps \/ DeleteBegin \/ DeleteSteps

Spec == Init /\ [][Next]_vars

(* The session thread runs, a deletion goes on, and librdkafka settles      *)
(* accepted messages (message.timeout.ms fails one at the latest).          *)
FairSpec ==
  Spec /\ WF_vars(WriteSteps) /\ WF_vars(DeleteSteps) /\ WF_vars(Settle)

-----------------------------------------------------------------------------
IsProduced(id) == \E k \in 1 .. Len(produced) : produced[k].id = id

(* Every sample write() has dealt with that carries bytes was accepted by   *)
(* librdkafka, or a call failed for it: a full queue delays and drops       *)
(* nothing.                                                                 *)
FullQueueDropsNothing ==
  \A id \in 1 .. cur - 1 : samples[id] # <<>> => IsProduced(id) \/ id \in failed

(* An accepted message is in librdkafka's queue and unreported, or it has   *)
(* been reported exactly once; only a flush that timed out may drop one.    *)
ReportedOnce ==
  \A id \in Ids :
    /\ reports[id] <= 1
    /\ reports[id] = 1 => IsProduced(id)
    /\ IsProduced(id) /\ writer # "deleted_early" =>
         (reports[id] = 0 <=> \E k \in outq : produced[k].id = id)

(* A payload that is one C string (its only NUL is its last octet) is       *)
(* published without its NUL and without a byte of an earlier sample,       *)
(* although buffer_seq is reused.                                           *)
IsCString(p) == p # <<>> /\ {k \in 1 .. Len(p) : p[k] = 0} = {Len(p)}

TextPublished ==
  \A k \in 1 .. Len(produced) :
    LET p == samples[produced[k].id]
    IN IsCString(p) => produced[k].value = SubSeq(p, 1, Len(p) - 1)

(* write() returns: a full queue cannot hold it forever.                    *)
WriteReturns == (wpc # "idle") ~> (wpc = "idle")

(* Between two calls of write() nobody serves delivery reports.  Once the   *)
(* writer is being deleted, every message librdkafka accepted is reported   *)
(* after all, unless the flush times out and the rest is dropped.           *)
DeletionSettles ==
  \A id \in Ids :
    (writer = "flushing" /\ IsProduced(id)) ~> (reports[id] = 1 \/ writer = "deleted_early")

(* The output a route sees: which samples became messages, which of them    *)
(* are reported, and whether it is still open.                              *)
AcceptedIds == [k \in 1 .. Len(produced) |-> produced[k].id]
ReportedIds == {id \in Ids : reports[id] = 1}
OutputState ==
  CASE writer = "deleted" -> "complete"
    [] writer = "deleted_early" -> "abandoned"
    [] OTHER -> "open"

Output == INSTANCE ReportedOutput WITH
  accepted <- AcceptedIds, reported <- ReportedIds, state <- OutputState

(* The writer implements ReportedOutput.  Samples become messages in the    *)
(* order of the batches and none becomes two, however often the full queue  *)
(* makes producev be retried; each is reported once, in whatever order the  *)
(* brokers answer; a writer that was flushed in time is destroyed with every*)
(* report served.                                                           *)
ImplementsOutput == Output!Spec

(* The adapter's manual: an output publishes the payload of its samples.    *)
PayloadPublished ==
  \A k \in 1 .. Len(produced) : produced[k].value = samples[produced[k].id]
=============================================================================
