---------------------- MODULE KafkaStreamWriter_proof ----------------------
(***************************************************************************)
(* Proofs about the stream writer, for every set of payloads, every batch,  *)
(* every size of librdkafka's queue and every set of failing calls.         *)
(*                                                                          *)
(* The argument: what librdkafka accepted has increasing identities, none   *)
(* beyond the sample write() works on, and a message is reported exactly    *)
(* when it has left the queue.  A poll may report any messages of the queue;*)
(* since their identities differ, it raises the count of each by one.       *)
(***************************************************************************)
EXTENDS KafkaStreamWriter, FiniteSetTheorems, SequenceTheorems,
        WellFoundedInduction, TLAPS

(* write() is in its loop exactly while samples are left, and a writer is   *)
(* deleted between two calls only.                                          *)
ControlInv ==
  /\ wpc = "idle" => cur = Len(samples) + 1
  /\ wpc # "idle" => cur <= Len(samples) /\ writer = "open"

(* The last sample producev is done with.                                   *)
Attempted == IF wpc = "poll" THEN cur ELSE cur - 1

(* Messages are accepted in the order of the samples, each once, and no     *)
(* sample with bytes is passed over without a failure.                      *)
ProducedInv ==
  /\ \A k \in 1 .. Len(produced) : produced[k].id <= Attempted
  /\ \A j, k \in 1 .. Len(produced) : j < k => produced[j].id < produced[k].id
  /\ \A id \in 1 .. Attempted : samples[id] # <<>> => IsProduced(id) \/ id \in failed

(* A message is reported exactly when it has left the queue.                *)
IsReported(id) == \E k \in (1 .. Len(produced)) \ outq : produced[k].id = id

QueueInv == \A id \in Ids : reports[id] = IF IsReported(id) THEN 1 ELSE 0

(* After a flush in time the queue is empty; what rd_kafka_destroy drops    *)
(* stays unreported.                                                        *)
ReportInv ==
  /\ writer # "deleted_early" => QueueInv
  /\ writer = "deleted_early" =>
       \A id \in Ids : reports[id] \in {0, 1} /\ (reports[id] = 1 => IsProduced(id))
  /\ writer \in {"flushed", "deleted", "deleted_early"} => outq = {}

(* v is the text of p, if p is one C string.                                *)
IsTextOf(v, p) == IsCString(p) => v = SubSeq(p, 1, Len(p) - 1)

(* The memory of the buffer begins with the payload of the current sample,  *)
(* whatever earlier samples left behind it.                                 *)
PayloadInFront ==
  /\ Len(samples[cur]) <= Len(buf)
  /\ \A k \in 1 .. Len(samples[cur]) : buf[k] = samples[cur][k]

ValueInv ==
  /\ wpc = "strlen" => PayloadInFront
  /\ wpc \in {"produce", "full", "retry"} => IsTextOf(value, samples[cur])
  /\ TextPublished

IInv == TypeOK /\ ControlInv /\ ProducedInv /\ ReportInv /\ ValueInv

-----------------------------------------------------------------------------
Accepts == [id : Ids, value : Seq(Octets)]

(* The queue holds finitely many messages.                                  *)
LEMMA QueueIsFinite ==
  ASSUME TypeOK
  PROVE  IsFiniteSet(outq) /\ Cardinality(outq) \in Nat
<1>1. IsFiniteSet(1 .. Len(produced)) /\ outq \subseteq 1 .. Len(produced)
  BY FS_Interval DEF TypeOK
<1>2. IsFiniteSet(outq)
  BY <1>1, FS_Subset
<1>3. QED
  BY <1>2, FS_CardinalityType

(* What producev adds when it accepts the current sample.                   *)
LEMMA Accepted ==
  ASSUME TypeOK, cur \in Ids, Accept
  PROVE  /\ produced' \in Seq(Accepts) /\ Len(produced') = Len(produced) + 1
         /\ \A k \in 1 .. Len(produced) : produced'[k] = produced[k]
         /\ produced'[Len(produced) + 1] = [id |-> cur, value |-> value]
         /\ outq' \subseteq 1 .. Len(produced') /\ settled' \subseteq outq'
         /\ Cardinality(outq') <= QueueMax
<1>1. produced \in Seq(Accepts) /\ [id |-> cur, value |-> value] \in Accepts
  BY DEF TypeOK, Accepts
<1>2. /\ produced' \in Seq(Accepts) /\ Len(produced') = Len(produced) + 1
      /\ \A k \in 1 .. Len(produced) : produced'[k] = produced[k]
      /\ produced'[Len(produced) + 1] = [id |-> cur, value |-> value]
  BY <1>1 DEF Accept
<1>3. outq' \subseteq 1 .. Len(produced') /\ settled' \subseteq outq'
  <2>1. Len(produced) \in Nat /\ outq \subseteq 1 .. Len(produced) /\ settled \subseteq outq
    BY DEF TypeOK
  <2>2. outq' = outq \cup {Len(produced) + 1} /\ settled' = settled
    BY DEF Accept
  <2>3. 1 .. Len(produced') = 1 .. Len(produced) + 1
    BY <1>2
  <2>4. \A k \in outq' : k \in 1 .. Len(produced) + 1
    BY <2>1, <2>2
  <2>5. QED
    BY <2>1, <2>2, <2>3, <2>4
<1>4. Cardinality(outq') <= QueueMax
  <2>1. Len(produced) + 1 \notin outq
    BY <1>1 DEF TypeOK
  <2>2. Cardinality(outq \cup {Len(produced) + 1}) = Cardinality(outq) + 1
    BY <2>1, QueueIsFinite, FS_AddElement
  <2>3. QED
    BY <2>2, QueueIsFinite, BoundsAssumption DEF Accept
<1>5. QED
  BY <1>2, <1>3, <1>4

(* A refilled buffer begins with the payload.                               *)
LEMMA Refilled ==
  ASSUME NEW mem \in Seq(Octets), NEW p \in Seq(Octets)
  PROVE  /\ Refill(mem, p) \in Seq(Octets)
         /\ Len(p) <= Len(Refill(mem, p))
         /\ \A k \in 1 .. Len(p) : Refill(mem, p)[k] = p[k]
<1>1. CASE Len(p) > Len(mem)
  BY <1>1 DEF Refill
<1>2. CASE ~(Len(p) > Len(mem))
  <2> DEFINE rest == SubSeq(mem, Len(p) + 1, Len(mem))
  <2>1. \A i \in Len(p) + 1 .. Len(mem) : mem[i] \in Octets
    OBVIOUS
  <2>2. rest \in Seq(Octets)
    BY <2>1, SubSeqProperties
  <2> HIDE DEF rest
  <2>3. p \o rest \in Seq(Octets) /\ Len(p \o rest) = Len(p) + Len(rest) /\ Len(rest) \in Nat
        /\ \A k \in 1 .. Len(p) : (p \o rest)[k] = p[k]
    BY <2>2
  <2>4. Refill(mem, p) = p \o rest
    BY <1>2 DEF Refill, rest
  <2>5. QED
    BY <2>3, <2>4
<1>3. QED
  BY <1>1, <1>2

(* strlen() finds the NUL of a text, whatever lies behind it.               *)
LEMMA StrlenOfText ==
  ASSUME NEW mem \in Seq(Octets), NEW p \in Seq(Octets), Len(p) <= Len(mem),
         \A k \in 1 .. Len(p) : mem[k] = p[k],
         NEW v \in CString(mem)
  PROVE  v \in Seq(Octets) /\ IsTextOf(v, p)
<1> DEFINE Nuls == {k \in 1 .. Len(mem) : mem[k] = 0}
<1>1. CASE Nuls = {}
  <2>1. PICK g \in Garbage : v = mem \o g
    BY <1>1 DEF CString
  <2>2. g \in Seq(Octets)
    BY GarbageAssumption DEF Octets
  <2>3. ~IsCString(p)
    <3>1. SUFFICES ASSUME IsCString(p) PROVE FALSE
      OBVIOUS
    <3>2. Len(p) \in {k \in 1 .. Len(p) : p[k] = 0}
      BY <3>1 DEF IsCString
    <3>3. Len(p) \in Nuls
      BY <3>2
    <3>4. QED
      BY <1>1, <3>3
  <2>4. QED
    BY <2>1, <2>2, <2>3, ConcatProperties DEF IsTextOf
<1>2. CASE Nuls # {}
  <2> DEFINE first == CHOOSE k \in Nuls : \A j \in Nuls : k <= j
  <2>1. \E k \in Nuls : \A j \in Nuls : k <= j
    <3>1. Nuls \subseteq Nat
      OBVIOUS
    <3> HIDE DEF Nuls
    <3>2. PICK x \in Nuls : \A y \in Nuls : ~(<<y, x>> \in OpToRel(<, Nat))
      BY <1>2, <3>1, NatLessThanWellFounded, WFMin, Zenon
    <3>3. \A y \in Nuls : ~(y < x)
      BY <3>1, <3>2 DEF OpToRel
    <3>4. QED
      BY <3>1, <3>3
  <2>2. first \in Nuls /\ \A j \in Nuls : first <= j
    BY <2>1
  <2>3. v = SubSeq(mem, 1, first - 1)
    BY <1>2 DEF CString
  <2> HIDE DEF first
  <2>4. first \in 1 .. Len(mem) /\ \A i \in 1 .. first - 1 : mem[i] \in Octets
    BY <2>2
  <2>5. v \in Seq(Octets)
    BY <2>3, <2>4, SubSeqProperties
  <2>6. ASSUME IsCString(p) PROVE v = SubSeq(p, 1, Len(p) - 1)
    <3>1. Len(p) \in 1 .. Len(p) /\ p[Len(p)] = 0 /\ \A k \in 1 .. Len(p) - 1 : p[k] # 0
      <4>1. {k \in 1 .. Len(p) : p[k] = 0} = {Len(p)}
        BY <2>6 DEF IsCString
      <4>2. Len(p) \in {k \in 1 .. Len(p) : p[k] = 0}
        BY <4>1
      <4>3. QED
        BY <4>1, <4>2
    <3>2. first = Len(p)
      BY <2>2, <2>4, <3>1
    <3>3. \A k \in 1 .. Len(p) - 1 : mem[k] = p[k]
      OBVIOUS
    <3>4. SubSeq(mem, 1, Len(p) - 1) = SubSeq(p, 1, Len(p) - 1)
      BY <3>1, <3>3
    <3>5. QED
      BY <2>3, <3>2, <3>4
  <2>7. QED
    BY <2>5, <2>6 DEF IsTextOf
<1>3. QED
  BY <1>1, <1>2

-----------------------------------------------------------------------------
(* A new writer satisfies the invariant.                                    *)
LEMMA InitIInv == Init => IInv
<1> SUFFICES ASSUME Init PROVE IInv
  OBVIOUS
<1> USE BoundsAssumption
<1>1. TypeOK
  BY FS_EmptySet DEF Init, TypeOK, Ids
<1>2. ControlInv /\ ProducedInv
  BY DEF Init, ControlInv, ProducedInv, Attempted
<1>3. ReportInv
  BY DEF Init, ReportInv, QueueInv, IsReported
<1>4. ValueInv
  BY DEF Init, ValueInv, TextPublished
<1>5. QED
  BY <1>1, <1>2, <1>3, <1>4 DEF IInv

(* The messages of the queue have different identities, so that a poll      *)
(* reports a sample at most once.                                           *)
LEMMA ReportedByPoll ==
  ASSUME TypeOK, ProducedInv, NEW id \in Ids
  PROVE  Cardinality({k \in settled : produced[k].id = id}) =
           IF \E k \in settled : produced[k].id = id THEN 1 ELSE 0
<1> DEFINE those == {k \in settled : produced[k].id = id}
<1>0. settled \subseteq 1 .. Len(produced) /\ Len(produced) \in Nat
  BY DEF TypeOK
<1>1. CASE \E k \in settled : produced[k].id = id
  <2>1. PICK k \in settled : produced[k].id = id
    BY <1>1
  <2>2. ASSUME NEW j \in settled, produced[j].id = id PROVE j = k
    <3>1. j \in 1 .. Len(produced) /\ k \in 1 .. Len(produced) /\ ~(id < id)
      BY <1>0, BoundsAssumption DEF Ids
    <3>2. ~(j < k) /\ ~(k < j)
      BY <2>1, <2>2, <3>1 DEF ProducedInv
    <3>3. QED
      BY <3>1, <3>2
  <2>3. those = {k}
    BY <2>1, <2>2
  <2>4. QED
    BY <1>1, <2>3, FS_Singleton
<1>2. CASE ~ \E k \in settled : produced[k].id = id
  <2>1. those = {}
    BY <1>2
  <2>2. QED
    BY <1>2, <2>1, FS_EmptySet
<1>3. QED
  BY <1>1, <1>2

(* In its loop write() works on a sample of the batch.                      *)
LEMMA CurrentSample ==
  ASSUME TypeOK, ControlInv, wpc # "idle"
  PROVE  /\ cur \in Ids /\ cur \in 1 .. Len(samples) /\ samples[cur] \in Seq(Octets)
         /\ writer = "open"
<1>1. cur \in 1 .. Len(samples) /\ Len(samples) <= MaxSamples /\ Len(samples) \in Nat /\ writer = "open"
  BY DEF TypeOK, ControlInv
<1>2. samples[cur] \in Payloads
  BY <1>1 DEF TypeOK
<1>3. QED
  BY <1>1, <1>2, PayloadsAssumption, BoundsAssumption DEF Ids

(* What NextSample does to the loop.                                        *)
LEMMA LoopGoesOn ==
  ASSUME TypeOK, ControlInv, wpc # "idle", NextSample, UNCHANGED samples, UNCHANGED writer
  PROVE  /\ cur' \in 1 .. Len(samples') + 1
         /\ wpc' \in {"get", "idle"}
         /\ ControlInv'
<1>1. cur \in 1 .. Len(samples) /\ Len(samples) \in Nat /\ writer = "open"
  BY CurrentSample DEF TypeOK
<1>2. QED
  BY <1>1 DEF NextSample, ControlInv

(* The samples of earlier batches stay where they are.                      *)
LEMMA BatchAppended ==
  ASSUME TypeOK, Write
  PROVE  /\ samples' \in Seq(Payloads)
         /\ Len(samples') \in Len(samples) + 1 .. MaxSamples
         /\ \A k \in 1 .. Len(samples) : samples'[k] = samples[k]
<1>n. PICK n \in 1 .. MaxBatch : \E batch \in [1 .. n -> Payloads] :
        Len(samples) + n <= MaxSamples /\ samples' = samples \o batch
  BY DEF Write
<1>1. PICK batch \in [1 .. n -> Payloads] :
        Len(samples) + n <= MaxSamples /\ samples' = samples \o batch
  BY <1>n
<1>2. n \in Nat \ {0} /\ samples \in Seq(Payloads) /\ Len(samples) \in Nat /\ MaxSamples \in Nat
  BY BoundsAssumption DEF TypeOK
<1>3. batch \in Seq(Payloads) /\ Len(batch) = n
  BY <1>2
<1>4. QED
  BY <1>1, <1>2, <1>3

(* Every step keeps the types; outside its loop write() does nothing.       *)
LEMMA StepTypeOK ==
  ASSUME TypeOK, ControlInv, ProducedInv, ReportInv, [Next]_vars
  PROVE  TypeOK'
<1> USE BoundsAssumption
<1>0. Len(samples) \in Nat /\ produced \in Seq(Accepts)
  BY DEF TypeOK, Accepts
<1>1. CASE Settle
  BY <1>1 DEF Settle, TypeOK
<1>2. CASE Write
  <2>1. /\ samples' \in Seq(Payloads) /\ Len(samples') \in Len(samples) + 1 .. MaxSamples
    BY <1>2, BatchAppended
  <2>2. cur' \in 1 .. Len(samples') + 1
    BY <1>0, <1>2, <2>1 DEF Write, TypeOK
  <2>3. QED
    BY <1>0, <1>2, <2>1, <2>2 DEF Write, TypeOK, libVars
<1>3. CASE GetPayload
  <2>1. samples[cur] \in Seq(Octets) /\ buf \in Seq(Octets) /\ cur \in 1 .. Len(samples)
    BY <1>3, CurrentSample DEF GetPayload, TypeOK
  <2>2. buf' \in Seq(Octets)
    BY <1>3, <2>1, Refilled DEF GetPayload
  <2>3. cur' \in 1 .. Len(samples') + 1 /\ wpc' \in {"get", "idle", "strlen"}
    BY <1>0, <1>3, <2>1, LoopGoesOn DEF GetPayload, libVars
  <2>4. QED
    BY <1>3, <2>2, <2>3 DEF GetPayload, TypeOK, libVars
<1>4. CASE GetPayloadFails
  <2>1. cur \in Ids
    BY <1>4, CurrentSample DEF GetPayloadFails
  <2>2. cur' \in 1 .. Len(samples') + 1 /\ wpc' \in {"get", "idle"}
    BY <1>4, LoopGoesOn DEF GetPayloadFails
  <2>3. QED
    BY <1>4, <2>1, <2>2 DEF GetPayloadFails, TypeOK, libVars
<1>5. CASE Measure
  <2>1. buf \in Seq(Octets) /\ value' \in CString(buf)
    BY <1>5 DEF Measure, TypeOK
  <2>2. <<>> \in Seq(Octets) /\ Len(<<>>) = 0
    OBVIOUS
  <2>3. value' \in Seq(Octets)
    BY <2>1, <2>2, StrlenOfText, 0 <= Len(buf)
  <2>4. QED
    BY <1>5, <2>3 DEF Measure, TypeOK, libVars
<1>6. CASE Produce
  <2>1. cur \in Ids
    BY <1>6, CurrentSample DEF Produce
  <2>2. CASE Accept
    BY <1>6, <2>1, <2>2, Accepted DEF Produce, Accept, TypeOK, Accepts
  <2>3. CASE UNCHANGED libVars
    BY <1>6, <2>1, <2>3 DEF Produce, TypeOK, libVars
  <2>4. QED
    BY <1>6, <2>2, <2>3 DEF Produce
<1>7. ASSUME ServeReports PROVE
        /\ outq' \subseteq 1 .. Len(produced) /\ settled' \subseteq outq'
        /\ Cardinality(outq') <= QueueMax
        /\ reports' \in [Ids -> Nat]
  <2>1. outq' = outq \ settled /\ settled' = {}
    BY <1>7 DEF ServeReports
  <2>2. Cardinality(outq \ settled) <= Cardinality(outq)
        /\ Cardinality(outq \ settled) \in Nat
    <3>1. outq \ settled \subseteq outq
      OBVIOUS
    <3>2. QED
      BY <3>1, QueueIsFinite, FS_Subset, FS_CardinalityType
  <2>3. Cardinality(outq') <= QueueMax
    BY <2>1, <2>2, QueueIsFinite, SMTT(30) DEF TypeOK
  <2>4. \A id \in Ids : Cardinality({k \in settled : produced[k].id = id}) \in {0, 1}
    BY ReportedByPoll
  <2>5. \A id \in Ids : reports[id] \in Nat
    BY DEF TypeOK
  <2>6. reports' \in [Ids -> Nat]
    BY <1>7, <2>4, <2>5 DEF ServeReports, dr_msg_cb
  <2>7. QED
    BY <2>1, <2>3, <2>6 DEF TypeOK
<1>8. CASE PollWhenFull
  <2>1. writer = "open"
    BY <1>8, CurrentSample DEF PollWhenFull
  <2>2. QED
    BY <1>7, <1>8, <2>1 DEF PollWhenFull, TypeOK
<1>9. CASE Retry
  <2>1. cur \in Ids
    BY <1>9, CurrentSample DEF Retry
  <2>2. CASE Accept
    BY <1>9, <2>1, <2>2, Accepted DEF Retry, Accept, TypeOK, Accepts
  <2>3. CASE UNCHANGED libVars
    BY <1>9, <2>1, <2>3 DEF Retry, TypeOK, libVars
  <2>4. QED
    BY <1>9, <2>2, <2>3 DEF Retry
<1>10. CASE PollAfterProduce
  <2>1. writer = "open"
    BY <1>10, CurrentSample DEF PollAfterProduce
  <2>2. cur' \in 1 .. Len(samples') + 1 /\ wpc' \in {"get", "idle"}
    BY <1>10, LoopGoesOn DEF PollAfterProduce
  <2>3. QED
    BY <1>7, <1>10, <2>1, <2>2 DEF PollAfterProduce, TypeOK
<1>11. CASE DeleteBegin
  BY <1>11 DEF DeleteBegin, TypeOK, libVars
<1>12. CASE Flush
  BY <1>7, <1>12 DEF Flush, TypeOK
<1>13. CASE FlushDone \/ FlushTimeout
  BY <1>13 DEF FlushDone, FlushTimeout, TypeOK, libVars
<1>14. CASE Cleanup
  BY <1>14, FS_EmptySet DEF Cleanup, TypeOK
<1>15. CASE UNCHANGED vars
  BY <1>15 DEF vars, TypeOK
<1>16. QED
  BY <1>1, <1>2, <1>3, <1>4, <1>5, <1>6, <1>8, <1>9, <1>10, <1>11, <1>12, <1>13,
     <1>14, <1>15
  DEF Next, WriteSteps, DeleteSteps

(* write() goes through its samples and a deletion does not interrupt it.   *)
LEMMA StepControl ==
  ASSUME TypeOK, ControlInv, [Next]_vars
  PROVE  ControlInv'
<1>1. CASE Settle \/ Measure \/ Produce \/ PollWhenFull \/ Retry
  BY <1>1 DEF Settle, Measure, Produce, PollWhenFull, Retry, ControlInv
<1>2. CASE Write
  <2>1. Len(samples') \in Len(samples) + 1 .. MaxSamples /\ Len(samples) \in Nat
    BY <1>2, BatchAppended DEF TypeOK
  <2>2. QED
    BY <1>2, <2>1, BoundsAssumption DEF Write, ControlInv
<1>3. CASE GetPayload
  BY <1>3, LoopGoesOn DEF GetPayload, ControlInv
<1>4. CASE GetPayloadFails
  BY <1>4, LoopGoesOn DEF GetPayloadFails
<1>5. CASE PollAfterProduce
  BY <1>5, LoopGoesOn DEF PollAfterProduce
<1>6. CASE DeleteBegin \/ DeleteSteps
  BY <1>6 DEF DeleteBegin, DeleteSteps, Flush, FlushDone, FlushTimeout, Cleanup, ControlInv
<1>7. CASE UNCHANGED vars
  BY <1>7 DEF vars, ControlInv
<1>8. QED
  BY <1>1, <1>2, <1>3, <1>4, <1>5, <1>6, <1>7 DEF Next, WriteSteps

(* The identities of accepted messages are numbers of samples.              *)
LEMMA ProducedIds ==
  ASSUME TypeOK
  PROVE  \A k \in 1 .. Len(produced) : produced[k].id \in Ids /\ produced[k].id \in Int
<1>1. produced \in Seq(Accepts)
  BY DEF TypeOK, Accepts
<1>2. \A k \in 1 .. Len(produced) : produced[k] \in Accepts
  BY <1>1
<1>3. \A a \in Accepts : a.id \in Ids /\ a.id \in Int
  BY BoundsAssumption DEF Accepts, Ids
<1>4. QED
  BY <1>2, <1>3

(* A step that accepts nothing, takes no sample back and goes from a sample *)
(* to the next only after producev or a failure keeps ProducedInv.          *)
LEMMA NothingAccepted ==
  ASSUME TypeOK, ProducedInv, UNCHANGED produced,
         failed \subseteq failed',
         Attempted' \in Int, Attempted <= Attempted',
         \A id \in 1 .. Attempted : samples'[id] = samples[id],
         \A id \in 1 .. Attempted' : id > Attempted => samples'[id] = <<>> \/ id \in failed'
  PROVE  ProducedInv'
<1>1. Attempted \in Int /\ Len(produced) \in Nat
  BY DEF Attempted, TypeOK
<1>2. \A k \in 1 .. Len(produced) : produced[k].id \in Int
  BY ProducedIds
<1>3. \A k \in 1 .. Len(produced') : produced'[k].id <= Attempted'
  <2>1. \A k \in 1 .. Len(produced) : produced[k].id <= Attempted
    BY DEF ProducedInv
  <2> HIDE DEF Attempted
  <2>2. QED
    BY <1>1, <1>2, <2>1
<1>4. \A j, k \in 1 .. Len(produced') : j < k => produced'[j].id < produced'[k].id
  BY DEF ProducedInv
<1>5. ASSUME NEW id \in 1 .. Attempted', samples'[id] # <<>>
      PROVE  IsProduced(id)' \/ id \in failed'
  <2>1. CASE id > Attempted
    BY <1>5, <2>1
  <2>2. CASE id \in 1 .. Attempted
    BY <1>5, <2>2 DEF ProducedInv, IsProduced
  <2>3. QED
    BY <1>1, <2>1, <2>2
<1>6. QED
  BY <1>3, <1>4, <1>5 DEF ProducedInv

(* producev accepts the current sample.                                     *)
LEMMA OneAccepted ==
  ASSUME TypeOK, ControlInv, ProducedInv, wpc \in {"produce", "retry"}, Accept,
         wpc' = "poll", UNCHANGED <<cur, samples, failed>>
  PROVE  ProducedInv'
<1>1. cur \in Ids /\ cur \in Nat \ {0}
  BY CurrentSample DEF Ids
<1>2. Attempted = cur - 1 /\ Attempted' = cur
  BY DEF Attempted
<1>3. /\ Len(produced') = Len(produced) + 1 /\ Len(produced) \in Nat
      /\ \A k \in 1 .. Len(produced) : produced'[k] = produced[k]
      /\ produced'[Len(produced) + 1].id = cur
  BY <1>1, Accepted, SMTT(30) DEF TypeOK
<1>4. \A k \in 1 .. Len(produced) : produced[k].id \in Int /\ produced[k].id <= cur - 1
  BY <1>2, ProducedIds DEF ProducedInv
<1>5. \A k \in 1 .. Len(produced') : produced'[k].id <= Attempted'
  BY <1>1, <1>2, <1>3, <1>4
<1>6. \A j, k \in 1 .. Len(produced') : j < k => produced'[j].id < produced'[k].id
  <2> TAKE j, k \in 1 .. Len(produced')
  <2> HAVE j < k
  <2>1. j \in 1 .. Len(produced)
    BY <1>3
  <2>2. CASE k = Len(produced) + 1
    BY <1>1, <1>3, <1>4, <2>1, <2>2
  <2>3. CASE k \in 1 .. Len(produced)
    BY <1>3, <2>1, <2>3 DEF ProducedInv
  <2>4. QED
    BY <1>3, <2>2, <2>3
<1>7. ASSUME NEW id \in 1 .. Attempted', samples'[id] # <<>>
      PROVE  IsProduced(id)' \/ id \in failed'
  <2>1. CASE id = cur
    BY <1>3, <2>1 DEF IsProduced
  <2>2. CASE id \in 1 .. Attempted
    <3>1. IsProduced(id) \/ id \in failed
      BY <1>7, <2>2 DEF ProducedInv
    <3>2. QED
      BY <1>3, <3>1 DEF IsProduced
  <2>3. QED
    BY <1>1, <1>2, <2>1, <2>2
<1>8. QED
  BY <1>5, <1>6, <1>7 DEF ProducedInv

(* Messages are accepted in order, once, and none is dropped in silence.    *)
LEMMA StepProduced ==
  ASSUME TypeOK, ControlInv, ProducedInv, [Next]_vars
  PROVE  ProducedInv'
<1>0. cur \in Nat /\ cur - 1 \in Int /\ cur - 1 <= cur /\ Len(samples) \in Nat /\ cur <= Len(samples) + 1
  BY DEF TypeOK
<1>1. ASSUME UNCHANGED <<cur, samples, produced, failed>>,
             wpc' = wpc \/ (wpc # "poll" /\ wpc' # "poll")
      PROVE  ProducedInv'
  BY <1>1 DEF ProducedInv, Attempted, IsProduced
<1>2. CASE Settle \/ Measure \/ PollWhenFull \/ DeleteBegin \/ DeleteSteps \/ UNCHANGED vars
  BY <1>1, <1>2 DEF Settle, Measure, PollWhenFull, DeleteBegin, DeleteSteps, Flush,
     FlushDone, FlushTimeout, Cleanup, vars, libVars
<1>3. CASE Write
  <2>1. Attempted = cur - 1 /\ Attempted' = cur - 1 /\ cur - 1 <= Len(samples)
    BY <1>0, <1>3 DEF Write, Attempted
  <2>2. \A k \in 1 .. Len(samples) : samples'[k] = samples[k]
    BY <1>3, BatchAppended
  <2>3. UNCHANGED <<produced, failed>>
    BY <1>3 DEF Write, libVars
  <2>4. /\ Attempted' \in Int /\ Attempted <= Attempted'
        /\ \A id \in 1 .. Attempted : samples'[id] = samples[id]
        /\ \A id \in 1 .. Attempted' : ~(id > Attempted)
    BY <1>0, <2>1, <2>2
  <2>5. QED
    BY <2>3, <2>4, NothingAccepted
<1>4. CASE GetPayload
  <2>1. CASE buf' = <<>>
    <3>1. cur \in 1 .. Len(samples) /\ samples[cur] \in Seq(Octets) /\ buf \in Seq(Octets)
      BY <1>4, CurrentSample DEF GetPayload, TypeOK
    <3>2. samples[cur] = <<>>
      <4>1. Len(samples[cur]) <= Len(buf')
        BY <1>4, <3>1, Refilled DEF GetPayload
      <4>2. QED
        BY <2>1, <3>1, <4>1
    <3>3. cur' = cur + 1 /\ wpc' # "poll" /\ UNCHANGED <<samples, produced, failed>>
      BY <1>4, <2>1 DEF GetPayload, NextSample, libVars
    <3>4. Attempted = cur - 1 /\ Attempted' = cur
      BY <1>0, <1>4, <3>3 DEF GetPayload, Attempted
    <3>5. \A id \in 1 .. Attempted' : id > Attempted => samples'[id] = <<>>
      BY <1>0, <3>2, <3>3, <3>4
    <3>6. QED
      BY <1>0, <3>3, <3>4, <3>5, NothingAccepted
  <2>2. CASE buf' # <<>>
    BY <1>1, <1>4, <2>2 DEF GetPayload, libVars
  <2>3. QED
    BY <2>1, <2>2
<1>5. CASE GetPayloadFails
  <2>1. cur' = cur + 1 /\ wpc' # "poll" /\ UNCHANGED <<samples, produced>> /\ failed' = failed \cup {cur}
    BY <1>5 DEF GetPayloadFails, NextSample, libVars
  <2>2. Attempted = cur - 1 /\ Attempted' = cur
    BY <1>0, <1>5, <2>1 DEF GetPayloadFails, Attempted
  <2>3. \A id \in 1 .. Attempted' : id > Attempted => id \in failed'
    BY <1>0, <2>1, <2>2
  <2>4. QED
    BY <1>0, <2>1, <2>2, <2>3, NothingAccepted
<1>6. CASE Produce \/ Retry
  <2>1. wpc \in {"produce", "retry"} /\ UNCHANGED <<cur, samples>>
    BY <1>6 DEF Produce, Retry
  <2>2. CASE Accept /\ wpc' = "poll" /\ UNCHANGED failed
    BY <2>1, <2>2, OneAccepted
  <2>3. CASE wpc' = "full" /\ UNCHANGED <<failed, libVars>>
    BY <1>1, <2>1, <2>3 DEF libVars
  <2>4. CASE wpc' = "poll" /\ failed' = failed \cup {cur} /\ UNCHANGED libVars
    <3>1. Attempted = cur - 1 /\ Attempted' = cur /\ UNCHANGED produced
      BY <1>0, <2>1, <2>4 DEF Attempted, libVars
    <3>2. \A id \in 1 .. Attempted' : id > Attempted => id \in failed'
      BY <1>0, <2>4, <3>1
    <3>3. QED
      BY <1>0, <2>1, <2>4, <3>1, <3>2, NothingAccepted
  <2>5. QED
    BY <1>6, <2>2, <2>3, <2>4 DEF Produce, Retry
<1>7. CASE PollAfterProduce
  <2>1. cur' = cur + 1 /\ wpc = "poll" /\ wpc' # "poll" /\ UNCHANGED <<samples, produced, failed>>
    BY <1>7 DEF PollAfterProduce, NextSample
  <2>2. Attempted = cur /\ Attempted' = cur
    BY <1>0, <2>1 DEF Attempted
  <2>3. \A id \in 1 .. Attempted' : ~(id > Attempted)
    BY <1>0, <2>2
  <2>4. QED
    BY <1>0, <2>1, <2>2, <2>3, NothingAccepted
<1>8. QED
  BY <1>2, <1>3, <1>4, <1>5, <1>6, <1>7 DEF Next, WriteSteps

(* A poll moves messages from the queue to the reported ones.               *)
LEMMA PollReports ==
  ASSUME TypeOK, ProducedInv, QueueInv, ServeReports, UNCHANGED produced
  PROVE  /\ QueueInv'
         /\ \A id \in Ids : IsReported(id)' <=>
              IsReported(id) \/ \E k \in settled : produced[k].id = id
<1>0. settled \subseteq outq /\ outq \subseteq 1 .. Len(produced) /\ Len(produced) \in Nat
  BY DEF TypeOK
<1>1. /\ outq' = outq \ settled
      /\ reports' = [id \in Ids |->
            reports[id] + Cardinality({k \in settled : produced[k].id = id})]
  BY DEF ServeReports, dr_msg_cb
<1>2. \A id \in Ids : IsReported(id)' <=>
        IsReported(id) \/ \E k \in settled : produced[k].id = id
  BY <1>0, <1>1 DEF IsReported
<1>3. ASSUME NEW id \in Ids
      PROVE  reports'[id] = IF IsReported(id)' THEN 1 ELSE 0
  <2>1. reports'[id] = reports[id] + (IF \E k \in settled : produced[k].id = id THEN 1 ELSE 0)
    BY <1>1, ReportedByPoll
  <2>2. reports[id] = IF IsReported(id) THEN 1 ELSE 0
    BY DEF QueueInv
  <2>3. ~(IsReported(id) /\ \E k \in settled : produced[k].id = id)
    <3>1. \A j \in (1 .. Len(produced)) \ outq : \A k \in settled :
            /\ j \in 1 .. Len(produced) /\ k \in 1 .. Len(produced)
            /\ j < k \/ k < j
      BY <1>0
    <3>2. \A j \in (1 .. Len(produced)) \ outq : \A k \in settled :
            produced[j].id < produced[k].id \/ produced[k].id < produced[j].id
      BY <3>1 DEF ProducedInv
    <3>3. ~(id < id)
      BY BoundsAssumption DEF Ids
    <3>4. QED
      BY <3>2, <3>3 DEF IsReported
  <2>4. QED
    BY <1>2, <2>1, <2>2, <2>3
<1>4. QED
  BY <1>2, <1>3 DEF QueueInv

(* producev adds a message and queues it: nothing more is reported.         *)
LEMMA AcceptQueues ==
  ASSUME TypeOK, cur \in Ids, QueueInv, Accept
  PROVE  QueueInv'
<1>1. /\ Len(produced') = Len(produced) + 1 /\ Len(produced) \in Nat
      /\ \A k \in 1 .. Len(produced) : produced'[k] = produced[k]
  BY Accepted DEF TypeOK
<1>2. outq' = outq \cup {Len(produced) + 1} /\ reports' = reports
  BY DEF Accept
<1>3. (1 .. Len(produced')) \ outq' = (1 .. Len(produced)) \ outq
  BY <1>1, <1>2
<1>4. \A id \in Ids : IsReported(id)' <=> IsReported(id)
  BY <1>1, <1>3 DEF IsReported
<1>5. QED
  BY <1>2, <1>4 DEF QueueInv

(* What is reported and what is queued fit together after every step.       *)
LEMMA StepReport ==
  ASSUME TypeOK, ControlInv, ProducedInv, ReportInv, [Next]_vars
  PROVE  ReportInv'
<1>1. ASSUME UNCHANGED <<outq, produced, reports, writer>> PROVE ReportInv'
  <2>1. QueueInv => QueueInv'
    BY <1>1 DEF QueueInv, IsReported
  <2>2. QED
    BY <1>1, <2>1 DEF ReportInv, IsProduced
<1>2. CASE Settle
  BY <1>1, <1>2 DEF Settle
<1>3. ASSUME wpc \in {"produce", "retry"}, Accept, UNCHANGED writer PROVE ReportInv'
  <2>1. cur \in Ids /\ writer = "open"
    BY <1>3, CurrentSample
  <2>2. QED
    BY <1>3, <2>1, AcceptQueues DEF ReportInv
<1>4. CASE Produce \/ Retry
  <2>1. wpc \in {"produce", "retry"} /\ UNCHANGED writer /\ (Accept \/ UNCHANGED libVars)
    BY <1>4 DEF Produce, Retry
  <2>2. QED
    BY <1>1, <1>3, <2>1 DEF libVars
<1>5. CASE Write \/ GetPayload \/ GetPayloadFails \/ Measure \/ UNCHANGED vars
  BY <1>1, <1>5 DEF Write, GetPayload, GetPayloadFails, Measure, vars, libVars
<1>6. CASE PollWhenFull \/ PollAfterProduce \/ Flush
  <2>1. writer \in {"open", "flushing"} /\ ServeReports /\ UNCHANGED <<produced, writer>>
    BY <1>6, CurrentSample DEF PollWhenFull, PollAfterProduce, Flush
  <2>2. QED
    BY <2>1, PollReports DEF ReportInv
<1>7. CASE DeleteBegin \/ FlushDone \/ FlushTimeout
  <2>1. /\ writer \in {"open", "flushing"}
        /\ writer' \in {"flushing", "timed_out", "flushed"}
        /\ writer' = "flushed" => outq = {}
        /\ UNCHANGED <<outq, produced, reports>>
    BY <1>7 DEF DeleteBegin, FlushDone, FlushTimeout, libVars
  <2>2. QED
    BY <2>1 DEF ReportInv, QueueInv, IsReported
<1>8. CASE Cleanup
  <2>1. outq' = {} /\ UNCHANGED <<produced, reports>>
    BY <1>8 DEF Cleanup
  <2>2. CASE writer = "flushed" /\ writer' = "deleted"
    <3>1. UNCHANGED outq /\ QueueInv
      BY <2>1, <2>2 DEF ReportInv
    <3>2. QueueInv'
      BY <2>1, <3>1 DEF QueueInv, IsReported
    <3>3. QED
      BY <2>1, <2>2, <3>2 DEF ReportInv
  <2>3. CASE writer = "timed_out" /\ writer' = "deleted_early"
    <3>1. QueueInv
      BY <2>3 DEF ReportInv
    <3>2. \A id \in Ids : reports[id] \in {0, 1} /\ (reports[id] = 1 => IsProduced(id))
      BY <3>1 DEF QueueInv, IsReported, IsProduced
    <3>3. QED
      BY <2>1, <2>3, <3>2 DEF ReportInv, IsProduced
  <2>4. QED
    BY <1>8, <2>2, <2>3 DEF Cleanup
<1>9. QED
  BY <1>2, <1>4, <1>5, <1>6, <1>7, <1>8 DEF Next, WriteSteps, DeleteSteps

(* The buffer, the measured text and the published one after every step.    *)
LEMMA StepValue ==
  ASSUME TypeOK, ControlInv, ProducedInv, ValueInv, [Next]_vars
  PROVE  ValueInv'
<1>0. \A k \in 1 .. Len(produced) : produced[k].id \in 1 .. Len(samples)
  <2>1. \A k \in 1 .. Len(produced) : produced[k].id \in 1 .. MaxSamples /\ produced[k].id <= Attempted
    BY ProducedIds DEF ProducedInv, Ids
  <2>2. Attempted \in Int /\ Attempted <= Len(samples) /\ Len(samples) \in Nat
    BY DEF Attempted, TypeOK, ControlInv
  <2> HIDE DEF Attempted
  <2>3. QED
    BY <2>1, <2>2, BoundsAssumption
<1>1. ASSUME UNCHANGED <<samples, cur, wpc, buf, value, produced>> PROVE ValueInv'
  BY <1>1 DEF ValueInv, PayloadInFront, IsTextOf, TextPublished
<1>2. CASE Settle \/ DeleteBegin \/ DeleteSteps \/ UNCHANGED vars
  BY <1>1, <1>2 DEF Settle, DeleteBegin, DeleteSteps, Flush, FlushDone, FlushTimeout,
     Cleanup, vars, libVars
<1>3. ASSUME UNCHANGED <<samples, produced>>, wpc' \in {"idle", "get", "poll"} PROVE ValueInv'
  BY <1>3 DEF ValueInv, TextPublished
<1>4. CASE Write
  <2>1. \A k \in 1 .. Len(samples) : samples'[k] = samples[k]
    BY <1>4, BatchAppended
  <2>2. TextPublished'
    BY <1>0, <1>4, <2>1 DEF Write, libVars, ValueInv, TextPublished
  <2>3. QED
    BY <1>4, <2>2 DEF Write, ValueInv
<1>5. CASE GetPayload
  <2>1. CASE buf' = <<>>
    BY <1>3, <1>5, <2>1 DEF GetPayload, NextSample, libVars
  <2>2. CASE buf' # <<>>
    <3>1. wpc' = "strlen" /\ UNCHANGED <<cur, samples, produced>> /\ buf' = Refill(buf, samples[cur])
      BY <1>5, <2>2 DEF GetPayload, libVars
    <3>2. samples[cur] \in Seq(Octets) /\ buf \in Seq(Octets)
      BY <1>5, CurrentSample DEF GetPayload, TypeOK
    <3>3. /\ Len(samples[cur]) <= Len(buf')
          /\ \A k \in 1 .. Len(samples[cur]) : buf'[k] = samples[cur][k]
      BY <3>1, <3>2, Refilled
    <3>4. PayloadInFront'
      BY <3>1, <3>3 DEF PayloadInFront
    <3>5. QED
      BY <3>1, <3>4 DEF ValueInv, TextPublished
  <2>3. QED
    BY <2>1, <2>2
<1>6. CASE GetPayloadFails \/ PollAfterProduce
  BY <1>3, <1>6 DEF GetPayloadFails, PollAfterProduce, NextSample, libVars
<1>7. CASE Measure
  <2>1. /\ wpc' = "produce" /\ UNCHANGED <<cur, samples, produced>>
        /\ value' \in CString(buf) /\ PayloadInFront
    BY <1>7 DEF Measure, libVars, ValueInv
  <2>2. samples[cur] \in Seq(Octets) /\ buf \in Seq(Octets)
    BY <1>7, CurrentSample DEF Measure, TypeOK
  <2>3. IsTextOf(value', samples[cur])
    BY <2>1, <2>2, StrlenOfText DEF PayloadInFront
  <2>4. QED
    BY <2>1, <2>3 DEF ValueInv, TextPublished, IsTextOf
<1>8. CASE PollWhenFull
  BY <1>8 DEF PollWhenFull, ValueInv, IsTextOf, TextPublished
<1>9. CASE Produce \/ Retry
  <2>1. wpc \in {"produce", "retry"} /\ UNCHANGED <<cur, samples, value>>
    BY <1>9 DEF Produce, Retry
  <2>2. CASE Accept /\ wpc' = "poll"
    <3>1. /\ Len(produced') = Len(produced) + 1 /\ Len(produced) \in Nat
          /\ \A k \in 1 .. Len(produced) : produced'[k] = produced[k]
          /\ produced'[Len(produced) + 1] = [id |-> cur, value |-> value]
      BY <2>1, <2>2, CurrentSample, Accepted, SMTT(30) DEF TypeOK
    <3>2. IsTextOf(value, samples[cur])
      BY <2>1 DEF ValueInv
    <3>3. ASSUME NEW k \in 1 .. Len(produced')
          PROVE  IsTextOf(produced'[k].value, samples[produced'[k].id])
      <4>1. CASE k = Len(produced) + 1
        BY <3>1, <3>2, <4>1
      <4>2. CASE k \in 1 .. Len(produced)
        BY <3>1, <4>2 DEF ValueInv, TextPublished, IsTextOf
      <4>3. QED
        BY <3>1, <4>1, <4>2
    <3>4. TextPublished'
      BY <2>1, <3>3 DEF TextPublished, IsTextOf
    <3>5. QED
      BY <2>2, <3>4 DEF ValueInv
  <2>3. CASE wpc' = "full" /\ UNCHANGED libVars
    BY <2>1, <2>3 DEF ValueInv, IsTextOf, TextPublished, libVars
  <2>4. CASE wpc' = "poll" /\ UNCHANGED libVars
    BY <1>3, <2>1, <2>4 DEF libVars
  <2>5. QED
    BY <1>9, <2>2, <2>3, <2>4 DEF Produce, Retry
<1>10. QED
  BY <1>2, <1>4, <1>5, <1>6, <1>7, <1>8, <1>9 DEF Next, WriteSteps

(* Every step of write(), of the deletion and of librdkafka preserves IInv. *)
LEMMA StepIInv == IInv /\ [Next]_vars => IInv'
  BY StepTypeOK, StepControl, StepProduced, StepReport, StepValue DEF IInv

(* The strengthened invariant holds in every state of the writer.           *)
THEOREM Invariance == Spec => []IInv
<1>1. QED
  BY InitIInv, StepIInv, PTL DEF Spec

(* The writer's state is always well typed; the queue never exceeds its     *)
(* bound.                                                                   *)
THEOREM TypeCorrect == Spec => []TypeOK
<1>1. IInv => TypeOK
  BY DEF IInv
<1>2. QED
  BY <1>1, Invariance, PTL

(* Whatever the size of librdkafka's queue, the retry loop of write() drops *)
(* no sample that carries bytes.                                            *)
THEOREM NothingDropped == Spec => []FullQueueDropsNothing
<1>1. ASSUME IInv PROVE FullQueueDropsNothing
  <2> SUFFICES ASSUME NEW id \in 1 .. cur - 1, samples[id] # <<>>
               PROVE  IsProduced(id) \/ id \in failed
    BY DEF FullQueueDropsNothing
  <2>1. id \in 1 .. Attempted
    BY <1>1 DEF IInv, TypeOK, Attempted
  <2>2. QED
    BY <1>1, <2>1 DEF IInv, ProducedInv
<1>2. QED
  BY <1>1, Invariance, PTL

(* Each accepted message is queued or has been reported, once, until a      *)
(* flush times out.                                                         *)
THEOREM ReportsAreUnique == Spec => []ReportedOnce
<1>1. ASSUME IInv PROVE ReportedOnce
  <2> SUFFICES ASSUME NEW id \in Ids
               PROVE  /\ reports[id] <= 1
                      /\ reports[id] = 1 => IsProduced(id)
                      /\ IsProduced(id) /\ writer # "deleted_early" =>
                           (reports[id] = 0 <=> \E k \in outq : produced[k].id = id)
    BY DEF ReportedOnce
  <2>1. CASE writer = "deleted_early"
    BY <1>1, <2>1 DEF IInv, ReportInv
  <2>2. CASE writer # "deleted_early"
    <3>1. /\ ProducedInv /\ reports[id] = IF IsReported(id) THEN 1 ELSE 0
          /\ outq \subseteq 1 .. Len(produced) /\ Len(produced) \in Nat
      BY <1>1, <2>2 DEF IInv, ReportInv, QueueInv, TypeOK
    <3>2. IsProduced(id) <=> IsReported(id) \/ \E k \in outq : produced[k].id = id
      BY <3>1 DEF IsProduced, IsReported
    <3>3. ~(IsReported(id) /\ \E k \in outq : produced[k].id = id)
      <4>1. \A j \in (1 .. Len(produced)) \ outq : \A k \in outq :
              /\ j \in 1 .. Len(produced) /\ k \in 1 .. Len(produced)
              /\ j < k \/ k < j
        BY <3>1
      <4>2. \A j \in (1 .. Len(produced)) \ outq : \A k \in outq :
              produced[j].id < produced[k].id \/ produced[k].id < produced[j].id
        BY <3>1, <4>1 DEF ProducedInv
      <4>3. ~(id < id)
        BY BoundsAssumption DEF Ids
      <4>4. QED
        BY <4>2, <4>3 DEF IsReported
    <3>4. QED
      BY <3>1, <3>2, <3>3
  <2>3. QED
    BY <2>1, <2>2
<1>2. QED
  BY <1>1, Invariance, PTL

(* A payload that is one C string is published exactly, although the buffer *)
(* it goes through still holds bytes of longer samples.                     *)
THEOREM TextIsPublished == Spec => []TextPublished
<1>1. IInv => TextPublished
  BY DEF IInv, ValueInv
<1>2. QED
  BY <1>1, Invariance, PTL

-----------------------------------------------------------------------------
(* Until a flush times out, the reported messages are those that have left  *)
(* the queue.                                                               *)
QueueTells ==
  writer # "deleted_early" =>
    ReportedIds = {produced[k].id : k \in (1 .. Len(produced)) \ outq}

(* The queue tells which messages have no report yet.                       *)
LEMMA ReportedAreGone == IInv => QueueTells
<1> SUFFICES ASSUME IInv, writer # "deleted_early"
             PROVE  ReportedIds = {produced[k].id : k \in (1 .. Len(produced)) \ outq}
  BY DEF QueueTells
<1>1. QueueInv /\ TypeOK
  BY DEF IInv, ReportInv
<1>2. \A k \in (1 .. Len(produced)) \ outq : produced[k].id \in Ids
  BY <1>1, ProducedIds
<1>3. \A id \in Ids : reports[id] = 1 <=> IsReported(id)
  BY <1>1 DEF QueueInv
<1>4. QED
  BY <1>2, <1>3 DEF ReportedIds, IsReported

(* The messages of the output are the ones librdkafka accepted.             *)
LEMMA MessagesAreProduced ==
  ASSUME TypeOK
  PROVE  Output!Messages = {produced[k].id : k \in 1 .. Len(produced)}
<1>1. Len(produced) \in Nat
  BY DEF TypeOK
<1>2. Len(AcceptedIds) = Len(produced) /\ \A k \in 1 .. Len(produced) : AcceptedIds[k] = produced[k].id
  BY <1>1 DEF AcceptedIds
<1>3. QED
  BY <1>2 DEF Output!Messages

(* A step that accepts and reports nothing is no step of the output.        *)
LEMMA SilentStep ==
  ASSUME UNCHANGED <<produced, reports>>, UNCHANGED OutputState
  PROVE  UNCHANGED Output!vars
  BY DEF Output!vars, AcceptedIds, ReportedIds

(* producev is an acceptance.                                               *)
LEMMA AcceptIsAccept ==
  ASSUME IInv, wpc \in {"produce", "retry"}, Accept, UNCHANGED writer
  PROVE  Output!Accept
<1>1. TypeOK /\ ControlInv /\ ProducedInv /\ cur \in Ids /\ writer = "open"
  BY CurrentSample DEF IInv
<1>2. /\ Len(produced') = Len(produced) + 1 /\ Len(produced) \in Nat
      /\ \A k \in 1 .. Len(produced) : produced'[k] = produced[k]
      /\ produced'[Len(produced) + 1] = [id |-> cur, value |-> value]
  BY <1>1, Accepted DEF TypeOK
<1>3. \A k \in 1 .. Len(produced) : produced[k].id \in Ids /\ produced[k].id < cur
  BY <1>1, ProducedIds, BoundsAssumption DEF ProducedInv, Attempted, Ids
<1>4. AcceptedIds \in Seq(Ids) /\ Len(AcceptedIds) = Len(produced)
  BY <1>2, <1>3 DEF AcceptedIds
<1>5. \A k \in 1 .. Len(AcceptedIds) : AcceptedIds[k] < cur
  BY <1>3, <1>4 DEF AcceptedIds
<1>6. AcceptedIds' = Append(AcceptedIds, cur)
  <2> DEFINE longer == [k \in 1 .. Len(produced) + 1 |-> produced'[k].id]
  <2>1. AcceptedIds' = longer
    BY <1>2 DEF AcceptedIds
  <2>2. \A k \in 1 .. Len(produced) + 1 :
          produced'[k].id = IF k = Len(produced) + 1 THEN cur ELSE AcceptedIds[k]
    BY <1>2 DEF AcceptedIds
  <2>3. longer \in Seq(Ids) /\ Len(longer) = Len(produced) + 1
    BY <1>1, <1>2, <1>3
  <2>4. Append(AcceptedIds, cur) \in Seq(Ids) /\ Len(Append(AcceptedIds, cur)) = Len(produced) + 1
    BY <1>1, <1>4
  <2>5. \A k \in 1 .. Len(longer) : longer[k] = Append(AcceptedIds, cur)[k]
    BY <1>1, <1>2, <1>4, <2>2, <2>3
  <2> HIDE DEF longer
  <2>6. longer = Append(AcceptedIds, cur)
    BY <2>3, <2>4, <2>5, SeqEqual
  <2>7. QED
    BY <2>1, <2>6
<1>7. OutputState = "open" /\ UNCHANGED OutputState
  BY <1>1 DEF OutputState
<1>8. ReportedIds' = ReportedIds
  BY DEF Accept, ReportedIds
<1>9. QED
  BY <1>1, <1>5, <1>6, <1>7, <1>8 DEF Output!Accept

(* A poll reports some messages that had no report yet, or none.            *)
LEMMA PollIsReport ==
  ASSUME IInv, QueueTells', writer \in {"open", "flushing"}, ServeReports,
         UNCHANGED <<produced, writer>>
  PROVE  Output!Report \/ UNCHANGED Output!vars
<1> DEFINE batch == {produced[k].id : k \in settled}
<1>0. /\ TypeOK /\ ProducedInv
      /\ settled \subseteq outq /\ outq \subseteq 1 .. Len(produced) /\ Len(produced) \in Nat
  BY DEF IInv, TypeOK
<1>1. ReportedIds = {produced[k].id : k \in (1 .. Len(produced)) \ outq}
  BY ReportedAreGone DEF QueueTells
<1>2. outq' = outq \ settled
  BY DEF ServeReports
<1>3. ReportedIds' = {produced[k].id : k \in (1 .. Len(produced)) \ outq'}
  BY DEF QueueTells
<1>4. ReportedIds' = ReportedIds \cup batch
  BY <1>0, <1>1, <1>2, <1>3
<1>5. OutputState = "open" /\ UNCHANGED OutputState /\ UNCHANGED AcceptedIds
  BY DEF OutputState, AcceptedIds
<1>6. CASE settled = {}
  BY <1>4, <1>5, <1>6 DEF Output!vars
<1>7. CASE settled # {}
  <2>1. batch # {}
    BY <1>7
  <2>2. batch \subseteq Output!Messages
    BY <1>0, MessagesAreProduced
  <2>3. batch \cap ReportedIds = {}
    <3>1. SUFFICES ASSUME NEW j \in (1 .. Len(produced)) \ outq, NEW k \in settled,
                          produced[j].id = produced[k].id
                   PROVE  FALSE
      BY <1>1
    <3>2. /\ j \in 1 .. Len(produced) /\ k \in 1 .. Len(produced)
          /\ j < k \/ k < j
      BY <1>0
    <3>3. produced[j].id \in Int
      BY <1>0, <3>2, ProducedIds
    <3>4. produced[j].id < produced[k].id \/ produced[k].id < produced[j].id
      BY <1>0, <3>2 DEF ProducedInv
    <3>5. QED
      BY <3>1, <3>3, <3>4
  <2> HIDE DEF batch
  <2>4. batch \in SUBSET (Output!Messages \ ReportedIds)
    BY <2>2, <2>3
  <2>5. QED
    BY <1>4, <1>5, <2>1, <2>4 DEF Output!Report
<1>8. QED
  BY <1>6, <1>7

(* Every step of the writer is a step of the output or leaves it alone.     *)
LEMMA StepOutput ==
  IInv /\ QueueTells' /\ [Next]_vars => [Output!Next]_Output!vars
<1> SUFFICES ASSUME IInv, QueueTells', [Next]_vars
             PROVE  [Output!Next]_Output!vars
  OBVIOUS
<1> USE DEF Output!Next
<1>1. CASE Settle \/ Write \/ GetPayload \/ GetPayloadFails \/ Measure \/ UNCHANGED vars
  <2>1. UNCHANGED <<produced, reports, writer>>
    BY <1>1 DEF Settle, Write, GetPayload, GetPayloadFails, Measure, vars, libVars
  <2>2. QED
    BY <2>1, SilentStep DEF OutputState
<1>2. CASE Produce \/ Retry
  <2>1. wpc \in {"produce", "retry"} /\ UNCHANGED writer /\ (Accept \/ UNCHANGED libVars)
    BY <1>2 DEF Produce, Retry
  <2>2. CASE Accept
    BY <2>1, <2>2, AcceptIsAccept
  <2>3. CASE UNCHANGED libVars
    BY <2>1, <2>3, SilentStep DEF OutputState, libVars
  <2>4. QED
    BY <2>1, <2>2, <2>3
<1>3. CASE PollWhenFull \/ PollAfterProduce \/ Flush
  <2>1. writer \in {"open", "flushing"} /\ ServeReports /\ UNCHANGED <<produced, writer>>
    BY <1>3, CurrentSample DEF IInv, PollWhenFull, PollAfterProduce, Flush
  <2>2. QED
    BY <2>1, PollIsReport
<1>4. CASE DeleteBegin \/ FlushDone \/ FlushTimeout
  <2>1. UNCHANGED <<produced, reports>> /\ UNCHANGED OutputState
    BY <1>4 DEF DeleteBegin, FlushDone, FlushTimeout, OutputState, libVars
  <2>2. QED
    BY <2>1, SilentStep
<1>5. CASE Cleanup
  <2>1. UNCHANGED AcceptedIds /\ UNCHANGED ReportedIds /\ OutputState = "open"
    BY <1>5 DEF Cleanup, AcceptedIds, ReportedIds, OutputState
  <2>2. CASE writer = "flushed" /\ writer' = "deleted"
    <3>1. outq = {} /\ TypeOK
      BY <2>2 DEF IInv, ReportInv
    <3>2. ReportedIds = Output!Messages
      BY <2>2, <3>1, ReportedAreGone, MessagesAreProduced DEF QueueTells
    <3>3. OutputState' = "complete"
      BY <2>2 DEF OutputState
    <3>4. QED
      BY <2>1, <3>2, <3>3 DEF Output!Close
  <2>3. CASE writer = "timed_out" /\ writer' = "deleted_early"
    BY <2>1, <2>3 DEF Output!Close, OutputState
  <2>4. QED
    BY <1>5, <2>2, <2>3 DEF Cleanup
<1>6. QED
  BY <1>1, <1>2, <1>3, <1>4, <1>5 DEF Next, WriteSteps, DeleteSteps

(* The writer implements ReportedOutput for every queue size and every set  *)
(* of payloads and failures: one message per sample at most, in order, each *)
(* reported once in whatever order the brokers answer, and closed with      *)
(* every report served or the rest given up.                                *)
THEOREM RefinesOutput == Spec => ImplementsOutput
<1>1. Init => Output!Init
  BY DEF Init, Output!Init, AcceptedIds, ReportedIds, OutputState
<1>2. QED
  BY <1>1, StepOutput, ReportedAreGone, Invariance, PTL DEF Spec, ImplementsOutput, Output!Spec
=============================================================================
