-------------------------- MODULE Transformation --------------------------
(***************************************************************************)
(* One transformation of a route (Transformation.c): transform() converts a *)
(* batch into samples of its read_buffer and lends them out, return_loan()  *)
(* clears them for the next batch.                                          *)
(*                                                                          *)
(* The content of an output sample is modelled as the set of input samples  *)
(* whose data is in it.  A serializer overwrites the one bytes member; a    *)
(* deserializer assigns the fields present in the message and leaves the    *)
(* other members as they are, so it adds to what the sample holds.  A       *)
(* correct output sample holds exactly its own input.                       *)
(*                                                                          *)
(* transform() and return_loan() run on the session thread of the route and *)
(* are one step each; conversions that fail half-way are part of the step.  *)
(*                                                                          *)
(* The plugin's contract, which module ProtobufTransformation looks at: a   *)
(* conversion that returns DDS_RETCODE_OK has converted its sample.         *)
(***************************************************************************)
EXTENDS Integers, Sequences, FiniteSets

CONSTANTS MaxBatch,    \* bound on the samples of one transform()
          MaxSamples,  \* bound on the samples of a behaviour
          Faults       \* what may happen: subset of FaultKinds

(* "invalid": a sample without valid data (a dispose) arrives; "convert": a *)
(* conversion fails; "alloc": growing read_buffer or creating a sample does.*)
FaultKinds == {"invalid", "convert", "alloc"}

ASSUME BatchAssumption == MaxBatch \in Nat \ {0} /\ MaxSamples \in Nat
ASSUME TransformFaultsAssumption == Faults \subseteq FaultKinds

Ids == 1 .. MaxSamples

(* A slot of read_buffer that no sample has been created for.               *)
NoData == {0}

VARIABLES
  read_buffer,         \* sequence of output samples: contents, or NoData
  read_buffer_loaned,
  input,               \* the batch on loan: records [id, valid]
  out_count,           \* what transform() reported
  seen,                \* number of input samples so far
  kind,                \* config->type, chosen in Init
  lost                 \* the input samples of batches given up half-way

vars == <<read_buffer, read_buffer_loaned, input, out_count, seen, kind, lost>>

TypeOK ==
  /\ read_buffer \in Seq((SUBSET Ids) \cup {NoData}) /\ Len(read_buffer) <= MaxBatch
  /\ read_buffer_loaned \in BOOLEAN
  /\ input \in Seq([id : Ids, valid : BOOLEAN]) /\ Len(input) <= MaxBatch
  /\ out_count \in 0 .. MaxBatch
  /\ seen \in 0 .. MaxSamples
  /\ kind \in {"serialize", "deserialize"} /\ lost \subseteq Ids

Init ==
  /\ kind \in {"serialize", "deserialize"} /\ lost = {}
  /\ read_buffer = <<>> /\ read_buffer_loaned = FALSE
  /\ input = <<>> /\ out_count = 0 /\ seen = 0

-----------------------------------------------------------------------------
(* Variant: the buffer grows by every batch.                                *)
GrownByBatch(n) ==
  [i \in 1 .. Len(read_buffer) + n |->
     IF i <= Len(read_buffer) THEN read_buffer[i] ELSE NoData]

(* ensure_length(max(maximum, in_count)): slots are kept, new ones empty.   *)
Grown(n) ==
  [i \in 1 .. (IF Len(read_buffer) > n THEN Len(read_buffer) ELSE n) |->
     IF i <= Len(read_buffer) THEN read_buffer[i] ELSE NoData]

(* The content of a slot once a sample exists for it.                       *)
Created(slot) == IF slot = NoData THEN {} ELSE slot

(* serialize_sample or deserialize_sample of input sample id.               *)
Converted(slot, id) ==
  IF kind = "serialize" THEN {id} ELSE Created(slot) \cup {id}

(* A conversion that failed: before it wrote anything, or after some of it. *)
HalfConverted(slot, id) == {Created(slot), Converted(slot, id)}

(* The batches the route may hand over next; identities go up.              *)
Batches ==
  {[i \in DOMAIN v |-> [id |-> seen + i, valid |-> v[i]]] :
     v \in UNION {[1 .. n -> IF "invalid" \in Faults THEN BOOLEAN ELSE {TRUE}] :
                    n \in {m \in 1 .. MaxBatch : seen + m <= MaxSamples}}}

(* Variant: the loop converts one sample too few.                           *)
AfterLoopShort(slots, batch, n) ==
  [i \in 1 .. Len(slots) |->
     IF i < n /\ batch[i].valid THEN Converted(slots[i], batch[i].id) ELSE slots[i]]

(* Slot i after the loop went through the first n samples.                  *)
AfterLoop(slots, batch, n) ==
  [i \in 1 .. Len(slots) |->
     IF i <= n /\ batch[i].valid THEN Converted(slots[i], batch[i].id) ELSE slots[i]]

ValidCount(batch) == Cardinality({i \in 1 .. Len(batch) : batch[i].valid})

(* transform() of a batch that converts completely.                         *)
Transform(batch) ==
  /\ ~read_buffer_loaned
  /\ read_buffer' = AfterLoop(Grown(Len(batch)), batch, Len(batch))
  /\ read_buffer_loaned' = TRUE
  /\ input' = batch
  /\ out_count' = ValidCount(batch)
  /\ seen' = seen + Len(batch)
  /\ UNCHANGED <<kind, lost>>

(* transform() stops at sample f: the samples converted before it stay as   *)
(* they are, because the cleanup is guarded by out_samples == NULL, which   *)
(* is false here.                                                           *)
TransformFails(batch, f) ==
  /\ ~read_buffer_loaned
  /\ batch[f].valid
  /\ LET slots == AfterLoop(Grown(Len(batch)), batch, f - 1)
     IN \/ /\ "convert" \in Faults
           /\ \E c \in HalfConverted(slots[f], batch[f].id) :
                read_buffer' = [slots EXCEPT ![f] = c]
        \/ /\ "alloc" \in Faults /\ slots[f] = NoData
           /\ read_buffer' = slots
  /\ seen' = seen + Len(batch)
  /\ lost' = lost \cup {batch[i].id : i \in 1 .. Len(batch)}
  /\ UNCHANGED <<read_buffer_loaned, input, out_count, kind>>

(* read_buffer cannot grow.                                                 *)
TransformCannotGrow(batch) ==
  /\ ~read_buffer_loaned
  /\ "alloc" \in Faults /\ Len(batch) > Len(read_buffer)
  /\ seen' = seen + Len(batch)
  /\ UNCHANGED <<read_buffer, read_buffer_loaned, input, out_count, kind, lost>>

(* "read ALREADY in progress": refused.                                     *)
TransformRefused(batch) ==
  /\ read_buffer_loaned
  /\ seen' = seen + Len(batch)
  /\ UNCHANGED <<read_buffer, read_buffer_loaned, input, out_count, kind, lost>>

(* Variant: return_loan() misses the last sample.                           *)
ReturnLoanOffByOne ==
  /\ read_buffer_loaned
  /\ read_buffer' = [i \in 1 .. Len(read_buffer) |->
       IF i < out_count /\ read_buffer[i] # NoData THEN {} ELSE read_buffer[i]]
  /\ read_buffer_loaned' = FALSE
  /\ input' = <<>> /\ out_count' = 0
  /\ UNCHANGED <<seen, kind, lost>>

(* return_loan(): the first out_count slots are cleared; clearing a slot    *)
(* without a sample fails and is ignored.                                   *)
ReturnLoan ==
  /\ read_buffer_loaned
  /\ read_buffer' = [i \in 1 .. Len(read_buffer) |->
       IF i <= out_count /\ read_buffer[i] # NoData THEN {} ELSE read_buffer[i]]
  /\ read_buffer_loaned' = FALSE
  /\ input' = <<>> /\ out_count' = 0
  /\ UNCHANGED <<seen, kind, lost>>

Next ==
  \/ \E batch \in Batches :
       \/ Transform(batch)
       \/ \E f \in 1 .. Len(batch) : TransformFails(batch, f)
       \/ TransformCannotGrow(batch)
       \/ TransformRefused(batch)
  \/ ReturnLoan

Spec == Init /\ [][Next]_vars

-----------------------------------------------------------------------------
ValidIds == {input[i].id : i \in {j \in 1 .. Len(input) : input[j].valid}}

(* What reused samples may still hold beside their own input.               *)
Leftovers == IF kind = "serialize" THEN {} ELSE lost

(* The samples handed to the output are the conversions of the valid input  *)
(* samples, in order, one each, and carry nothing of any sample delivered   *)
(* before.  Only a deserializer may carry more, from batches that it gave   *)
(* up half-way: what these left in the reused samples is not cleared.       *)
OutputsExact ==
  read_buffer_loaned =>
    \A k \in 1 .. out_count : \E id \in ValidIds :
      /\ Cardinality({v \in ValidIds : v < id}) = k - 1
      /\ id \in read_buffer[k]
      /\ read_buffer[k] \ {id} \subseteq Leftovers

(* Between two batches the reused samples hold no data but that of batches  *)
(* given up half-way: the cleanup of that path is never reached.            *)
BufferClean ==
  ~read_buffer_loaned =>
    \A i \in 1 .. Len(read_buffer) : read_buffer[i] = NoData \/ read_buffer[i] \subseteq lost
============================================================================
