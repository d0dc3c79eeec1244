----------------------- MODULE Transformation_proof -----------------------
(***************************************************************************)
(* Proofs about Transformation for every batch size and number of samples.  *)
(* Types are proved whatever may fail; what the samples hold is proved      *)
(* where every sample has valid data, and shown by TLC to be false where    *)
(* not.                                                                     *)
(***************************************************************************)
EXTENDS Transformation, SequenceTheorems, FiniteSetTheorems, TLAPS

Slots == (SUBSET Ids) \cup {NoData}
Inputs == [id : Ids, valid : BOOLEAN]

(* A sample of the buffer that holds nothing but data of the samples in     *)
(* set, or no sample yet.                                                   *)
IsClean(slot, set) == slot = NoData \/ slot \subseteq set

(* The batch on loan is numbered from start + 1, all of it is valid, and    *)
(* each sample is in the slot of its position, with nothing beside it but   *)
(* what a deserializer left of batches it gave up.                          *)
LentFrom(start) ==
  /\ out_count = Len(input) /\ Len(input) <= Len(read_buffer)
  /\ \A k \in 1 .. Len(input) :
       /\ input[k].valid /\ input[k].id = start + k
       /\ start + k \in read_buffer[k]
       /\ read_buffer[k] \ {start + k} \subseteq Leftovers
  /\ \A k \in 1 .. Len(read_buffer) : k > Len(input) => IsClean(read_buffer[k], lost)

LentExact == read_buffer_loaned => \E start \in Nat : LentFrom(start)

-----------------------------------------------------------------------------
(* The batches a route hands over: 1 .. MaxBatch samples with the next      *)
(* identities.                                                              *)
LEMMA BatchFacts ==
  ASSUME TypeOK, NEW batch \in Batches
  PROVE  /\ batch \in Seq(Inputs) /\ Len(batch) \in 1 .. MaxBatch
         /\ seen + Len(batch) \in 0 .. MaxSamples
         /\ \A i \in 1 .. Len(batch) :
              /\ batch[i].id = seen + i /\ seen + i \in Ids /\ batch[i].valid \in BOOLEAN
              /\ "invalid" \notin Faults => batch[i].valid = TRUE
<1> DEFINE V == IF "invalid" \in Faults THEN BOOLEAN ELSE {TRUE}
<1>1. PICK n \in {m \in 1 .. MaxBatch : seen + m <= MaxSamples} : \E w \in [1 .. n -> V] :
        batch = [i \in DOMAIN w |-> [id |-> seen + i, valid |-> w[i]]]
  BY DEF Batches
<1>2. PICK v \in [1 .. n -> V] : batch = [i \in 1 .. n |-> [id |-> seen + i, valid |-> v[i]]]
  BY <1>1
<1>3. n \in Nat /\ n \in 1 .. MaxBatch /\ seen + n <= MaxSamples /\ seen \in Nat
  BY <1>1, BatchAssumption DEF TypeOK
<1>4. ASSUME NEW i \in 1 .. n
      PROVE  seen + i \in Ids /\ v[i] \in BOOLEAN /\ ("invalid" \notin Faults => v[i] = TRUE)
  <2>1. seen + i \in Ids
    BY <1>3, BatchAssumption DEF Ids
  <2>2. v[i] \in V
    BY <1>2
  <2>3. QED
    BY <2>1, <2>2
<1>5. \A i \in 1 .. n : [id |-> seen + i, valid |-> v[i]] \in Inputs
  BY <1>4 DEF Inputs
<1>6. batch \in Seq(Inputs) /\ Len(batch) = n
  BY <1>2, <1>3, <1>5
<1>7. \A i \in 1 .. n : batch[i].id = seen + i /\ batch[i].valid = v[i]
  BY <1>2
<1>8. \A i \in 1 .. n : batch[i].valid \in BOOLEAN /\ ("invalid" \notin Faults => batch[i].valid = TRUE)
  BY <1>4, <1>7, Zenon
<1>9. Len(batch) \in 1 .. MaxBatch /\ seen + Len(batch) \in 0 .. MaxSamples
  BY <1>3, <1>6, BatchAssumption
<1>10. QED
  BY <1>4, <1>6, <1>7, <1>8, <1>9, Zenon

(* read_buffer after ensure_length.                                         *)
LEMMA GrownFacts ==
  ASSUME TypeOK, NEW n \in 1 .. MaxBatch
  PROVE  /\ Grown(n) \in Seq(Slots) /\ Len(Grown(n)) \in 1 .. MaxBatch
         /\ n <= Len(Grown(n)) /\ Len(read_buffer) <= Len(Grown(n))
         /\ \A i \in 1 .. Len(Grown(n)) :
              Grown(n)[i] = IF i <= Len(read_buffer) THEN read_buffer[i] ELSE NoData
<1> DEFINE m == IF Len(read_buffer) > n THEN Len(read_buffer) ELSE n
<1>1. m \in Nat /\ m \in 1 .. MaxBatch /\ n <= m /\ Len(read_buffer) <= m
  BY BatchAssumption DEF TypeOK
<1> HIDE DEF m
<1>2. Grown(n) = [i \in 1 .. m |-> IF i <= Len(read_buffer) THEN read_buffer[i] ELSE NoData]
  BY DEF Grown, m
<1>3. \A i \in 1 .. m : (IF i <= Len(read_buffer) THEN read_buffer[i] ELSE NoData) \in Slots
  BY <1>1 DEF TypeOK, Slots
<1>4. Grown(n) \in Seq(Slots) /\ Len(Grown(n)) = m
  BY <1>1, <1>2, <1>3
<1>5. QED
  BY <1>1, <1>2, <1>4

(* A conversion puts its own input into the sample.                         *)
LEMMA ConvertedFacts ==
  ASSUME NEW slot \in Slots, NEW id \in Ids
  PROVE  /\ Converted(slot, id) \in Slots /\ id \in Converted(slot, id)
         /\ kind = "serialize" => Converted(slot, id) = {id}
         /\ Created(slot) \in Slots
BY DEF Converted, Created, Slots, NoData

(* It adds nothing else to what a deserializer finds there.                 *)
LEMMA ConvertedAdds ==
  ASSUME NEW slot \in Slots, NEW id \in Ids, NEW set \in SUBSET Ids, IsClean(slot, set)
  PROVE  Converted(slot, id) \subseteq set \cup {id} /\ Created(slot) \subseteq set
BY DEF Converted, Created, IsClean, NoData

(* The slots after the first n samples of the batch.                        *)
LEMMA AfterLoopFacts ==
  ASSUME NEW slots \in Seq(Slots), NEW batch \in Seq(Inputs), NEW n \in 0 .. Len(batch),
         Len(batch) <= Len(slots)
  PROVE  /\ AfterLoop(slots, batch, n) \in Seq(Slots)
         /\ Len(AfterLoop(slots, batch, n)) = Len(slots)
         /\ \A i \in 1 .. Len(slots) :
              AfterLoop(slots, batch, n)[i] =
                IF i <= n /\ batch[i].valid THEN Converted(slots[i], batch[i].id) ELSE slots[i]
<1>1. \A i \in 1 .. Len(slots) :
        (IF i <= n /\ batch[i].valid THEN Converted(slots[i], batch[i].id) ELSE slots[i]) \in Slots
  <2> SUFFICES ASSUME NEW i \in 1 .. Len(slots)
               PROVE  (IF i <= n /\ batch[i].valid THEN Converted(slots[i], batch[i].id)
                       ELSE slots[i]) \in Slots
    OBVIOUS
  <2>1. slots[i] \in Slots
    BY ElementOfSeq
  <2>2. ASSUME i <= n PROVE batch[i].id \in Ids
    <3>1. Len(batch) \in Nat /\ i \in 1 .. Len(batch)
      BY <2>2, LenProperties
    <3>2. batch[i] \in Inputs
      BY <3>1, ElementOfSeq
    <3>3. QED
      BY <3>2 DEF Inputs
  <2>3. QED
    BY <2>1, <2>2, ConvertedFacts
<1>2. QED
  BY <1>1 DEF AfterLoop

(* The number of valid samples is at most that of all.                      *)
LEMMA ValidCountFacts ==
  ASSUME NEW batch \in Seq(Inputs)
  PROVE  /\ ValidCount(batch) \in 0 .. Len(batch)
         /\ (\A i \in 1 .. Len(batch) : batch[i].valid = TRUE) => ValidCount(batch) = Len(batch)
<1> DEFINE S == {i \in 1 .. Len(batch) : batch[i].valid}
<1>1. Len(batch) \in Nat
  BY LenProperties
<1>2. IsFiniteSet(1 .. Len(batch)) /\ Cardinality(1 .. Len(batch)) = Len(batch)
  BY <1>1, FS_Interval, SMTT(30)
<1>3. S \in SUBSET (1 .. Len(batch))
  OBVIOUS
<1>4. (\A i \in 1 .. Len(batch) : batch[i].valid = TRUE) => S = 1 .. Len(batch)
  OBVIOUS
<1>5. ValidCount(batch) = Cardinality(S)
  BY DEF ValidCount
<1> HIDE DEF S
<1>6. IsFiniteSet(S) /\ Cardinality(S) <= Len(batch) /\ Cardinality(S) \in Nat
  BY <1>2, <1>3, FS_Subset, FS_CardinalityType
<1>7. QED
  BY <1>1, <1>2, <1>4, <1>5, <1>6

-----------------------------------------------------------------------------
(* What every transform() of a batch works on, cut at sample n.             *)
LEMMA LoopFacts ==
  ASSUME TypeOK, NEW batch \in Batches, NEW n \in 0 .. Len(batch)
  PROVE  LET slots == AfterLoop(Grown(Len(batch)), batch, n)
         IN /\ slots \in Seq(Slots) /\ Len(slots) \in 1 .. MaxBatch
            /\ Len(batch) <= Len(slots) /\ Len(read_buffer) <= Len(slots)
            /\ \A i \in 1 .. Len(slots) :
                 slots[i] =
                   IF i <= n /\ batch[i].valid
                   THEN Converted(Grown(Len(batch))[i], batch[i].id)
                   ELSE Grown(Len(batch))[i]
<1>1. batch \in Seq(Inputs) /\ Len(batch) \in 1 .. MaxBatch
  BY BatchFacts
<1>2. QED
  BY <1>1, GrownFacts, AfterLoopFacts

(* A failing conversion changes one slot of what the loop made so far.      *)
LEMMA FailureFacts ==
  ASSUME TypeOK, NEW batch \in Batches, NEW f \in 1 .. Len(batch), TransformFails(batch, f)
  PROVE  /\ read_buffer' \in Seq(Slots) /\ Len(read_buffer') \in 1 .. MaxBatch
         /\ lost' = lost \cup {batch[i].id : i \in 1 .. Len(batch)}
         /\ ~read_buffer_loaned /\ seen' = seen + Len(batch)
         /\ UNCHANGED <<read_buffer_loaned, input, out_count, kind>>
         /\ BufferClean => BufferClean'
<1> DEFINE slots == AfterLoop(Grown(Len(batch)), batch, f - 1)
<1>0. lost \in SUBSET Ids
  BY DEF TypeOK
<1>1. /\ batch \in Seq(Inputs) /\ Len(batch) \in 1 .. MaxBatch
      /\ batch[f].id \in Ids
  BY BatchFacts
<1>2. f - 1 \in 0 .. Len(batch) /\ Len(batch) \in Nat
  BY <1>1, BatchAssumption
<1>3. /\ slots \in Seq(Slots) /\ Len(slots) \in 1 .. MaxBatch /\ Len(batch) <= Len(slots)
  BY <1>2, LoopFacts
<1>4. f \in 1 .. Len(slots) /\ slots[f] \in Slots
  BY <1>2, <1>3, ElementOfSeq
<1>5. \/ \E c \in HalfConverted(slots[f], batch[f].id) : read_buffer' = [slots EXCEPT ![f] = c]
      \/ read_buffer' = slots
  BY DEF TransformFails
<1> HIDE DEF slots
<1>6. HalfConverted(slots[f], batch[f].id) \subseteq Slots
  BY <1>1, <1>4, ConvertedFacts DEF HalfConverted
<1>7. read_buffer' \in Seq(Slots) /\ Len(read_buffer') = Len(slots)
  BY <1>3, <1>4, <1>5, <1>6, ExceptSeq
<1>8. lost' = lost \cup {batch[i].id : i \in 1 .. Len(batch)}
  BY DEF TransformFails
<1>9. ASSUME BufferClean PROVE BufferClean'
  <2> DEFINE old == Grown(Len(batch))
  <2>1. /\ old \in Seq(Slots)
        /\ \A i \in 1 .. Len(old) : old[i] = IF i <= Len(read_buffer) THEN read_buffer[i] ELSE NoData
    BY <1>1, GrownFacts
  <2>2. \A i \in 1 .. Len(read_buffer) : IsClean(read_buffer[i], lost)
    BY <1>9 DEF BufferClean, IsClean, TransformFails
  <2>3. Len(read_buffer) \in Nat /\ Len(old) \in Nat
    BY <2>1, LenProperties DEF TypeOK
  <2>4. \A i \in 1 .. Len(old) : IsClean(old[i], lost) /\ old[i] \in Slots
    BY <2>1, <2>2, <2>3, ElementOfSeq DEF IsClean
  <2>5. /\ Len(slots) = Len(old)
        /\ \A i \in 1 .. Len(old) : slots[i] =
             IF i <= f - 1 /\ batch[i].valid THEN Converted(old[i], batch[i].id) ELSE old[i]
    BY <1>1, <1>2, <2>1, GrownFacts, AfterLoopFacts DEF slots
  <2> HIDE DEF old
  <2>6. ASSUME NEW i \in 1 .. Len(old), i <= Len(batch)
        PROVE  batch[i].id \in Ids /\ lost \cup {batch[i].id} \subseteq lost'
    <3>1. i \in 1 .. Len(batch)
      BY <1>2, <2>6
    <3>2. QED
      BY <1>8, <3>1, BatchFacts
  <2>7. \A i \in 1 .. Len(old) : IsClean(slots[i], lost')
    <3> TAKE i \in 1 .. Len(old)
    <3>1. CASE i <= f - 1 /\ batch[i].valid
      <4>1. i <= Len(batch)
        BY <1>2, <2>3, <3>1
      <4>2. Converted(old[i], batch[i].id) \subseteq lost'
        BY <1>0, <2>4, <2>6, <4>1, ConvertedAdds
      <4>3. QED
        BY <2>5, <3>1, <4>2 DEF IsClean
    <3>2. CASE ~(i <= f - 1 /\ batch[i].valid)
      BY <1>8, <2>4, <2>5, <3>2 DEF IsClean
    <3>3. QED
      BY <3>1, <3>2
  <2>8. f \in 1 .. Len(old) /\ slots[f] = old[f] /\ f <= Len(batch)
    BY <1>2, <1>4, <2>5
  <2>9. \A c \in HalfConverted(slots[f], batch[f].id) : IsClean(c, lost')
    <3>1. Created(old[f]) \subseteq lost' /\ Converted(old[f], batch[f].id) \subseteq lost'
      BY <1>0, <1>1, <2>4, <2>6, <2>8, ConvertedAdds
    <3>2. QED
      BY <2>8, <3>1 DEF HalfConverted, IsClean
  <2>10. \A i \in 1 .. Len(slots) : IsClean(read_buffer'[i], lost')
    BY <1>3, <1>5, <2>5, <2>7, <2>9
  <2>11. QED
    BY <1>7, <2>10 DEF BufferClean, IsClean
<1>10. QED
  BY <1>3, <1>7, <1>8, <1>9 DEF TransformFails

(* The state is well typed from the start.                                  *)
LEMMA InitTypeOK == Init => TypeOK
<1> SUFFICES ASSUME Init PROVE TypeOK
  OBVIOUS
<1>1. lost \subseteq Ids /\ read_buffer_loaned \in BOOLEAN /\ kind \in {"serialize", "deserialize"}
  BY Zenon DEF Init
<1>2. read_buffer \in Seq(Slots) /\ input \in Seq(Inputs) /\ Len(read_buffer) = 0 /\ Len(input) = 0
  BY EmptySeq DEF Init
<1>3. out_count \in 0 .. MaxBatch /\ seen \in 0 .. MaxSamples
  BY BatchAssumption DEF Init
<1>4. QED
  BY <1>1, <1>2, <1>3, BatchAssumption DEF TypeOK, Slots, Inputs

(* Every step keeps the state well typed, whatever may fail.                *)
LEMMA StepTypeOK == TypeOK /\ [Next]_vars => TypeOK'
<1> SUFFICES ASSUME TypeOK, [Next]_vars PROVE TypeOK'
  OBVIOUS
<1> USE BatchAssumption
<1>1. ASSUME NEW batch \in Batches, Transform(batch) PROVE TypeOK'
  <2>1. /\ batch \in Seq(Inputs) /\ Len(batch) \in 1 .. MaxBatch
        /\ seen + Len(batch) \in 0 .. MaxSamples
    BY BatchFacts
  <2>2. Len(batch) \in 0 .. Len(batch)
    BY <2>1
  <2>3. read_buffer' \in Seq(Slots) /\ Len(read_buffer') \in 1 .. MaxBatch
    BY <1>1, <2>2, LoopFacts DEF Transform
  <2>4. out_count' \in 0 .. MaxBatch
    <3>1. out_count' = ValidCount(batch)
      BY <1>1 DEF Transform
    <3>2. ValidCount(batch) \in 0 .. Len(batch)
      BY <2>1, ValidCountFacts
    <3>3. QED
      BY <2>1, <3>1, <3>2
  <2>5. QED
    BY <1>1, <2>1, <2>3, <2>4 DEF Transform, TypeOK, Slots, Inputs
<1>2. ASSUME NEW batch \in Batches, NEW f \in 1 .. Len(batch), TransformFails(batch, f)
      PROVE  TypeOK'
  <2>1. seen + Len(batch) \in 0 .. MaxSamples
    BY BatchFacts
  <2>2. /\ read_buffer' \in Seq(Slots) /\ Len(read_buffer') \in 1 .. MaxBatch
        /\ seen' = seen + Len(batch) /\ UNCHANGED <<read_buffer_loaned, input, out_count, kind>>
    BY <1>2, FailureFacts
  <2>3. lost' \subseteq Ids
    <3>1. lost \subseteq Ids /\ lost' = lost \cup {batch[i].id : i \in 1 .. Len(batch)}
      BY <1>2, FailureFacts DEF TypeOK
    <3>2. \A i \in 1 .. Len(batch) : batch[i].id \in Ids
      BY BatchFacts
    <3>3. QED
      BY <3>1, <3>2
  <2>4. QED
    BY <2>1, <2>2, <2>3 DEF TypeOK, Slots
<1>3. ASSUME NEW batch \in Batches, TransformCannotGrow(batch) \/ TransformRefused(batch)
      PROVE  TypeOK'
  <2>1. seen + Len(batch) \in 0 .. MaxSamples
    BY BatchFacts
  <2>2. QED
    BY <1>3, <2>1 DEF TypeOK, TransformCannotGrow, TransformRefused
<1>4. CASE ReturnLoan
  <2> DEFINE Cleared(i) == IF i <= out_count /\ read_buffer[i] # NoData THEN {} ELSE read_buffer[i]
  <2>1. Len(read_buffer) \in Nat /\ \A i \in 1 .. Len(read_buffer) : Cleared(i) \in Slots
    BY DEF TypeOK, Slots
  <2>2. read_buffer' = [i \in 1 .. Len(read_buffer) |-> Cleared(i)]
    BY <1>4 DEF ReturnLoan
  <2> HIDE DEF Cleared
  <2>3. read_buffer' \in Seq(Slots) /\ Len(read_buffer') = Len(read_buffer)
    BY <2>1, <2>2
  <2>4. input' \in Seq(Inputs) /\ Len(input') = 0 /\ out_count' = 0
        /\ UNCHANGED <<seen, kind, lost>>
    BY <1>4, EmptySeq DEF ReturnLoan
  <2>5. read_buffer_loaned' \in BOOLEAN
    BY <1>4, Zenon DEF ReturnLoan
  <2>6. QED
    BY <2>3, <2>4, <2>5 DEF TypeOK, Slots, Inputs
<1>5. CASE UNCHANGED vars
  BY <1>5 DEF vars, TypeOK
<1>6. QED
  BY <1>1, <1>2, <1>3, <1>4, <1>5 DEF Next

-----------------------------------------------------------------------------
(* What the samples hold.                                                   *)
ContentInv == LentExact /\ BufferClean

(* transform() lends out exactly its batch.                                 *)
LEMMA TransformLends ==
  ASSUME "invalid" \notin Faults, TypeOK, ContentInv, NEW batch \in Batches, Transform(batch)
  PROVE  ContentInv'
<1>0. PICK start \in Nat : start = seen
  BY BatchAssumption DEF TypeOK
<1> DEFINE old == Grown(Len(batch))
<1>1. /\ batch \in Seq(Inputs) /\ Len(batch) \in 1 .. MaxBatch
      /\ \A k \in 1 .. Len(batch) :
           batch[k].id = start + k /\ start + k \in Ids /\ batch[k].valid = TRUE
  <2>1. /\ batch \in Seq(Inputs) /\ Len(batch) \in 1 .. MaxBatch
        /\ \A k \in 1 .. Len(batch) :
             batch[k].id = seen + k /\ seen + k \in Ids /\ batch[k].valid = TRUE
    BY BatchFacts, Zenon
  <2>2. QED
    BY <1>0, <2>1
<1>2. /\ ~read_buffer_loaned /\ input' = batch /\ UNCHANGED <<kind, lost>>
      /\ out_count' = Len(batch) /\ read_buffer_loaned' = TRUE
      /\ read_buffer' = AfterLoop(old, batch, Len(batch))
  BY <1>1, ValidCountFacts DEF Transform
<1>3. /\ old \in Seq(Slots)
      /\ \A k \in 1 .. Len(old) :
           old[k] = IF k <= Len(read_buffer) THEN read_buffer[k] ELSE NoData
  BY <1>1, GrownFacts
<1>4. /\ Len(batch) <= Len(old) /\ Len(read_buffer') = Len(old) /\ Len(old) \in Nat
      /\ \A k \in 1 .. Len(old) :
           read_buffer'[k] = IF k <= Len(batch) /\ batch[k].valid
                             THEN Converted(old[k], batch[k].id) ELSE old[k]
  <2>1. Len(batch) \in 0 .. Len(batch) /\ Len(batch) <= Len(old) /\ Len(old) \in Nat
    BY <1>1, GrownFacts
  <2>2. QED
    BY <1>1, <1>2, <1>3, <2>1, AfterLoopFacts
<1>5. \A k \in 1 .. Len(old) : IsClean(old[k], lost)
  BY <1>2, <1>3 DEF ContentInv, BufferClean, IsClean, TypeOK
<1> HIDE DEF old
<1>6. ASSUME NEW k \in 1 .. Len(batch)
      PROVE  /\ input'[k].valid = TRUE /\ input'[k].id = start + k
             /\ start + k \in read_buffer'[k]
             /\ read_buffer'[k] \ {start + k} \subseteq Leftovers'
  <2>1. k \in 1 .. Len(old) /\ k <= Len(batch)
    BY <1>1, <1>4
  <2>2. read_buffer'[k] = Converted(old[k], start + k)
    BY <1>1, <1>4, <2>1
  <2>3. old[k] \in Slots /\ start + k \in Ids
    BY <1>1, <1>3, <2>1, ElementOfSeq
  <2>4. /\ start + k \in read_buffer'[k]
        /\ read_buffer'[k] \ {start + k} \subseteq Leftovers
    <3>1. lost \in SUBSET Ids
      BY DEF TypeOK
    <3>2. Converted(old[k], start + k) \subseteq lost \cup {start + k}
      BY <1>5, <2>1, <2>3, <3>1, ConvertedAdds
    <3>3. QED
      BY <2>2, <2>3, <3>2, ConvertedFacts DEF Leftovers
  <2>5. QED
    BY <1>1, <1>2, <2>4 DEF Leftovers
<1>7. \A k \in 1 .. Len(read_buffer') : k > Len(input') => IsClean(read_buffer'[k], lost')
  BY <1>1, <1>2, <1>4, <1>5
<1>8. LentFrom(start)'
  <2>1. Len(input') <= Len(read_buffer') /\ out_count' = Len(input')
    BY <1>2, <1>4
  <2>2. QED
    BY <1>2, <1>6, <1>7, <2>1 DEF LentFrom
<1>9. LentExact'
  BY <1>8 DEF LentExact
<1>10. BufferClean'
  BY <1>2 DEF BufferClean
<1>11. QED
  BY <1>9, <1>10 DEF ContentInv

(* return_loan() leaves every sample clean, but for batches given up        *)
(* before: out_count is the number of samples lent.                         *)
LEMMA ReturnCleans ==
  ASSUME TypeOK, ContentInv, ReturnLoan
  PROVE  ContentInv'
<1>1. /\ read_buffer_loaned /\ read_buffer_loaned' = FALSE /\ UNCHANGED lost
      /\ read_buffer' = [i \in 1 .. Len(read_buffer) |->
           IF i <= out_count /\ read_buffer[i] # NoData THEN {} ELSE read_buffer[i]]
  BY DEF ReturnLoan
<1>2. PICK start \in Nat : LentFrom(start)
  BY <1>1 DEF ContentInv, LentExact
<1>3. Len(read_buffer) \in Nat /\ Len(input) \in Nat
  BY LenProperties DEF TypeOK
<1>4. /\ Len(read_buffer') = Len(read_buffer)
      /\ \A i \in 1 .. Len(read_buffer) : read_buffer'[i] =
           IF i <= out_count /\ read_buffer[i] # NoData THEN {} ELSE read_buffer[i]
  BY <1>1, <1>3
<1>5. ASSUME NEW i \in 1 .. Len(read_buffer')
      PROVE  IsClean(read_buffer'[i], lost')
  <2>1. CASE i <= out_count
    BY <1>4, <1>5, <2>1 DEF IsClean
  <2>2. CASE ~(i <= out_count)
    <3>1. out_count = Len(input) /\ i > Len(input) /\ i \in 1 .. Len(read_buffer)
      BY <1>2, <1>3, <1>4, <1>5, <2>2 DEF LentFrom
    <3>2. IsClean(read_buffer[i], lost)
      BY <1>1, <1>2, <1>5, <3>1 DEF LentFrom
    <3>3. QED
      BY <1>1, <1>4, <2>2, <3>1, <3>2
  <2>3. QED
    BY <2>1, <2>2
<1>6. QED
  BY <1>1, <1>5 DEF ContentInv, LentExact, BufferClean, IsClean

(* Every step keeps what is known of the samples.                           *)
LEMMA StepContent ==
  ASSUME "invalid" \notin Faults
  PROVE  TypeOK /\ ContentInv /\ [Next]_vars => ContentInv'
<1> SUFFICES ASSUME TypeOK, ContentInv, [Next]_vars PROVE ContentInv'
  OBVIOUS
<1>1. ASSUME NEW batch \in Batches, Transform(batch) PROVE ContentInv'
  BY <1>1, TransformLends
<1>2. ASSUME NEW batch \in Batches, NEW f \in 1 .. Len(batch), TransformFails(batch, f)
      PROVE  ContentInv'
  <2>1. ~read_buffer_loaned' /\ BufferClean'
    BY <1>2, FailureFacts DEF ContentInv
  <2>2. QED
    BY <2>1 DEF ContentInv, LentExact
<1>3. ASSUME NEW batch \in Batches, TransformCannotGrow(batch) \/ TransformRefused(batch)
      PROVE  ContentInv'
  <2>1. UNCHANGED <<read_buffer, read_buffer_loaned, input, out_count, kind, lost>>
    BY <1>3 DEF TransformCannotGrow, TransformRefused
  <2>2. QED
    BY <2>1 DEF ContentInv, LentExact, LentFrom, Leftovers, BufferClean
<1>4. CASE ReturnLoan
  BY <1>4, ReturnCleans
<1>5. CASE UNCHANGED vars
  BY <1>5 DEF vars, ContentInv, LentExact, LentFrom, Leftovers, BufferClean
<1>6. QED
  BY <1>1, <1>2, <1>3, <1>4, <1>5 DEF Next

(* Position k of the batch holds the k-th smallest identity.                *)
LEMMA RankOfInput ==
  ASSUME TypeOK, NEW start \in Nat, LentFrom(start), NEW k \in 1 .. Len(input)
  PROVE  /\ start + k \in ValidIds
         /\ Cardinality({v \in ValidIds : v < start + k}) = k - 1
<1>1. Len(input) \in Nat
  BY LenProperties DEF TypeOK
<1>2. ValidIds = {start + i : i \in 1 .. Len(input)}
  BY DEF ValidIds, LentFrom
<1>3. {v \in ValidIds : v < start + k} = (start + 1) .. (start + k - 1)
  <2>1. ASSUME NEW v \in (start + 1) .. (start + k - 1) PROVE v \in ValidIds /\ v < start + k
    <3>1. v - start \in 1 .. Len(input) /\ v = start + (v - start)
      BY <1>1
    <3>2. QED
      BY <1>1, <1>2, <3>1
  <2>2. ASSUME NEW v \in ValidIds, v < start + k PROVE v \in (start + 1) .. (start + k - 1)
    BY <1>1, <1>2, <2>2
  <2>3. QED
    BY <2>1, <2>2
<1>4. Cardinality((start + 1) .. (start + k - 1)) = k - 1
  <2>1. start + 1 \in Int /\ start + k - 1 \in Int
    BY <1>1
  <2>2. Cardinality((start + 1) .. (start + k - 1)) =
          IF start + 1 > start + k - 1 THEN 0 ELSE (start + k - 1) - (start + 1) + 1
    BY <2>1, FS_Interval
  <2>3. QED
    BY <1>1, <2>2
<1>5. QED
  BY <1>2, <1>3, <1>4

(* The samples lent are as OutputsExact says.                               *)
LEMMA LentIsExact == TypeOK /\ LentExact => OutputsExact
<1> SUFFICES ASSUME TypeOK, LentExact, read_buffer_loaned, NEW k \in 1 .. out_count
             PROVE  \E id \in ValidIds :
                      /\ Cardinality({v \in ValidIds : v < id}) = k - 1
                      /\ id \in read_buffer[k]
                      /\ read_buffer[k] \ {id} \subseteq Leftovers
  BY DEF OutputsExact
<1>1. PICK start \in Nat : LentFrom(start)
  BY DEF LentExact
<1>2. k \in 1 .. Len(input)
  BY <1>1 DEF LentFrom
<1>3. QED
  BY <1>1, <1>2, RankOfInput DEF LentFrom

-----------------------------------------------------------------------------
(* The state of a transformation is always well typed: read_buffer never    *)
(* grows beyond the largest batch.                                          *)
THEOREM TypeCorrect == Spec => []TypeOK
<1>1. QED
  BY InitTypeOK, StepTypeOK, PTL DEF Spec

(* Where every sample has valid data, what is known of the samples holds in *)
(* every state.                                                             *)
THEOREM Invariance ==
  ASSUME "invalid" \notin Faults
  PROVE  Spec => [](TypeOK /\ ContentInv)
<1>1. Init => TypeOK /\ ContentInv
  <2>1. Init => ContentInv
    BY DEF Init, ContentInv, LentExact, BufferClean
  <2>2. QED
    BY <2>1, InitTypeOK
<1>2. TypeOK /\ ContentInv /\ [Next]_vars => (TypeOK /\ ContentInv)'
  BY StepTypeOK, StepContent
<1>3. QED
  BY <1>1, <1>2, PTL DEF Spec

(* Where every sample has valid data, a transformation hands out the        *)
(* conversions of its batch in order and nothing of any other sample,       *)
(* through failures of conversions and of allocations.                      *)
THEOREM ExactOutputs ==
  ASSUME "invalid" \notin Faults
  PROVE  Spec => []OutputsExact
<1>1. TypeOK /\ ContentInv => OutputsExact
  BY LentIsExact DEF ContentInv
<1>2. QED
  BY <1>1, Invariance, PTL

(* Where every sample has valid data, the reused samples hold nothing       *)
(* between two batches, unless one was given up half-way.                   *)
THEOREM CleanBuffer ==
  ASSUME "invalid" \notin Faults
  PROVE  Spec => []BufferClean
<1>1. ContentInv => BufferClean
  BY DEF ContentInv
<1>2. QED
  BY <1>1, Invariance, PTL
============================================================================
