---------------------- MODULE KafkaStreamReader_proof ----------------------
(***************************************************************************)
(* Proofs about KafkaStreamReader for every MaxPolls and every set of       *)
(* failures.  The inductive invariant IInv is preserved part by part: types,*)
(* the baton, the life of the message objects, delivery, deletion.          *)
(***************************************************************************)
EXTENDS KafkaStreamReader, SequenceTheorems, TLAPS

(* The initial state, as create_stream_reader leaves it, satisfies IInv.    *)
LEMMA InitIInv == Init => IInv
<1> SUFFICES ASSUME Init PROVE IInv
  OBVIOUS
<1>1. TypeOK
  <2>1. polled \in Seq({"msg", "err"}) /\ Len(polled) <= MaxPolls
        /\ delivered \in Seq(Objects)
    BY EmptySeq, MaxPollsAssumption DEF Init
  <2>2. freed \in [Objects -> Nat] /\ rkm = NULL /\ payload = NULL
        /\ poll_sem \in {0, 1} /\ read_sem \in {0, 1} /\ failed \subseteq FaultKinds
    BY DEF Init
  <2>3. run_thread \in BOOLEAN /\ notified \in BOOLEAN /\ session_on \in BOOLEAN
        /\ pc \in PollPcs /\ sess \in SessPcs /\ owner \in OwnerPcs
    BY Zenon DEF Init, PollPcs, SessPcs, OwnerPcs
  <2>4. QED
    BY <2>1, <2>2, <2>3 DEF TypeOK
<1>2. BatonExclusive /\ MessageLiveWhileUsed /\ FetchedIsNewest
      /\ SilentOnlyUnread /\ NoThreadInFreedReader
  BY DEF Init, BatonExclusive, MessageLiveWhileUsed, ThreadHolds, SessionHolds,
         FetchedIsNewest, SilentOnlyUnread, BatonDropped, NoThreadInFreedReader, NULL
<1>3. DeletedAfterStop
  BY Zenon DEF Init, DeletedAfterStop
<1>4. DestroyedExactlyOnce /\ DeliveredInOrder /\ AllDestroyedBeforePoll
      /\ NewestNotDelivered /\ NewestDelivered /\ NoMessageLost
  BY MaxPollsAssumption
  DEF Init, DestroyedExactlyOnce, DeliveredInOrder, AllDestroyedBeforePoll,
      NewestNotDelivered, NewestDelivered, NoMessageLost, Objects
<1>5. QED
  BY <1>1, <1>2, <1>3, <1>4 DEF IInv

(* Every step keeps the state well typed.  Only a message that is live is   *)
(* delivered, which is why the life of the objects is a hypothesis.         *)
LEMMA StepTypeOK ==
  TypeOK /\ MessageLiveWhileUsed /\ [Next]_vars => TypeOK'
<1> SUFFICES ASSUME TypeOK, MessageLiveWhileUsed, [Next]_vars
             PROVE  TypeOK'
  OBVIOUS
<1> USE MaxPollsAssumption DEF TypeOK, Objects, NULL, PollPcs, SessPcs, OwnerPcs,
           FaultKinds, libVars, selfVars, sessVars
<1>0. Destroyed \in [Objects -> Nat]
  BY DEF Destroyed
<1>1. CASE TestRunThread
  BY <1>1 DEF TestRunThread
<1>2. CASE TakePollSem
  BY <1>2 DEF TakePollSem
<1>3. CASE TakePollSemFails
  BY <1>3 DEF TakePollSemFails, SemaphoreFails
<1>4. CASE PollTimeout
  BY <1>4 DEF PollTimeout
<1>5. ASSUME NEW kind \in {"msg", "err"}, PollReturns(kind)
      PROVE  TypeOK'
  <2>1. /\ polled' \in Seq({"msg", "err"})
        /\ Len(polled') = Len(polled) + 1 /\ polled'[Len(polled) + 1] = kind
        /\ \A i \in 1 .. Len(polled) : polled'[i] = polled[i]
    BY <1>5, AppendProperties DEF PollReturns, TypeOK
  <2>2. QED
    BY <1>5, <2>1 DEF PollReturns
<1>6. CASE HandleTimeout
  BY <1>6, ZenonT(30) DEF HandleTimeout, SemaphoreFails
<1>7. CASE HandleConsumerError
  <2>1. freed' \in [Objects -> Nat] /\ poll_sem' \in {0, 1} /\ pc' \in PollPcs
        /\ failed' \subseteq FaultKinds
    BY <1>0, <1>7 DEF HandleConsumerError, ErrorCleanup
  <2>2. QED
    BY <1>7, <2>1 DEF HandleConsumerError
<1>8. CASE LoanPayload
  BY <1>8 DEF LoanPayload
<1>9. CASE LoanPayloadFails
  <2>1. payload' \in Objects \cup {NULL} /\ freed' \in [Objects -> Nat]
        /\ poll_sem' \in {0, 1} /\ pc' \in PollPcs /\ failed' \subseteq FaultKinds
    BY <1>0, <1>9 DEF LoanPayloadFails, ErrorCleanup
  <2>2. QED
    BY <1>9, <2>1 DEF LoanPayloadFails
<1>10. CASE OnDataAvailable
  BY <1>10 DEF OnDataAvailable
<1>11. CASE GiveReadSem
  BY <1>11, ZenonT(30) DEF GiveReadSem, SemaphoreFails
<1>12. CASE CallRead
  BY <1>12 DEF CallRead
<1>13. CASE ReadTakeSem
  BY <1>13 DEF ReadTakeSem
<1>14. CASE ReadTakeSemFails
  BY <1>14 DEF ReadTakeSemFails, SemaphoreFails
<1>15. CASE ReadSetsSample
  <2>1. /\ delivered' \in Seq(Objects)
        /\ Len(delivered') = Len(delivered) + 1
        /\ delivered'[Len(delivered) + 1] = payload
        /\ \A i \in 1 .. Len(delivered) : delivered'[i] = delivered[i]
    BY <1>15, AppendProperties DEF ReadSetsSample, TypeOK, MessageLiveWhileUsed,
                                 SessionHolds, Objects, NULL
  <2>2. QED
    BY <1>15, <2>1 DEF ReadSetsSample
<1>16. CASE ReadSetFails
  BY <1>16 DEF ReadSetFails
<1>17. CASE ReturnLoan
  <2>1. freed' \in [Objects -> Nat] /\ poll_sem' \in {0, 1} /\ sess' \in SessPcs
        /\ failed' \subseteq FaultKinds
    BY <1>0, <1>17 DEF ReturnLoan, SemaphoreFails
  <2>2. QED
    BY <1>17, <2>1 DEF ReturnLoan, SemaphoreFails
<1>18. CASE StopSession
  BY <1>18 DEF StopSession
<1>19. CASE DeleteBegin
  BY <1>19 DEF DeleteBegin
<1>20. CASE DeleteJoins
  <2>1. failed' \subseteq FaultKinds
    BY <1>20 DEF DeleteJoins
  <2>2. QED
    BY <1>20, <2>1 DEF DeleteJoins
<1>21. CASE DeleteCleansUp
  BY <1>21 DEF DeleteCleansUp
<1>22. CASE UNCHANGED vars
  BY <1>22 DEF vars
<1>q. QED
  BY <1>1, <1>2, <1>3, <1>4, <1>5, <1>6, <1>7, <1>8, <1>9, <1>10, <1>11, <1>12, <1>13,
     <1>14, <1>15, <1>16, <1>17, <1>18, <1>19, <1>20, <1>21, <1>22
  DEF Next, PollingThread, PollingSteps, SessionCalls, SessionSteps, Delete

(* Every step passes the baton on, keeps it or drops it.                    *)
LEMMA StepBaton ==
  TypeOK /\ BatonExclusive /\ [Next]_vars => BatonExclusive'
<1> SUFFICES ASSUME TypeOK, BatonExclusive, [Next]_vars
             PROVE  BatonExclusive'
  OBVIOUS
<1> USE DEF TypeOK, BatonExclusive, ThreadHolds, SessionHolds, PollPcs, SessPcs,
           libVars, selfVars, sessVars
<1>1. CASE TestRunThread
  BY <1>1 DEF TestRunThread
<1>2. CASE TakePollSem
  BY <1>2 DEF TakePollSem
<1>3. CASE TakePollSemFails
  BY <1>3 DEF TakePollSemFails, SemaphoreFails
<1>4. CASE PollTimeout
  BY <1>4 DEF PollTimeout
<1>5. ASSUME NEW kind \in {"msg", "err"}, PollReturns(kind)
      PROVE  BatonExclusive'
  BY <1>5 DEF PollReturns
<1>6. CASE HandleTimeout
  BY <1>6 DEF HandleTimeout, SemaphoreFails
<1>7. CASE HandleConsumerError
  BY <1>7 DEF HandleConsumerError, ErrorCleanup, Destroyed
<1>8. CASE LoanPayload
  BY <1>8 DEF LoanPayload
<1>9. CASE LoanPayloadFails
  BY <1>9 DEF LoanPayloadFails, ErrorCleanup, Destroyed
<1>10. CASE OnDataAvailable
  BY <1>10 DEF OnDataAvailable
<1>11. CASE GiveReadSem
  BY <1>11 DEF GiveReadSem, SemaphoreFails
<1>12. CASE CallRead
  BY <1>12 DEF CallRead
<1>13. CASE ReadTakeSem
  BY <1>13 DEF ReadTakeSem
<1>14. CASE ReadTakeSemFails
  BY <1>14 DEF ReadTakeSemFails, SemaphoreFails
<1>15. CASE ReadSetsSample
  BY <1>15 DEF ReadSetsSample
<1>16. CASE ReadSetFails
  BY <1>16 DEF ReadSetFails
<1>17. CASE ReturnLoan
  BY <1>17 DEF ReturnLoan, SemaphoreFails, Destroyed
<1>18. CASE StopSession
  BY <1>18 DEF StopSession
<1>19. CASE DeleteBegin
  BY <1>19 DEF DeleteBegin
<1>20. CASE DeleteJoins
  BY <1>20 DEF DeleteJoins
<1>21. CASE DeleteCleansUp
  BY <1>21 DEF DeleteCleansUp
<1>22. CASE UNCHANGED vars
  BY <1>22 DEF vars
<1>q. QED
  BY <1>1, <1>2, <1>3, <1>4, <1>5, <1>6, <1>7, <1>8, <1>9, <1>10, <1>11, <1>12, <1>13,
     <1>14, <1>15, <1>16, <1>17, <1>18, <1>19, <1>20, <1>21, <1>22
  DEF Next, PollingThread, PollingSteps, SessionCalls, SessionSteps, Delete

(* The life of the message objects; these four parts need each other.       *)
MemoryInv ==
  /\ MessageLiveWhileUsed /\ DestroyedExactlyOnce
  /\ FetchedIsNewest /\ AllDestroyedBeforePoll

(* A step destroys the newest object only, and only while it is live.       *)
LEMMA StepMemory ==
  TypeOK /\ BatonExclusive /\ MemoryInv /\ [Next]_vars => MemoryInv'
<1> SUFFICES ASSUME TypeOK, BatonExclusive, MemoryInv, [Next]_vars
             PROVE  MemoryInv'
  OBVIOUS
<1> USE MaxPollsAssumption DEF TypeOK, Objects, NULL, PollPcs, SessPcs, BatonExclusive, ThreadHolds,
           SessionHolds, MemoryInv, MessageLiveWhileUsed, DestroyedExactlyOnce,
           FetchedIsNewest, AllDestroyedBeforePoll, libVars, selfVars, sessVars
<1>1. CASE TestRunThread
  BY <1>1 DEF TestRunThread
<1>2. CASE TakePollSem
  BY <1>2 DEF TakePollSem
<1>3. CASE TakePollSemFails
  BY <1>3 DEF TakePollSemFails, SemaphoreFails
<1>4. CASE PollTimeout
  BY <1>4 DEF PollTimeout
<1>5. ASSUME NEW kind \in {"msg", "err"}, PollReturns(kind)
      PROVE  MemoryInv'
  <2>1. /\ polled' \in Seq({"msg", "err"})
        /\ Len(polled') = Len(polled) + 1 /\ polled'[Len(polled) + 1] = kind
        /\ \A i \in 1 .. Len(polled) : polled'[i] = polled[i]
    BY <1>5, AppendProperties DEF PollReturns, TypeOK
  <2>2. MessageLiveWhileUsed'
    BY <1>5, <2>1 DEF PollReturns
  <2>3. DestroyedExactlyOnce'
    BY <1>5, <2>1 DEF PollReturns
  <2>4. FetchedIsNewest'
    BY <1>5, <2>1 DEF PollReturns
  <2>5. AllDestroyedBeforePoll'
    BY <1>5, <2>1 DEF PollReturns
  <2>6. QED
    BY <2>2, <2>3, <2>4, <2>5
<1>6. CASE HandleTimeout
  BY <1>6 DEF HandleTimeout, SemaphoreFails
<1>7. CASE HandleConsumerError
  BY <1>7 DEF HandleConsumerError, ErrorCleanup, Destroyed
<1>8. CASE LoanPayload
  BY <1>8 DEF LoanPayload
<1>9. CASE LoanPayloadFails
  BY <1>9 DEF LoanPayloadFails, ErrorCleanup, Destroyed
<1>10. CASE OnDataAvailable
  BY <1>10 DEF OnDataAvailable
<1>11. CASE GiveReadSem
  BY <1>11 DEF GiveReadSem, SemaphoreFails
<1>12. CASE CallRead
  BY <1>12 DEF CallRead
<1>13. CASE ReadTakeSem
  BY <1>13 DEF ReadTakeSem
<1>14. CASE ReadTakeSemFails
  BY <1>14 DEF ReadTakeSemFails, SemaphoreFails
<1>15. CASE ReadSetsSample
  BY <1>15 DEF ReadSetsSample
<1>16. CASE ReadSetFails
  BY <1>16 DEF ReadSetFails
<1>17. CASE ReturnLoan
  <2>1. MessageLiveWhileUsed'
    BY <1>17 DEF ReturnLoan, SemaphoreFails, Destroyed
  <2>2. DestroyedExactlyOnce'
    BY <1>17 DEF ReturnLoan, SemaphoreFails, Destroyed
  <2>3. FetchedIsNewest'
    BY <1>17 DEF ReturnLoan, SemaphoreFails, Destroyed
  <2>4. AllDestroyedBeforePoll'
    BY <1>17 DEF ReturnLoan, SemaphoreFails, Destroyed
  <2>5. QED
    BY <2>1, <2>2, <2>3, <2>4
<1>18. CASE StopSession
  BY <1>18 DEF StopSession
<1>19. CASE DeleteBegin
  BY <1>19 DEF DeleteBegin
<1>20. CASE DeleteJoins
  BY <1>20 DEF DeleteJoins
<1>21. CASE DeleteCleansUp
  BY <1>21 DEF DeleteCleansUp
<1>22. CASE UNCHANGED vars
  BY <1>22 DEF vars
<1>q. QED
  BY <1>1, <1>2, <1>3, <1>4, <1>5, <1>6, <1>7, <1>8, <1>9, <1>10, <1>11, <1>12, <1>13,
     <1>14, <1>15, <1>16, <1>17, <1>18, <1>19, <1>20, <1>21, <1>22
  DEF Next, PollingThread, PollingSteps, SessionCalls, SessionSteps, Delete

(* Delivery: order, no repetition, no loss.                                 *)
DeliveryInv ==
  DeliveredInOrder /\ NewestNotDelivered /\ NewestDelivered /\ NoMessageLost

(* Only read() delivers, the newest message, and only once; the next poll   *)
(* waits for it.                                                            *)
LEMMA StepDelivery ==
  TypeOK /\ BatonExclusive /\ MessageLiveWhileUsed /\ FetchedIsNewest /\ DeliveryInv
    /\ [Next]_vars => DeliveryInv'
<1> SUFFICES ASSUME TypeOK, BatonExclusive, MessageLiveWhileUsed, FetchedIsNewest, DeliveryInv, [Next]_vars
             PROVE  DeliveryInv'
  OBVIOUS
<1> USE MaxPollsAssumption DEF TypeOK, Objects, NULL, PollPcs, SessPcs, BatonExclusive, ThreadHolds,
           SessionHolds, MessageLiveWhileUsed, FetchedIsNewest, DeliveryInv,
           DeliveredInOrder, NewestNotDelivered, OnItsWay, NewestDelivered,
           NoMessageLost, libVars, selfVars, sessVars
<1>1. CASE TestRunThread
  BY <1>1 DEF TestRunThread
<1>2. CASE TakePollSem
  BY <1>2 DEF TakePollSem
<1>3. CASE TakePollSemFails
  BY <1>3 DEF TakePollSemFails, SemaphoreFails
<1>4. CASE PollTimeout
  BY <1>4 DEF PollTimeout
<1>5. ASSUME NEW kind \in {"msg", "err"}, PollReturns(kind)
      PROVE  DeliveryInv'
  <2>1. /\ polled' \in Seq({"msg", "err"})
        /\ Len(polled') = Len(polled) + 1 /\ polled'[Len(polled) + 1] = kind
        /\ \A i \in 1 .. Len(polled) : polled'[i] = polled[i]
    BY <1>5, AppendProperties DEF PollReturns, TypeOK
  <2>2. DeliveredInOrder' /\ NewestNotDelivered'
    <3>1. delivered' = delivered
      BY <1>5 DEF PollReturns
    <3>2. ASSUME NEW i \in 1 .. Len(delivered)
          PROVE  /\ delivered[i] \in 1 .. Len(polled') /\ polled'[delivered[i]] = "msg"
                 /\ delivered[i] < Len(polled')
      <4>1. delivered[i] \in 1 .. Len(polled) /\ polled[delivered[i]] = "msg"
        BY DEF DeliveredInOrder
      <4>2. Len(polled) \in Nat
        BY LenProperties
      <4>3. polled'[delivered[i]] = polled[delivered[i]]
        BY <2>1, <4>1
      <4>4. delivered[i] \in 1 .. Len(polled') /\ delivered[i] < Len(polled')
        <5> HIDE DEF TypeOK, BatonExclusive, MessageLiveWhileUsed, FetchedIsNewest,
                     DeliveryInv
        <5> QED
          BY <2>1, <4>1, <4>2
      <4>5. QED
        BY <4>1, <4>3, <4>4
    <3>3. QED
      BY <3>1, <3>2
  <2>4. NewestDelivered'
    BY <1>5, <2>1 DEF PollReturns
  <2>5. NoMessageLost'
    <3> SUFFICES ASSUME failed \cap {"payload", "semaphore"} = {},
                        NEW o \in 1 .. Len(polled), polled[o] = "msg"
                 PROVE  \E i \in 1 .. Len(delivered) : delivered[i] = o
      BY <1>5, <2>1 DEF PollReturns
    <3>1. CASE o = Len(polled)
      BY <1>5, <3>1 DEF PollReturns
    <3>2. CASE o # Len(polled)
      <4>1. o \in 1 .. Len(polled) - 1
        BY <3>2
      <4>2. QED
        BY <4>1
    <3>3. QED
      BY <3>1, <3>2
  <2>6. QED
    BY <2>2, <2>4, <2>5
<1>6. CASE HandleTimeout
  BY <1>6 DEF HandleTimeout, SemaphoreFails
<1>7. CASE HandleConsumerError
  BY <1>7 DEF HandleConsumerError, ErrorCleanup, Destroyed
<1>8. CASE LoanPayload
  BY <1>8 DEF LoanPayload
<1>9. CASE LoanPayloadFails
  BY <1>9 DEF LoanPayloadFails, ErrorCleanup, Destroyed
<1>10. CASE OnDataAvailable
  BY <1>10 DEF OnDataAvailable
<1>11. CASE GiveReadSem
  BY <1>11 DEF GiveReadSem, SemaphoreFails
<1>12. CASE CallRead
  BY <1>12 DEF CallRead
<1>13. CASE ReadTakeSem
  BY <1>13 DEF ReadTakeSem
<1>14. CASE ReadTakeSemFails
  BY <1>14 DEF ReadTakeSemFails, SemaphoreFails
<1>15. CASE ReadSetsSample
  <2>1. /\ delivered' \in Seq(Objects)
        /\ Len(delivered') = Len(delivered) + 1
        /\ delivered'[Len(delivered) + 1] = payload
        /\ \A i \in 1 .. Len(delivered) : delivered'[i] = delivered[i]
    BY <1>15, AppendProperties DEF ReadSetsSample, TypeOK, MessageLiveWhileUsed,
                                 SessionHolds, Objects, NULL
  <2>2. DeliveredInOrder'
    <3>1. /\ polled' = polled /\ payload \in 1 .. Len(polled) /\ polled[payload] = "msg"
          /\ \A i \in 1 .. Len(delivered) : delivered[i] < payload
      BY <1>15 DEF ReadSetsSample
    <3>2. ASSUME NEW i \in 1 .. Len(delivered')
          PROVE  delivered'[i] \in 1 .. Len(polled) /\ polled[delivered'[i]] = "msg"
      <4>1. CASE i \in 1 .. Len(delivered)
        BY <2>1, <4>1 DEF DeliveredInOrder
      <4>2. CASE i = Len(delivered) + 1
        BY <2>1, <3>1, <4>2
      <4>3. QED
        BY <2>1, <4>1, <4>2, LenProperties
    <3>3. ASSUME NEW i \in 1 .. Len(delivered'), NEW j \in 1 .. Len(delivered'), i < j
          PROVE  delivered'[i] < delivered'[j]
      <4>1. i \in 1 .. Len(delivered)
        BY <2>1, <3>3, LenProperties
      <4>2. CASE j \in 1 .. Len(delivered)
        BY <2>1, <3>3, <4>1, <4>2 DEF DeliveredInOrder
      <4>3. CASE j = Len(delivered) + 1
        BY <2>1, <3>1, <4>1, <4>3
      <4>4. QED
        BY <2>1, <4>2, <4>3, LenProperties
    <3>4. QED
      BY <3>1, <3>2, <3>3
  <2>3. NewestNotDelivered'
    BY <1>15, <2>1 DEF ReadSetsSample
  <2>4. NewestDelivered'
    BY <1>15, <2>1 DEF ReadSetsSample
  <2>5. NoMessageLost'
    BY <1>15, <2>1 DEF ReadSetsSample
  <2>6. QED
    BY <2>2, <2>3, <2>4, <2>5
<1>16. CASE ReadSetFails
  BY <1>16 DEF ReadSetFails
<1>17. CASE ReturnLoan
  BY <1>17 DEF ReturnLoan, SemaphoreFails, Destroyed
<1>18. CASE StopSession
  BY <1>18 DEF StopSession
<1>19. CASE DeleteBegin
  BY <1>19 DEF DeleteBegin
<1>20. CASE DeleteJoins
  BY <1>20 DEF DeleteJoins
<1>21. CASE DeleteCleansUp
  BY <1>21 DEF DeleteCleansUp
<1>22. CASE UNCHANGED vars
  BY <1>22 DEF vars
<1>q. QED
  BY <1>1, <1>2, <1>3, <1>4, <1>5, <1>6, <1>7, <1>8, <1>9, <1>10, <1>11, <1>12, <1>13,
     <1>14, <1>15, <1>16, <1>17, <1>18, <1>19, <1>20, <1>21, <1>22
  DEF Next, PollingThread, PollingSteps, SessionCalls, SessionSteps, Delete

(* Only a read() that fails drops the baton, and what it dropped is not     *)
(* destroyed or delivered afterwards.                                       *)
LEMMA StepSilence ==
  TypeOK /\ BatonExclusive /\ MessageLiveWhileUsed /\ NewestNotDelivered
  /\ SilentOnlyUnread /\ [Next]_vars => SilentOnlyUnread'
<1> SUFFICES ASSUME TypeOK, BatonExclusive, MessageLiveWhileUsed,
                    NewestNotDelivered, SilentOnlyUnread, [Next]_vars
             PROVE  SilentOnlyUnread'
  OBVIOUS
<1> USE MaxPollsAssumption DEF TypeOK, Objects, NULL, PollPcs, SessPcs, BatonExclusive,
           ThreadHolds, SessionHolds, BatonDropped, LiveMessage, MessageLiveWhileUsed,
           NewestNotDelivered, OnItsWay, SilentOnlyUnread, libVars, selfVars, sessVars
<1>1. CASE TestRunThread
  BY <1>1 DEF TestRunThread
<1>2. CASE TakePollSem
  BY <1>2 DEF TakePollSem
<1>3. CASE TakePollSemFails
  BY <1>3 DEF TakePollSemFails, SemaphoreFails
<1>4. CASE PollTimeout
  BY <1>4 DEF PollTimeout
<1>5. ASSUME NEW kind \in {"msg", "err"}, PollReturns(kind)
      PROVE  SilentOnlyUnread'
  BY <1>5 DEF PollReturns
<1>6. CASE HandleTimeout
  BY <1>6 DEF HandleTimeout, SemaphoreFails
<1>7. CASE HandleConsumerError
  BY <1>7 DEF HandleConsumerError, ErrorCleanup, Destroyed
<1>8. CASE LoanPayload
  BY <1>8 DEF LoanPayload
<1>9. CASE LoanPayloadFails
  BY <1>9 DEF LoanPayloadFails, ErrorCleanup, Destroyed
<1>10. CASE OnDataAvailable
  BY <1>10 DEF OnDataAvailable
<1>11. CASE GiveReadSem
  BY <1>11 DEF GiveReadSem, SemaphoreFails
<1>12. CASE CallRead
  BY <1>12 DEF CallRead
<1>13. CASE ReadTakeSem
  BY <1>13 DEF ReadTakeSem
<1>14. CASE ReadTakeSemFails
  BY <1>14 DEF ReadTakeSemFails, SemaphoreFails
<1>15. CASE ReadSetsSample
  BY <1>15 DEF ReadSetsSample
<1>16. CASE ReadSetFails
  BY <1>16 DEF ReadSetFails
<1>17. CASE ReturnLoan
  BY <1>17 DEF ReturnLoan, SemaphoreFails, Destroyed
<1>18. CASE StopSession
  BY <1>18 DEF StopSession
<1>19. CASE DeleteBegin
  BY <1>19 DEF DeleteBegin
<1>20. CASE DeleteJoins
  BY <1>20 DEF DeleteJoins
<1>21. CASE DeleteCleansUp
  BY <1>21 DEF DeleteCleansUp
<1>22. CASE UNCHANGED vars
  BY <1>22 DEF vars
<1>q. QED
  BY <1>1, <1>2, <1>3, <1>4, <1>5, <1>6, <1>7, <1>8, <1>9, <1>10, <1>11, <1>12, <1>13,
     <1>14, <1>15, <1>16, <1>17, <1>18, <1>19, <1>20, <1>21, <1>22
  DEF Next, PollingThread, PollingSteps, SessionCalls, SessionSteps, Delete

(* Deletion.                                                                *)
DeletionInv == DeletedAfterStop /\ NoThreadInFreedReader

(* A reader is freed after the session stopped and the thread was joined.   *)
LEMMA StepDeletion ==
  TypeOK /\ DeletionInv /\ [Next]_vars => DeletionInv'
<1> SUFFICES ASSUME TypeOK, DeletionInv, [Next]_vars
             PROVE  DeletionInv'
  OBVIOUS
<1> USE DEF TypeOK, PollPcs, SessPcs, OwnerPcs, DeletionInv, DeletedAfterStop,
           NoThreadInFreedReader, libVars, selfVars, sessVars
<1>1. CASE TestRunThread
  BY <1>1 DEF TestRunThread
<1>2. CASE TakePollSem
  BY <1>2 DEF TakePollSem
<1>3. CASE TakePollSemFails
  BY <1>3 DEF TakePollSemFails, SemaphoreFails
<1>4. CASE PollTimeout
  BY <1>4 DEF PollTimeout
<1>5. ASSUME NEW kind \in {"msg", "err"}, PollReturns(kind)
      PROVE  DeletionInv'
  BY <1>5 DEF PollReturns
<1>6. CASE HandleTimeout
  BY <1>6 DEF HandleTimeout, SemaphoreFails
<1>7. CASE HandleConsumerError
  BY <1>7 DEF HandleConsumerError, ErrorCleanup, Destroyed
<1>8. CASE LoanPayload
  BY <1>8 DEF LoanPayload
<1>9. CASE LoanPayloadFails
  BY <1>9 DEF LoanPayloadFails, ErrorCleanup, Destroyed
<1>10. CASE OnDataAvailable
  BY <1>10 DEF OnDataAvailable
<1>11. CASE GiveReadSem
  BY <1>11 DEF GiveReadSem, SemaphoreFails
<1>12. CASE CallRead
  BY <1>12 DEF CallRead
<1>13. CASE ReadTakeSem
  BY <1>13 DEF ReadTakeSem
<1>14. CASE ReadTakeSemFails
  BY <1>14 DEF ReadTakeSemFails, SemaphoreFails
<1>15. CASE ReadSetsSample
  BY <1>15 DEF ReadSetsSample
<1>16. CASE ReadSetFails
  BY <1>16 DEF ReadSetFails
<1>17. CASE ReturnLoan
  BY <1>17 DEF ReturnLoan, SemaphoreFails, Destroyed
<1>18. CASE StopSession
  BY <1>18 DEF StopSession
<1>19. CASE DeleteBegin
  BY <1>19 DEF DeleteBegin
<1>20. CASE DeleteJoins
  BY <1>20 DEF DeleteJoins
<1>21. CASE DeleteCleansUp
  BY <1>21 DEF DeleteCleansUp
<1>22. CASE UNCHANGED vars
  BY <1>22 DEF vars
<1>q. QED
  BY <1>1, <1>2, <1>3, <1>4, <1>5, <1>6, <1>7, <1>8, <1>9, <1>10, <1>11, <1>12, <1>13,
     <1>14, <1>15, <1>16, <1>17, <1>18, <1>19, <1>20, <1>21, <1>22
  DEF Next, PollingThread, PollingSteps, SessionCalls, SessionSteps, Delete

(* Every step of either thread and of the deletion preserves IInv.          *)
LEMMA StepIInv == IInv /\ [Next]_vars => IInv'
  BY StepTypeOK, StepBaton, StepMemory, StepDelivery, StepSilence, StepDeletion
  DEF IInv, MemoryInv, DeliveryInv, DeletionInv

(* The strengthened invariant holds in every state of the reader, for every *)
(* number of messages and every set of failures.                            *)
THEOREM Invariance == Spec => []IInv
<1>1. QED
  BY InitIInv, StepIInv, PTL DEF Spec

(* The reader's state is always well typed.                                 *)
THEOREM TypeCorrect == Spec => []TypeOK
<1>1. IInv => TypeOK
  BY DEF IInv
<1>2. QED
  BY <1>1, Invariance, PTL

(* poll_sem, read_sem, the polling thread and the session thread exclude    *)
(* each other as holders of rkm and payload, whatever call fails.           *)
THEOREM BatonIsExclusive == Spec => []BatonExclusive
<1>1. IInv => BatonExclusive
  BY DEF IInv
<1>2. QED
  BY <1>1, Invariance, PTL

(* read() never copies a destroyed message, although return_loan() destroys *)
(* it without resetting self->rkm.                                          *)
THEOREM MemorySafe == Spec => []MessageLiveWhileUsed
<1>1. IInv => MessageLiveWhileUsed
  BY DEF IInv
<1>2. QED
  BY <1>1, Invariance, PTL

(* No message is destroyed twice by the polling thread, read() and          *)
(* return_loan(), and at most one is alive at a time.                       *)
THEOREM DestroyedOnce == Spec => []DestroyedExactlyOnce
<1>1. IInv => DestroyedExactlyOnce
  BY DEF IInv
<1>2. QED
  BY <1>1, Invariance, PTL

(* The route sees proper messages, in order, each once.                     *)
THEOREM OrderedDelivery == Spec => []DeliveredInOrder
<1>1. IInv => DeliveredInOrder
  BY DEF IInv
<1>2. QED
  BY <1>1, Invariance, PTL

(* Unless a payload or a semaphore fails, no message is skipped.            *)
THEOREM LosslessDelivery == Spec => []NoMessageLost
<1>1. IInv => NoMessageLost
  BY DEF IInv
<1>2. QED
  BY <1>1, Invariance, PTL

(* The reader falls silent only with a message in hand that read() could    *)
(* not put into a sample, as long as the semaphores work.                   *)
THEOREM SilenceHasACause == Spec => []SilentOnlyUnread
<1>1. IInv => SilentOnlyUnread
  BY DEF IInv
<1>2. QED
  BY <1>1, Invariance, PTL

(* The reader is freed only after both threads have left it.                *)
THEOREM SafeDeletion == Spec => []NoThreadInFreedReader
<1>1. IInv => NoThreadInFreedReader
  BY DEF IInv
<1>2. QED
  BY <1>1, Invariance, PTL

-----------------------------------------------------------------------------
(* Every step of the reader is a step of the handoff or leaves it alone.    *)
LEMMA StepHandoff == IInv /\ [Next]_vars => [Handoff!Next]_Handoff!vars
<1> SUFFICES ASSUME IInv, [Next]_vars PROVE [Handoff!Next]_Handoff!vars
  OBVIOUS
<1> USE MaxPollsAssumption, FaultsAssumption
    DEF IInv, TypeOK, Objects, NULL, libVars, selfVars, sessVars, LiveMessage,
        Handoff!Next, Handoff!vars
<1>1. CASE TestRunThread
  BY <1>1 DEF TestRunThread
<1>2. CASE TakePollSem
  BY <1>2 DEF TakePollSem
<1>3. CASE TakePollSemFails
  BY <1>3 DEF TakePollSemFails, SemaphoreFails
<1>4. CASE PollTimeout
  BY <1>4 DEF PollTimeout, AllDestroyedBeforePoll, FetchedIsNewest
<1>5. ASSUME NEW kind \in {"msg", "err"}, PollReturns(kind) PROVE Handoff!Fetch
  <2>1. /\ Len(polled') = Len(polled) + 1 /\ polled'[Len(polled) + 1] = kind
    BY <1>5, AppendProperties DEF PollReturns
  <2>2. ~LiveMessage /\ sess # "loaned"
    BY <1>5 DEF PollReturns, AllDestroyedBeforePoll, FetchedIsNewest,
                 BatonExclusive, ThreadHolds, SessionHolds
  <2>3. QED
    BY <1>5, <2>1, <2>2 DEF PollReturns, Handoff!Fetch
<1>6. CASE HandleTimeout
  BY <1>6 DEF HandleTimeout, SemaphoreFails
<1>7. CASE HandleConsumerError
  BY <1>7 DEF HandleConsumerError, ErrorCleanup, Destroyed
<1>8. CASE LoanPayload
  BY <1>8 DEF LoanPayload
<1>9. CASE LoanPayloadFails
  BY <1>9 DEF LoanPayloadFails, ErrorCleanup, Destroyed, FetchedIsNewest, BatonExclusive,
     ThreadHolds, SessionHolds, Handoff!Release
<1>10. CASE OnDataAvailable
  BY <1>10 DEF OnDataAvailable
<1>11. CASE GiveReadSem
  BY <1>11 DEF GiveReadSem, SemaphoreFails
<1>12. CASE CallRead
  BY <1>12 DEF CallRead
<1>13. CASE ReadTakeSem
  BY <1>13 DEF ReadTakeSem
<1>14. CASE ReadTakeSemFails
  BY <1>14 DEF ReadTakeSemFails, SemaphoreFails
<1>15. CASE ReadSetsSample
  BY <1>15 DEF ReadSetsSample, MessageLiveWhileUsed, SessionHolds, Handoff!Lend
<1>16. CASE ReadSetFails
  BY <1>16 DEF ReadSetFails
<1>17. CASE ReturnLoan
  BY <1>17 DEF ReturnLoan, SemaphoreFails, Destroyed, MessageLiveWhileUsed, SessionHolds,
     Handoff!Release
<1>18. CASE StopSession
  BY <1>18 DEF StopSession
<1>19. CASE DeleteBegin
  BY <1>19 DEF DeleteBegin
<1>20. CASE DeleteJoins
  BY <1>20 DEF DeleteJoins
<1>21. CASE DeleteCleansUp
  BY <1>21 DEF DeleteCleansUp
<1>22. CASE UNCHANGED vars
  BY <1>22 DEF vars
<1>q. QED
  BY <1>1, <1>2, <1>3, <1>4, <1>5, <1>6, <1>7, <1>8, <1>9, <1>10, <1>11, <1>12, <1>13,
     <1>14, <1>15, <1>16, <1>17, <1>18, <1>19, <1>20, <1>21, <1>22
  DEF Next, PollingThread, PollingSteps, SessionCalls, SessionSteps, Delete

(* The reader implements the one-slot handoff for every number of messages  *)
(* and every set of failures.                                               *)
THEOREM RefinesHandoff == Spec => ImplementsHandoff
<1>1. Init => Handoff!Init
  BY DEF Init, Handoff!Init, LiveMessage, NULL
<1>2. QED
  BY <1>1, StepHandoff, Invariance, PTL DEF Spec, ImplementsHandoff, Handoff!Spec
=============================================================================
