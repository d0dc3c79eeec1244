------------------------- MODULE KafkaStreamReader -------------------------
(***************************************************************************)
(* The Kafka input of the adapter: one stream reader, its polling thread    *)
(* (KafkaStreamReader.c) and its deletion (KafkaConnection.c).              *)
(*                                                                          *)
(* Two binary semaphores pass one baton between two threads.  The polling   *)
(* thread takes poll_sem, fetches ONE message into self->rkm, loans its     *)
(* bytes to self->payload, notifies Routing Service and gives read_sem; the *)
(* session thread takes read_sem in read(), copies the payload into the     *)
(* sample, and in return_loan() destroys the message and gives poll_sem.    *)
(* self->rkm is never reset, so only the baton keeps a destroyed message    *)
(* from being used or destroyed again.                                      *)
(*                                                                          *)
(* A message object is named by its position in `polled', the sequence of   *)
(* what rd_kafka_consumer_poll() has returned: a proper message or an error *)
(* event.  Message contents do not matter here.                             *)
(*                                                                          *)
(* External, modelled from the way the adapter relies on it: librdkafka     *)
(* (a poll times out, or yields a message or an error event) and Routing    *)
(* Service (its session thread calls read() after on_data_available(),      *)
(* calls return_loan() when read() gave a sample, and may be stopped        *)
(* between two calls; a stream reader is deleted once its session stopped). *)
(***************************************************************************)
EXTENDS Integers, Sequences

CONSTANTS MaxPolls,  \* bound on the messages and error events the broker yields
          Faults     \* the failures the environment may produce

(* Which library call may fail: the consumer (an error event), the loan of *)
(* a payload (an empty message has no buffer to loan), the copy into the   *)
(* DDS sample, a semaphore operation, the join of the polling thread.      *)
FaultKinds == {"consumer", "payload", "sample", "semaphore", "join"}

ASSUME MaxPollsAssumption == MaxPolls \in Nat
ASSUME FaultsAssumption == Faults \subseteq FaultKinds

NULL == 0

VARIABLES
  polled,      \* Seq({"msg", "err"}): what consumer_poll returned; index = object
  freed,       \* freed[o]: number of rd_kafka_message_destroy() calls on object o
  rkm,         \* self->rkm: an object or NULL
  payload,     \* the object whose bytes self->payload loans, or NULL
  poll_sem,    \* binary semaphores
  read_sem,
  run_thread,
  pc,          \* control point of the polling thread
  notified,    \* Routing Service was told of data it has not read yet
  sess,        \* control point of the session thread
  session_on,  \* the session still serves the route
  delivered,   \* the objects whose bytes reached a sample, oldest first
  owner,       \* progress of delete_stream_reader
  failed       \* history: the kinds of local calls that have failed so far

libVars   == <<polled, freed>>
selfVars  == <<rkm, payload, poll_sem, read_sem, run_thread>>
sessVars  == <<notified, sess, session_on, delivered>>
vars == <<polled, freed, rkm, payload, poll_sem, read_sem, run_thread, pc,
          notified, sess, session_on, delivered, owner, failed>>

Objects == 1 .. MaxPolls
PollPcs == {"while", "take", "poll", "polled", "notify", "give", "exited"}
SessPcs == {"idle", "reading", "setting", "loaned"}
OwnerPcs == {"running", "joining", "closing", "deleted"}

TypeOK ==
  /\ polled \in Seq({"msg", "err"}) /\ Len(polled) <= MaxPolls
  /\ freed \in [Objects -> Nat]
  /\ rkm \in Objects \cup {NULL} /\ payload \in Objects \cup {NULL}
  /\ poll_sem \in {0, 1} /\ read_sem \in {0, 1}
  /\ run_thread \in BOOLEAN /\ notified \in BOOLEAN /\ session_on \in BOOLEAN
  /\ pc \in PollPcs /\ sess \in SessPcs /\ owner \in OwnerPcs
  /\ delivered \in Seq(Objects)
  /\ failed \subseteq FaultKinds

(* The state create_stream_reader leaves behind: poll_sem given once        *)
(* ("Initialize semaphore to available"), read_sem empty, thread started.   *)
Init ==
  /\ polled = <<>> /\ freed = [o \in Objects |-> 0]
  /\ rkm = NULL /\ payload = NULL
  /\ poll_sem = 1 /\ read_sem = 0 /\ run_thread = TRUE
  /\ pc = "while"
  /\ notified = FALSE /\ sess = "idle" /\ session_on = TRUE /\ delivered = <<>>
  /\ owner = "running"
  /\ failed = {}

(* rd_kafka_message_destroy(self->rkm), under the test the code makes.      *)
Destroyed == IF rkm # NULL THEN [freed EXCEPT ![rkm] = @ + 1] ELSE freed

(* A take or a give of a semaphore returns an error.                        *)
SemaphoreFails == "semaphore" \in Faults /\ failed' = failed \cup {"semaphore"}

-----------------------------------------------------------------------------
(* The polling thread.                                                      *)

TestRunThread ==
  /\ pc = "while"
  /\ pc' = IF run_thread THEN "take" ELSE "exited"
  /\ UNCHANGED <<libVars, selfVars, sessVars, owner, failed>>

TakePollSem ==
  /\ pc = "take"
  /\ poll_sem = 1
  /\ poll_sem' = 0
  /\ pc' = "poll"
  /\ UNCHANGED <<libVars, rkm, payload, read_sem, run_thread, sessVars, owner, failed>>

TakePollSemFails ==
  /\ pc = "take"
  /\ SemaphoreFails
  /\ pc' = "exited"
  /\ UNCHANGED <<libVars, selfVars, sessVars, owner>>

(* Variant: the result is stored only when there is one.                    *)
PollTimeoutKeepsRkm ==
  /\ pc = "poll"
  /\ pc' = "polled"
  /\ UNCHANGED <<libVars, selfVars, sessVars, owner, failed>>

(* self->rkm = rd_kafka_consumer_poll(...): nothing within the timeout ...  *)
PollTimeout ==
  /\ pc = "poll"
  /\ rkm' = NULL
  /\ pc' = "polled"
  /\ UNCHANGED <<libVars, payload, poll_sem, read_sem, run_thread, sessVars, owner, failed>>

(* ... or the next message or error event.                                  *)
PollReturns(kind) ==
  /\ pc = "poll"
  /\ Len(polled) < MaxPolls
  /\ kind = "err" => "consumer" \in Faults
  /\ polled' = Append(polled, kind)
  /\ rkm' = Len(polled) + 1
  /\ pc' = "polled"
  /\ UNCHANGED <<freed, payload, poll_sem, read_sem, run_thread, sessVars, owner, failed>>

(* No message: give poll_sem back and loop; return NULL if that fails.      *)
HandleTimeout ==
  /\ pc = "polled"
  /\ rkm = NULL
  /\ \/ poll_sem' = 1 /\ pc' = "while" /\ UNCHANGED failed
     \/ pc' = "exited" /\ SemaphoreFails /\ UNCHANGED poll_sem
  /\ UNCHANGED <<libVars, rkm, payload, read_sem, run_thread, sessVars, owner>>

(* `if (!error_cleanup(self)) return NULL; continue;': error_cleanup        *)
(* returns 0 when it succeeds, so the thread ends on success and loops only *)
(* when giving the semaphore failed.                                        *)
ErrorCleanup(why) ==
  /\ freed' = Destroyed
  /\ \/ poll_sem' = 1 /\ pc' = "exited" /\ failed' = failed \cup why
     \/ /\ "semaphore" \in Faults
        /\ pc' = "while" /\ failed' = failed \cup why \cup {"semaphore"}
        /\ UNCHANGED poll_sem

HandleConsumerError ==
  /\ pc = "polled"
  /\ rkm # NULL /\ polled[rkm] = "err"
  /\ ErrorCleanup({})
  /\ UNCHANGED <<polled, rkm, payload, read_sem, run_thread, sessVars, owner>>

(* Variant: the loan of the payload is left out.                            *)
LoanPayloadSkipped ==
  /\ pc = "polled"
  /\ rkm # NULL /\ polled[rkm] = "msg"
  /\ pc' = "notify"
  /\ UNCHANGED <<libVars, selfVars, sessVars, owner, failed>>

(* OctetSeq_initialize forgets the previous loan; loan_contiguous makes     *)
(* payload point into rkm.                                                  *)
LoanPayload ==
  /\ pc = "polled"
  /\ rkm # NULL /\ polled[rkm] = "msg"
  /\ payload' = rkm
  /\ pc' = "notify"
  /\ UNCHANGED <<libVars, rkm, poll_sem, read_sem, run_thread, sessVars, owner, failed>>

(* Either call fails: the first leaves the old loan, the second an empty    *)
(* sequence.                                                                *)
LoanPayloadFails ==
  /\ pc = "polled"
  /\ "payload" \in Faults
  /\ rkm # NULL /\ polled[rkm] = "msg"
  /\ payload' \in {payload, NULL}
  /\ ErrorCleanup({"payload"})
  /\ UNCHANGED <<polled, rkm, read_sem, run_thread, sessVars, owner>>

OnDataAvailable ==
  /\ pc = "notify"
  /\ notified' = TRUE
  /\ pc' = "give"
  /\ UNCHANGED <<libVars, selfVars, sess, session_on, delivered, owner, failed>>

(* Variant: the thread gives the semaphore it took.                         *)
GiveWrongSem ==
  /\ pc = "give"
  /\ poll_sem' = 1 /\ pc' = "while"
  /\ UNCHANGED <<libVars, rkm, payload, read_sem, run_thread, sessVars, owner, failed>>

GiveReadSem ==
  /\ pc = "give"
  /\ \/ read_sem' = 1 /\ pc' = "while" /\ UNCHANGED failed
     \/ pc' = "exited" /\ SemaphoreFails /\ UNCHANGED read_sem
  /\ UNCHANGED <<libVars, rkm, payload, poll_sem, run_thread, sessVars, owner>>

PollingSteps ==
  \/ TestRunThread \/ TakePollSem
  \/ PollTimeout \/ \E kind \in {"msg", "err"} : PollReturns(kind)
  \/ HandleTimeout \/ HandleConsumerError \/ LoanPayload \/ LoanPayloadFails
  \/ OnDataAvailable \/ GiveReadSem

PollingThread == PollingSteps \/ TakePollSemFails

-----------------------------------------------------------------------------
(* The session thread of Routing Service and the calls it makes.            *)

CallRead ==
  /\ sess = "idle"
  /\ session_on /\ notified
  /\ notified' = FALSE
  /\ sess' = "reading"
  /\ UNCHANGED <<libVars, selfVars, pc, session_on, delivered, owner, failed>>

ReadTakeSem ==
  /\ sess = "reading"
  /\ read_sem = 1
  /\ read_sem' = 0
  /\ sess' = "setting"
  /\ UNCHANGED <<libVars, rkm, payload, poll_sem, run_thread, pc, notified,
                 session_on, delivered, owner, failed>>

ReadTakeSemFails ==
  /\ sess = "reading"
  /\ SemaphoreFails
  /\ sess' = "idle"
  /\ UNCHANGED <<libVars, selfVars, pc, notified, session_on, delivered, owner>>

(* Variant: read() lets the next poll begin before the loan is returned.    *)
ReadGivesPollSem ==
  /\ sess = "setting"
  /\ delivered' = Append(delivered, payload)
  /\ poll_sem' = 1
  /\ sess' = "loaned"
  /\ UNCHANGED <<libVars, rkm, payload, read_sem, run_thread, pc, notified,
                 session_on, owner, failed>>

(* DDS_DynamicData_set_octet_seq copies the loaned bytes; count = 1.        *)
ReadSetsSample ==
  /\ sess = "setting"
  /\ delivered' = Append(delivered, payload)
  /\ sess' = "loaned"
  /\ UNCHANGED <<libVars, selfVars, pc, notified, session_on, owner, failed>>

(* The copy fails: read() returns an empty list and keeps the baton.        *)
ReadSetFails ==
  /\ sess = "setting"
  /\ "sample" \in Faults
  /\ sess' = "idle"
  /\ failed' = failed \cup {"sample"}
  /\ UNCHANGED <<libVars, selfVars, pc, notified, session_on, delivered, owner>>

(* Variant: return_loan() forgets to give poll_sem.                         *)
ReturnLoanKeepsBaton ==
  /\ sess = "loaned"
  /\ freed' = Destroyed
  /\ sess' = "idle"
  /\ UNCHANGED <<polled, selfVars, pc, notified, session_on, delivered, owner, failed>>

ReturnLoan ==
  /\ sess = "loaned"
  /\ freed' = Destroyed
  /\ \/ poll_sem' = 1 /\ UNCHANGED failed
     \/ SemaphoreFails /\ UNCHANGED poll_sem
  /\ sess' = "idle"
  /\ UNCHANGED <<polled, rkm, payload, read_sem, run_thread, pc, notified,
                 session_on, delivered, owner>>

StopSession ==
  /\ session_on /\ sess = "idle"
  /\ session_on' = FALSE
  /\ UNCHANGED <<libVars, selfVars, pc, notified, sess, delivered, owner, failed>>

SessionSteps ==
  CallRead \/ ReadTakeSem \/ ReadSetsSample \/ ReadSetFails \/ ReturnLoan

SessionCalls == SessionSteps \/ ReadTakeSemFails

-----------------------------------------------------------------------------
(* RTI_RS_KafkaConnection_delete_stream_reader.                             *)

DeleteBegin ==
  /\ owner = "running" /\ ~session_on
  /\ run_thread' = FALSE
  /\ owner' = "joining"
  /\ UNCHANGED <<libVars, rkm, payload, poll_sem, read_sem, pc, sessVars, failed>>

(* Variant: the thread is asked to stop and not joined.                     *)
DeleteWithoutJoin ==
  /\ owner = "joining"
  /\ owner' = "closing"
  /\ UNCHANGED <<libVars, selfVars, pc, sessVars, failed>>

(* stopAndDelete with an infinite timeout returns when the thread function  *)
(* has; its failure is logged and ignored.                                  *)
DeleteJoins ==
  /\ owner = "joining"
  /\ \/ pc = "exited" /\ UNCHANGED failed
     \/ "join" \in Faults /\ failed' = failed \cup {"join"}
  /\ owner' = "closing"
  /\ UNCHANGED <<libVars, selfVars, pc, sessVars>>

(* consumer_close, then cleanup_stream_reader frees the reader.             *)
DeleteCleansUp ==
  /\ owner = "closing"
  /\ owner' = "deleted"
  /\ UNCHANGED <<libVars, selfVars, pc, sessVars, failed>>

Delete == DeleteBegin \/ DeleteJoins \/ DeleteCleansUp

Next == PollingThread \/ SessionCalls \/ StopSession \/ Delete

Spec == Init /\ [][Next]_vars

(* Both threads are scheduled by the operating system, the session thread   *)
(* serves what it was notified of, and a started deletion goes on.  Nothing *)
(* obliges Routing Service to stop a session or to delete a reader, and no  *)
(* thread that waits for a semaphore is freed by an error of the take.      *)
Fairness ==
  /\ WF_vars(PollingSteps)
  /\ WF_vars(SessionSteps)
  /\ WF_vars(DeleteJoins \/ DeleteCleansUp)

FairSpec == Spec /\ Fairness

-----------------------------------------------------------------------------
(* The baton: who may touch rkm and payload.                                *)
ThreadHolds == pc \in {"poll", "polled", "notify", "give"}
SessionHolds == sess \in {"setting", "loaned"}

(* Nobody has the baton and nobody will give it again.                      *)
BatonDropped == poll_sem = 0 /\ read_sem = 0 /\ ~ThreadHolds /\ ~SessionHolds

(* A proper message that was fetched and not yet destroyed.                 *)
LiveMessage == rkm # NULL /\ freed[rkm] = 0 /\ polled[rkm] = "msg"

(* At most one of the two semaphores and the two threads has the baton:     *)
(* rkm and payload, which the code shares without a lock, are never touched *)
(* by the polling thread and by read()/return_loan() at the same time, and  *)
(* no semaphore is given twice, whatever fails.                             *)
BatonExclusive ==
  /\ ThreadHolds => poll_sem = 0 /\ read_sem = 0 /\ ~SessionHolds
  /\ SessionHolds => poll_sem = 0 /\ read_sem = 0
  /\ ~(poll_sem = 1 /\ read_sem = 1)

(* Between the notification and return_loan() the loaned payload points     *)
(* into the newest message, a proper one, that nobody has destroyed: read() *)
(* never copies the bytes of a destroyed message.                           *)
MessageLiveWhileUsed ==
  pc \in {"notify", "give"} \/ read_sem = 1 \/ SessionHolds
    => /\ rkm # NULL /\ rkm = Len(polled) /\ payload = rkm
       /\ polled[rkm] = "msg" /\ freed[rkm] = 0

(* No message object is destroyed twice although rkm dangles after every    *)
(* destroy, and a message is fetched only when every earlier one has been   *)
(* destroyed: a long run holds one librdkafka message at most.              *)
DestroyedExactlyOnce ==
  /\ \A o \in Objects : freed[o] <= 1 /\ (o > Len(polled) => freed[o] = 0)
  /\ \A o \in Objects : o < Len(polled) => freed[o] = 1

(* The route sees proper messages only, each at most once, in the order in  *)
(* which the consumer returned them.                                        *)
DeliveredInOrder ==
  /\ \A i, j \in 1 .. Len(delivered) : i < j => delivered[i] < delivered[j]
  /\ \A i \in 1 .. Len(delivered) :
       delivered[i] \in 1 .. Len(polled) /\ polled[delivered[i]] = "msg"

(* Fetching the next message implies that every proper message before it    *)
(* reached a sample: no poll that times out, no order of notification,      *)
(* read() and return_loan() and no read() that fails to fill its sample     *)
(* skips one.  Only a payload that cannot be loaned, or a semaphore that    *)
(* fails, loses a message.                                                  *)
NoMessageLost ==
  failed \cap {"payload", "semaphore"} = {} =>
    \A o \in 1 .. Len(polled) - 1 :
      polled[o] = "msg" => \E i \in 1 .. Len(delivered) : delivered[i] = o

(* The baton is dropped, and with it the input of the route, in one case    *)
(* only: read() could not fill its sample.  The message it took is then     *)
(* still held and was not delivered.                                        *)
SilentOnlyUnread ==
  BatonDropped /\ "semaphore" \notin failed =>
    LiveMessage /\ \A i \in 1 .. Len(delivered) : delivered[i] < rkm

(* While delete_stream_reader closes the consumer and frees the reader, no  *)
(* thread is inside the reader's code, unless the join itself failed.       *)
NoThreadInFreedReader ==
  owner \in {"closing", "deleted"} /\ "join" \notin failed
    => pc = "exited" /\ sess = "idle"

(* A proper message returned by the consumer reaches a sample, unless the   *)
(* session is stopped, read() failed and dropped the baton, or a payload or *)
(* a semaphore failed: the two threads cannot wait for each other forever.  *)
EventuallyDelivered ==
  \A o \in Objects :
    (pc = "polled" /\ rkm = o /\ polled[o] = "msg")
      ~> \/ \E i \in 1 .. Len(delivered) : delivered[i] = o
         \/ ~session_on
         \/ BatonDropped \/ failed \cap {"payload", "semaphore"} # {}

(* After a loan the polling thread polls again, unless the session stops or *)
(* a semaphore fails.                                                       *)
PollingResumes ==
  (sess = "loaned") ~> (pc = "poll" \/ ~session_on \/ "semaphore" \in failed)

(* The comment in the polling loop: consumer errors are informational, the  *)
(* consumer recovers from them.  So the thread ends only when asked to.     *)
PollingSurvivesErrors == pc = "exited" => ~run_thread

(* delete_stream_reader, once called, closes the consumer and frees the     *)
(* reader.                                                                  *)
DeleteCompletes == (owner = "joining") ~> (owner = "deleted")

-----------------------------------------------------------------------------
(* What makes the safety properties inductive: where the newest message is. *)

(* rkm, dangling or not, is an object the consumer returned; a fetched one  *)
(* is the newest and is not destroyed while the thread looks at it.         *)
FetchedIsNewest ==
  /\ rkm <= Len(polled)
  /\ pc = "polled" /\ rkm # NULL => rkm = Len(polled) /\ freed[rkm] = 0

(* Whoever may poll next finds every object destroyed.                      *)
AllDestroyedBeforePoll ==
  poll_sem = 1 \/ pc = "poll" \/ (pc = "polled" /\ rkm = NULL)
    => \A o \in 1 .. Len(polled) : freed[o] = 1

(* A message that is on its way to read() has not been delivered yet.       *)
OnItsWay ==
  \/ pc = "polled" /\ rkm # NULL
  \/ pc \in {"notify", "give"} \/ read_sem = 1 \/ sess = "setting"

NewestNotDelivered ==
  OnItsWay => \A i \in 1 .. Len(delivered) : delivered[i] < Len(polled)

(* Without local failures the newest message, if it is a proper one, has    *)
(* been delivered before the next poll can begin.                           *)
NewestDelivered ==
  /\ failed \cap {"payload", "semaphore"} = {}
  /\ poll_sem = 1 \/ pc = "poll" \/ (pc = "polled" /\ rkm = NULL) \/ sess = "loaned"
  /\ Len(polled) > 0 /\ polled[Len(polled)] = "msg"
  => \E i \in 1 .. Len(delivered) : delivered[i] = Len(polled)

(* A deletion runs after the session stopped, and a stopped session is not  *)
(* inside a call.                                                           *)
DeletedAfterStop ==
  /\ owner # "running" => ~session_on
  /\ ~session_on => sess = "idle"

(* The inductive invariant.                                                 *)
IInv ==
  /\ TypeOK /\ BatonExclusive /\ MessageLiveWhileUsed /\ DestroyedExactlyOnce
  /\ DeliveredInOrder /\ FetchedIsNewest /\ AllDestroyedBeforePoll
  /\ NewestNotDelivered /\ NewestDelivered /\ NoMessageLost
  /\ SilentOnlyUnread /\ DeletedAfterStop /\ NoThreadInFreedReader

-----------------------------------------------------------------------------
(* The reader implements the one-slot handoff: the slot holds the proper    *)
(* message that has been fetched and not yet destroyed.                     *)
Handoff == INSTANCE MessageHandoff WITH
  next <- Len(polled),
  slot <- IF LiveMessage THEN rkm ELSE NULL,
  on_loan <- LiveMessage /\ sess = "loaned"

(* Every behaviour of the reader, failures included, is one of a slot that  *)
(* hands over each message at most once, in order, one at a time.           *)
ImplementsHandoff == Handoff!Spec
=============================================================================
