-------------------------- MODULE KafkaConnection --------------------------
(***************************************************************************)
(* What the Kafka adapter owns: the adapter plugin, a connection, and the   *)
(* stream readers and writers of that connection (KafkaAdapter.c,           *)
(* KafkaConnection.c).                                                      *)
(*                                                                          *)
(* A stream is created by a list of stages.  A stage allocates objects and  *)
(* stores them in fields of the stream or in locals; it may fail, and then  *)
(* the code cleans up or simply returns.  Objects are counted apart from    *)
(* the fields that name them, so that an object no field names any more is  *)
(* still seen.                                                              *)
(*                                                                          *)
(* External: Routing Service creates the plugin, then the connection, then  *)
(* streams, and deletes them in the opposite order, each once.  What the    *)
(* polling thread does is module KafkaStreamReader.                         *)
(***************************************************************************)
EXTENDS Integers, Sequences, FiniteSets

CONSTANTS Readers, Writers,   \* the streams of the connection
          Faults              \* the calls that may fail

Stage(name, new, consumes, onError) ==
  [name |-> name, new |-> new, consumes |-> consumes, onError |-> onError]

(* RTI_RS_KafkaConnection_create_stream_reader up to the topic.  The type   *)
(* support and the sample are not checked; a missing info returns at once.  *)
ReaderObjects ==
  << Stage("self", {"self"}, {}, "null"),
     Stage("lists", {"sample_list", "info_list"}, {}, "cleanup"),
     Stage("types", {"type_support", "sample"}, {}, "unchecked"),
     Stage("info", {"info"}, {}, "return") >>

(* Its configuration: rd_kafka_new takes the conf object over, if it        *)
(* succeeds.                                                                *)
ReaderConfiguration ==
  << Stage("topic", {}, {}, "cleanup"),
     Stage("conf", {"conf"}, {}, "unchecked"),
     Stage("payload", {}, {}, "cleanup"),
     Stage("conf_set", {}, {}, "cleanup"),
     Stage("rk", {"rk"}, {"conf"}, "cleanup") >>

(* Variant: the thread starts before the second pair of semaphores exists.  *)
ReaderStartTooEarly ==
  << Stage("subscribe", {}, {}, "cleanup"),
     Stage("semaphores", {"poll_sem"}, {}, "cleanup"),
     Stage("semaphores", {"read_sem"}, {}, "cleanup"),
     Stage("thread", {"thread"}, {}, "cleanup"),
     Stage("semaphores", {"poll_sem"}, {}, "cleanup"),
     Stage("give", {}, {}, "unchecked"),
     Stage("semaphores", {"read_sem"}, {}, "cleanup") >>

(* Its start.  Both semaphores are created twice; the second poll_sem is    *)
(* given; the thread is created last.                                       *)
ReaderStart ==
  << Stage("subscribe", {}, {}, "cleanup"),
     Stage("semaphores", {"poll_sem"}, {}, "cleanup"),
     Stage("semaphores", {"read_sem"}, {}, "cleanup"),
     Stage("semaphores", {"poll_sem"}, {}, "cleanup"),
     Stage("give", {}, {}, "unchecked"),
     Stage("semaphores", {"read_sem"}, {}, "cleanup"),
     Stage("thread", {"thread"}, {}, "cleanup") >>

ReaderStages == ReaderObjects \o ReaderConfiguration \o ReaderStart

(* RTI_RS_KafkaConnection_create_stream_writer.                             *)
WriterStages ==
  << Stage("self", {"self"}, {}, "null"),
     Stage("topic", {}, {}, "cleanup"),
     Stage("conf", {"conf"}, {}, "unchecked"),
     Stage("conf_set", {}, {}, "cleanup"),
     Stage("rk", {"rk"}, {"conf"}, "cleanup") >>

Streams == Readers \cup Writers
StagesOf(s) == IF s \in Readers THEN ReaderStages ELSE WriterStages

Parts == {"self", "sample_list", "info_list", "type_support", "sample", "info",
          "conf", "rk", "poll_sem", "read_sem", "thread"}
FaultKinds == {"adapter", "connection", "bootstrap", "self", "lists", "info", "topic",
               "payload", "conf_set", "rk", "subscribe", "semaphores", "thread", "join"}

ASSUME ConnectionAssumption == Readers \cap Writers = {} /\ Faults \subseteq FaultKinds

VARIABLES
  adapter,     \* "none", "live" or "gone"
  connection,  \* "none", "live", "leaked" or "gone"
  phase,       \* of each stream: "none", "creating", "live", "deleting", "failed", "gone"
  stage,       \* of each stream: the next stage of its creation
  fields,      \* of each stream: the fields (and locals) that are not NULL
  objects,     \* of each stream and part: how many such objects are allocated
  available,   \* of each stream: the poll_sem its field names can be taken
  crashed      \* a NULL pointer was dereferenced

vars == <<adapter, connection, phase, stage, fields, objects, available, crashed>>

TypeOK ==
  /\ adapter \in {"none", "live", "gone"}
  /\ connection \in {"none", "live", "leaked", "gone"}
  /\ phase \in [Streams -> {"none", "creating", "live", "deleting", "failed", "gone"}]
  /\ \A s \in Streams : stage[s] \in 1 .. Len(StagesOf(s)) + 1
  /\ fields \in [Streams -> SUBSET Parts]
  /\ objects \in [Streams -> [Parts -> 0 .. 2]]
  /\ available \in [Streams -> BOOLEAN]
  /\ crashed \in BOOLEAN

Init ==
  /\ adapter = "none" /\ connection = "none"
  /\ phase = [s \in Streams |-> "none"] /\ stage = [s \in Streams |-> 1]
  /\ fields = [s \in Streams |-> {}]
  /\ objects = [s \in Streams |-> [p \in Parts |-> 0]]
  /\ available = [s \in Streams |-> FALSE]
  /\ crashed = FALSE

-----------------------------------------------------------------------------
(* RTI_RS_Kafka_AdapterPlugin_create and RTI_RS_KafkaAdapterPlugin_delete.  *)
AdapterCreate ==
  /\ adapter = "none"
  /\ adapter' = "live" \/ ("adapter" \in Faults /\ adapter' = "gone")
  /\ UNCHANGED <<connection, phase, stage, fields, objects, available, crashed>>

AdapterDelete ==
  /\ adapter = "live" /\ connection # "live" /\ ~crashed
  /\ adapter' = "gone"
  /\ UNCHANGED <<connection, phase, stage, fields, objects, available, crashed>>

(* RTI_RS_KafkaAdapterPlugin_create_connection.  Without the property       *)
(* bootstrap.servers it returns NULL and keeps what it allocated.           *)
CreateConnection ==
  /\ adapter = "live" /\ connection = "none"
  /\ \/ connection' = "live"
     \/ "connection" \in Faults /\ connection' = "gone"
     \/ "bootstrap" \in Faults /\ connection' = "leaked"
  /\ UNCHANGED <<adapter, phase, stage, fields, objects, available, crashed>>

DeleteConnection ==
  /\ connection = "live" /\ ~crashed
  /\ \A s \in Streams : phase[s] \in {"none", "failed", "gone"}
  /\ connection' = "gone"
  /\ UNCHANGED <<adapter, phase, stage, fields, objects, available, crashed>>

-----------------------------------------------------------------------------
(* What is allocated once the objects in new are added and one object of    *)
(* each part in old is freed.                                               *)
Counted(s, new, old) ==
  [p \in Parts |-> objects[s][p] + (IF p \in new THEN 1 ELSE 0) - (IF p \in old THEN 1 ELSE 0)]

BeginCreate(s) ==
  /\ connection = "live" /\ phase[s] = "none" /\ ~crashed
  /\ phase' = [phase EXCEPT ![s] = "creating"]
  /\ UNCHANGED <<adapter, connection, stage, fields, objects, available, crashed>>

(* The next stage succeeds.                                                 *)
CreateStage(s) ==
  LET st == StagesOf(s)[stage[s]] IN
  /\ phase[s] = "creating" /\ ~crashed
  /\ stage' = [stage EXCEPT ![s] = @ + 1]
  /\ phase' = [phase EXCEPT ![s] = IF stage[s] = Len(StagesOf(s)) THEN "live" ELSE @]
  /\ fields' = [fields EXCEPT ![s] = (@ \cup st.new) \ st.consumes]
  /\ objects' = [objects EXCEPT ![s] = Counted(s, st.new, st.consumes)]
  /\ available' = [available EXCEPT ![s] = st.name = "give" \/ (@ /\ "poll_sem" \notin st.new)]
  /\ UNCHANGED <<adapter, connection, crashed>>

(* Variant: a cleanup that leaves the client alone.                         *)
CleanedWithoutClient(s) ==
  IF s \in Readers
  THEN {"poll_sem", "read_sem", "sample_list", "info_list", "self"}
  ELSE {"self"}

(* RTI_RS_KafkaConnection_cleanup_stream_reader and _writer: the fields     *)
(* whose objects are destroyed if they are not NULL.                        *)
Cleaned(s) ==
  IF s \in Readers
  THEN {"rk", "poll_sem", "read_sem", "sample_list", "info_list", "self"}
  ELSE {"rk", "self"}

(* The next stage fails.  got are the objects it allocated all the same; a  *)
(* field it assigned NULL no longer names the object it named before.       *)
CreateFails(s) ==
  LET st == StagesOf(s)[stage[s]] IN
  /\ phase[s] = "creating" /\ ~crashed
  /\ st.name \in Faults
  /\ \E got \in SUBSET st.new :
       LET named == (fields[s] \ st.new) \cup got
           freed == IF st.onError = "cleanup" THEN named \cap Cleaned(s) ELSE {} IN
       /\ got = st.new => st.new = {}
       /\ fields' = [fields EXCEPT ![s] = IF freed = {} THEN named ELSE {}]
       /\ objects' = [objects EXCEPT ![s] = Counted(s, got, freed)]
  /\ phase' = [phase EXCEPT ![s] = "failed"]
  \* cleanup is called with NULL and reads self->rk
  /\ crashed' = (st.onError = "null")
  /\ UNCHANGED <<adapter, connection, stage, available>>

-----------------------------------------------------------------------------
(* Variant: the client is destroyed here and again by the cleanup.          *)
DeleteDestroysClient(s) ==
  /\ phase[s] = "live" /\ ~crashed
  /\ phase' = [phase EXCEPT ![s] = "deleting"]
  /\ objects' = [objects EXCEPT ![s] = Counted(s, {}, {"rk"})]
  /\ UNCHANGED <<adapter, connection, stage, fields, available, crashed>>

(* delete_stream_reader: the thread is stopped and joined.  If that fails,  *)
(* it is logged and the thread left to itself.  delete_stream_writer: the   *)
(* flush is part of module KafkaStreamWriter.                               *)
DeleteStops(s) ==
  /\ phase[s] = "live" /\ ~crashed
  /\ phase' = [phase EXCEPT ![s] = "deleting"]
  /\ fields' = [fields EXCEPT ![s] = @ \ {"thread"}]
  /\ \/ objects' = [objects EXCEPT ![s]["thread"] = 0]
     \/ "join" \in Faults /\ s \in Readers /\ UNCHANGED objects
  /\ UNCHANGED <<adapter, connection, stage, available, crashed>>

(* The cleanup at the end of both.                                          *)
DeleteCleansUp(s) ==
  /\ phase[s] = "deleting" /\ ~crashed
  /\ phase' = [phase EXCEPT ![s] = "gone"]
  /\ objects' = [objects EXCEPT ![s] = Counted(s, {}, fields[s] \cap Cleaned(s))]
  /\ fields' = [fields EXCEPT ![s] = {}]
  /\ UNCHANGED <<adapter, connection, stage, available, crashed>>

Next ==
  \/ AdapterCreate \/ AdapterDelete \/ CreateConnection \/ DeleteConnection
  \/ \E s \in Streams :
       \/ BeginCreate(s) \/ CreateStage(s) \/ CreateFails(s)
       \/ DeleteStops(s) \/ DeleteCleansUp(s)

Spec == Init /\ [][Next]_vars

-----------------------------------------------------------------------------
(* While a reader has its polling thread, everything the thread touches     *)
(* exists: the reader, the subscribed consumer, both semaphores; and the    *)
(* poll_sem it will take is the one that was given.  This is the initial    *)
(* state of KafkaStreamReader; creating either semaphore a second time      *)
(* after the thread started would leave the thread waiting for ever on the  *)
(* first.                                                                   *)
ReaderReady ==
  \A s \in Readers : "thread" \in fields[s] =>
    /\ {"self", "rk", "poll_sem", "read_sem", "sample_list", "info_list"} \subseteq fields[s]
    /\ \A p \in fields[s] : objects[s][p] > 0
    /\ available[s]

(* After its deletion a writer has nothing allocated.  A reader keeps what  *)
(* no field of it leads the cleanup to: its sample and sample info, its     *)
(* type support, one semaphore of each pair; and its thread, if joining it  *)
(* failed.                                                                  *)
LeftByDeletion ==
  \A s \in Streams : phase[s] = "gone" =>
    \A p \in Parts : objects[s][p] =
      IF s \in Readers /\ p \in {"type_support", "sample", "info", "poll_sem", "read_sem"}
      THEN 1
      ELSE IF p = "thread" /\ "join" \in Faults THEN objects[s][p] ELSE 0

(* What a creation that failed leaves behind depends on where it failed.    *)
(* The stream and its lists are freed, except when the sample info cannot   *)
(* be allocated, which returns around the error path and loses them all.    *)
(* The configuration object is left exactly when the failure falls between  *)
(* its creation and the client that takes it over.  No thread and no Kafka  *)
(* client is ever left: a consumer that stays in the group would keep its   *)
(* partitions from every other one.                                         *)
LeftByFailure ==
  \A s \in Streams : phase[s] = "failed" =>
    LET why == StagesOf(s)[stage[s]].name IN
    /\ objects[s]["self"] = IF why = "info" THEN 1 ELSE 0
    /\ \A p \in {"sample_list", "info_list"} :
         objects[s][p] = IF why = "info" THEN 1 ELSE 0
    /\ objects[s]["conf"] = IF why \in {"payload", "conf_set", "rk"} THEN 1 ELSE 0
    /\ objects[s]["thread"] = 0 /\ objects[s]["rk"] = 0
============================================================================
