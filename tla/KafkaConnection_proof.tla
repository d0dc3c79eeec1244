----------------------- MODULE KafkaConnection_proof -----------------------
(***************************************************************************)
(* Proofs about KafkaConnection for any number of readers and writers and   *)
(* every set of failures.  The stages of a creation are turned into a       *)
(* count of objects per stage; from there on a stage is a number.           *)
(***************************************************************************)
EXTENDS KafkaConnection, SequenceTheorems, TLAPS

One(b) == IF b THEN 1 ELSE 0

(* How many objects of part p a reader has before stage k of its creation.  *)
ReaderCount(k, p) ==
  CASE p = "self" -> One(k > 1)
    [] p \in {"sample_list", "info_list"} -> One(k > 2)
    [] p \in {"type_support", "sample"} -> One(k > 3)
    [] p = "info" -> One(k > 4)
    [] p = "conf" -> One(k > 6) - One(k > 9)
    [] p = "rk" -> One(k > 9)
    [] p = "poll_sem" -> One(k > 11) + One(k > 13)
    [] p = "read_sem" -> One(k > 12) + One(k > 15)
    [] p = "thread" -> One(k > 16)

(* The same for a writer.                                                   *)
WriterCount(k, p) ==
  CASE p = "self" -> One(k > 1)
    [] p = "conf" -> One(k > 3) - One(k > 5)
    [] p = "rk" -> One(k > 5)
    [] OTHER -> 0

Count(s, k, p) == IF s \in Readers THEN ReaderCount(k, p) ELSE WriterCount(k, p)
Stages(s) == IF s \in Readers THEN 16 ELSE 5

-----------------------------------------------------------------------------
(* The tables of stages.                                                    *)

(* The sixteen stages of a reader.                                          *)
LEMMA ReaderTable ==
  /\ Len(ReaderStages) = 16
  /\ ReaderStages[1] = Stage("self", {"self"}, {}, "null")
  /\ ReaderStages[2] = Stage("lists", {"sample_list", "info_list"}, {}, "cleanup")
  /\ ReaderStages[3] = Stage("types", {"type_support", "sample"}, {}, "unchecked")
  /\ ReaderStages[4] = Stage("info", {"info"}, {}, "return")
  /\ ReaderStages[5] = Stage("topic", {}, {}, "cleanup")
  /\ ReaderStages[6] = Stage("conf", {"conf"}, {}, "unchecked")
  /\ ReaderStages[7] = Stage("payload", {}, {}, "cleanup")
  /\ ReaderStages[8] = Stage("conf_set", {}, {}, "cleanup")
  /\ ReaderStages[9] = Stage("rk", {"rk"}, {"conf"}, "cleanup")
  /\ ReaderStages[10] = Stage("subscribe", {}, {}, "cleanup")
  /\ ReaderStages[11] = Stage("semaphores", {"poll_sem"}, {}, "cleanup")
  /\ ReaderStages[12] = Stage("semaphores", {"read_sem"}, {}, "cleanup")
  /\ ReaderStages[13] = Stage("semaphores", {"poll_sem"}, {}, "cleanup")
  /\ ReaderStages[14] = Stage("give", {}, {}, "unchecked")
  /\ ReaderStages[15] = Stage("semaphores", {"read_sem"}, {}, "cleanup")
  /\ ReaderStages[16] = Stage("thread", {"thread"}, {}, "cleanup")
<1> DEFINE S == UNION {{ReaderObjects[i] : i \in 1 .. 4},
                       {ReaderConfiguration[i] : i \in 1 .. 5}, {ReaderStart[i] : i \in 1 .. 7}}
<1>1. ReaderObjects \in Seq(S) /\ Len(ReaderObjects) = 4
  BY DEF ReaderObjects
<1>2. ReaderConfiguration \in Seq(S) /\ Len(ReaderConfiguration) = 5
  BY DEF ReaderConfiguration
<1>3. ReaderStart \in Seq(S) /\ Len(ReaderStart) = 7
  BY DEF ReaderStart
<1> HIDE DEF S
<1> DEFINE First == ReaderObjects \o ReaderConfiguration
<1>4. /\ First \in Seq(S) /\ Len(First) = 9
      /\ \A i \in 1 .. 9 : First[i] = IF i <= 4 THEN ReaderObjects[i] ELSE ReaderConfiguration[i - 4]
  <2>1. /\ First \in Seq(S) /\ Len(First) = Len(ReaderObjects) + Len(ReaderConfiguration)
        /\ \A i \in 1 .. Len(ReaderObjects) + Len(ReaderConfiguration) :
             First[i] = IF i <= Len(ReaderObjects) THEN ReaderObjects[i]
                        ELSE ReaderConfiguration[i - Len(ReaderObjects)]
    BY <1>1, <1>2, ConcatProperties, Zenon
  <2> HIDE DEF First
  <2>2. QED
    BY <1>1, <1>2, <2>1
<1>5. ReaderStages = First \o ReaderStart
  BY DEF ReaderStages
<1> HIDE DEF First
<1>6. /\ Len(ReaderStages) = 16
      /\ \A i \in 1 .. 16 : ReaderStages[i] = IF i <= 9 THEN First[i] ELSE ReaderStart[i - 9]
  <2>1. /\ Len(ReaderStages) = Len(First) + Len(ReaderStart)
        /\ \A i \in 1 .. Len(First) + Len(ReaderStart) :
             ReaderStages[i] = IF i <= Len(First) THEN First[i] ELSE ReaderStart[i - Len(First)]
    BY <1>3, <1>4, <1>5, ConcatProperties, Zenon
  <2>2. QED
    BY <1>3, <1>4, <2>1
<1>7. /\ \A i \in 1 .. 4 : ReaderStages[i] = ReaderObjects[i]
      /\ \A i \in 5 .. 9 : ReaderStages[i] = ReaderConfiguration[i - 4]
      /\ \A i \in 10 .. 16 : ReaderStages[i] = ReaderStart[i - 9]
  BY <1>4, <1>6
<1>8. /\ ReaderStages[1] = ReaderObjects[1] /\ ReaderStages[2] = ReaderObjects[2]
      /\ ReaderStages[3] = ReaderObjects[3] /\ ReaderStages[4] = ReaderObjects[4]
      /\ ReaderStages[5] = ReaderConfiguration[1] /\ ReaderStages[6] = ReaderConfiguration[2]
      /\ ReaderStages[7] = ReaderConfiguration[3] /\ ReaderStages[8] = ReaderConfiguration[4]
      /\ ReaderStages[9] = ReaderConfiguration[5] /\ ReaderStages[10] = ReaderStart[1]
      /\ ReaderStages[11] = ReaderStart[2] /\ ReaderStages[12] = ReaderStart[3]
      /\ ReaderStages[13] = ReaderStart[4] /\ ReaderStages[14] = ReaderStart[5]
      /\ ReaderStages[15] = ReaderStart[6] /\ ReaderStages[16] = ReaderStart[7]
  BY <1>7
<1>9. QED
  BY <1>6, <1>8 DEF ReaderObjects, ReaderConfiguration, ReaderStart

(* The five stages of a writer.                                             *)
LEMMA WriterTable ==
  /\ Len(WriterStages) = 5
  /\ WriterStages[1] = Stage("self", {"self"}, {}, "null")
  /\ WriterStages[2] = Stage("topic", {}, {}, "cleanup")
  /\ WriterStages[3] = Stage("conf", {"conf"}, {}, "unchecked")
  /\ WriterStages[4] = Stage("conf_set", {}, {}, "cleanup")
  /\ WriterStages[5] = Stage("rk", {"rk"}, {"conf"}, "cleanup")
BY DEF WriterStages

(* A stage adds what it makes and removes what it consumes; Parts is the    *)
(* range of both.                                                           *)
StageCounts(st, before, after) ==
  /\ st.new \subseteq Parts
  /\ \A p \in Parts :
       /\ before[p] \in 0 .. 2 /\ after[p] \in 0 .. 2
       /\ after[p] = before[p] + One(p \in st.new) - One(p \in st.consumes)
       /\ p \in st.consumes => before[p] = 1 /\ p \notin st.new

(* What each of a reader's stages does to the counts.                       *)
LEMMA ReaderStageCounts ==
  ASSUME NEW k \in 1 .. 16
  PROVE  StageCounts(ReaderStages[k], [p \in Parts |-> ReaderCount(k, p)],
                     [p \in Parts |-> ReaderCount(k + 1, p)])
<1>1. CASE k = 1
  BY <1>1, ReaderTable DEF StageCounts, Stage, Parts, ReaderCount, One
<1>2. CASE k = 2
  BY <1>2, ReaderTable DEF StageCounts, Stage, Parts, ReaderCount, One
<1>3. CASE k = 3
  BY <1>3, ReaderTable DEF StageCounts, Stage, Parts, ReaderCount, One
<1>4. CASE k = 4
  BY <1>4, ReaderTable DEF StageCounts, Stage, Parts, ReaderCount, One
<1>5. CASE k = 5
  BY <1>5, ReaderTable DEF StageCounts, Stage, Parts, ReaderCount, One
<1>6. CASE k = 6
  BY <1>6, ReaderTable DEF StageCounts, Stage, Parts, ReaderCount, One
<1>7. CASE k = 7
  BY <1>7, ReaderTable DEF StageCounts, Stage, Parts, ReaderCount, One
<1>8. CASE k = 8
  BY <1>8, ReaderTable DEF StageCounts, Stage, Parts, ReaderCount, One
<1>9. CASE k = 9
  BY <1>9, ReaderTable DEF StageCounts, Stage, Parts, ReaderCount, One
<1>10. CASE k = 10
  BY <1>10, ReaderTable DEF StageCounts, Stage, Parts, ReaderCount, One
<1>11. CASE k = 11
  BY <1>11, ReaderTable DEF StageCounts, Stage, Parts, ReaderCount, One
<1>12. CASE k = 12
  BY <1>12, ReaderTable DEF StageCounts, Stage, Parts, ReaderCount, One
<1>13. CASE k = 13
  BY <1>13, ReaderTable DEF StageCounts, Stage, Parts, ReaderCount, One
<1>14. CASE k = 14
  BY <1>14, ReaderTable DEF StageCounts, Stage, Parts, ReaderCount, One
<1>15. CASE k = 15
  BY <1>15, ReaderTable DEF StageCounts, Stage, Parts, ReaderCount, One
<1>16. CASE k = 16
  BY <1>16, ReaderTable DEF StageCounts, Stage, Parts, ReaderCount, One
<1>q. QED
  BY <1>1, <1>2, <1>3, <1>4, <1>5, <1>6, <1>7, <1>8, <1>9, <1>10, <1>11, <1>12, <1>13,
     <1>14, <1>15, <1>16

(* What each of a writer's stages does to the counts.                       *)
LEMMA WriterStageCounts ==
  ASSUME NEW k \in 1 .. 5
  PROVE  StageCounts(WriterStages[k], [p \in Parts |-> WriterCount(k, p)],
                     [p \in Parts |-> WriterCount(k + 1, p)])
<1>1. CASE k = 1
  BY <1>1, WriterTable DEF StageCounts, Stage, Parts, WriterCount, One
<1>2. CASE k = 2
  BY <1>2, WriterTable DEF StageCounts, Stage, Parts, WriterCount, One
<1>3. CASE k = 3
  BY <1>3, WriterTable DEF StageCounts, Stage, Parts, WriterCount, One
<1>4. CASE k = 4
  BY <1>4, WriterTable DEF StageCounts, Stage, Parts, WriterCount, One
<1>5. CASE k = 5
  BY <1>5, WriterTable DEF StageCounts, Stage, Parts, WriterCount, One
<1>q. QED
  BY <1>1, <1>2, <1>3, <1>4, <1>5

(* Where a reader's stage may fail and how the code leaves then.            *)
LEMMA ReaderStageErrors ==
  ASSUME NEW k \in 1 .. 16
  PROVE  LET st == ReaderStages[k]
         IN /\ st.name \in FaultKinds =>
                 st.onError = IF k = 1 THEN "null" ELSE IF k = 4 THEN "return" ELSE "cleanup"
            /\ st.name = "info" <=> k = 4
            /\ st.name \in {"payload", "conf_set", "rk"} <=> k \in 7 .. 9
            /\ st.name = "give" <=> k = 14
            /\ st.name \in FaultKinds => "conf" \notin st.new
            /\ k = 1 => st.new = {"self"}
            /\ k = 4 => st.new = {"info"}
            /\ k = 9 => st.new = {"rk"}
            /\ k = 16 => st.new = {"thread"}
            /\ "self" \in st.new <=> k = 1
            /\ "sample_list" \in st.new <=> k = 2
            /\ "info_list" \in st.new <=> k = 2
            /\ "rk" \in st.new <=> k = 9
            /\ "poll_sem" \in st.new <=> k \in {11, 13}
            /\ "thread" \in st.new <=> k = 16
<1>1. CASE k = 1
  BY <1>1, ReaderTable DEF Stage, FaultKinds
<1>2. CASE k = 2
  BY <1>2, ReaderTable DEF Stage, FaultKinds
<1>3. CASE k = 3
  BY <1>3, ReaderTable DEF Stage, FaultKinds
<1>4. CASE k = 4
  BY <1>4, ReaderTable DEF Stage, FaultKinds
<1>5. CASE k = 5
  BY <1>5, ReaderTable DEF Stage, FaultKinds
<1>6. CASE k = 6
  BY <1>6, ReaderTable DEF Stage, FaultKinds
<1>7. CASE k = 7
  BY <1>7, ReaderTable DEF Stage, FaultKinds
<1>8. CASE k = 8
  BY <1>8, ReaderTable DEF Stage, FaultKinds
<1>9. CASE k = 9
  BY <1>9, ReaderTable DEF Stage, FaultKinds
<1>10. CASE k = 10
  BY <1>10, ReaderTable DEF Stage, FaultKinds
<1>11. CASE k = 11
  BY <1>11, ReaderTable DEF Stage, FaultKinds
<1>12. CASE k = 12
  BY <1>12, ReaderTable DEF Stage, FaultKinds
<1>13. CASE k = 13
  BY <1>13, ReaderTable DEF Stage, FaultKinds
<1>14. CASE k = 14
  BY <1>14, ReaderTable DEF Stage, FaultKinds
<1>15. CASE k = 15
  BY <1>15, ReaderTable DEF Stage, FaultKinds
<1>16. CASE k = 16
  BY <1>16, ReaderTable DEF Stage, FaultKinds
<1>q. QED
  BY <1>1, <1>2, <1>3, <1>4, <1>5, <1>6, <1>7, <1>8, <1>9, <1>10, <1>11, <1>12, <1>13,
     <1>14, <1>15, <1>16

(* Where a writer's stage may fail and how the code leaves then.            *)
LEMMA WriterStageErrors ==
  ASSUME NEW k \in 1 .. 5
  PROVE  LET st == WriterStages[k]
         IN /\ st.name \in FaultKinds => st.onError = IF k = 1 THEN "null" ELSE "cleanup"
            /\ st.name # "info"
            /\ st.name \in {"payload", "conf_set", "rk"} <=> k \in 4 .. 5
            /\ st.name \in FaultKinds => "conf" \notin st.new
            /\ st.new \subseteq {"self", "conf", "rk"}
            /\ k = 1 => st.new = {"self"}
            /\ k = 5 => st.new = {"rk"}
            /\ "self" \in st.new <=> k = 1
            /\ "rk" \in st.new <=> k = 5
<1>1. CASE k = 1
  BY <1>1, WriterTable DEF Stage, FaultKinds
<1>2. CASE k = 2
  BY <1>2, WriterTable DEF Stage, FaultKinds
<1>3. CASE k = 3
  BY <1>3, WriterTable DEF Stage, FaultKinds
<1>4. CASE k = 4
  BY <1>4, WriterTable DEF Stage, FaultKinds
<1>5. CASE k = 5
  BY <1>5, WriterTable DEF Stage, FaultKinds
<1>q. QED
  BY <1>1, <1>2, <1>3, <1>4, <1>5

(* The number of stages.                                                    *)
LEMMA StageNumbers == \A s : Len(StagesOf(s)) = Stages(s)
BY ReaderTable, WriterTable DEF StagesOf, Stages

(* The same for a stream of either kind.                                    *)
LEMMA StageFacts ==
  ASSUME NEW s, NEW k \in 1 .. Stages(s)
  PROVE  LET st == StagesOf(s)[k]
         IN /\ st.new \subseteq Parts
            /\ \A p \in Parts :
                 /\ Count(s, k, p) \in 0 .. 2 /\ Count(s, k + 1, p) \in 0 .. 2
                 /\ Count(s, k + 1, p) =
                      Count(s, k, p) + One(p \in st.new) - One(p \in st.consumes)
                 /\ p \in st.consumes => Count(s, k, p) = 1 /\ p \notin st.new
<1>1. CASE s \in Readers
  <2>1. k \in 1 .. 16 /\ StagesOf(s)[k] = ReaderStages[k]
        /\ \A p : Count(s, k, p) = ReaderCount(k, p) /\ Count(s, k + 1, p) = ReaderCount(k + 1, p)
    BY <1>1 DEF Stages, StagesOf, Count
  <2>2. QED
    BY <2>1, ReaderStageCounts DEF StageCounts
<1>2. CASE s \notin Readers
  <2>1. k \in 1 .. 5 /\ StagesOf(s)[k] = WriterStages[k]
        /\ \A p : Count(s, k, p) = WriterCount(k, p) /\ Count(s, k + 1, p) = WriterCount(k + 1, p)
    BY <1>2 DEF Stages, StagesOf, Count
  <2>2. QED
    BY <2>1, WriterStageCounts DEF StageCounts
<1>3. QED
  BY <1>1, <1>2

-----------------------------------------------------------------------------
(* Stream s is as its creation has it before stage k.                       *)
Built(s, k) ==
  /\ \A p \in Parts : objects[s][p] = Count(s, k, p)
  /\ fields[s] = {p \in Parts : Count(s, k, p) > 0}

(* The parts of LeftByFailure and LeftByDeletion for one stream.            *)
FailedLeaves(s) ==
  LET why == StagesOf(s)[stage[s]].name IN
  /\ objects[s]["self"] = IF why = "info" THEN 1 ELSE 0
  /\ \A p \in {"sample_list", "info_list"} : objects[s][p] = IF why = "info" THEN 1 ELSE 0
  /\ objects[s]["conf"] = IF why \in {"payload", "conf_set", "rk"} THEN 1 ELSE 0
  /\ objects[s]["thread"] = 0 /\ objects[s]["rk"] = 0

GoneLeaves(s) ==
  \A p \in Parts : objects[s][p] =
    IF s \in Readers /\ p \in {"type_support", "sample", "info", "poll_sem", "read_sem"}
    THEN 1
    ELSE IF p = "thread" /\ "join" \in Faults THEN objects[s][p] ELSE 0

(* What is known of a stream in each of its phases.                         *)
StreamInv(s) ==
  /\ phase[s] = "none" => stage[s] = 1 /\ Built(s, 1)
  /\ phase[s] = "creating" => stage[s] \in 1 .. Stages(s) /\ Built(s, stage[s])
  /\ phase[s] = "live" => stage[s] = Stages(s) + 1 /\ Built(s, Stages(s) + 1)
  /\ phase[s] \in {"creating", "live"} /\ s \in Readers /\ stage[s] > 14 => available[s] = TRUE
  /\ phase[s] = "deleting" =>
       /\ fields[s] = {p \in Parts : Count(s, Stages(s) + 1, p) > 0} \ {"thread"}
       /\ \A p \in Parts \ {"thread"} : objects[s][p] = Count(s, Stages(s) + 1, p)
       /\ objects[s]["thread"] = 0 \/ "join" \in Faults
  /\ phase[s] = "failed" => FailedLeaves(s) /\ "thread" \notin fields[s]
  /\ phase[s] = "gone" => GoneLeaves(s) /\ fields[s] = {}

IInv == TypeOK /\ stage \in [Streams -> Nat] /\ \A s \in Streams : StreamInv(s)

(* A step of one stream leaves what is known of the others.                 *)
LEMMA OneStream ==
  ASSUME IInv, TypeOK', stage' \in [Streams -> Nat], NEW s \in Streams,
         \A u \in Streams \ {s} :
           /\ phase'[u] = phase[u] /\ stage'[u] = stage[u] /\ fields'[u] = fields[u]
           /\ objects'[u] = objects[u] /\ available'[u] = available[u],
         StreamInv(s)'
  PROVE  IInv'
<1>1. ASSUME NEW u \in Streams \ {s} PROVE StreamInv(u)'
  <2>1. StreamInv(u)
    BY DEF IInv
  <2>2. QED
    BY <2>1 DEF StreamInv, Built, FailedLeaves, GoneLeaves
<1>2. QED
  BY <1>1 DEF IInv

(* Nothing exists before the adapter is created.                            *)
LEMMA InitIInv == Init => IInv
<1> SUFFICES ASSUME Init PROVE IInv
  OBVIOUS
<1>1. \A s : Stages(s) \in {5, 16}
  BY DEF Stages
<1>2. \A s, p : Count(s, 1, p) = 0 \/ p \notin Parts
  BY DEF Count, ReaderCount, WriterCount, One, Parts
<1>3. available \in [Streams -> BOOLEAN] /\ crashed \in BOOLEAN
  BY Zenon DEF Init
<1>4. TypeOK
  BY <1>1, <1>3, StageNumbers DEF Init, TypeOK
<1>5. ASSUME NEW s \in Streams PROVE StreamInv(s)
  <2>1. phase[s] = "none" /\ stage[s] = 1 /\ fields[s] = {} /\ \A p \in Parts : objects[s][p] = 0
    BY DEF Init
  <2>2. Built(s, 1)
    BY <1>2, <2>1 DEF Built
  <2>3. QED
    BY <2>1, <2>2 DEF StreamInv
<1>6. stage \in [Streams -> Nat]
  BY DEF Init
<1>7. QED
  BY <1>4, <1>5, <1>6 DEF IInv

-----------------------------------------------------------------------------
(* The steps.                                                               *)

(* Creating and deleting the adapter and the connection touches no stream.  *)
LEMMA OwnersStep ==
  ASSUME IInv,
         \/ AdapterCreate \/ AdapterDelete \/ CreateConnection \/ DeleteConnection
         \/ UNCHANGED vars
  PROVE  IInv'
<1>1. /\ UNCHANGED <<phase, stage, fields, objects, available, crashed>>
      /\ adapter' \in {"none", "live", "gone"} /\ connection' \in {"none", "live", "leaked", "gone"}
  BY DEF AdapterCreate, AdapterDelete, CreateConnection, DeleteConnection, vars, IInv, TypeOK
<1>2. ASSUME NEW s \in Streams PROVE StreamInv(s)'
  <2>1. StreamInv(s)
    BY DEF IInv
  <2>2. QED
    BY <1>1, <2>1 DEF StreamInv, Built, FailedLeaves, GoneLeaves
<1>3. QED
  BY <1>1, <1>2 DEF IInv, TypeOK

(* Routing Service asks for a stream.                                       *)
LEMMA BeginCreateStep ==
  ASSUME IInv, NEW s \in Streams, BeginCreate(s)
  PROVE  IInv'
<1>1. /\ phase[s] = "none" /\ phase' = [phase EXCEPT ![s] = "creating"]
      /\ UNCHANGED <<adapter, connection, stage, fields, objects, available, crashed>>
  BY DEF BeginCreate
<1>2. TypeOK' /\ stage' \in [Streams -> Nat]
  BY <1>1 DEF IInv, TypeOK
<1>3. StreamInv(s)'
  <2>1. stage[s] = 1 /\ Built(s, 1) /\ phase'[s] = "creating"
    BY <1>1 DEF IInv, StreamInv, TypeOK
  <2>2. Built(s, 1)' /\ stage'[s] = 1 /\ 1 \in 1 .. Stages(s)
    BY <1>1, <2>1 DEF Built, Stages
  <2>3. QED
    BY <2>1, <2>2 DEF StreamInv
<1>4. QED
  BY <1>1, <1>2, <1>3, OneStream DEF IInv, TypeOK

(* A stage of a creation succeeds.                                          *)
LEMMA CreateStageStep ==
  ASSUME IInv, NEW s \in Streams, CreateStage(s)
  PROVE  IInv'
<1>0. PICK k \in 1 .. Stages(s) : k = stage[s] /\ Built(s, k)
  BY DEF CreateStage, IInv, StreamInv
<1> DEFINE st == StagesOf(s)[k]
<1>1. /\ phase[s] = "creating" /\ UNCHANGED <<adapter, connection, crashed>>
      /\ stage' = [stage EXCEPT ![s] = k + 1]
      /\ phase' = [phase EXCEPT ![s] = IF k = Stages(s) THEN "live" ELSE "creating"]
      /\ fields' = [fields EXCEPT ![s] = (fields[s] \cup st.new) \ st.consumes]
      /\ objects' = [objects EXCEPT ![s] = Counted(s, st.new, st.consumes)]
      /\ available' = [available EXCEPT ![s] =
                         (st.name = "give" \/ (available[s] /\ "poll_sem" \notin st.new))]
  <2> DEFINE t == StagesOf(s)[stage[s]]
  <2>1. /\ phase[s] = "creating" /\ UNCHANGED <<adapter, connection, crashed>>
        /\ stage' = [stage EXCEPT ![s] = stage[s] + 1]
        /\ phase' = [phase EXCEPT ![s] = IF stage[s] = Len(StagesOf(s)) THEN "live" ELSE phase[s]]
        /\ fields' = [fields EXCEPT ![s] = (fields[s] \cup t.new) \ t.consumes]
        /\ objects' = [objects EXCEPT ![s] = Counted(s, t.new, t.consumes)]
        /\ available' = [available EXCEPT ![s] =
                           (t.name = "give" \/ (available[s] /\ "poll_sem" \notin t.new))]
    BY Zenon DEF CreateStage
  <2>2. t = st /\ Len(StagesOf(s)) = Stages(s)
    BY <1>0, StageNumbers
  <2> HIDE DEF t, st
  <2>3. QED
    BY <1>0, <2>1, <2>2, Zenon
<1>2. /\ st.new \subseteq Parts
      /\ \A p \in Parts :
           /\ Count(s, k, p) \in 0 .. 2 /\ Count(s, k + 1, p) \in 0 .. 2
           /\ Count(s, k + 1, p) = Count(s, k, p) + One(p \in st.new) - One(p \in st.consumes)
           /\ p \in st.consumes => Count(s, k, p) = 1 /\ p \notin st.new
  BY StageFacts
<1>3. s \in Readers => (st.name = "give" <=> k = 14) /\ ("poll_sem" \in st.new <=> k \in {11, 13})
  BY ReaderStageErrors DEF Stages, StagesOf
<1> HIDE DEF st
<1>4. \A p \in Parts : Counted(s, st.new, st.consumes)[p] = Count(s, k + 1, p)
  BY <1>0, <1>2 DEF Counted, Built, One
<1>5. (fields[s] \cup st.new) \ st.consumes = {p \in Parts : Count(s, k + 1, p) > 0}
  BY <1>0, <1>2 DEF Built, One
<1>6. /\ k + 1 \in Nat /\ k + 1 \in 1 .. Stages(s) + 1 /\ Stages(s) \in Nat
      /\ k # Stages(s) => k + 1 \in 1 .. Stages(s)
  BY DEF Stages
<1>7. /\ phase'[s] = (IF k = Stages(s) THEN "live" ELSE "creating") /\ stage'[s] = k + 1
      /\ Built(s, k + 1)'
  BY <1>1, <1>4, <1>5 DEF IInv, TypeOK, Built, Count
<1>8. s \in Readers /\ k + 1 > 14 => available'[s] = TRUE
  <2>1. ASSUME s \in Readers, k + 1 > 14 PROVE st.name = "give" \/ (available[s] /\ "poll_sem" \notin st.new)
    <3>1. CASE k = 14
      BY <1>3, <2>1, <3>1
    <3>2. CASE k # 14
      BY <1>0, <1>1, <1>3, <2>1, <3>2 DEF IInv, StreamInv
    <3>3. QED
      BY <3>1, <3>2
  <2>2. QED
    BY <1>1, <2>1, Zenon DEF IInv, TypeOK
<1>9. StreamInv(s)'
  <2>1. CASE k = Stages(s)
    BY <1>6, <1>7, <1>8, <2>1 DEF StreamInv
  <2>2. CASE k # Stages(s)
    BY <1>6, <1>7, <1>8, <2>2 DEF StreamInv
  <2>3. QED
    BY <2>1, <2>2
<1>10. TypeOK' /\ stage' \in [Streams -> Nat]
  <2>1. Counted(s, st.new, st.consumes) \in [Parts -> 0 .. 2]
    <3>1. Counted(s, st.new, st.consumes) = [p \in Parts |-> Counted(s, st.new, st.consumes)[p]]
      BY DEF Counted
    <3>2. QED
      BY <1>2, <1>4, <3>1
  <2>2. available' \in [Streams -> BOOLEAN]
    BY <1>1, Zenon DEF IInv, TypeOK
  <2>3. objects' \in [Streams -> [Parts -> 0 .. 2]]
    BY <1>1, <2>1 DEF IInv, TypeOK
  <2>4. fields' \in [Streams -> SUBSET Parts]
    BY <1>1, <1>5 DEF IInv, TypeOK
  <2>5. stage' \in [Streams -> Nat] /\ \A u \in Streams : stage'[u] \in 1 .. Len(StagesOf(u)) + 1
    BY <1>1, <1>6, StageNumbers DEF IInv, TypeOK
  <2>6. QED
    BY <1>1, <2>2, <2>3, <2>4, <2>5 DEF IInv, TypeOK
<1>11. QED
  BY <1>1, <1>9, <1>10, OneStream DEF IInv, TypeOK

(* What the code names and what it has freed after stage k failed with only *)
(* the objects got.                                                         *)
NamedAfter(s, k, got) == (fields[s] \ StagesOf(s)[k].new) \cup got
FreedAfter(s, k, got) ==
  IF StagesOf(s)[k].onError = "cleanup" THEN NamedAfter(s, k, got) \cap Cleaned(s) ELSE {}

(* Objects that are freed exist, and the counts stay in their range.        *)
LEMMA FailureCounts ==
  ASSUME NEW s, NEW k \in 1 .. Stages(s), Built(s, k),
         NEW got \in SUBSET StagesOf(s)[k].new
  PROVE  /\ Counted(s, got, FreedAfter(s, k, got)) \in [Parts -> 0 .. 2]
         /\ NamedAfter(s, k, got) \subseteq Parts
         /\ \A p \in Parts : Counted(s, got, FreedAfter(s, k, got))[p] =
              Count(s, k, p) + One(p \in got) - One(p \in FreedAfter(s, k, got))
<1> DEFINE st == StagesOf(s)[k]
<1> DEFINE freed == FreedAfter(s, k, got)
<1>1. /\ st.new \subseteq Parts
      /\ \A p \in Parts :
           /\ Count(s, k, p) \in 0 .. 2 /\ Count(s, k + 1, p) \in 0 .. 2
           /\ Count(s, k + 1, p) = Count(s, k, p) + One(p \in st.new) - One(p \in st.consumes)
           /\ p \in st.consumes => Count(s, k, p) = 1 /\ p \notin st.new
  BY StageFacts
<1>2. /\ freed \subseteq NamedAfter(s, k, got) /\ NamedAfter(s, k, got) \subseteq Parts
      /\ \A p \in Parts : objects[s][p] = Count(s, k, p)
      /\ fields[s] = {p \in Parts : Count(s, k, p) > 0}
  BY <1>1 DEF FreedAfter, NamedAfter, Built
<1>3. NamedAfter(s, k, got) = (fields[s] \ st.new) \cup got
  BY DEF NamedAfter
<1> HIDE DEF st, freed
<1>4. ASSUME NEW p \in Parts
      PROVE  Count(s, k, p) + One(p \in got) - One(p \in freed) \in 0 .. 2
  <2>1. p \in st.new => Count(s, k, p) \in 0 .. 1
    BY <1>1 DEF One
  <2>2. p \in freed => p \in got \/ Count(s, k, p) > 0
    BY <1>2, <1>3
  <2>3. p \in got => p \in st.new
    BY DEF st
  <2>4. QED
    BY <1>1, <2>1, <2>2, <2>3 DEF One
<1>5. Counted(s, got, freed) =
        [p \in Parts |-> objects[s][p] + (IF p \in got THEN 1 ELSE 0) - (IF p \in freed THEN 1 ELSE 0)]
  BY DEF Counted
<1>6. \A p \in Parts : Counted(s, got, freed)[p] = Count(s, k, p) + One(p \in got) - One(p \in freed)
  BY <1>2, <1>5 DEF One
<1>7. QED
  BY <1>2, <1>4, <1>5, <1>6 DEF freed, One

(* What a reader whose creation failed leaves.                              *)
LEMMA ReaderFailure ==
  ASSUME NEW s \in Readers, NEW k \in 1 .. 16, Built(s, k), ReaderStages[k].name \in FaultKinds,
         NEW got \in SUBSET ReaderStages[k].new, got = ReaderStages[k].new => ReaderStages[k].new = {}
  PROVE  LET ob == Counted(s, got, FreedAfter(s, k, got))
             why == ReaderStages[k].name
         IN /\ ob["self"] = IF why = "info" THEN 1 ELSE 0
            /\ ob["sample_list"] = IF why = "info" THEN 1 ELSE 0
            /\ ob["info_list"] = IF why = "info" THEN 1 ELSE 0
            /\ ob["conf"] = IF why \in {"payload", "conf_set", "rk"} THEN 1 ELSE 0
            /\ ob["thread"] = 0 /\ ob["rk"] = 0
            /\ "thread" \notin NamedAfter(s, k, got)
<1> DEFINE st == ReaderStages[k]
<1> DEFINE freed == FreedAfter(s, k, got)
<1> DEFINE named == NamedAfter(s, k, got)
<1>1. StagesOf(s)[k] = st /\ Stages(s) = 16 /\ \A p : Count(s, k, p) = ReaderCount(k, p)
  BY DEF StagesOf, Stages, Count
<1>2. /\ st.onError = IF k = 1 THEN "null" ELSE IF k = 4 THEN "return" ELSE "cleanup"
      /\ st.name = "info" <=> k = 4
      /\ st.name \in {"payload", "conf_set", "rk"} <=> k \in 7 .. 9
      /\ "conf" \notin st.new
      /\ k = 1 => got = {}
      /\ k = 4 => got = {}
      /\ k = 9 => got = {}
      /\ k = 16 => got = {}
      /\ "self" \in st.new <=> k = 1
      /\ "sample_list" \in st.new <=> k = 2
      /\ "info_list" \in st.new <=> k = 2
      /\ "rk" \in st.new <=> k = 9
      /\ "thread" \in st.new <=> k = 16
  <2>1. /\ st.onError = IF k = 1 THEN "null" ELSE IF k = 4 THEN "return" ELSE "cleanup"
        /\ st.name = "info" <=> k = 4
        /\ st.name \in {"payload", "conf_set", "rk"} <=> k \in 7 .. 9
        /\ "conf" \notin st.new
        /\ "self" \in st.new <=> k = 1
        /\ "sample_list" \in st.new <=> k = 2
        /\ "info_list" \in st.new <=> k = 2
        /\ "rk" \in st.new <=> k = 9
        /\ "thread" \in st.new <=> k = 16
    BY ReaderStageErrors
  <2>2. k \in {1, 4, 9, 16} => \E x : st.new = {x}
    BY ReaderStageErrors, ZenonT(30)
  <2>3. (\E x : st.new = {x}) => got = {}
    OBVIOUS
  <2>4. QED
    BY <2>1, <2>2, <2>3
<1>3. \A p \in Parts : Counted(s, got, freed)[p] = ReaderCount(k, p) + One(p \in got) - One(p \in freed)
  BY <1>1, FailureCounts
<1>4. \A p \in Parts : p \in named <=> (ReaderCount(k, p) > 0 /\ p \notin st.new) \/ p \in got
  BY <1>1, FailureCounts DEF NamedAfter, Built
<1>5. \A p : p \in freed <=> k \notin {1, 4} /\ p \in named /\ p \in
        {"rk", "poll_sem", "read_sem", "sample_list", "info_list", "self"}
  BY <1>1, <1>2 DEF FreedAfter, Cleaned
<1>6. got \subseteq st.new
  OBVIOUS
<1>7. {"self", "sample_list", "info_list", "conf", "thread", "rk"} \subseteq Parts
  BY DEF Parts
<1> HIDE DEF st, freed, named
<1>8. /\ ReaderCount(k, "self") = One(k > 1)
      /\ ReaderCount(k, "sample_list") = One(k > 2) /\ ReaderCount(k, "info_list") = One(k > 2)
      /\ ReaderCount(k, "conf") = One(k > 6) - One(k > 9)
      /\ ReaderCount(k, "thread") = One(k > 16) /\ ReaderCount(k, "rk") = One(k > 9)
  BY DEF ReaderCount
<1>9. Counted(s, got, freed)["self"] = IF k = 4 THEN 1 ELSE 0
  BY <1>2, <1>3, <1>4, <1>5, <1>6, <1>7, <1>8 DEF One
<1>10. Counted(s, got, freed)["sample_list"] = IF k = 4 THEN 1 ELSE 0
  BY <1>2, <1>3, <1>4, <1>5, <1>6, <1>7, <1>8 DEF One
<1>11. Counted(s, got, freed)["info_list"] = IF k = 4 THEN 1 ELSE 0
  BY <1>2, <1>3, <1>4, <1>5, <1>6, <1>7, <1>8 DEF One
<1>12. Counted(s, got, freed)["conf"] = IF k \in 7 .. 9 THEN 1 ELSE 0
  <2>1. "conf" \notin got /\ "conf" \notin freed
    BY <1>2, <1>5, <1>6
  <2>2. QED
    BY <1>3, <1>7, <1>8, <2>1 DEF One
<1>13. Counted(s, got, freed)["thread"] = 0 /\ "thread" \notin named
  <2>1. "thread" \notin got /\ "thread" \notin freed
    BY <1>2, <1>5, <1>6
  <2>2. QED
    BY <1>3, <1>4, <1>7, <1>8, <2>1 DEF One
<1>14. Counted(s, got, freed)["rk"] = 0
  BY <1>2, <1>3, <1>4, <1>5, <1>6, <1>7, <1>8 DEF One
<1>15. QED
  BY <1>2, <1>9, <1>10, <1>11, <1>12, <1>13, <1>14 DEF st, freed, named

(* What a writer whose creation failed leaves.                              *)
LEMMA WriterFailure ==
  ASSUME NEW s, s \notin Readers, NEW k \in 1 .. 5, Built(s, k), WriterStages[k].name \in FaultKinds,
         NEW got \in SUBSET WriterStages[k].new, got = WriterStages[k].new => WriterStages[k].new = {}
  PROVE  LET ob == Counted(s, got, FreedAfter(s, k, got))
             why == WriterStages[k].name
         IN /\ ob["self"] = IF why = "info" THEN 1 ELSE 0
            /\ ob["sample_list"] = IF why = "info" THEN 1 ELSE 0
            /\ ob["info_list"] = IF why = "info" THEN 1 ELSE 0
            /\ ob["conf"] = IF why \in {"payload", "conf_set", "rk"} THEN 1 ELSE 0
            /\ ob["thread"] = 0 /\ ob["rk"] = 0
            /\ "thread" \notin NamedAfter(s, k, got)
<1> DEFINE st == WriterStages[k]
<1> DEFINE freed == FreedAfter(s, k, got)
<1> DEFINE named == NamedAfter(s, k, got)
<1>1. StagesOf(s)[k] = st /\ Stages(s) = 5 /\ \A p : Count(s, k, p) = WriterCount(k, p)
  BY DEF StagesOf, Stages, Count
<1>2. /\ st.onError = IF k = 1 THEN "null" ELSE "cleanup"
      /\ st.name # "info"
      /\ st.name \in {"payload", "conf_set", "rk"} <=> k \in 4 .. 5
      /\ "conf" \notin st.new
      /\ st.new \subseteq {"self", "conf", "rk"}
      /\ "self" \in st.new <=> k = 1
      /\ "rk" \in st.new <=> k = 5
  BY WriterStageErrors
<1>3. k \in {1, 5} => got = {}
  <2>1. k \in {1, 5} => \E x : st.new = {x}
    BY WriterStageErrors
  <2>2. (\E x : st.new = {x}) => got = {}
    OBVIOUS
  <2>3. QED
    BY <2>1, <2>2
<1>4. \A p \in Parts : Counted(s, got, freed)[p] = WriterCount(k, p) + One(p \in got) - One(p \in freed)
  BY <1>1, FailureCounts
<1>5. \A p \in Parts : p \in named <=> (WriterCount(k, p) > 0 /\ p \notin st.new) \/ p \in got
  BY <1>1, FailureCounts DEF NamedAfter, Built
<1>6. \A p : p \in freed <=> k # 1 /\ p \in named /\ p \in {"rk", "self"}
  BY <1>1, <1>2 DEF FreedAfter, Cleaned
<1>7. got \subseteq st.new
  OBVIOUS
<1>8. {"self", "sample_list", "info_list", "conf", "thread", "rk"} \subseteq Parts
  BY DEF Parts
<1> HIDE DEF st, freed, named
<1>9. /\ WriterCount(k, "self") = One(k > 1)
      /\ WriterCount(k, "conf") = One(k > 3) - One(k > 5) /\ WriterCount(k, "rk") = One(k > 5)
      /\ \A p \in {"sample_list", "info_list", "thread"} : WriterCount(k, p) = 0
  BY DEF WriterCount
<1>10. Counted(s, got, freed)["self"] = 0 /\ Counted(s, got, freed)["rk"] = 0
  BY <1>2, <1>3, <1>4, <1>5, <1>6, <1>7, <1>8, <1>9 DEF One
<1>11. ASSUME NEW p \in {"sample_list", "info_list", "thread"}
       PROVE  Counted(s, got, freed)[p] = 0 /\ p \notin named
  <2>1. p \notin got /\ p \notin freed /\ p \in Parts
    BY <1>2, <1>6, <1>7, <1>8
  <2>2. QED
    BY <1>4, <1>5, <1>9, <2>1 DEF One
<1>12. Counted(s, got, freed)["conf"] = IF k \in 4 .. 5 THEN 1 ELSE 0
  <2>1. "conf" \notin got /\ "conf" \notin freed
    BY <1>2, <1>6, <1>7
  <2>2. QED
    BY <1>4, <1>8, <1>9, <2>1 DEF One
<1>13. QED
  BY <1>2, <1>10, <1>11, <1>12 DEF st, freed, named

(* A stage of a creation fails.                                             *)
LEMMA CreateFailsStep ==
  ASSUME IInv, NEW s \in Streams, CreateFails(s)
  PROVE  IInv'
<1>0. PICK k \in 1 .. Stages(s) : k = stage[s] /\ Built(s, k)
  BY DEF CreateFails, IInv, StreamInv
<1> DEFINE st == StagesOf(s)[k]
<1>1. /\ phase' = [phase EXCEPT ![s] = "failed"] /\ st.name \in FaultKinds
      /\ UNCHANGED <<adapter, connection, stage, available>>
  BY <1>0, ConnectionAssumption DEF CreateFails
<1>2. PICK got \in SUBSET st.new :
        /\ got = st.new => st.new = {}
        /\ fields' = [fields EXCEPT ![s] =
                        IF FreedAfter(s, k, got) = {} THEN NamedAfter(s, k, got) ELSE {}]
        /\ objects' = [objects EXCEPT ![s] = Counted(s, got, FreedAfter(s, k, got))]
  BY <1>0 DEF CreateFails, FreedAfter, NamedAfter
<1>3. crashed' \in BOOLEAN
  BY Zenon DEF CreateFails
<1>4. /\ Counted(s, got, FreedAfter(s, k, got)) \in [Parts -> 0 .. 2]
      /\ NamedAfter(s, k, got) \subseteq Parts
  BY <1>0, FailureCounts
<1>5. LET ob == Counted(s, got, FreedAfter(s, k, got))
          why == st.name
      IN /\ ob["self"] = IF why = "info" THEN 1 ELSE 0
         /\ ob["sample_list"] = IF why = "info" THEN 1 ELSE 0
         /\ ob["info_list"] = IF why = "info" THEN 1 ELSE 0
         /\ ob["conf"] = IF why \in {"payload", "conf_set", "rk"} THEN 1 ELSE 0
         /\ ob["thread"] = 0 /\ ob["rk"] = 0
         /\ "thread" \notin NamedAfter(s, k, got)
  <2>1. CASE s \in Readers
    <3>1. k \in 1 .. 16 /\ st = ReaderStages[k]
      BY <2>1 DEF Stages, StagesOf
    <3>2. QED
      BY <1>0, <1>1, <1>2, <2>1, <3>1, ReaderFailure, SMTT(30)
  <2>2. CASE s \notin Readers
    <3>1. k \in 1 .. 5 /\ st = WriterStages[k]
      BY <2>2 DEF Stages, StagesOf
    <3>2. QED
      BY <1>0, <1>1, <1>2, <2>2, <3>1, WriterFailure
  <2>3. QED
    BY <2>1, <2>2
<1>6. objects'[s] = Counted(s, got, FreedAfter(s, k, got)) /\ phase'[s] = "failed"
      /\ fields'[s] = (IF FreedAfter(s, k, got) = {} THEN NamedAfter(s, k, got) ELSE {})
      /\ stage'[s] = k
  BY <1>0, <1>1, <1>2 DEF IInv, TypeOK
<1>7. StreamInv(s)'
  BY <1>5, <1>6 DEF StreamInv, FailedLeaves, StagesOf
<1>8. TypeOK' /\ stage' \in [Streams -> Nat]
  BY <1>1, <1>2, <1>3, <1>4 DEF IInv, TypeOK
<1>9. QED
  BY <1>1, <1>2, <1>7, <1>8, OneStream DEF IInv, TypeOK

(* The counts of a complete stream.                                         *)
LEMMA CompleteCounts ==
  ASSUME NEW s
  PROVE  LET c(p) == Count(s, Stages(s) + 1, p)
         IN /\ \A p \in Parts : c(p) \in 0 .. 2
            /\ s \in Readers => \A p \in Parts :
                 c(p) = IF p = "conf" THEN 0 ELSE IF p \in {"poll_sem", "read_sem"} THEN 2 ELSE 1
            /\ s \notin Readers => \A p \in Parts : c(p) = IF p \in {"self", "rk"} THEN 1 ELSE 0
BY DEF Count, Stages, ReaderCount, WriterCount, One, Parts

(* The thread is stopped, or left to itself.                                *)
LEMMA DeleteStopsStep ==
  ASSUME IInv, NEW s \in Streams, DeleteStops(s)
  PROVE  IInv'
<1>1. /\ phase[s] = "live" /\ phase' = [phase EXCEPT ![s] = "deleting"]
      /\ fields' = [fields EXCEPT ![s] = fields[s] \ {"thread"}]
      /\ UNCHANGED <<adapter, connection, stage, available, crashed>>
      /\ \/ objects' = [objects EXCEPT ![s]["thread"] = 0]
         \/ "join" \in Faults /\ UNCHANGED objects
  BY DEF DeleteStops
<1>2. stage[s] = Stages(s) + 1 /\ Built(s, Stages(s) + 1)
  BY <1>1 DEF IInv, StreamInv
<1>3. "thread" \in Parts
  BY DEF Parts
<1>4. TypeOK' /\ stage' \in [Streams -> Nat]
  <2>1. [objects[s] EXCEPT !["thread"] = 0] \in [Parts -> 0 .. 2]
    BY <1>3 DEF IInv, TypeOK
  <2>2. objects' \in [Streams -> [Parts -> 0 .. 2]]
    BY <1>1, <2>1 DEF IInv, TypeOK
  <2>3. fields' \in [Streams -> SUBSET Parts]
    BY <1>1 DEF IInv, TypeOK
  <2>4. QED
    BY <1>1, <2>2, <2>3 DEF IInv, TypeOK
<1>5. /\ \A p \in Parts \ {"thread"} : objects'[s][p] = Count(s, Stages(s) + 1, p)
      /\ objects'[s]["thread"] = 0 \/ "join" \in Faults
      /\ phase'[s] = "deleting"
      /\ fields'[s] = {p \in Parts : Count(s, Stages(s) + 1, p) > 0} \ {"thread"}
  BY <1>1, <1>2, <1>3 DEF IInv, TypeOK, Built
<1>6. StreamInv(s)'
  BY <1>5 DEF StreamInv, Count, Stages
<1>7. QED
  BY <1>1, <1>4, <1>6, OneStream DEF IInv, TypeOK

(* The cleanup at the end of a deletion.                                    *)
LEMMA DeleteCleansUpStep ==
  ASSUME IInv, NEW s \in Streams, DeleteCleansUp(s)
  PROVE  IInv'
<1> DEFINE freed == fields[s] \cap Cleaned(s)
<1>1. /\ phase[s] = "deleting" /\ phase' = [phase EXCEPT ![s] = "gone"]
      /\ fields' = [fields EXCEPT ![s] = {}]
      /\ objects' = [objects EXCEPT ![s] = Counted(s, {}, freed)]
      /\ UNCHANGED <<adapter, connection, stage, available, crashed>>
  BY DEF DeleteCleansUp
<1>2. /\ fields[s] = {p \in Parts : Count(s, Stages(s) + 1, p) > 0} \ {"thread"}
      /\ \A p \in Parts \ {"thread"} : objects[s][p] = Count(s, Stages(s) + 1, p)
      /\ objects[s]["thread"] = 0 \/ "join" \in Faults
      /\ objects[s] \in [Parts -> 0 .. 2]
  BY <1>1 DEF IInv, StreamInv, TypeOK
<1>3. \A p \in Parts : Counted(s, {}, freed)[p] = objects[s][p] - One(p \in freed)
  BY <1>2 DEF Counted, One
<1>4. ASSUME NEW p \in Parts
      PROVE  /\ Counted(s, {}, freed)[p] =
                  IF s \in Readers /\ p \in {"type_support", "sample", "info", "poll_sem", "read_sem"}
                  THEN 1 ELSE IF p = "thread" /\ "join" \in Faults THEN objects[s][p] ELSE 0
  <2>1. CASE p = "thread"
    <3>1. p \notin freed
      BY <1>2, <2>1
    <3>2. QED
      BY <1>2, <1>3, <2>1, <3>1 DEF One
  <2>2. CASE p # "thread" /\ s \in Readers
    <3>1. objects[s][p] = IF p = "conf" THEN 0 ELSE IF p \in {"poll_sem", "read_sem"} THEN 2 ELSE 1
      BY <1>2, <2>2, CompleteCounts
    <3>2. p \in freed <=> p \in {"rk", "poll_sem", "read_sem", "sample_list", "info_list", "self"}
      BY <1>2, <2>2, <3>1 DEF Cleaned
    <3>3. QED
      BY <1>3, <2>2, <3>1, <3>2 DEF One, Parts
  <2>3. CASE p # "thread" /\ s \notin Readers
    <3>1. objects[s][p] = IF p \in {"self", "rk"} THEN 1 ELSE 0
      BY <1>2, <2>3, CompleteCounts
    <3>2. p \in freed <=> p \in {"rk", "self"}
      BY <1>2, <2>3, <3>1 DEF Cleaned
    <3>3. QED
      BY <1>3, <2>3, <3>1, <3>2 DEF One
  <2>4. QED
    BY <2>1, <2>2, <2>3
<1>5. Counted(s, {}, freed) \in [Parts -> 0 .. 2]
  <2>1. Counted(s, {}, freed) = [p \in Parts |-> Counted(s, {}, freed)[p]]
    BY DEF Counted
  <2>2. \A p \in Parts : Counted(s, {}, freed)[p] \in 0 .. 2
    BY <1>2, <1>4
  <2>3. QED
    BY <2>1, <2>2
<1>6. TypeOK' /\ stage' \in [Streams -> Nat]
  BY <1>1, <1>5 DEF IInv, TypeOK
<1>7. phase'[s] = "gone" /\ fields'[s] = {} /\ objects'[s] = Counted(s, {}, freed)
  BY <1>1 DEF IInv, TypeOK
<1> HIDE DEF freed
<1>8. GoneLeaves(s)'
  BY <1>4, <1>7 DEF GoneLeaves
<1>9. StreamInv(s)'
  BY <1>7, <1>8 DEF StreamInv
<1>10. QED
  BY <1>1, <1>6, <1>9, OneStream DEF IInv, TypeOK, freed

(* Every step keeps the invariant.                                          *)
LEMMA StepIInv == IInv /\ [Next]_vars => IInv'
<1> SUFFICES ASSUME IInv, [Next]_vars PROVE IInv'
  OBVIOUS
<1>1. QED
  BY OwnersStep, BeginCreateStep, CreateStageStep, CreateFailsStep, DeleteStopsStep,
     DeleteCleansUpStep DEF Next

-----------------------------------------------------------------------------
(* IInv holds in every state of the adapter.                                *)
THEOREM Invariance == Spec => []IInv
<1>1. QED
  BY InitIInv, StepIInv, PTL DEF Spec

(* The state of the adapter is always well typed: no field is freed that is *)
(* not allocated and no part has more than two objects.                     *)
THEOREM TypeCorrect == Spec => []TypeOK
<1>1. IInv => TypeOK
  BY DEF IInv
<1>2. QED
  BY <1>1, Invariance, PTL

(* A polling thread exists only with everything it touches, and with the    *)
(* poll_sem that was given, for any number of streams created and deleted   *)
(* side by side.                                                            *)
THEOREM ReaderIsReady == Spec => []ReaderReady
<1>1. ASSUME IInv PROVE ReaderReady
  <2>1. SUFFICES ASSUME NEW s \in Readers, "thread" \in fields[s]
                 PROVE  /\ {"self", "rk", "poll_sem", "read_sem", "sample_list", "info_list"} \subseteq fields[s]
                        /\ \A p \in fields[s] : objects[s][p] > 0
                        /\ available[s]
    BY DEF ReaderReady
  <2>2. s \in Streams /\ StreamInv(s) /\ Stages(s) = 16
    BY <1>1 DEF Streams, IInv, Stages
  <2>3. Count(s, 1, "thread") = 0 /\ \A k \in 1 .. 16 : Count(s, k, "thread") = 0
    BY DEF Count, ReaderCount, One
  <2>4. phase[s] = "live"
    <3>1. phase[s] # "none" /\ phase[s] # "creating"
      BY <2>1, <2>2, <2>3 DEF StreamInv, Built
    <3>2. phase[s] \notin {"deleting", "failed", "gone"}
      BY <2>1, <2>2 DEF StreamInv
    <3>3. QED
      BY <1>1, <2>2, <3>1, <3>2 DEF IInv, TypeOK
  <2>5. stage[s] = 17 /\ Built(s, 17)
    BY <2>2, <2>4 DEF StreamInv
  <2>6. available[s]
    BY <2>2, <2>4, <2>5 DEF StreamInv
  <2>7. \A p \in Parts :
          Count(s, 17, p) = IF p = "conf" THEN 0 ELSE IF p \in {"poll_sem", "read_sem"} THEN 2 ELSE 1
    BY <2>2, CompleteCounts
  <2>8. {"self", "rk", "poll_sem", "read_sem", "sample_list", "info_list"} \subseteq fields[s]
        /\ \A p \in fields[s] : objects[s][p] > 0
    BY <2>5, <2>7 DEF Built, Parts
  <2>9. QED
    BY <2>6, <2>8
<1>2. QED
  BY <1>1, Invariance, PTL

(* What the deletion of a stream leaves allocated, for any history of its   *)
(* connection.                                                              *)
THEOREM DeletionLeaves == Spec => []LeftByDeletion
<1>1. IInv => LeftByDeletion
  BY DEF IInv, StreamInv, GoneLeaves, LeftByDeletion
<1>2. QED
  BY <1>1, Invariance, PTL

(* What a failed creation leaves allocated, at whichever stage it failed:   *)
(* never a thread, never a Kafka client.                                    *)
THEOREM FailureLeaves == Spec => []LeftByFailure
<1>1. IInv => LeftByFailure
  BY DEF IInv, StreamInv, FailedLeaves, LeftByFailure
<1>2. QED
  BY <1>1, Invariance, PTL
============================================================================
