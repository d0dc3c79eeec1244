------------------------ MODULE MCKafkaConnection ------------------------
(* A bounded instance of KafkaConnection for TLC: a reader and a writer on  *)
(* one connection, with every call allowed to fail.                         *)
EXTENDS KafkaConnection

CONSTANTS r1, w1
OneReader == {r1}
OneWriter == {w1}
EveryFault == FaultKinds
============================================================================
