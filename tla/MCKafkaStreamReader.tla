------------------------ MODULE MCKafkaStreamReader ------------------------
(* Bounded instances of KafkaStreamReader for TLC.                          *)
EXTENDS KafkaStreamReader

NoFaults == {}
EveryFault == FaultKinds
ConsumerErrors == {"consumer"}
=============================================================================
