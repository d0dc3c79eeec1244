--------------------- MODULE MCProtobufTransformation ---------------------
(* Bounded instances of ProtobufTransformation for TLC.                     *)
EXTENDS ProtobufTransformation

EveryFault == FaultKinds
Unparsable == {"convert"}
============================================================================
