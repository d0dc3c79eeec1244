------------------------ MODULE MCKafkaStreamWriter ------------------------
(* Bounded instances of KafkaStreamWriter for TLC.                          *)
EXTENDS KafkaStreamWriter

(* Text of two lengths, bytes with an inner NUL and without any, nothing.   *)
MixedPayloads == {<<1, 0>>, <<1, 2, 0>>, <<1, 0, 2>>, <<2, 1>>, <<>>}
(* Serialized data: any octet may be zero.                                 *)
BinaryPayloads == {<<1, 0, 2>>, <<2, 1>>}
Neighbours == {<<>>, <<1>>}
NoFaults == {}
EveryFault == {"sample", "produce"}
=============================================================================
