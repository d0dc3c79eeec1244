------------------ MODULE ProtobufTransformation_proof ------------------
(***************************************************************************)
(* Proofs about ProtobufTransformation for every bound on messages and for  *)
(* every set of failures.                                                   *)
(***************************************************************************)
EXTENDS ProtobufTransformation, TLAPS

(* A transformation that is ready passed validate_buffer_member(): the      *)
(* default branches of serialize and deserialize are not reached.           *)
ReadyMeansValid == phase = "ready" => ValidBufferMember

(* A failure that is not returned is that of the converter in a             *)
(* deserializer.                                                            *)
OnlyConverterSilent ==
  result \notin {"none", "ok"} /\ retcode # "error" =>
    kind = "deserialize" /\ result = "convert" /\ "convert" \in Faults

(* The conversions keep these together: OutputIsInput needs the valid       *)
(* member, which rules out the branch that returns DDS_RETCODE_OK without   *)
(* having done anything.                                                    *)
IInv ==
  /\ TypeOK /\ ReadyMeansValid
  /\ OutputIsInput /\ LoanReturned /\ OnlyConverterSilent

-----------------------------------------------------------------------------
(* The buffers of a new transformation are empty.                           *)
LEMMA InitIInv == Init => IInv
<1> SUFFICES ASSUME Init PROVE IInv
  OBVIOUS
<1>1. TypeOK
  BY ProtobufAssumption DEF Init, TypeOK, NoMessage, Results
<1>2. ReadyMeansValid /\ OutputIsInput /\ LoanReturned /\ OnlyConverterSilent
  BY DEF Init, ReadyMeansValid, OutputIsInput, LoanReturned, OnlyConverterSilent
<1>3. QED
  BY <1>1, <1>2 DEF IInv

(* The set functions of DynamicDataHelpers and of Connext, given a message  *)
(* that pb_buffer holds: the loan of the sequence is given back unless the  *)
(* message did not fit, and "ok" means that the sample holds the message.   *)
LEMMA SetKeepsLoan ==
  ASSUME IInv, kind = "serialize", phase = "ready", NEW m \in Messages,
         \/ Bytes("sequence") /\ SetSeqFromString(m)
         \/ Bytes("array") /\ SetArray(m)
  PROVE  /\ seq' \in [loaned : BOOLEAN, maximum : 0 .. MaxSize]
         /\ sample_out' \in Messages \cup {NoMessage}
         /\ result' \in Results \ {"none", "convert"}
         /\ result' = "ok" =>
              /\ sample_out'.id = m.id /\ sample_out'.size >= m.size
              /\ member.kind = "sequence" => sample_out' = m
         /\ seq'.maximum > 0 => seq'.loaned /\ seq'.maximum > member.bound
         /\ result' = "loan" => seq'.maximum > member.bound
<1> USE ProtobufAssumption DEF IInv, TypeOK, Messages, MemberTypes, Results, Bytes
<1>1. CASE Bytes("sequence") /\ SetSeqFromString(m)
  <2> USE <1>1
  <2>1. CASE seq.maximum # 0 /\ result' = "loan" /\ UNCHANGED <<seq, sample_out>>
    BY <2>1 DEF LoanReturned
  <2>2. CASE /\ seq.maximum = 0 /\ m.size <= member.bound /\ result' = "ok"
             /\ sample_out' = m /\ seq' = [loaned |-> FALSE, maximum |-> 0]
    BY <2>2
  <2>3. CASE /\ seq.maximum = 0 /\ m.size > member.bound /\ result' = "size"
             /\ seq' = [loaned |-> TRUE, maximum |-> m.size] /\ UNCHANGED sample_out
    BY <2>3
  <2>4. QED
    BY <2>1, <2>2, <2>3 DEF SetSeqFromString
<1>2. CASE Bytes("array") /\ SetArray(m)
  BY <1>2 DEF SetArray, LoanReturned
<1>3. QED
  BY <1>1, <1>2

(* serialize() keeps the invariant.                                         *)
LEMMA SerializeIInv ==
  ASSUME IInv, NEW m \in Messages, Serialize(m)
  PROVE  IInv'
<1> USE DEF IInv
<1>1. /\ UNCHANGED <<kind, member, output_ok, phase>> /\ input' = m
      /\ kind = "serialize" /\ phase = "ready"
      /\ retcode' = IF result' = "ok" THEN "ok" ELSE "error"
  BY DEF Serialize
<1>2. CASE "convert" \in Faults /\ result' = "convert" /\ UNCHANGED <<pb_buffer, seq, sample_out>>
  <2>1. TypeOK'
    BY <1>1, <1>2 DEF TypeOK, Results
  <2>2. OutputIsInput' /\ LoanReturned' /\ OnlyConverterSilent' /\ ReadyMeansValid'
    BY <1>1, <1>2 DEF OutputIsInput, LoanReturned, OnlyConverterSilent, ReadyMeansValid,
                      ValidBufferMember
  <2>3. QED
    BY <2>1, <2>2
<1>3. CASE /\ pb_buffer' = m
           /\ CASE Bytes("sequence") -> SetSeqFromString(pb_buffer')
                [] Bytes("array") -> SetArray(pb_buffer')
                [] OTHER -> Unhandled
  <2>1. \/ Bytes("sequence") /\ SetSeqFromString(m)
        \/ Bytes("array") /\ SetArray(m)
    BY <1>1, <1>3 DEF ReadyMeansValid, ValidBufferMember, Bytes
  <2>2. /\ seq' \in [loaned : BOOLEAN, maximum : 0 .. MaxSize]
        /\ sample_out' \in Messages \cup {NoMessage}
        /\ result' \in Results \ {"none", "convert"}
        /\ result' = "ok" =>
             /\ sample_out'.id = m.id /\ sample_out'.size >= m.size
             /\ member.kind = "sequence" => sample_out' = m
        /\ seq'.maximum > 0 => seq'.loaned /\ seq'.maximum > member.bound
        /\ result' = "loan" => seq'.maximum > member.bound
    BY <1>1, <2>1, SetKeepsLoan
  <2>3. TypeOK'
    BY <1>1, <1>3, <2>2 DEF TypeOK
  <2>4. OutputIsInput' /\ LoanReturned' /\ OnlyConverterSilent' /\ ReadyMeansValid'
    BY <1>1, <2>2 DEF OutputIsInput, LoanReturned, OnlyConverterSilent, ReadyMeansValid,
                      ValidBufferMember
  <2>5. QED
    BY <2>3, <2>4
<1>4. QED
  BY <1>2, <1>3 DEF Serialize

(* deserialize() keeps the invariant.                                       *)
LEMMA DeserializeIInv ==
  ASSUME IInv, NEW m \in Messages, Deserialize(m)
  PROVE  IInv'
<1> USE DEF IInv
<1>1. /\ UNCHANGED <<kind, member, output_ok, phase, pb_buffer>> /\ input' = m
      /\ kind = "deserialize" /\ phase = "ready"
      /\ retcode' = IF result' \in {"ok", "convert", "kind"} THEN "ok" ELSE "error"
  BY DEF Deserialize
<1>2. \/ Bytes("sequence") /\ GetSeq(m)
      \/ Bytes("array") /\ GetArray
  BY <1>1 DEF Deserialize, ReadyMeansValid, ValidBufferMember, Bytes
<1>3. /\ seq' \in [loaned : BOOLEAN, maximum : 0 .. MaxSize]
      /\ sample_out' \in Messages \cup {NoMessage}
      /\ result' \in Results \ {"none", "kind"}
      /\ result' = "ok" => sample_out' = m
      /\ result' = "convert" => "convert" \in Faults
  <2>1. CASE Bytes("sequence") /\ GetSeq(m)
    BY <2>1, ProtobufAssumption DEF GetSeq, TypeOK, Messages, Results
  <2>2. CASE Bytes("array") /\ GetArray
    BY <2>2 DEF GetArray, TypeOK, Results
  <2>3. QED
    BY <1>2, <2>1, <2>2
<1>4. TypeOK'
  BY <1>1, <1>3 DEF TypeOK
<1>5. OutputIsInput'
  BY <1>1, <1>3, ProtobufAssumption DEF OutputIsInput, Messages, Results
<1>6. LoanReturned' /\ OnlyConverterSilent' /\ ReadyMeansValid'
  BY <1>1, <1>3 DEF LoanReturned, OnlyConverterSilent, ReadyMeansValid, ValidBufferMember,
                    Results
<1>7. QED
  BY <1>4, <1>5, <1>6

(* Every step keeps the invariant.                                          *)
LEMMA StepIInv == IInv /\ [Next]_vars => IInv'
<1> SUFFICES ASSUME IInv, [Next]_vars PROVE IInv'
  OBVIOUS
<1>1. CASE Initialize
  BY <1>1 DEF Initialize, IInv, TypeOK, ReadyMeansValid, ValidBufferMember, OutputIsInput,
              LoanReturned, OnlyConverterSilent
<1>2. ASSUME NEW m \in Incoming, Serialize(m) \/ Deserialize(m)
      PROVE  IInv'
  BY <1>2, SerializeIInv, DeserializeIInv DEF Incoming
<1>3. CASE UNCHANGED vars
  BY <1>3 DEF vars, IInv, TypeOK, ReadyMeansValid, ValidBufferMember, OutputIsInput,
              LoanReturned, OnlyConverterSilent
<1>4. QED
  BY <1>1, <1>2, <1>3 DEF Next

-----------------------------------------------------------------------------
(* IInv holds in every state a transformation reaches.                      *)
THEOREM Invariance == Spec => []IInv
<1>1. QED
  BY InitIInv, StepIInv, PTL DEF Spec

(* The state of a Protobuf transformation is always well typed.             *)
THEOREM TypeCorrect == Spec => []TypeOK
<1>1. IInv => TypeOK
  BY DEF IInv
<1>2. QED
  BY <1>1, Invariance, PTL

(* A conversion that returns DDS_RETCODE_OK has put its own message into    *)
(* the output sample, whatever the sizes of the messages before it and      *)
(* whichever of them failed; a deserializer whose converter failed is the   *)
(* one exception.                                                           *)
THEOREM ConversionExact == Spec => []OutputIsInput
<1>1. IInv => OutputIsInput
  BY DEF IInv
<1>2. QED
  BY <1>1, Invariance, PTL

(* The sequence a serializer lends to Connext is empty again for the next   *)
(* sample, unless a message exceeded the bound of the member.               *)
THEOREM LoanAlwaysReturned == Spec => []LoanReturned
<1>1. IInv => LoanReturned
  BY DEF IInv
<1>2. QED
  BY <1>1, Invariance, PTL

(* A failure that is logged and not returned is that of the converter in a  *)
(* deserializer, and no other call of serialize or deserialize.             *)
THEOREM SilentFailureIsConverter == Spec => []OnlyConverterSilent
<1>1. IInv => OnlyConverterSilent
  BY DEF IInv
<1>2. QED
  BY <1>1, Invariance, PTL

(* Where the converter does not fail, every failure is returned.            *)
THEOREM FailuresReturned ==
  ASSUME "convert" \notin Faults
  PROVE  Spec => []FailureReturned
<1>1. OnlyConverterSilent => FailureReturned
  BY DEF OnlyConverterSilent, FailureReturned
<1>2. QED
  BY <1>1, SilentFailureIsConverter, PTL
============================================================================
