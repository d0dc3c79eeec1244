---------------------- MODULE ProtobufTransformation ----------------------
(***************************************************************************)
(* The conversions of one Protobuf transformation                           *)
(* (ProtobufTransformation.cxx, DynamicDataHelpers.c): how a serialized     *)
(* message moves between the bytes member of a DDS sample and the buffers   *)
(* the transformation keeps from one sample to the next, pb_buffer and the  *)
(* sequence octet_seq or char_seq.                                          *)
(*                                                                          *)
(* A message is its identity and its serialized size.  The direction of the *)
(* conversion and the type of the bytes member are chosen in Init and never *)
(* change.  Conversions run on the session thread, one at a time.           *)
(*                                                                          *)
(* External (Connext): loan_contiguous refuses a sequence whose maximum is  *)
(* not 0; set_octet_seq and set_octet_array fail when the value exceeds the *)
(* bound of the member; get_octet_array fails when it is given less room    *)
(* than the array has; a sequence that never held an element may have no    *)
(* buffer.                                                                  *)
(***************************************************************************)
EXTENDS Integers

CONSTANTS MaxSize,   \* bound on the size of a serialized message
          MaxCalls,  \* bound on the samples converted
          Faults     \* subset of FaultKinds

(* "convert": the message converter fails; "descriptor": the converter      *)
(* cannot be created; "oversize": messages may exceed the bound of the      *)
(* member.                                                                  *)
FaultKinds == {"convert", "descriptor", "oversize"}

ASSUME ProtobufAssumption ==
  /\ MaxSize \in Nat \ {0} /\ MaxCalls \in Nat
  /\ Faults \subseteq FaultKinds

(* Types of the bytes member, "none" when the sample has no such member.    *)
MemberTypes ==
  [kind : {"sequence", "array", "matrix", "none", "long"},
   element : {"octet", "char", "long"},
   bound : 1 .. MaxSize]

Messages == [id : 1 .. MaxCalls, size : 0 .. MaxSize]
NoMessage == [id |-> 0, size |-> 0]

VARIABLES
  kind,        \* config->parent.type: "serialize" or "deserialize"
  member,      \* the type of config->buffer_member
  output_ok,   \* the output type of a deserializer is a struct with members
  phase,       \* "new", "ready" or "failed"
  pb_buffer,   \* the message the string state->pb_buffer holds
  seq,         \* octet_seq or char_seq: [loaned, maximum]
  sample_out,  \* the message the output sample holds
  result,      \* how the last conversion ended
  retcode,     \* what it returned
  input        \* the message of the last conversion

vars ==
  <<kind, member, output_ok, phase, pb_buffer, seq, sample_out, result, retcode,
    input>>

(* How a conversion ended: "convert": the converter failed; "size": the     *)
(* value did not fit; "loan": the sequence was not empty; "space": no room  *)
(* to copy the array to; "buffer": the sequence has no buffer; "kind": a    *)
(* member no branch handles.                                                *)
Results == {"none", "ok", "convert", "size", "loan", "space", "buffer", "kind"}

TypeOK ==
  /\ kind \in {"serialize", "deserialize"}
  /\ member \in MemberTypes /\ output_ok \in BOOLEAN
  /\ phase \in {"new", "ready", "failed"}
  /\ pb_buffer \in Messages \cup {NoMessage}
  /\ seq \in [loaned : BOOLEAN, maximum : 0 .. MaxSize]
  /\ sample_out \in Messages \cup {NoMessage}
  /\ result \in Results /\ retcode \in {"none", "ok", "error"}
  /\ input \in Messages \cup {NoMessage}

Init ==
  /\ kind \in {"serialize", "deserialize"}
  /\ member \in MemberTypes /\ output_ok \in BOOLEAN
  /\ phase = "new"
  /\ pb_buffer = NoMessage
  /\ seq = [loaned |-> FALSE, maximum |-> 0]
  /\ sample_out = NoMessage
  /\ result = "none" /\ retcode = "none"
  /\ input = NoMessage

-----------------------------------------------------------------------------
(* RTI_TSFM_ProtobufTransformation_validate_buffer_member: a sequence or an *)
(* array of one dimension, of octets or chars.                              *)
ValidBufferMember ==
  member.kind \in {"sequence", "array"} /\ member.element \in {"octet", "char"}

(* validate_output_type of a deserializer.                                  *)
ValidOutput == kind = "serialize" \/ output_ok

(* RTI_TSFM_ProtobufTransformation_initialize.  preallocate_buffers creates *)
(* pb_buffer and leaves it empty: the resize is under pb_buffer == NULL.    *)
Initialize ==
  /\ phase = "new"
  /\ \/ /\ ValidBufferMember /\ ValidOutput
        /\ phase' = "ready"
     \/ /\ ~(ValidBufferMember /\ ValidOutput) \/ "descriptor" \in Faults
        /\ phase' = "failed"
  /\ UNCHANGED <<kind, member, output_ok, pb_buffer, seq, sample_out, result,
                 retcode, input>>

(* The next message, of any size the member can hold or, with "oversize",   *)
(* of any size.                                                             *)
Incoming ==
  {m \in Messages : m.id = input.id + 1 /\ (m.size > member.bound => "oversize" \in Faults)}

-----------------------------------------------------------------------------
(* Variant: the loan is left in place when the value was set.               *)
SetSeqKeepsLoan(m) ==
  /\ seq' = [loaned |-> TRUE, maximum |-> m.size]
  /\ result' = (IF seq.maximum # 0 THEN "loan" ELSE "ok")
  /\ sample_out' = (IF seq.maximum # 0 THEN sample_out ELSE m)

(* RTI_COMMON_DynamicData_set_octet_seq_from_string (and set_char_seq): the *)
(* sequence borrows pb_buffer, is copied into the sample, gives it back.    *)
(* If the copy fails it keeps the loan.                                     *)
SetSeqFromString(m) ==
  \/ /\ seq.maximum # 0
     /\ result' = "loan"
     /\ UNCHANGED <<seq, sample_out>>
  \/ /\ seq.maximum = 0 /\ m.size <= member.bound
     /\ result' = "ok"
     /\ sample_out' = m
     /\ seq' = [loaned |-> FALSE, maximum |-> 0]
  \/ /\ seq.maximum = 0 /\ m.size > member.bound
     /\ result' = "size"
     /\ seq' = [loaned |-> TRUE, maximum |-> m.size]
     /\ UNCHANGED sample_out

(* DDS_DynamicData_set_octet_array, set_char_array.  An array has all its N *)
(* elements, whatever the size of the message at its start.  Connext may    *)
(* refuse a value that does not fill it.                                    *)
SetArray(m) ==
  /\ \/ /\ m.size <= member.bound
        /\ result' = "ok"
        /\ sample_out' = [m EXCEPT !.size = member.bound]
     \/ m.size # member.bound /\ result' = "size" /\ UNCHANGED sample_out
  /\ UNCHANGED seq

(* The branches on member_info: octets or chars in such a container.        *)
Bytes(container) ==
  member.kind = container /\ member.element \in {"octet", "char"}

(* The default branch: an error is logged.                                  *)
Unhandled == result' = "kind" /\ UNCHANGED <<seq, sample_out>>

(* RTI_TSFM_ProtobufTransformation_serialize.  Every failure returns an     *)
(* error.                                                                   *)
Serialize(m) ==
  /\ kind = "serialize" /\ phase = "ready"
  /\ input' = m
  /\ \/ /\ "convert" \in Faults
        /\ result' = "convert"
        /\ UNCHANGED <<pb_buffer, seq, sample_out>>
     \/ /\ pb_buffer' = m
        /\ CASE Bytes("sequence") -> SetSeqFromString(pb_buffer')
             [] Bytes("array") -> SetArray(pb_buffer')
             [] OTHER -> Unhandled
  /\ retcode' = IF result' = "ok" THEN "ok" ELSE "error"
  /\ UNCHANGED <<kind, member, output_ok, phase>>

-----------------------------------------------------------------------------
(* Variant: the length handed to the parser is the room of the sequence.    *)
GetSeqMaximum(m) ==
  LET max == IF m.size > seq.maximum THEN m.size ELSE seq.maximum IN
  /\ seq' = [seq EXCEPT !.maximum = max]
  /\ result' = "ok"
  /\ sample_out' = [m EXCEPT !.size = max]

(* Variant: the room grows by every message.                                *)
GetSeqGrows(m) ==
  /\ seq' = [seq EXCEPT !.maximum = @ + m.size]
  /\ result' = "ok"
  /\ sample_out' = m

(* RTI_COMMON_DynamicData_get_octet_seq_contiguous_buffer (and _char_seq),  *)
(* then the converter: the sequence keeps the room of the largest message.  *)
(* A converter that fails may have written part of the sample.              *)
GetSeq(m) ==
  LET max == IF m.size > seq.maximum THEN m.size ELSE seq.maximum IN
  /\ seq' = [seq EXCEPT !.maximum = max]
  /\ \/ result' = "ok" /\ sample_out' = m
     \/ max = 0 /\ result' = "buffer" /\ UNCHANGED sample_out
     \/ /\ "convert" \in Faults
        /\ result' = "convert"
        /\ sample_out' \in {sample_out, NoMessage}

(* DDS_DynamicData_get_octet_array, get_char_array into pb_buffer, with     *)
(* buffer_len = 0 as the room there is.                                     *)
GetArray ==
  /\ result' = "space"
  /\ UNCHANGED <<seq, sample_out>>

(* RTI_TSFM_ProtobufTransformation_deserialize.  retcode is DDS_RETCODE_OK  *)
(* from the last library call that succeeded: when the converter fails, or  *)
(* in a default branch, that is what the function returns.                  *)
Deserialize(m) ==
  /\ kind = "deserialize" /\ phase = "ready"
  /\ input' = m
  /\ CASE Bytes("sequence") -> GetSeq(m)
       [] Bytes("array") -> GetArray
       [] OTHER -> Unhandled
  /\ retcode' = IF result' \in {"ok", "convert", "kind"} THEN "ok" ELSE "error"
  /\ UNCHANGED <<kind, member, output_ok, phase, pb_buffer>>

Next == Initialize \/ \E m \in Incoming : Serialize(m) \/ Deserialize(m)

Spec == Init /\ [][Next]_vars

-----------------------------------------------------------------------------
(* A conversion that returns DDS_RETCODE_OK has put its own message into    *)
(* the output sample, whatever failed before: in a sequence nothing follows *)
(* it, of a larger message before it or otherwise; in an array it comes     *)
(* first.  The one exception is a deserializer whose converter failed.      *)
OutputIsInput ==
  retcode = "ok" /\ ~(kind = "deserialize" /\ result = "convert") =>
    /\ sample_out.id = input.id /\ sample_out.size >= input.size
    /\ member.kind = "sequence" => sample_out = input

(* The sequence still borrows pb_buffer after a call, and a call is refused *)
(* for that reason, only if some earlier message did not fit the member:    *)
(* "we do a loan_contiguous in the serialization method and it requires     *)
(* that the sequence has 0 size".                                           *)
LoanReturned ==
  kind = "serialize" =>
    /\ seq.maximum > 0 => seq.loaned /\ seq.maximum > member.bound
    /\ result = "loan" => seq.maximum > member.bound

(* What is logged as "unable to transform Protobuf message to DDS sample"   *)
(* is returned as an error, so that transform() does not deliver the sample.*)
FailureReturned == result \notin {"none", "ok"} => retcode = "error"
============================================================================
