------------------------- MODULE ProtobufConverter -------------------------
(***************************************************************************)
(* The converter between Protobuf messages and DDS samples                  *)
(* (ProtobufDynamicDataConverter.cxx, DdsToProtobuf.cpp, ProtobufToDds.cpp, *)
(* ProtobufConverterUtils.hpp).                                             *)
(*                                                                          *)
(* Both directions recurse over the members of a type.  The recursion is    *)
(* the variable stack, one frame per call of dds_to_protobuf,               *)
(* protobuf_to_dds or of the functions for collections.  A nested member is *)
(* reached through a DynamicData object bound to it, and there is one such  *)
(* object per type, kept in dds_data_cache over all conversions; strings    *)
(* and bytes pass through the one buffer str_buffer, which also outlives    *)
(* the conversion.                                                          *)
(*                                                                          *)
(* A sample or a message is a function from paths to values: <<2, 1>> is    *)
(* member 2 of the root and member, or element, 1 of it.  What a bound      *)
(* object reads and writes is found through its binding, not through the    *)
(* frame.                                                                   *)
(*                                                                          *)
(* External (Connext): bind_complex_member refuses an object that is bound  *)
(* and a parent that has a bound member; writing a member of a union drops  *)
(* the member that it held.  External (Protobuf): writing a field with an   *)
(* accessor of another type or label ends the process.                      *)
(***************************************************************************)
EXTENDS DynamicDataTypes, FiniteSets

CONSTANTS
  Samples,        \* samples that may be serialized
  Messages,       \* messages that may be deserialized
  DescriptorSets, \* sequences of files: [builds, messages]
  InitialSize,    \* RTI_TSFM_STR_BUFFER_INITIAL_SIZE
  MaxCalls,       \* bound on the conversions
  Faults          \* subset of FaultKinds

(* "new": an object cannot be allocated; "library": any call to Connext or  *)
(* to the reflection API of Protobuf fails, but for the unbinding of an     *)
(* object, which is "unbind"; "wire": a message cannot be parsed or         *)
(* serialized.                                                              *)
FaultKinds == {"new", "library", "unbind", "wire"}

(* The object the sample is given as, and that of an earlier sample, next   *)
(* to the ones named by their type.                                         *)
RootObject == "root"
EarlierRoot == "earlier root"

ASSUME ConverterAssumption ==
  /\ InitialSize \in Nat \ {0} /\ MaxCalls \in Nat
  /\ Faults \subseteq FaultKinds
  /\ RootObject \notin Types /\ EarlierRoot \notin Types

VARIABLES
  phase,       \* "new", "thrown", "idle", "dds2pb", "pb2dds" or "aborted"
  stack,       \* the calls in progress, the innermost last
  cache,       \* dds_data_cache: types that have an object
  bound,       \* bound[t]: where the object of type t is bound, and whether
               \* for a "call" in progress or "left" by a failed unbinding
  str_buffer,  \* content of str_buffer
  sample,      \* the DDS sample of the conversion
  message,     \* *pb_msg_
  ok,          \* FALSE once a call failed
  reason,      \* why
  calls        \* conversions started

vars ==
  <<phase, stack, cache, bound, str_buffer, sample, message, ok, reason, calls>>
converted == <<sample, message>>

Reasons == {"none", "bind", "field", "kind", "range", "new", "library", "wire"}

(* A path in a sample or a message.                                         *)
Paths == Seq(Nat)

(* Clear(), clear_all_members(): a member that was not written is absent.   *)
Empty == [p \in {<<>>} |-> <<>>]

(* A call: the type of its object, the path of its message or repeated      *)
(* field, the next entry or element, how many there are, and ddsValueLen.   *)
Frames ==
  [type : Types, at : Paths, next : Nat, size : Nat, ddsValueLen : Nat]

(* The object it is part of, where it is, and what for.                     *)
Bindings ==
  [by : Types \cup {RootObject, EarlierRoot}, at : Paths, state : {"call", "left"}]

TypeOK ==
  /\ phase \in {"new", "thrown", "idle", "dds2pb", "pb2dds", "aborted"}
  /\ stack \in Seq(Frames)
  /\ cache \subseteq Types
  /\ DOMAIN bound \subseteq cache
  /\ \A t \in DOMAIN bound : bound[t] \in Bindings
  /\ str_buffer \in Seq(Int)
  /\ ok \in BOOLEAN
  /\ reason \in Reasons /\ (ok <=> reason = "none")
  /\ calls \in 0 .. MaxCalls

Init ==
  /\ phase = "new"
  /\ stack = <<>>
  /\ cache = {} /\ bound = <<>>
  /\ str_buffer = <<>>
  /\ sample = Empty /\ message = Empty
  /\ ok = TRUE /\ reason = "none"
  /\ calls = 0

-----------------------------------------------------------------------------
(* Paths, values and the call in progress.                                  *)

Put(d, p, v) == [q \in DOMAIN d \cup {p} |-> IF q = p THEN v ELSE d[q]]

Parent(p) == SubSeq(p, 1, Len(p) - 1)

(* element_count, FieldSize(): the elements below path p.                   *)
Size(d, p) == Cardinality({q \in DOMAIN d : q # <<>> /\ Parent(q) = p})

(* What a sample and a message have in common: what has parts has no value  *)
(* of its own, a member is one of its struct's, and elements are numbered.  *)
IsTree(d) ==
  /\ IsFiniteSet(DOMAIN d) /\ <<>> \in DOMAIN d /\ d[<<>>] = <<>>
  /\ \A p \in DOMAIN d :
       /\ p \in Paths /\ d[p] \in Seq(Int)
       /\ KindOf(TypeAt(p)) \notin StructKinds =>
            \A n \in 1 .. Size(d, p) : Append(p, n) \in DOMAIN d
       /\ p # <<>> =>
            LET t == TypeAt(Parent(p))
            IN /\ Parent(p) \in DOMAIN d /\ d[Parent(p)] = <<>>
               /\ p[Len(p)] \in 1 .. IF KindOf(t) \in StructKinds
                                     THEN Len(Schema[t].members)
                                     ELSE Size(d, Parent(p))

(* A sample has the structure of its DDS type; octets for a field of type   *)
(* bytes are a single value.                                                *)
IsSample(d) ==
  /\ IsTree(d)
  /\ \A p \in DOMAIN d :
       LET kind == KindOf(TypeAt(p))
           t == TypeAt(Parent(p))
           bytes == /\ kind \in CollectionKinds /\ KindOf(Element(TypeAt(p))) = "OCTET"
                    /\ KindOf(t) \in StructKinds =>
                         Schema[t].members[p[Len(p)]].field.type = "BYTES"
       IN IF kind \in ScalarKinds \cup {"STRING"} \/ bytes
          THEN Size(d, p) = 0 ELSE d[p] = <<>>

(* A message has the structure of its fields.                               *)
IsMessage(d) ==
  /\ IsTree(d)
  /\ \A p \in DOMAIN d \ {<<>>} :
       LET t == TypeAt(Parent(p))
           field == Schema[t].members[p[Len(p)]].field
       IN KindOf(t) \in StructKinds =>
            /\ IF field.repeated \/ field.type = "MESSAGE"
               THEN d[p] = <<>> ELSE Size(d, p) = 0
            /\ field.repeated =>
                 \A n \in 1 .. Size(d, p) :
                   IF field.type = "MESSAGE"
                   THEN d[Append(p, n)] = <<>> ELSE Size(d, Append(p, n)) = 0

ASSUME DataAssumption ==
  (\A d \in Samples : IsSample(d)) /\ (\A d \in Messages : IsMessage(d))

Top == stack[Len(stack)]
TopObject == IF Len(stack) = 1 THEN RootObject ELSE Top.type

(* Where the call's object points to: through its binding.                  *)
TopPath == IF Len(stack) = 1 THEN <<>> ELSE bound[Top.type].at

(* The member, field or element the call is at.                             *)
Here == Append(TopPath, Top.next)
Field == Append(Top.at, Top.next)

Entry == Schema[Top.type].members[Top.next]
MemberType == Resolve[Entry.type]
InStruct == KindOf(Top.type) \in StructKinds
InCollection == KindOf(Top.type) \in CollectionKinds
ElementType == Element(Top.type)

(* The field the elements of a collection go to: that of the caller; a      *)
(* collection that is an element itself was entered for a message.          *)
Caller == stack[Len(stack) - 1]
RepeatedField ==
  IF KindOf(Caller.type) \in StructKinds
  THEN Schema[Caller.type].members[Caller.next].field
  ELSE [type |-> "MESSAGE", repeated |-> FALSE]

Frame(t, at, size) ==
  [type |-> t, at |-> at, next |-> 1, size |-> size, ddsValueLen |-> 0]

Advanced(s) == [s EXCEPT ![Len(s)].next = @ + 1]

(* The innermost call is at a member or element and nothing failed.         *)
Working(p) ==
  phase = p /\ stack # <<>> /\ ok /\ Top.next <= Top.size

(* A call returns false: nothing but the failure is recorded.               *)
Fail(r) ==
  /\ ok' = FALSE /\ reason' = r
  /\ UNCHANGED <<phase, stack, cache, bound, str_buffer, converted, calls>>

(* A reflection accessor of another type or label than the field's.         *)
Abort ==
  /\ phase' = "aborted"
  /\ UNCHANGED <<stack, cache, bound, str_buffer, converted, ok, reason, calls>>

(* get_cached_dds_data(), bind_complex_member() and the call for what is    *)
(* bound.                                                                   *)
CanBind(t) ==
  /\ t \notin DOMAIN bound
  /\ \A u \in DOMAIN bound : bound[u].by # TopObject

Bound(t) == Put(bound, t, [by |-> TopObject, at |-> Here, state |-> "call"])

(* Variant: a new object is not kept in dds_data_cache.                     *)
EnterUncached(t, frame, s, m) ==
  /\ CanBind(t)
  /\ bound' = Bound(t)
  /\ stack' = Append(stack, frame)
  /\ sample' = s /\ message' = m
  /\ UNCHANGED <<phase, cache, str_buffer, ok, reason, calls>>

NoObject(t) ==
  /\ t \notin cache /\ "new" \in Faults
  /\ Fail("new")

Refused(t) ==
  /\ ~CanBind(t)
  /\ cache' = cache \cup {t}
  /\ ok' = FALSE /\ reason' = "bind"
  /\ UNCHANGED <<phase, stack, bound, str_buffer, converted, calls>>

Enter(t, frame, s, m) ==
  \/ /\ CanBind(t)
     /\ cache' = cache \cup {t}
     /\ bound' = Bound(t)
     /\ stack' = Append(stack, frame)
     /\ sample' = s /\ message' = m
     /\ UNCHANGED <<phase, str_buffer, ok, reason, calls>>
  \/ Refused(t) \/ NoObject(t)

(* The same where the field, looked at next, takes no message.              *)
EnterMisfit(t) == (CanBind(t) /\ Abort) \/ Refused(t) \/ NoObject(t)

-----------------------------------------------------------------------------
(* Construction: load_message_prototype().                                  *)

(* The files up to the first that does not build or that defines the        *)
(* message; only top-level messages are looked at.                          *)
FoundIn(files, name) ==
  \E i \in 1 .. Len(files) :
    /\ name \in files[i].messages
    /\ \A j \in 1 .. i : files[j].builds

(* The constructor throws when there is no prototype.                       *)
Construct(files) ==
  /\ phase = "new"
  /\ phase' = IF FoundIn(files, Root) THEN "idle" ELSE "thrown"
  /\ UNCHANGED <<stack, cache, bound, str_buffer, converted, ok, reason, calls>>

(* The sample of a conversion is the object of the last one, or another     *)
(* one, to which nothing is bound.                                          *)
OtherRoot ==
  [t \in DOMAIN bound |->
     IF bound[t].by = RootObject THEN [bound[t] EXCEPT !.by = EarlierRoot] ELSE bound[t]]

(* serialize(): Clear(), then dds_to_protobuf() on the sample.              *)
Serialize(s) ==
  /\ phase = "idle" /\ calls < MaxCalls
  /\ phase' = "dds2pb" /\ calls' = calls + 1
  /\ sample' = s
  /\ message' = Empty
  /\ stack' = <<Frame(Root, <<>>, Len(Schema[Root].members))>>
  /\ ok' = TRUE /\ reason' = "none"
  /\ bound' \in {bound, OtherRoot}
  /\ UNCHANGED <<cache, str_buffer>>

(* deserialize(): Clear(), ParseFromArray(), then protobuf_to_dds() into a  *)
(* sample of read_buffer that return_loan() cleared; what it may hold after *)
(* a batch was given up is the business of module Transformation.           *)
Deserialize(m) ==
  /\ phase = "idle" /\ calls < MaxCalls
  /\ phase' = "pb2dds" /\ calls' = calls + 1
  /\ sample' = Empty
  /\ message' = m
  /\ \/ /\ stack' = <<Frame(Root, <<>>, Len(Schema[Root].members))>>
        /\ ok' = TRUE /\ reason' = "none"
     \/ /\ "wire" \in Faults
        /\ stack' = <<>>
        /\ ok' = FALSE /\ reason' = "wire"
  /\ bound' \in {bound, OtherRoot}
  /\ UNCHANGED <<cache, str_buffer>>

(* The outermost call is over: serialize() serializes the message.          *)
Finish ==
  /\ phase \in {"dds2pb", "pb2dds"} /\ stack = <<>>
  /\ phase' = "idle"
  /\ \/ UNCHANGED <<ok, reason>>
     \/ /\ phase = "dds2pb" /\ ok /\ "wire" \in Faults
        /\ ok' = FALSE /\ reason' = "wire"
  /\ UNCHANGED <<stack, cache, bound, str_buffer, converted, calls>>

Unbound(t) == [u \in DOMAIN bound \ {t} |-> bound[u]]

(* Variant: the object is unbound when the call succeeds only.              *)
ReturnKeepsFailed ==
  /\ phase \in {"dds2pb", "pb2dds"} /\ stack # <<>>
  /\ ~ok \/ Top.next > Top.size
  /\ LET outer == SubSeq(stack, 1, Len(stack) - 1)
     IN stack' = IF ok /\ outer # <<>> THEN Advanced(outer) ELSE outer
  /\ bound' = IF Len(stack) = 1 \/ ~ok THEN bound ELSE Unbound(Top.type)
  /\ UNCHANGED <<phase, cache, str_buffer, converted, ok, reason, calls>>

(* Variant: an element stays bound until the loop over them is over.        *)
ReturnKeepsElement ==
  /\ phase \in {"dds2pb", "pb2dds"} /\ stack # <<>>
  /\ ~ok \/ Top.next > Top.size
  /\ LET outer == SubSeq(stack, 1, Len(stack) - 1)
     IN stack' = IF ok /\ outer # <<>> THEN Advanced(outer) ELSE outer
  /\ bound' = IF Len(stack) = 1 \/ KindOf(stack[Len(stack) - 1].type) # "STRUCT"
              THEN bound
              ELSE [t \in {u \in DOMAIN bound : bound[u].by # Top.type} \ {Top.type} |->
                      bound[t]]
  /\ UNCHANGED <<phase, cache, str_buffer, converted, ok, reason, calls>>

(* A call returns, after its last entry or element or after a failure: the  *)
(* scope exit of its caller unbinds the object.  When that fails it is      *)
(* logged, the object stays bound and the conversion goes on.               *)
Return ==
  /\ phase \in {"dds2pb", "pb2dds"} /\ stack # <<>>
  /\ ~ok \/ Top.next > Top.size
  /\ LET outer == SubSeq(stack, 1, Len(stack) - 1)
     IN stack' = IF ok /\ outer # <<>> THEN Advanced(outer) ELSE outer
  /\ \/ bound' = IF Len(stack) = 1 THEN bound ELSE Unbound(Top.type)
     \/ /\ Len(stack) # 1 /\ "unbind" \in Faults
        /\ bound' = [bound EXCEPT ![Top.type].state = "left"]
  /\ UNCHANGED <<phase, cache, str_buffer, converted, ok, reason, calls>>

-----------------------------------------------------------------------------
(* dds_to_protobuf(): the members of the sample.                            *)

(* The accessor of each kind, in dds_singular_member_to_pb().               *)
SetSigned == [ENUM |-> "ENUM", SHORT |-> "INT32", LONG |-> "INT32", LONGLONG |-> "INT64"]
SetUnsigned == [USHORT |-> "UINT32", ULONG |-> "UINT32", ULONGLONG |-> "UINT64"]
SetOther ==
  [FLOAT |-> "FLOAT", DOUBLE |-> "DOUBLE", BOOLEAN |-> "BOOL", CHAR |-> "INT32",
   OCTET |-> "UINT32"]

(* The same in dds_collection_member_to_pb().                               *)
AddSigned == [ENUM |-> "ENUM", SHORT |-> "INT32", LONG |-> "INT32", LONGLONG |-> "INT64"]
AddUnsigned == [USHORT |-> "UINT32", ULONG |-> "UINT32", ULONGLONG |-> "UINT64"]
AddOther ==
  [FLOAT |-> "FLOAT", DOUBLE |-> "DOUBLE", BOOLEAN |-> "BOOL", CHAR |-> "INT32",
   OCTET |-> "UINT32"]

(* The accessor for a kind in the tables signed, unsigned and other.        *)
Accessor(kind, signed, unsigned, other) ==
  IF kind \in DOMAIN signed THEN signed[kind]
  ELSE IF kind \in DOMAIN unsigned THEN unsigned[kind] ELSE other[kind]

(* External: whether an accessor fits a field; SetString is for both.       *)
Fits(field, accessor, repeated) ==
  /\ field.repeated = repeated
  /\ field.type = accessor \/ (field.type = "BYTES" /\ accessor = "STRING")

(* std::string::resize().                                                   *)
Resized(buffer, n) == [i \in 1 .. n |-> IF i <= Len(buffer) THEN buffer[i] ELSE 0]

(* The buffer with v in front, and a NUL when it is a string.               *)
Overwritten(buffer, v) ==
  [i \in 1 .. Len(buffer) |-> IF i <= Len(v) THEN v[i] ELSE buffer[i]]

Presized == IF str_buffer = <<>> THEN Resized(<<>>, InitialSize) ELSE str_buffer

(* Variant: the buffer is resized without room for the NUL.                 *)
RoomNoNul(buffer, capacity, v) ==
  IF Len(v) + 1 <= capacity THEN buffer ELSE Resized(buffer, Len(v))

(* The buffer get_string() finds room in, when it was told of capacity      *)
(* characters: resized to what the string needs after a first try failed.   *)
Room(buffer, capacity, v) ==
  IF Len(v) + 1 <= capacity THEN buffer ELSE Resized(buffer, Len(v) + 1)

(* ddsValueLen before a string is read: what get_string() needed for one    *)
(* element is the room it is offered for the next, whatever the size of     *)
(* the buffer.                                                              *)
Capacity ==
  IF InCollection /\ Top.next > 1 THEN Top.ddsValueLen ELSE Len(Presized)

GetString(v) == Overwritten(Room(Presized, Capacity, v), Append(v, 0))

(* A member of the sample that has a field.                                 *)
AtMember ==
  /\ Working("dds2pb") /\ InStruct
  /\ Here \in DOMAIN sample /\ Entry.field.type # "none"

(* A sequence or an array of octets that goes to a field of type bytes is   *)
(* a single value.                                                          *)
IsBytes ==
  /\ KindOf(MemberType) \in CollectionKinds
  /\ Entry.field.type = "BYTES" /\ KindOf(Element(MemberType)) = "OCTET"

(* The next member, after v was written to the field of this one.           *)
Store(accessor, v) ==
  IF Fits(Entry.field, accessor, FALSE)
  THEN /\ message' = Put(message, Field, v)
       /\ stack' = Advanced(stack)
       /\ UNCHANGED <<phase, sample>>
  ELSE phase' = "aborted" /\ UNCHANGED <<stack, converted>>

(* member_exists() is false.                                                *)
SkipMember ==
  /\ Working("dds2pb") /\ InStruct
  /\ Here \notin DOMAIN sample
  /\ stack' = Advanced(stack)
  /\ UNCHANGED <<phase, cache, bound, str_buffer, converted, ok, reason, calls>>

(* FindFieldByName() finds nothing.                                         *)
NoField ==
  /\ Working("dds2pb") /\ InStruct
  /\ Here \in DOMAIN sample /\ Entry.field.type = "none"
  /\ Fail("field")

SetScalar ==
  /\ AtMember /\ KindOf(MemberType) \in ScalarKinds
  /\ Store(Accessor(KindOf(MemberType), SetSigned, SetUnsigned, SetOther), sample[Here])
  /\ UNCHANGED <<cache, bound, str_buffer, ok, reason, calls>>

(* Variant: the whole buffer is copied, not the string in front of it.      *)
SetStringWhole ==
  /\ AtMember /\ KindOf(MemberType) = "STRING"
  /\ str_buffer' = GetString(sample[Here])
  /\ Store("STRING", str_buffer')
  /\ UNCHANGED <<cache, bound, ok, reason, calls>>

(* DDS_TK_STRING: the buffer keeps its size when the string fits.           *)
SetString ==
  /\ AtMember /\ KindOf(MemberType) = "STRING"
  /\ str_buffer' = GetString(sample[Here])
  /\ Store("STRING", SubSeq(str_buffer', 1, Len(sample[Here])))
  /\ UNCHANGED <<cache, bound, ok, reason, calls>>

(* DDS_TK_SEQUENCE: the buffer gets the size of the value.                  *)
SetBytes ==
  /\ AtMember /\ IsBytes /\ KindOf(MemberType) = "SEQUENCE"
  /\ str_buffer' = Overwritten(Resized(str_buffer, Len(sample[Here])), sample[Here])
  /\ Store("STRING", str_buffer')
  /\ UNCHANGED <<cache, bound, ok, reason, calls>>

(* An array of octets for bytes, or a kind neither switch has.              *)
UnsupportedMember ==
  /\ AtMember
  /\ \/ KindOf(MemberType) = "UNION"
     \/ IsBytes /\ KindOf(MemberType) = "ARRAY"
  /\ Fail("kind")

(* DDS_TK_STRUCT: the member is bound, the sub-message made, and its        *)
(* members are converted by a call of their own.                            *)
EnterStruct ==
  /\ AtMember /\ KindOf(MemberType) = "STRUCT"
  /\ IF Fits(Entry.field, "MESSAGE", FALSE)
     THEN Enter(MemberType,
                Frame(MemberType, Field, Len(Schema[MemberType].members)),
                sample, Put(message, Field, <<>>))
     ELSE EnterMisfit(MemberType)

AtCollection == AtMember /\ KindOf(MemberType) \in CollectionKinds /\ ~IsBytes

EmptyCollection ==
  /\ AtCollection /\ Size(sample, Here) = 0
  /\ stack' = Advanced(stack)
  /\ UNCHANGED <<phase, cache, bound, str_buffer, converted, ok, reason, calls>>

(* Variant: the loop misses the last element.                               *)
EnterCollectionShort ==
  /\ AtCollection /\ Size(sample, Here) > 0
  /\ Enter(MemberType, Frame(MemberType, Field, Size(sample, Here) - 1), sample, message)

EnterCollection ==
  /\ AtCollection /\ Size(sample, Here) > 0
  /\ Enter(MemberType, Frame(MemberType, Field, Size(sample, Here)), sample, message)

(* dds_collection_member_to_pb(): an element is added to the field, and the *)
(* field exists from the first one on.                                      *)
AtElement(kinds) ==
  Working("dds2pb") /\ InCollection /\ KindOf(ElementType) \in kinds

Added(v) == Put(Put(message, Top.at, <<>>), Field, v)

Add(accessor, v, frames) ==
  IF Fits(RepeatedField, accessor, TRUE)
  THEN /\ message' = Added(v)
       /\ stack' = Advanced(frames)
       /\ UNCHANGED <<phase, sample>>
  ELSE phase' = "aborted" /\ UNCHANGED <<stack, converted>>

AddScalar ==
  /\ AtElement(ScalarKinds)
  /\ Add(Accessor(KindOf(ElementType), AddSigned, AddUnsigned, AddOther),
         sample[Here], stack)
  /\ UNCHANGED <<cache, bound, str_buffer, ok, reason, calls>>

(* DDS_TK_STRING elements.                                                  *)
AddString ==
  /\ AtElement({"STRING"})
  /\ str_buffer' = GetString(sample[Here])
  /\ Add("STRING", SubSeq(str_buffer', 1, Len(sample[Here])),
         [stack EXCEPT ![Len(stack)].ddsValueLen = Len(sample[Here]) + 1])
  /\ UNCHANGED <<cache, bound, ok, reason, calls>>

(* DDS_TK_SEQUENCE elements: bytes, through the buffer.                     *)
AddBytes ==
  /\ AtElement({"SEQUENCE"}) /\ KindOf(Element(ElementType)) = "OCTET"
  /\ str_buffer' = Overwritten(Resized(str_buffer, Len(sample[Here])), sample[Here])
  /\ Add("STRING", str_buffer', stack)
  /\ UNCHANGED <<cache, bound, ok, reason, calls>>

(* DDS_TK_STRUCT elements: each is bound in turn to the same object.        *)
EnterElement ==
  /\ AtElement({"STRUCT"})
  /\ IF Fits(RepeatedField, "MESSAGE", TRUE)
     THEN Enter(ElementType,
                Frame(ElementType, Field, Len(Schema[ElementType].members)),
                sample, Added(<<>>))
     ELSE EnterMisfit(ElementType)

UnsupportedElement ==
  /\ AtElement({"ARRAY", "UNION"})
  /\ Fail("kind")

(* A sequence of anything but octets: get_octet_seq() refuses it after the  *)
(* buffer was resized.                                                      *)
ElementNotBytes ==
  /\ AtElement({"SEQUENCE"}) /\ KindOf(Element(ElementType)) # "OCTET"
  /\ str_buffer' = Resized(str_buffer, Size(sample, Here))
  /\ ok' = FALSE /\ reason' = "kind"
  /\ UNCHANGED <<phase, stack, cache, bound, converted, calls>>

DdsToProtobuf ==
  \/ SkipMember \/ NoField \/ SetScalar \/ SetString \/ SetBytes
  \/ UnsupportedMember \/ EnterStruct \/ EmptyCollection \/ EnterCollection
  \/ AddScalar \/ AddString \/ AddBytes \/ EnterElement \/ UnsupportedElement
  \/ ElementNotBytes

-----------------------------------------------------------------------------
(* protobuf_to_dds(): the fields that are set.                              *)

(* What a member of some kind holds once the value v of a field of type ft  *)
(* is set, in pb_singular_field_to_dds(); <<>> when it is refused.          *)
SetField(ft, kind, v) ==
  CASE ft = "DOUBLE" -> SetExactly("DOUBLE", kind, v)
    [] ft = "FLOAT"  -> SetExactly("FLOAT", kind, v)
    [] ft = "INT64"  -> SetExactly("LONGLONG", kind, v)
    [] ft = "UINT64" -> SetExactly("ULONGLONG", kind, v)
    [] ft = "INT32"  -> FuzzyLong(kind, v)
    [] ft = "UINT32" -> FuzzyULong(kind, v)
    [] ft = "BOOL"   -> SetExactly("BOOLEAN", kind, v)

(* The same for an element, in pb_repeated_field_to_dds().                  *)
SetElement(ft, kind, v) ==
  CASE ft = "DOUBLE" -> SetExactly("DOUBLE", kind, v)
    [] ft = "FLOAT"  -> SetExactly("FLOAT", kind, v)
    [] ft = "INT64"  -> SetExactly("LONGLONG", kind, v)
    [] ft = "UINT64" -> SetExactly("ULONGLONG", kind, v)
    [] ft = "INT32"  -> FuzzyLong(kind, v)
    [] ft = "UINT32" -> FuzzyULong(kind, v)
    [] ft = "BOOL"   -> SetExactly("BOOLEAN", kind, v)

NumberFields == {"DOUBLE", "FLOAT", "INT64", "UINT64", "INT32", "UINT32", "BOOL"}

(* c_str(): a string ends at its first NUL.                                 *)
CutAtNul(v) ==
  SelectSeq([i \in 1 .. Len(v) |-> IF \E j \in 1 .. i : v[j] = 0 THEN 0 ELSE v[i]],
            LAMBDA c : c # 0)

(* A field that is set and not repeated, or repeated, with a DDS member.    *)
AtField(repeated) ==
  /\ Working("pb2dds") /\ InStruct
  /\ Field \in DOMAIN message /\ Entry.in_dds
  /\ Entry.field.repeated = repeated

AtRepeated(types) ==
  /\ Working("pb2dds") /\ InCollection
  /\ RepeatedField.repeated /\ RepeatedField.type \in types

(* The sample with v at this member or element.  In a union it takes the    *)
(* place of the member before.                                              *)
Inside(q, p) == Len(q) >= Len(p) /\ \A i \in 1 .. Len(p) : q[i] = p[i]

Selected ==
  [q \in {q \in DOMAIN sample : KindOf(Top.type) = "UNION" /\ Inside(q, TopPath) =>
                                  q = TopPath \/ Inside(q, Here)} |-> sample[q]]

Assigned(v) == Put(Selected, Here, v)

(* The next field or element, after this one was written; a sequence ends   *)
(* at its bound, an array at its length.                                    *)
Write(written, v) ==
  IF written /\ (InCollection => Top.next <= Schema[Top.type].bound)
  THEN /\ sample' = Assigned(v)
       /\ stack' = Advanced(stack)
       /\ UNCHANGED <<phase, cache, bound, str_buffer, message, ok, reason, calls>>
  ELSE Fail("range")

(* ListFields() has no field that is not set.                               *)
SkipField ==
  /\ Working("pb2dds") /\ InStruct
  /\ Field \notin DOMAIN message
  /\ stack' = Advanced(stack)
  /\ UNCHANGED <<phase, cache, bound, str_buffer, converted, ok, reason, calls>>

(* get_member_info() fails.                                                 *)
NoMember ==
  /\ Working("pb2dds")
  /\ IF InStruct THEN Field \in DOMAIN message /\ ~Entry.in_dds
     ELSE ~RepeatedField.repeated
  /\ Fail("field")

FieldNumber ==
  /\ AtField(FALSE) /\ Entry.field.type \in NumberFields
  /\ LET v == SetField(Entry.field.type, KindOf(MemberType), message[Field])
     IN Write(v # <<>>, v)

FieldString ==
  /\ AtField(FALSE) /\ Entry.field.type = "STRING"
  /\ Write(KindOf(MemberType) = "STRING", CutAtNul(message[Field]))

FieldBytes ==
  /\ AtField(FALSE) /\ Entry.field.type = "BYTES"
  /\ Write(FuzzyBytesFit(MemberType, message[Field]),
           FuzzyBytes(MemberType, message[Field]))

FieldEnum ==
  /\ AtField(FALSE) /\ Entry.field.type = "ENUM"
  /\ LET v == SetExactly("LONG", KindOf(MemberType), message[Field])
     IN Write(v # <<>>, v)

(* An object is made for a type that cannot be bound, or not be bound as a  *)
(* collection.                                                              *)
Refuse(t, r) ==
  /\ cache' \in {cache, cache \cup {t}}
  /\ ok' = FALSE /\ reason' = r
  /\ UNCHANGED <<phase, stack, bound, str_buffer, converted, calls>>

(* The call for the message at path p: a struct or union has members, a     *)
(* collection has none by any name.                                         *)
MessageFrame(t, p) ==
  Frame(t, p, IF KindOf(t) \in StructKinds THEN Len(Schema[t].members)
              ELSE Size(message, p))

FieldMessage ==
  /\ AtField(FALSE) /\ Entry.field.type = "MESSAGE"
  /\ IF KindOf(MemberType) \in StructKinds \cup CollectionKinds
     THEN Enter(MemberType, MessageFrame(MemberType, Field),
                Assigned(<<>>), message)
     ELSE Refuse(MemberType, "kind")

(* A repeated field or a map: the member must be a collection.              *)
FieldRepeated ==
  /\ AtField(TRUE)
  /\ IF KindOf(MemberType) \in CollectionKinds
     THEN Enter(MemberType, Frame(MemberType, Field, Size(message, Field)),
                Assigned(<<>>), message)
     ELSE Refuse(MemberType, "kind")

ElementNumber ==
  /\ AtRepeated(NumberFields)
  /\ LET v == SetElement(RepeatedField.type, KindOf(ElementType), message[Field])
     IN Write(v # <<>>, v)

ElementString ==
  /\ AtRepeated({"STRING"})
  /\ Write(KindOf(ElementType) = "STRING", CutAtNul(message[Field]))

ElementBytes ==
  /\ AtRepeated({"BYTES"})
  /\ Write(FuzzyBytesFit(ElementType, message[Field]),
           FuzzyBytes(ElementType, message[Field]))

ElementEnum ==
  /\ AtRepeated({"ENUM"})
  /\ LET v == SetExactly("LONG", KindOf(ElementType), message[Field])
     IN Write(v # <<>>, v)

(* Messages, groups and the entries of a map.                               *)
ElementMessage ==
  /\ AtRepeated({"MESSAGE"})
  /\ IF /\ KindOf(ElementType) \in StructKinds \cup CollectionKinds
        /\ Top.next <= Schema[Top.type].bound
     THEN Enter(ElementType, MessageFrame(ElementType, Field),
                Assigned(<<>>), message)
     ELSE Refuse(ElementType, "range")

ProtobufToDds ==
  \/ SkipField \/ NoMember \/ FieldNumber \/ FieldString \/ FieldBytes
  \/ FieldEnum \/ FieldMessage \/ FieldRepeated \/ ElementNumber
  \/ ElementString \/ ElementBytes \/ ElementEnum \/ ElementMessage

-----------------------------------------------------------------------------
(* Any other library call fails, when the buffer was already prepared for   *)
(* a string or bytes, or a new object made for a nested member.  A failure  *)
(* after that object was bound is one of the call for it.                   *)
TypeHere == IF InStruct THEN MemberType ELSE ElementType

Prepared ==
  IF phase = "pb2dds" \/ Here \notin DOMAIN sample THEN {}
  ELSE CASE KindOf(TypeHere) = "STRING" ->
              {Presized, Room(Presized, Capacity, sample[Here])}
         [] KindOf(TypeHere) = "SEQUENCE" /\ (InStruct => IsBytes) ->
              {Resized(str_buffer, Len(sample[Here]))}
         [] OTHER -> {}

(* The calls that look for an object in dds_data_cache before they bind it. *)
MakesObject ==
  \/ AtMember /\ KindOf(MemberType) = "STRUCT"
  \/ AtCollection /\ Size(sample, Here) > 0
  \/ AtElement({"STRUCT"})
  \/ AtField(FALSE) /\ Entry.field.type = "MESSAGE"
  \/ AtField(TRUE)
  \/ AtRepeated({"MESSAGE"})

LibraryFails ==
  /\ Working(phase) /\ phase \in {"dds2pb", "pb2dds"}
  /\ "library" \in Faults
  /\ str_buffer' \in Prepared \cup {str_buffer}
  /\ cache' \in {cache} \cup (IF MakesObject THEN {cache \cup {TypeHere}} ELSE {})
  /\ ok' = FALSE /\ reason' = "library"
  /\ UNCHANGED <<phase, stack, bound, converted, calls>>

Step == DdsToProtobuf \/ ProtobufToDds \/ Return \/ Finish

Next ==
  \/ \E files \in DescriptorSets : Construct(files)
  \/ \E s \in Samples : Serialize(s)
  \/ \E m \in Messages : Deserialize(m)
  \/ Step \/ LibraryFails

Spec == Init /\ [][Next]_vars

-----------------------------------------------------------------------------
(* A DDS value made from the value v of a field: a string is cut at a NUL,  *)
(* the rest of an array is zero.                                            *)
SameValue(t, d, v) ==
  CASE KindOf(t) = "STRING" -> d = CutAtNul(v)
    [] KindOf(t) = "ARRAY" ->
         Len(d) >= Len(v) /\ d = Resized(v, Len(d))
    [] OTHER -> d = v

(* A collection without elements is the same as no field.                   *)
Omitted(p) == KindOf(TypeAt(p)) \in CollectionKinds /\ sample[p] = <<>> /\ Size(sample, p) = 0

(* What a conversion wrote, complete or cut short by a failure, is what the *)
(* input has at the same place: nothing of an earlier conversion, of a      *)
(* sibling or of a longer string comes through the objects and the buffer   *)
(* that conversions share, and a number is written exactly or not at all.   *)
NothingForeign ==
  /\ phase = "dds2pb" =>
       \A p \in DOMAIN message : p \in DOMAIN sample /\ message[p] = sample[p]
  /\ phase = "pb2dds" =>
       \A p \in DOMAIN sample :
         p \in DOMAIN message /\ SameValue(TypeAt(p), sample[p], message[p])

(* The path lies in a member of a union for which another member is set.    *)
Superseded(p) ==
  \E n \in 1 .. Len(p) :
    LET union == SubSeq(p, 1, n - 1)
    IN /\ KindOf(TypeAt(union)) = "UNION"
       /\ \E q \in DOMAIN message : q # <<>> /\ Parent(q) = union /\ q[n] # p[n]

(* A conversion that reports success left nothing out, but for all but one  *)
(* of the fields set for a union.                                           *)
NothingLeftOut ==
  stack = <<>> /\ ok =>
    /\ phase = "dds2pb" =>
         \A p \in DOMAIN sample : p \in DOMAIN message \/ Omitted(p)
    /\ phase = "pb2dds" =>
         \A p \in DOMAIN message : p \in DOMAIN sample \/ Superseded(p)

(* The objects that an unbinding has left bound.                            *)
LeftBound == {t \in DOMAIN bound : bound[t].state = "left"}

(* The other objects that are bound are those of the calls in progress,     *)
(* each to the object of its caller; so none of them is bound between two   *)
(* conversions, whether the last one succeeded, failed half-way or not.     *)
BindingsFollowCalls ==
  /\ DOMAIN bound \ LeftBound = {stack[i].type : i \in 2 .. Len(stack)}
  /\ \A i \in 2 .. Len(stack) :
       bound[stack[i].type].by = IF i = 2 THEN RootObject ELSE stack[i - 1].type

(* One object per type is enough: bind_complex_member() never meets an      *)
(* object or a parent that is in use, until an unbinding has failed.        *)
BindNeverRefused == reason = "bind" => LeftBound # {}

(* get_string() is never told of more room than the buffer has.             *)
CapacityHonest ==
  \A i \in 1 .. Len(stack) : stack[i].ddsValueLen <= Len(str_buffer)
============================================================================
