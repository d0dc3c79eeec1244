------------------------- MODULE DynamicDataTypes -------------------------
(***************************************************************************)
(* DDS types as the Protobuf converter sees them, paired with the Protobuf  *)
(* message of the same name, and the helpers of DynamicDataUtils.cpp that   *)
(* write one Protobuf value into a DDS member.                              *)
(*                                                                          *)
(* Entry i of a struct is a DDS member and the field of the same name; an   *)
(* entry may lack one of the two.  Every value is a sequence of integers:   *)
(* one for a scalar, the characters of a string, the octets of bytes,       *)
(* none for a struct or for a collection.  NUL is 0.                        *)
(***************************************************************************)
EXTENDS Integers, Sequences

CONSTANTS
  Types,   \* type codes
  Schema,  \* Schema[t] describes type t
  Root,    \* the type of the samples converted
  Rank,    \* a type contains types of a smaller rank only
  CharMin  \* the least DDS_Char: the platform's char is signed or not

ScalarKinds ==
  {"ENUM", "SHORT", "LONG", "LONGLONG", "USHORT", "ULONG", "ULONGLONG", "FLOAT",
   "DOUBLE", "BOOLEAN", "CHAR", "OCTET"}
CollectionKinds == {"ARRAY", "SEQUENCE"}
(* "STRUCT" is DDS_TK_STRUCT or DDS_TK_VALUE; "UNION" stands for the kinds  *)
(* with members that the converter has no case for.                         *)
StructKinds == {"STRUCT", "UNION"}
Kinds == ScalarKinds \cup CollectionKinds \cup StructKinds \cup {"STRING", "ALIAS"}

FieldTypes ==
  {"DOUBLE", "FLOAT", "INT64", "UINT64", "INT32", "UINT32", "BOOL", "STRING",
   "MESSAGE", "BYTES", "ENUM"}

(* What entry i of a struct is: its DDS type, whether the DDS member        *)
(* exists, and the Protobuf field, of type "none" when there is none.       *)
Entries ==
  [type : Types, in_dds : BOOLEAN,
   field : [type : FieldTypes \cup {"none"}, repeated : BOOLEAN]]

(* content: of an alias or a collection; bound: of a collection.            *)
TypeCodes ==
  [kind : Kinds, content : Types, bound : Nat, members : Seq(Entries)]

ASSUME TypesAssumption ==
  /\ Schema \in [Types -> TypeCodes]
  /\ Root \in Types /\ Schema[Root].kind = "STRUCT"
ASSUME CharAssumption == CharMin \in {-128, 0}

-----------------------------------------------------------------------------
(* resolve_type_code(): the type behind any number of aliases.              *)
Resolve[t \in Types] ==
  IF Schema[t].kind = "ALIAS" THEN Resolve[Schema[t].content] ELSE t

KindOf(t) == Schema[t].kind
Element(t) == Resolve[Schema[t].content]

(* Aliases end, and no type contains itself: Connext has no such dynamic    *)
(* types.                                                                   *)
ASSUME RankAssumption ==
  /\ Rank \in [Types -> Nat]
  /\ Resolve \in [Types -> {t \in Types : KindOf(t) # "ALIAS"}]
  /\ \A t \in Types :
       /\ KindOf(t) \in CollectionKinds => Rank[Element(t)] < Rank[t]
       /\ \A i \in 1 .. Len(Schema[t].members) :
            Rank[Resolve[Schema[t].members[i].type]] < Rank[t]

(* The type of member or element n of a type.                               *)
TypeIn(t, n) ==
  CASE KindOf(t) \in StructKinds -> Resolve[Schema[t].members[n].type]
    [] KindOf(t) \in CollectionKinds -> Element(t)
    [] OTHER -> t

(* The types on the way from the root to path p; the type of what is there. *)
TypesAlong(p) ==
  LET inside[n \in 0 .. Len(p)] ==
        IF n = 0 THEN Root ELSE TypeIn(inside[n - 1], p[n])
  IN inside

TypeAt(p) == TypesAlong(p)[Len(p)]

(* External: a setter of Connext takes a member of its own kind only; an    *)
(* enum is written as a long.  <<>> when the value is refused.              *)
SetExactly(setter, kind, v) ==
  IF kind = setter \/ (setter = "LONG" /\ kind = "ENUM") THEN v ELSE <<>>

(* Variant: set_fuzzy_long() narrows without looking at the value.          *)
FuzzyLongWraps(kind, v) ==
  CASE kind = "SHORT" -> <<((v[1] + 32768) % 65536) - 32768>>
    [] kind = "CHAR"  -> <<((v[1] - CharMin) % 256) + CharMin>>
    [] OTHER -> v

(* set_fuzzy_long(): the value a member of this kind gets from an int32;    *)
(* <<>> when it is refused.                                                 *)
FuzzyLong(kind, v) ==
  CASE kind = "SHORT" -> IF -32768 <= v[1] /\ v[1] <= 32767 THEN v ELSE <<>>
    [] kind = "CHAR"  -> IF CharMin <= v[1] /\ v[1] <= CharMin + 255 THEN v ELSE <<>>
    [] OTHER -> SetExactly("LONG", kind, v)

(* set_fuzzy_ulong(): the same for a uint32.                                *)
FuzzyULong(kind, v) ==
  CASE kind = "USHORT" -> IF v[1] <= 65535 THEN v ELSE <<>>
    [] kind = "OCTET"  -> IF v[1] <= 255 THEN v ELSE <<>>
    [] OTHER -> SetExactly("ULONG", kind, v)

(* set_fuzzy_bytes(): whether a member of type t takes the bytes v.         *)
(* External: set_char_array and set_octet_array refuse a value longer than  *)
(* the bound of the member, and a member of another element type.           *)
FuzzyBytesFit(t, v) ==
  /\ KindOf(t) \in CollectionKinds
  /\ KindOf(Element(t)) \in {"CHAR", "OCTET"}
  /\ Len(v) <= Schema[t].bound

(* What the member then holds: the rest of an array stays zero.             *)
FuzzyBytes(t, v) ==
  IF KindOf(t) = "ARRAY"
  THEN [i \in 1 .. Schema[t].bound |-> IF i <= Len(v) THEN v[i] ELSE 0]
  ELSE v
============================================================================
