------------------------ MODULE MCProtobufConverter ------------------------
(* Bounded instances of ProtobufConverter for TLC: a type with the cases of *)
(* the two directions, and samples and messages of it.                      *)
EXTENDS ProtobufConverter, TLC

Type(kind, content, max, members) ==
  [kind |-> kind, content |-> content, bound |-> max, members |-> members]
Scalar(kind) == Type(kind, "Root", 0, <<>>)
Member(type, field, repeated) ==
  [type |-> type, in_dds |-> TRUE, field |-> [type |-> field, repeated |-> repeated]]

MCSchema ==
  [String |-> Scalar("STRING"), Short |-> Scalar("SHORT"), Octet |-> Scalar("OCTET"),
   Char |-> Scalar("CHAR"), Enum |-> Scalar("ENUM"),
   Union |-> Type("UNION", "Root", 0,
     <<Member("Long", "INT32", FALSE), Member("Strings", "STRING", TRUE)>>),
   Long |-> Scalar("LONG"), UShort |-> Scalar("USHORT"),
   Strings |-> Type("SEQUENCE", "String", 3, <<>>),
   Octets |-> Type("SEQUENCE", "Octet", 3, <<>>),
   OctetArray |-> Type("ARRAY", "Octet", 2, <<>>),
   Chars |-> Type("SEQUENCE", "Char", 2, <<>>),
   Bytes |-> Type("ALIAS", "Octets", 0, <<>>),
   BytesSeq |-> Type("SEQUENCE", "Bytes", 2, <<>>),
   Enums |-> Type("SEQUENCE", "Enum", 2, <<>>),
   Shorts |-> Type("ARRAY", "Short", 2, <<>>),
   ShortsSeq |-> Type("SEQUENCE", "Shorts", 2, <<>>),
   StringsSeq |-> Type("SEQUENCE", "Strings", 2, <<>>),
   Inner |-> Type("STRUCT", "Root", 0,
     <<Member("String", "STRING", FALSE), Member("Strings", "STRING", TRUE),
       Member("Char", "INT32", FALSE)>>),
   InnerName |-> Type("ALIAS", "Inner", 0, <<>>),
   Inners |-> Type("SEQUENCE", "InnerName", 2, <<>>),
   Root |-> Type("STRUCT", "Root", 0,
     <<Member("Long", "none", FALSE),                             \* 1
       [Member("Long", "INT32", FALSE) EXCEPT !.in_dds = FALSE],  \* 2
       Member("Short", "INT32", FALSE),                           \* 3
       Member("UShort", "UINT32", FALSE),                         \* 4
       Member("Enum", "ENUM", FALSE),                             \* 5
       Member("Long", "INT32", TRUE),                             \* 6
       Member("Chars", "BYTES", FALSE),                           \* 7
       Member("String", "STRING", FALSE),                         \* 8
       Member("Shorts", "MESSAGE", FALSE),                        \* 9
       Member("Long", "MESSAGE", FALSE),                          \* 10
       Member("Inners", "INT32", TRUE),                           \* 11
       Member("ShortsSeq", "INT32", TRUE),                        \* 12
       Member("StringsSeq", "STRING", TRUE),                      \* 13
       Member("Strings", "MESSAGE", TRUE),                        \* 14
       Member("Enums", "ENUM", TRUE),                             \* 15
       Member("Shorts", "INT32", TRUE),                           \* 16
       Member("Strings", "STRING", TRUE),                         \* 17
       Member("Bytes", "BYTES", FALSE),                           \* 18
       Member("BytesSeq", "BYTES", TRUE),                         \* 19
       Member("InnerName", "MESSAGE", FALSE),                     \* 20
       Member("Inner", "INT32", FALSE),                           \* 21
       Member("OctetArray", "BYTES", FALSE),                      \* 22
       Member("Inners", "MESSAGE", TRUE),                         \* 23
       Member("Union", "MESSAGE", FALSE)>>)]                      \* 24

MCTypes == DOMAIN MCSchema
MCRank ==
  [t \in MCTypes |->
     CASE t = "Root" -> 5
       [] t = "Inners" -> 4
       [] t \in {"InnerName", "BytesSeq", "ShortsSeq", "StringsSeq"} -> 3
       [] t \in {"Inner", "Bytes", "Union"} -> 2
       [] MCSchema[t].kind \in {"SEQUENCE", "ARRAY", "UNION"} -> 1
       [] OTHER -> 0]

a == 97
Node(d) == d @@ Empty

(* Samples: strings of growing and shrinking length, bytes between them,    *)
(* nested and repeated structs of one type, each unsupported member.        *)
MCSamples ==
  {Node((<<8>> :> <<a, a, a>>) @@ (<<17>> :> <<>>) @@ (<<17, 1>> :> <<a>>)
        @@ (<<17, 2>> :> <<a, a>>) @@ (<<18>> :> <<>>) @@ (<<3>> :> <<-32768>>)),
   Node((<<5>> :> <<1>>) @@ (<<8>> :> <<a>>) @@ (<<18>> :> <<0, 5>>) @@ (<<20>> :> <<>>)
        @@ (<<20, 2>> :> <<>>) @@ (<<20, 2, 1>> :> <<a>>) @@ (<<20, 3>> :> <<-128>>)
        @@ (<<23>> :> <<>>) @@ (<<23, 1>> :> <<>>) @@ (<<23, 2>> :> <<>>)
        @@ (<<23, 2, 1>> :> <<a>>)),
   Node((<<19>> :> <<>>) @@ (<<19, 1>> :> <<0, 5>>) @@ (<<19, 2>> :> <<>>)
        @@ (<<4>> :> <<65535>>) @@ (<<15>> :> <<>>) @@ (<<15, 1>> :> <<1>>)
        @@ (<<16>> :> <<>>) @@ (<<16, 1>> :> <<0>>) @@ (<<16, 2>> :> <<32767>>)),
   Node((<<20>> :> <<>>) @@ (<<22>> :> <<1, 2>>)),
   Node((<<8>> :> <<a>>) @@ (<<7>> :> <<>>)),
   Node((<<7>> :> <<>>) @@ (<<7, 1>> :> <<7>>)),
   Node(<<24>> :> <<>>),
   Node((<<8>> :> <<>>) @@ (<<1>> :> <<1>>)),
   Node((<<12>> :> <<>>) @@ (<<12, 1>> :> <<>>) @@ (<<12, 1, 1>> :> <<1>>)),
   Node((<<13>> :> <<>>) @@ (<<13, 1>> :> <<>>) @@ (<<13, 1, 1>> :> <<a>>)),
   Node((<<20>> :> <<>>) @@ (<<21>> :> <<>>)),
   Node((<<11>> :> <<>>) @@ (<<11, 1>> :> <<>>))}

(* Messages: the same data, numbers at and past the limits of the members,  *)
(* a NUL in a string, more elements than the member can take.               *)
MCMessages ==
  {Node((<<8>> :> <<a, 0, a>>) @@ (<<17>> :> <<>>) @@ (<<17, 1>> :> <<a>>)
        @@ (<<17, 2>> :> <<a, a>>) @@ (<<18>> :> <<0, 5>>) @@ (<<3>> :> <<32767>>)
        @@ (<<22>> :> <<9>>) @@ (<<4>> :> <<65535>>) @@ (<<7>> :> <<7>>)),
   Node((<<20>> :> <<>>) @@ (<<20, 1>> :> <<a>>) @@ (<<20, 3>> :> <<127>>)
        @@ (<<23>> :> <<>>) @@ (<<23, 1>> :> <<>>) @@ (<<23, 1, 3>> :> <<-128>>)
        @@ (<<23, 2>> :> <<>>) @@ (<<23, 2, 1>> :> <<a, a>>) @@ (<<23, 2, 2>> :> <<>>)
        @@ (<<23, 2, 2, 1>> :> <<a>>)),
   Node((<<19>> :> <<>>) @@ (<<19, 1>> :> <<0, 5>>) @@ (<<19, 2>> :> <<>>)
        @@ (<<5>> :> <<1>>) @@ (<<15>> :> <<>>) @@ (<<15, 1>> :> <<1>>)
        @@ (<<16>> :> <<>>) @@ (<<16, 1>> :> <<-32768>>) @@ (<<16, 2>> :> <<1>>)),
   Node((<<8>> :> <<a>>) @@ (<<3>> :> <<32768>>)),
   Node((<<8>> :> <<a>>) @@ (<<3>> :> <<-32769>>)),
   Node((<<20>> :> <<>>) @@ (<<20, 3>> :> <<128>>)),
   Node(<<4>> :> <<65536>>),
   Node((<<23>> :> <<>>) @@ (<<23, 1>> :> <<>>) @@ (<<23, 2>> :> <<>>) @@ (<<23, 3>> :> <<>>)),
   Node((<<16>> :> <<>>) @@ (<<16, 1>> :> <<1>>) @@ (<<16, 2>> :> <<1>>)
        @@ (<<16, 3>> :> <<1>>)),
   Node(<<22>> :> <<1, 2, 3>>),
   Node((<<24>> :> <<>>) @@ (<<24, 1>> :> <<1>>) @@ (<<24, 2>> :> <<>>)
        @@ (<<24, 2, 1>> :> <<a>>)),
   Node((<<8>> :> <<a>>) @@ (<<2>> :> <<1>>)),
   Node((<<9>> :> <<>>) @@ (<<9, 1>> :> <<1>>)),
   Node((<<6>> :> <<>>) @@ (<<6, 1>> :> <<1>>)),
   Node((<<9>> :> <<>>) @@ (<<10>> :> <<>>)),
   Node((<<14>> :> <<>>) @@ (<<14, 1>> :> <<>>)),
   Node((<<14>> :> <<>>) @@ (<<14, 1>> :> <<>>) @@ (<<14, 1, 1>> :> <<1>>))}

File(builds, messages) == [builds |-> builds, messages |-> messages]
MCDescriptorSets ==
  {<<File(TRUE, {"Other"}), File(TRUE, {"Root", "Inner"})>>,
   <<File(FALSE, {}), File(TRUE, {"Root"})>>, <<>>}

SignedChar == -128
AllFaults == FaultKinds
NoFaults == {}
============================================================================
