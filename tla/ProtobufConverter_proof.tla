---------------------- MODULE ProtobufConverter_proof ----------------------
(***************************************************************************)
(* Proofs about the converter, for every schema without recursive types,    *)
(* every sample and message of it and every set of failures.                *)
(*                                                                          *)
(* The argument, for both directions at once.  Control: the stack of calls  *)
(* descends through the types, and the bound objects are those of the calls *)
(* and those that an unbinding has left; the effect of an action is then an *)
(* advance, a call, a return or an end, and each of the four preserves      *)
(* Control.  Foreign: what has been written is what the input has at that   *)
(* path.  Covered: what the input has and the output lacks is still ahead   *)
(* of a call in progress, or was in a member of a union that another one    *)
(* took the place of.                                                       *)
(***************************************************************************)
EXTENDS ProtobufConverter, FiniteSetTheorems, SequenceTheorems,
        WellFoundedInduction, TLAPS

-----------------------------------------------------------------------------
(* Numbers.                                                                 *)

(* A number is taken as it is or refused.                                   *)
LEMMA NumberExact ==
  ASSUME NEW setter, NEW kind, NEW v, setter \notin {"STRING", "ARRAY"},
         SetExactly(setter, kind, v) # <<>>
  PROVE  SetExactly(setter, kind, v) = v /\ kind \notin {"STRING", "ARRAY"}
  BY DEF SetExactly

(* The same through set_fuzzy_long().                                       *)
LEMMA FuzzyLongExact ==
  ASSUME NEW kind, NEW v, FuzzyLong(kind, v) # <<>>
  PROVE  FuzzyLong(kind, v) = v /\ kind \notin {"STRING", "ARRAY"}
<1>1. CASE kind = "SHORT"
  <2>1. FuzzyLong(kind, v) \in {v, <<>>}
    BY <1>1 DEF FuzzyLong
  <2>2. QED
    BY <1>1, <2>1
<1>2. CASE kind = "CHAR"
  <2>1. FuzzyLong(kind, v) \in {v, <<>>}
    BY <1>2 DEF FuzzyLong
  <2>2. QED
    BY <1>2, <2>1
<1>3. CASE kind \notin {"SHORT", "CHAR"}
  <2>1. FuzzyLong(kind, v) = SetExactly("LONG", kind, v)
    BY <1>3 DEF FuzzyLong
  <2>2. QED
    BY <2>1, NumberExact
<1>4. QED
  BY <1>1, <1>2, <1>3

(* The same through set_fuzzy_ulong().                                      *)
LEMMA FuzzyULongExact ==
  ASSUME NEW kind, NEW v, FuzzyULong(kind, v) # <<>>
  PROVE  FuzzyULong(kind, v) = v /\ kind \notin {"STRING", "ARRAY"}
  BY DEF FuzzyULong, SetExactly

-----------------------------------------------------------------------------
(* The schema and the types along a path.                                   *)

(* What the schema knows of a type, and that its parts rank below it.       *)
LEMMA SchemaFacts ==
  ASSUME NEW t \in Types
  PROVE  /\ KindOf(t) \in Kinds /\ Element(t) \in Types /\ Schema[t].bound \in Nat
         /\ Schema[t].members \in Seq(Entries) /\ Len(Schema[t].members) \in Nat
         /\ Rank[t] \in Nat /\ Rank[Element(t)] \in Nat
         /\ KindOf(t) \in CollectionKinds => Rank[Element(t)] < Rank[t]
<1>1. Schema[t] \in TypeCodes
  BY TypesAssumption
<1>2. /\ Schema[t].kind \in Kinds /\ Schema[t].content \in Types /\ Schema[t].bound \in Nat
      /\ Schema[t].members \in Seq(Entries)
  BY <1>1 DEF TypeCodes
<1>3. Element(t) \in Types
  BY <1>2, RankAssumption DEF Element
<1>4. QED
  BY <1>2, <1>3, RankAssumption DEF KindOf

(* The same of entry i of a struct.                                         *)
LEMMA EntryFacts ==
  ASSUME NEW t \in Types, NEW i \in 1 .. Len(Schema[t].members)
  PROVE  /\ Schema[t].members[i] \in Entries
         /\ Resolve[Schema[t].members[i].type] \in Types
         /\ Rank[Resolve[Schema[t].members[i].type]] < Rank[t]
         /\ KindOf(Resolve[Schema[t].members[i].type]) # "ALIAS"
<1>1. Schema[t].members[i] \in Entries
  BY SchemaFacts, ElementOfSeq
<1>2. Schema[t].members[i].type \in Types
  BY <1>1 DEF Entries
<1>3. QED
  BY <1>1, <1>2, RankAssumption

(* The recursion over a path has a solution: the types along it.            *)
LEMMA TypesAlongEquation ==
  ASSUME NEW p \in Paths
  PROVE  TypesAlong(p) =
           [n \in 0 .. Len(p) |->
              IF n = 0 THEN Root ELSE TypeIn(TypesAlong(p)[n - 1], p[n])]
<1> DEFINE Solves(f, m) ==
      f = [n \in 0 .. m |-> IF n = 0 THEN Root ELSE TypeIn(f[n - 1], p[n])]
<1> DEFINE Unsolved == {m \in Nat : ~ \E f : Solves(f, m)}
<1>1. Unsolved = {}
  <2> SUFFICES ASSUME Unsolved # {} PROVE FALSE
    OBVIOUS
  <2>1. Unsolved \subseteq Nat
    OBVIOUS
  <2>2. PICK x \in Unsolved : \A y \in Unsolved : ~(<<y, x>> \in OpToRel(<, Nat))
    <3> HIDE DEF Unsolved
    <3>1. QED
      BY <2>1, NatLessThanWellFounded, WFMin, Zenon
  <2>3. x \in Nat /\ \A y \in Nat : y < x => \E f : Solves(f, y)
    <3>1. \A y \in Unsolved : ~(y < x)
      BY <2>1, <2>2 DEF OpToRel
    <3>2. QED
      BY <2>1, <3>1
  <2>4. CASE x = 0
    <3>1. Solves([n \in 0 .. 0 |-> Root], 0)
      OBVIOUS
    <3>2. QED
      BY <2>4, <3>1
  <2>5. CASE x # 0
    <3>1. x - 1 \in Nat /\ x - 1 < x
      BY <2>3, <2>5
    <3>2. PICK f : Solves(f, x - 1)
      BY <2>3, <3>1
    <3> DEFINE g == [n \in 0 .. x |-> IF n = 0 THEN Root ELSE TypeIn(f[n - 1], p[n])]
    <3>3. \A n \in 0 .. x - 1 : g[n] = f[n]
      BY <2>3, <3>1, <3>2
    <3>4. \A n \in 1 .. x : n - 1 \in 0 .. x - 1
      BY <2>3
    <3>5. \A n \in 0 .. x : (IF n = 0 THEN Root ELSE TypeIn(f[n - 1], p[n])) =
                             (IF n = 0 THEN Root ELSE TypeIn(g[n - 1], p[n]))
      <4> TAKE n \in 0 .. x
      <4> HIDE DEF g
      <4>1. CASE n # 0
        <5>1. n \in 1 .. x
          BY <2>3, <4>1
        <5>2. g[n - 1] = f[n - 1]
          BY <3>3, <3>4, <5>1
        <5>3. QED
          BY <5>2
      <4>2. QED
        BY <4>1
    <3>a. Solves(g, x)
      <4> DEFINE A(n) == IF n = 0 THEN Root ELSE TypeIn(f[n - 1], p[n])
                 B(n) == IF n = 0 THEN Root ELSE TypeIn(g[n - 1], p[n])
      <4>1. \A n \in 0 .. x : A(n) = B(n)
        BY <3>5
      <4>2. g = [n \in 0 .. x |-> A(n)]
        OBVIOUS
      <4> HIDE DEF A, B, g
      <4>3. g = [n \in 0 .. x |-> B(n)]
        BY <4>1, <4>2
      <4>4. QED
        BY <4>3 DEF B
    <3>6. QED
      BY <3>a
  <2>6. QED
    BY <2>4, <2>5
<1>2. Len(p) \in Nat
  BY DEF Paths
<1>3. \E f : Solves(f, Len(p))
  BY <1>1, <1>2
<1>4. TypesAlong(p) = CHOOSE f : Solves(f, Len(p))
  BY DEF TypesAlong
<1>5. Solves(TypesAlong(p), Len(p))
  BY <1>3, <1>4
<1>6. QED
  BY <1>5

(* The types along a longer path begin with those along its parent.         *)
LEMMA TypesAlongAppend ==
  ASSUME NEW p \in Paths, NEW k \in Nat
  PROVE  \A n \in 0 .. Len(p) : TypesAlong(Append(p, k))[n] = TypesAlong(p)[n]
<1> DEFINE q == Append(p, k)
<1> DEFINE f == TypesAlong(p)
           g == TypesAlong(q)
<1> DEFINE Differ == {n \in Nat : n <= Len(p) /\ g[n] # f[n]}
<1>1. q \in Paths /\ Len(q) = Len(p) + 1 /\ Len(p) \in Nat /\ \A n \in 1 .. Len(p) : q[n] = p[n]
  BY DEF Paths
<1>2. f = [n \in 0 .. Len(p) |-> IF n = 0 THEN Root ELSE TypeIn(f[n - 1], p[n])]
  BY TypesAlongEquation
<1>3. g = [n \in 0 .. Len(q) |-> IF n = 0 THEN Root ELSE TypeIn(g[n - 1], q[n])]
  BY <1>1, TypesAlongEquation
<1> HIDE DEF f, g, q
<1>4. Differ = {}
  <2> SUFFICES ASSUME Differ # {} PROVE FALSE
    OBVIOUS
  <2>1. Differ \subseteq Nat
    OBVIOUS
  <2>2. PICK x \in Differ : \A y \in Differ : ~(<<y, x>> \in OpToRel(<, Nat))
    <3> HIDE DEF Differ
    <3>1. QED
      BY <2>1, NatLessThanWellFounded, WFMin, Zenon
  <2>3. \A y \in Differ : ~(y < x)
    BY <2>1, <2>2 DEF OpToRel
  <2>4. CASE x = 0
    BY <1>1, <1>2, <1>3, <2>4
  <2>5. CASE x # 0
    <3>1. x \in 1 .. Len(p) /\ x - 1 \in Nat /\ x - 1 < x /\ x - 1 <= Len(p)
      BY <1>1, <2>5
    <3>2. g[x - 1] = f[x - 1]
      BY <2>3, <3>1
    <3>3. g[x] = TypeIn(g[x - 1], q[x])
      BY <1>1, <1>3, <3>1
    <3>4. f[x] = TypeIn(f[x - 1], p[x])
      BY <1>1, <1>2, <3>1
    <3>5. QED
      BY <1>1, <3>1, <3>2, <3>3, <3>4
  <2>6. QED
    BY <2>4, <2>5
<1>5. QED
  BY <1>1, <1>4 DEF f, g, q

(* The root has type Root and a part of it the type of that part.           *)
LEMMA TypeAtFacts ==
  /\ TypeAt(<<>>) = Root
  /\ \A p \in Paths : \A k \in Nat : TypeAt(Append(p, k)) = TypeIn(TypeAt(p), k)
<1>1. TypeAt(<<>>) = Root
  <2>1. <<>> \in Paths /\ Len(<<>>) = 0
    BY DEF Paths
  <2>2. QED
    BY <2>1, TypesAlongEquation DEF TypeAt
<1>2. ASSUME NEW p \in Paths, NEW k \in Nat
      PROVE  TypeAt(Append(p, k)) = TypeIn(TypeAt(p), k)
  <2> DEFINE q == Append(p, k)
  <2>1. q \in Paths /\ Len(q) = Len(p) + 1 /\ Len(p) \in Nat /\ q[Len(p) + 1] = k
    BY DEF Paths
  <2>2. TypesAlong(q) =
          [n \in 0 .. Len(q) |-> IF n = 0 THEN Root ELSE TypeIn(TypesAlong(q)[n - 1], q[n])]
    BY <2>1, TypesAlongEquation
  <2>3. TypesAlong(q)[Len(p)] = TypesAlong(p)[Len(p)]
    BY <2>1, TypesAlongAppend
  <2> HIDE DEF q
  <2>4. TypesAlong(q)[Len(p) + 1] = TypeIn(TypesAlong(q)[Len(p)], q[Len(p) + 1])
    BY <2>1, <2>2
  <2>5. QED
    BY <2>1, <2>3, <2>4 DEF TypeAt, q
<1>3. QED
  BY <1>1, <1>2
-----------------------------------------------------------------------------
(* The inductive invariant.                                                 *)

Running == phase \in {"dds2pb", "pb2dds"}

HasParts(t) == KindOf(t) \in StructKinds \cup CollectionKinds
HoldsStrings(t) == KindOf(t) \in CollectionKinds /\ KindOf(Element(t)) = "STRING"

(* A call in progress goes through the members of its struct or the         *)
(* elements of its collection, and its type is that of the path it is at.   *)
CallInv(f) ==
  /\ HasParts(f.type) /\ f.next # 0 /\ TypeAt(f.at) = f.type
  /\ KindOf(f.type) \in StructKinds => f.size = Len(Schema[f.type].members)

(* The calls descend: each is for a part of what its caller is at, and so   *)
(* for a type of a lower rank.                                              *)
StackInv ==
  /\ stack # <<>> => phase \in {"dds2pb", "pb2dds", "aborted"} /\ stack[1].at = <<>>
  /\ \A i \in 1 .. Len(stack) : CallInv(stack[i])
  /\ \A i, j \in 1 .. Len(stack) : i < j => Rank[stack[j].type] < Rank[stack[i].type]
  /\ \A i \in 2 .. Len(stack) : stack[i].at = Append(stack[i - 1].at, stack[i - 1].next)

(* The object of a call is bound to the path of the call.                   *)
PathsAgree == \A i \in 2 .. Len(stack) : bound[stack[i].type].at = stack[i].at

(* Only a loop over strings remembers a length, and no call is nested in it.*)
RoomInv ==
  \A i \in 1 .. Len(stack) :
    stack[i].ddsValueLen # 0 => i = Len(stack) /\ HoldsStrings(stack[i].type)

(* The two sides of a conversion.                                           *)
Input == IF phase = "dds2pb" THEN sample ELSE message
Result == IF phase = "dds2pb" THEN message ELSE sample

(* What is converted is what was handed in, the calls are at places of it,  *)
(* and a loop goes over all elements there are.                             *)
InputInv ==
  /\ phase = "dds2pb" => sample \in Samples
  /\ phase = "pb2dds" => message \in Messages
  /\ Running =>
       \A i \in 1 .. Len(stack) :
         /\ stack[i].at \in DOMAIN Input
         /\ KindOf(stack[i].type) \in CollectionKinds =>
              stack[i].size = Size(Input, stack[i].at)

Shape == StackInv /\ BindingsFollowCalls /\ PathsAgree
BufferInv == RoomInv /\ CapacityHonest

Control == TypeOK /\ Shape /\ BufferInv /\ InputInv /\ BindNeverRefused

(* Calls that are not one call are two at least.                            *)
LEMMA AtLeastTwo == \A n \in Nat \ {0} : n # 1 => n > 1 /\ n \in 2 .. n
  OBVIOUS

(* The innermost call.                                                      *)
LEMMA TopFacts ==
  ASSUME TypeOK, Shape, stack # <<>>
  PROVE  /\ Len(stack) \in Nat \ {0} /\ stack \in Seq(Frames) /\ Top \in Frames
         /\ CallInv(Top) /\ TopPath = Top.at /\ Here = Field
         /\ Field \in Paths /\ TypeAt(Field) = TypeIn(Top.type, Top.next)
<1>0. stack \in Seq(Frames)
  BY DEF TypeOK
<1>1. Len(stack) \in Nat \ {0} /\ Len(stack) \in 1 .. Len(stack)
  BY <1>0
<1>2. Top \in Frames /\ CallInv(Top)
  BY <1>0, <1>1, ElementOfSeq DEF Top, Shape, StackInv
<1>3. TopPath = Top.at
  <2>1. CASE Len(stack) = 1
    BY <2>1 DEF TopPath, Top, Shape, StackInv
  <2>2. CASE Len(stack) # 1
    <3>1. Len(stack) \in 2 .. Len(stack)
      BY <1>1, <2>2, AtLeastTwo, Zenon
    <3>2. QED
      BY <2>2, <3>1 DEF TopPath, Top, Shape, PathsAgree
  <2>3. QED
    BY <2>1, <2>2
<1>4. Top.at \in Paths /\ Top.next \in Nat
  BY <1>2 DEF Frames
<1>5. Field \in Paths
  BY <1>4 DEF Field, Paths
<1>6. TypeAt(Field) = TypeIn(Top.type, Top.next)
  BY <1>2, <1>4, TypeAtFacts DEF Field, CallInv
<1>7. QED
  BY <1>0, <1>1, <1>2, <1>3, <1>5, <1>6 DEF Here, Field

(* At a member of a struct.                                                 *)
LEMMA MemberFacts ==
  ASSUME TypeOK, Shape, stack # <<>>, Top.next <= Top.size, InStruct
  PROVE  /\ Top.type \in Types /\ Top.next \in 1 .. Len(Schema[Top.type].members)
         /\ Entry \in Entries /\ MemberType \in Types
         /\ Rank[MemberType] < Rank[Top.type]
         /\ TypeAt(Field) = MemberType /\ ~HoldsStrings(Top.type)
<1>1. Top \in Frames /\ CallInv(Top) /\ TypeAt(Field) = TypeIn(Top.type, Top.next)
  BY TopFacts
<1>2. Top.type \in Types /\ Top.next \in 1 .. Len(Schema[Top.type].members)
  <2>1. Top.type \in Types /\ Top.next \in Nat /\ Top.next # 0 /\ Top.size = Len(Schema[Top.type].members)
    BY <1>1 DEF Frames, CallInv, InStruct
  <2>2. Len(Schema[Top.type].members) \in Nat
    BY <2>1, SchemaFacts
  <2>3. QED
    BY <2>1, <2>2
<1>3. /\ Entry \in Entries /\ MemberType \in Types /\ Rank[MemberType] < Rank[Top.type]
  BY <1>2, EntryFacts DEF Entry, MemberType
<1>4. TypeIn(Top.type, Top.next) = MemberType /\ ~HoldsStrings(Top.type)
  BY DEF TypeIn, MemberType, Entry, InStruct, HoldsStrings, StructKinds, CollectionKinds
<1>5. QED
  BY <1>1, <1>2, <1>3, <1>4

(* A struct is not a collection.                                            *)
LEMMA StructOrCollection == ~(InStruct /\ InCollection)
  BY DEF InStruct, InCollection, StructKinds, CollectionKinds

(* At an element of a collection; its call has a caller.                    *)
LEMMA ElementFacts ==
  ASSUME TypeOK, Shape, stack # <<>>, InCollection
  PROVE  /\ Top.type \in Types /\ ElementType \in Types
         /\ Rank[ElementType] < Rank[Top.type]
         /\ TypeAt(Field) = ElementType /\ ~InStruct /\ Len(stack) > 1
<1>1. Top \in Frames /\ CallInv(Top) /\ TypeAt(Field) = TypeIn(Top.type, Top.next) /\ Len(stack) \in Nat \ {0}
  BY TopFacts
<1>2. Top.type \in Types
  BY <1>1 DEF Frames
<1>3. ElementType \in Types /\ Rank[ElementType] < Rank[Top.type]
  BY <1>2, SchemaFacts DEF ElementType, InCollection
<1>4. TypeIn(Top.type, Top.next) = ElementType /\ ~InStruct
  BY DEF TypeIn, ElementType, InCollection, InStruct, StructKinds, CollectionKinds
<1>5. Len(stack) # 1
  <2> SUFFICES ASSUME Len(stack) = 1 PROVE FALSE
    OBVIOUS
  <2>1. Top.type = Root
    BY <1>1, TypeAtFacts DEF Top, Shape, StackInv, CallInv
  <2>2. QED
    BY <2>1, TypesAssumption DEF InCollection, KindOf, CollectionKinds
<1>6. Len(stack) > 1
  BY <1>1, <1>5, AtLeastTwo, Zenon
<1>7. QED
  BY <1>1, <1>2, <1>3, <1>4, <1>6

(* One object per type is enough while no object was left bound: a type of  *)
(* a lower rank than the innermost call's is bound nowhere, and the         *)
(* innermost object has no bound part.                                      *)
LEMMA BindingWorks ==
  ASSUME TypeOK, Shape, stack # <<>>, NEW t \in Types, Rank[t] < Rank[Top.type],
         LeftBound = {}
  PROVE  CanBind(t)
<1>0. Len(stack) \in Nat \ {0} /\ stack \in Seq(Frames)
  BY TopFacts
<1>1. Len(stack) \in Nat \ {0} /\ Len(stack) \in 1 .. Len(stack)
  BY <1>0
<1>2. \A i \in 1 .. Len(stack) : stack[i] \in Frames /\ stack[i].type \in Types /\ Rank[stack[i].type] \in Nat
  <2> TAKE i \in 1 .. Len(stack)
  <2>1. stack[i] \in Frames
    BY <1>0
  <2>2. stack[i].type \in Types
    BY <2>1 DEF Frames
  <2>3. QED
    BY <2>1, <2>2, SchemaFacts
<1>3. Rank[t] \in Nat /\ Len(stack) \in 1 .. Len(stack)
  BY <1>1, SchemaFacts
<1>4. \A i \in 1 .. Len(stack) : i # Len(stack) => Rank[Top.type] < Rank[stack[i].type]
  BY <1>1, <1>3 DEF Top, Shape, StackInv
<1>0a. DOMAIN bound = {stack[i].type : i \in 2 .. Len(stack)}
  BY DEF Shape, BindingsFollowCalls
<1>5. t \notin DOMAIN bound
  <2>1. \A i \in 2 .. Len(stack) : i \in 1 .. Len(stack) /\ stack[i].type # t
    BY <1>1, <1>2, <1>3, <1>4 DEF Top
  <2>2. QED
    BY <2>1, <1>0a
<1>6. ASSUME NEW u \in DOMAIN bound PROVE bound[u].by # TopObject
  <2>1. PICK i \in 2 .. Len(stack) : u = stack[i].type
    BY <1>0a
  <2>2. bound[u].by = IF i = 2 THEN RootObject ELSE stack[i - 1].type
    BY <2>1 DEF Shape, BindingsFollowCalls
  <2>3. TopObject = Top.type /\ Top.type \in Types /\ Rank[Top.type] \in Nat
    BY <1>1, <1>2, <1>3, <2>1 DEF TopObject, Top
  <2>4. CASE i = 2
    BY <2>2, <2>3, <2>4, ConverterAssumption
  <2>5. CASE i # 2
    <3>1. i - 1 \in 1 .. Len(stack) /\ i - 1 # Len(stack)
      BY <1>1, <2>5
    <3>2. Rank[Top.type] < Rank[stack[i - 1].type]
      BY <1>4, <3>1
    <3>3. QED
      BY <2>2, <2>3, <2>5, <3>2
  <2>6. QED
    BY <2>4, <2>5
<1>7. QED
  BY <1>5, <1>6 DEF CanBind

-----------------------------------------------------------------------------
(* What a step can do to the calls.                                         *)

HasRoom(b) ==
  b \in Seq(Int) /\ \A i \in 1 .. Len(stack) : stack[i].ddsValueLen <= Len(b)

InputKept ==
  /\ phase = "dds2pb" => UNCHANGED sample
  /\ phase = "pb2dds" => UNCHANGED message

(* v is what the value at path p of the input becomes.                      *)
Matches(p, v) ==
  IF phase = "dds2pb" THEN v = sample[p] ELSE SameValue(TypeAt(p), v, message[p])

(* v is written to where the innermost call is.  In a sample it may take    *)
(* the place of another member of a union; in a message the repeated field  *)
(* comes into being with its first element.                                 *)
Writes(v) ==
  Result' = IF phase = "pb2dds" THEN Assigned(v)
            ELSE IF InCollection THEN Put(Put(Result, Top.at, <<>>), Field, v)
            ELSE Put(Result, Field, v)

Fails ==
  /\ ok' = FALSE /\ reason' \in Reasons \ {"none"}
  /\ reason' = "bind" => LeftBound # {}
  /\ cache \subseteq cache' /\ cache' \subseteq Types
  /\ HasRoom(str_buffer')
  /\ UNCHANGED <<phase, stack, bound, converted, calls>>

Aborts ==
  /\ phase' = "aborted"
  /\ HasRoom(str_buffer')
  /\ UNCHANGED <<stack, cache, bound, converted, ok, reason, calls>>

(* A leaf is converted, is absent or is an empty collection.                *)
LeafDone ==
  \/ ~InCollection /\ Field \notin DOMAIN Input /\ UNCHANGED converted
  \/ /\ Field \in DOMAIN Input /\ Size(Input, Field) = 0
     /\ \/ /\ ~InCollection /\ phase = "dds2pb" /\ Omitted(Field)
           /\ UNCHANGED converted
        \/ \E v : Matches(Field, v) /\ Writes(v)

NextFrame(len) ==
  stack' = [stack EXCEPT ![Len(stack)] =
              [Top EXCEPT !.next = Top.next + 1, !.ddsValueLen = len]]

Advances ==
  /\ Running /\ stack # <<>>
  /\ \E len \in Nat :
       /\ len # 0 => HoldsStrings(Top.type)
       /\ len <= Len(str_buffer')
       /\ NextFrame(len)
  /\ HasRoom(str_buffer')
  /\ InputKept /\ LeafDone
  /\ UNCHANGED <<phase, cache, bound, ok, reason, calls>>

(* A part is bound and its call begins; the part of the result comes into   *)
(* being, but for a repeated field, which waits for its first element.      *)
EntersPart(t, size) ==
  /\ HasParts(t) /\ t = TypeAt(Field) /\ Rank[t] < Rank[Top.type]
  /\ size = IF KindOf(t) \in StructKinds THEN Len(Schema[t].members)
            ELSE Size(Input, Field)
  /\ ~HoldsStrings(Top.type)
  /\ Field \in DOMAIN Input /\ Matches(Field, <<>>)
  /\ t \notin DOMAIN bound /\ bound' = Bound(t)
  /\ stack' = Append(stack, Frame(t, Field, size))
  /\ cache' = cache \cup {t}
  /\ \/ Writes(<<>>)
     \/ /\ ~InCollection /\ phase = "dds2pb" /\ KindOf(t) \in CollectionKinds /\ size # 0
        /\ UNCHANGED converted

Enters ==
  /\ Running /\ stack # <<>>
  /\ \E t \in Types : \E size \in Nat : EntersPart(t, size)
  /\ InputKept
  /\ UNCHANGED <<phase, str_buffer, ok, reason, calls>>

(* Outside a loop over strings no length is remembered, so that any size of *)
(* the buffer will do.                                                      *)
LEMMA NoLengths ==
  ASSUME TypeOK, BufferInv, stack # <<>>, ~HoldsStrings(Top.type), NEW b \in Seq(Int)
  PROVE  HasRoom(b) /\ \A i \in 1 .. Len(stack) : stack[i].ddsValueLen = 0
<1>1. \A i \in 1 .. Len(stack) : stack[i].ddsValueLen = 0
  BY DEF BufferInv, RoomInv, Top
<1>2. Len(b) \in Nat
  OBVIOUS
<1>3. QED
  BY <1>1, <1>2 DEF HasRoom

(* The buffer itself has room.                                              *)
LEMMA SameBuffer ==
  ASSUME TypeOK, BufferInv
  PROVE  HasRoom(str_buffer)
  BY DEF TypeOK, BufferInv, CapacityHonest, HasRoom

(* A call that goes on without touching the buffer.                         *)
LEMMA AdvancedPlainly ==
  ASSUME TypeOK, Shape, BufferInv, Running, stack # <<>>, HasRoom(str_buffer'),
         ~HoldsStrings(Top.type) \/ str_buffer' = str_buffer,
         stack' = Advanced(stack), InputKept, LeafDone,
         UNCHANGED <<phase, cache, bound, ok, reason, calls>>
  PROVE  Advances
<1>1. stack \in Seq(Frames) /\ Top \in Frames /\ Len(stack) \in 1 .. Len(stack)
  <2>1. Len(stack) \in Nat \ {0} /\ stack \in Seq(Frames) /\ Top \in Frames
    BY TopFacts
  <2>2. QED
    BY <2>1
<1> DEFINE len == Top.ddsValueLen
<1>2. len \in Nat /\ (len # 0 => HoldsStrings(Top.type)) /\ len <= Len(str_buffer')
  BY <1>1 DEF BufferInv, RoomInv, Frames, HasRoom, Top
<1>3. stack' = [stack EXCEPT ![Len(stack)] = [Top EXCEPT !.next = Top.next + 1]]
  BY <1>1 DEF Advanced, Top
<1>4. [Top EXCEPT !.next = Top.next + 1] =
        [Top EXCEPT !.next = Top.next + 1, !.ddsValueLen = len]
  BY <1>1 DEF Frames
<1> HIDE DEF len
<1>5. QED
  BY <1>2, <1>3, <1>4 DEF Advances, NextFrame

(* No object: there is no memory for it, or it or its parent is in use.     *)
LEMMA NoObjectShape ==
  ASSUME TypeOK, Shape, BufferInv, stack # <<>>, NEW t \in Types,
         Rank[t] < Rank[Top.type], NoObject(t) \/ Refused(t)
  PROVE  Fails
<1>1. HasRoom(str_buffer)
  BY SameBuffer
<1>2. CASE NoObject(t)
  BY <1>1, <1>2 DEF NoObject, Fail, Fails, Reasons, TypeOK, converted
<1>3. CASE Refused(t)
  <2>1. LeftBound # {}
    BY <1>3, BindingWorks DEF Refused
  <2>2. cache \subseteq cache' /\ cache' \subseteq Types
    BY <1>3 DEF Refused, TypeOK
  <2>3. QED
    BY <1>1, <1>3, <2>1, <2>2 DEF Refused, Fails, Reasons, converted
<1>4. QED
  BY <1>2, <1>3

(* A call for a field that takes no message.                                *)
LEMMA MisfitShape ==
  ASSUME TypeOK, Shape, BufferInv, stack # <<>>, NEW t \in Types,
         Rank[t] < Rank[Top.type], EnterMisfit(t)
  PROVE  Fails \/ Aborts
<1>1. CASE NoObject(t) \/ Refused(t)
  BY <1>1, NoObjectShape
<1>2. CASE Abort
  BY <1>2, SameBuffer DEF Abort, Aborts, converted
<1>3. QED
  BY <1>1, <1>2 DEF EnterMisfit

(* Binding a part: it succeeds, or there is no object for it.               *)
LEMMA EnterShape ==
  ASSUME TypeOK, Shape, BufferInv, Running, stack # <<>>,
         NEW t \in Types, NEW size \in Nat, HasParts(t), t = TypeAt(Field),
         Rank[t] < Rank[Top.type], ~HoldsStrings(Top.type),
         size = IF KindOf(t) \in StructKinds THEN Len(Schema[t].members)
                ELSE Size(Input, Field),
         Field \in DOMAIN Input, Matches(Field, <<>>),
         NEW s, NEW m,
         phase = "dds2pb" => s = sample, phase = "pb2dds" => m = message,
         Enter(t, Frame(t, Field, size), s, m),
         sample' = s /\ message' = m /\ phase' = phase =>
           \/ Writes(<<>>)
           \/ /\ ~InCollection /\ phase = "dds2pb" /\ KindOf(t) \in CollectionKinds /\ size # 0
              /\ UNCHANGED converted
  PROVE  Fails \/ Enters
<1>2. CASE NoObject(t) \/ Refused(t)
  BY <1>2, NoObjectShape
<1>3. CASE ~(NoObject(t) \/ Refused(t))
  <2>1. /\ t \notin DOMAIN bound /\ bound' = Bound(t)
        /\ stack' = Append(stack, Frame(t, Field, size))
        /\ sample' = s /\ message' = m /\ cache' = cache \cup {t}
        /\ UNCHANGED <<phase, str_buffer, ok, reason, calls>>
    BY <1>3 DEF Enter, CanBind
  <2>2. InputKept
    BY <2>1 DEF InputKept
  <2>3. EntersPart(t, size)
    BY <2>1 DEF EntersPart
  <2>4. QED
    BY <2>1, <2>2, <2>3 DEF Enters
<1>4. QED
  BY <1>2, <1>3

-----------------------------------------------------------------------------
(* The buffer.                                                              *)

(* resize() keeps the front and fills up with zeros.                        *)
LEMMA ResizedFacts ==
  ASSUME NEW b \in Seq(Int), NEW n \in Nat
  PROVE  Resized(b, n) \in Seq(Int) /\ Len(Resized(b, n)) = n
  BY DEF Resized

(* A value written over a buffer that is long enough is found in front.     *)
LEMMA OverwrittenFacts ==
  ASSUME NEW b \in Seq(Int), NEW v \in Seq(Int)
  PROVE  /\ Overwritten(b, v) \in Seq(Int) /\ Len(Overwritten(b, v)) = Len(b)
         /\ Len(v) <= Len(b) => \A i \in 1 .. Len(v) : Overwritten(b, v)[i] = v[i]
  BY DEF Overwritten

(* The buffer before a string is read, and the room get_string() is told of.*)
LEMMA CapacityFacts ==
  ASSUME TypeOK, Shape, BufferInv, stack # <<>>
  PROVE  /\ Presized \in Seq(Int) /\ Len(str_buffer) <= Len(Presized)
         /\ Capacity \in Nat /\ Capacity <= Len(Presized)
         /\ Capacity = Len(Presized) \/ Capacity = Top.ddsValueLen
         /\ HasRoom(Presized)
<1>1. str_buffer \in Seq(Int) /\ Len(str_buffer) \in Nat
  BY DEF TypeOK
<1>2. Presized \in Seq(Int) /\ Len(str_buffer) <= Len(Presized) /\ Len(Presized) \in Nat
  BY <1>1, ConverterAssumption, ResizedFacts DEF Presized
<1>3. /\ Top \in Frames /\ Len(stack) \in 1 .. Len(stack)
      /\ \A i \in 1 .. Len(stack) : stack[i].ddsValueLen \in Nat
  <2>1. Top \in Frames /\ Len(stack) \in Nat \ {0} /\ stack \in Seq(Frames)
    BY TopFacts
  <2>2. \A i \in 1 .. Len(stack) : stack[i] \in Frames
    BY <2>1
  <2>3. QED
    BY <2>1, <2>2 DEF Frames
<1>4. Top.ddsValueLen \in Nat /\ Top.ddsValueLen <= Len(str_buffer)
  BY <1>3 DEF Frames, BufferInv, CapacityHonest, Top
<1>5. \A i \in 1 .. Len(stack) : stack[i].ddsValueLen <= Len(Presized)
  <2> TAKE i \in 1 .. Len(stack)
  <2>1. stack[i].ddsValueLen <= Len(str_buffer) /\ stack[i].ddsValueLen \in Nat
    BY <1>3 DEF BufferInv, CapacityHonest
  <2>2. QED
    BY <1>1, <1>2, <2>1
<1>6. QED
  BY <1>1, <1>2, <1>4, <1>5 DEF Capacity, HasRoom

(* get_string() is given room for the string and its NUL, the lengths       *)
(* remembered stay true, and the string stands in front.                    *)
LEMMA GetStringFacts ==
  ASSUME TypeOK, Shape, BufferInv, stack # <<>>, NEW v \in Seq(Int)
  PROVE  /\ HasRoom(Room(Presized, Capacity, v))
         /\ HasRoom(GetString(v)) /\ Len(v) + 1 <= Len(GetString(v))
         /\ SubSeq(GetString(v), 1, Len(v)) = v
<1> DEFINE room == Room(Presized, Capacity, v)
<1>1. /\ Presized \in Seq(Int) /\ Len(Presized) \in Nat
      /\ Capacity \in Nat /\ Capacity <= Len(Presized)
      /\ Capacity = Len(Presized) \/ Capacity = Top.ddsValueLen
      /\ HasRoom(Presized) /\ Len(v) \in Nat
  BY CapacityFacts
<1>2. room \in Seq(Int) /\ Len(v) + 1 <= Len(room)
      /\ (room = Presized \/ Len(room) > Capacity) /\ Len(room) \in Nat
  <2>1. CASE Len(v) + 1 <= Capacity
    BY <1>1, <2>1 DEF Room
  <2>2. CASE ~(Len(v) + 1 <= Capacity)
    <3>1. Len(v) + 1 \in Nat
      BY <1>1
    <3>2. room = Resized(Presized, Len(v) + 1)
      BY <2>2 DEF Room
    <3>3. room \in Seq(Int) /\ Len(room) = Len(v) + 1
      BY <1>1, <3>1, <3>2, ResizedFacts
    <3> HIDE DEF room
    <3>4. QED
      BY <1>1, <2>2, <3>3
  <2>3. QED
    BY <2>1, <2>2
<1>3. \A i \in 1 .. Len(stack) : stack[i].ddsValueLen <= Len(room)
  <2> TAKE i \in 1 .. Len(stack)
  <2>1. stack[i].ddsValueLen <= Len(Presized)
    BY <1>1 DEF HasRoom
  <2>2. CASE stack[i].ddsValueLen = 0
    BY <1>2, <2>2
  <2>3. CASE stack[i].ddsValueLen # 0
    <3>1. stack[i] = Top
      BY <2>3 DEF BufferInv, RoomInv, Top
    <3>2. Top.ddsValueLen \in Nat
      BY TopFacts DEF Frames
    <3> HIDE DEF room
    <3>3. QED
      BY <1>1, <1>2, <2>1, <3>1, <3>2, SMTT(30)
  <2>4. QED
    BY <2>2, <2>3
<1> HIDE DEF room
<1>4. Append(v, 0) \in Seq(Int) /\ Len(Append(v, 0)) = Len(v) + 1
      /\ \A i \in 1 .. Len(v) : Append(v, 0)[i] = v[i]
  OBVIOUS
<1>5. GetString(v) = Overwritten(room, Append(v, 0))
  BY DEF GetString, room
<1>6. /\ GetString(v) \in Seq(Int) /\ Len(GetString(v)) = Len(room)
      /\ \A i \in 1 .. Len(v) + 1 : GetString(v)[i] = Append(v, 0)[i]
  <2> DEFINE w == Append(v, 0)
  <2>1. w \in Seq(Int) /\ Len(w) = Len(v) + 1 /\ Len(w) <= Len(room)
    BY <1>2, <1>4
  <2> HIDE DEF w
  <2>2. /\ Overwritten(room, w) \in Seq(Int) /\ Len(Overwritten(room, w)) = Len(room)
        /\ \A i \in 1 .. Len(w) : Overwritten(room, w)[i] = w[i]
    BY <1>2, <2>1, OverwrittenFacts
  <2>3. GetString(v) = Overwritten(room, w)
    BY <1>5 DEF w
  <2>4. QED
    BY <2>1, <2>2, <2>3 DEF w
<1>7. \A i \in 1 .. Len(v) : GetString(v)[i] = v[i]
  BY <1>1, <1>4, <1>6
<1>8. SubSeq(GetString(v), 1, Len(v)) = v
  BY <1>1, <1>2, <1>6, <1>7
<1>9. QED
  BY <1>2, <1>3, <1>6, <1>8 DEF HasRoom, room

(* Bytes take the whole buffer.                                             *)
LEMMA BytesFacts ==
  ASSUME NEW b \in Seq(Int), NEW v \in Seq(Int)
  PROVE  Overwritten(Resized(b, Len(v)), v) = v
  BY DEF Overwritten, Resized

-----------------------------------------------------------------------------
(* The input.                                                               *)

(* The parent of a part and its number.                                     *)
LEMMA ParentAppend ==
  ASSUME NEW p \in Paths, NEW k \in Nat
  PROVE  /\ Append(p, k) # <<>> /\ Parent(Append(p, k)) = p
         /\ Append(p, k)[Len(Append(p, k))] = k
<1>1. p \in Seq(Nat) /\ Len(p) \in Nat
  BY DEF Paths
<1>2. Append(p, k) # <<>> /\ Len(Append(p, k)) = Len(p) + 1 /\ Append(p, k)[Len(p) + 1] = k
  BY <1>1
<1>3. SubSeq(Append(p, k), 1, Len(p) + 1 - 1) = p
  BY <1>1
<1>4. QED
  BY <1>2, <1>3 DEF Parent

(* A tree has finitely many paths.                                          *)
LEMMA SizeFacts ==
  ASSUME NEW d, IsTree(d), NEW p
  PROVE  Size(d, p) \in Nat
<1> DEFINE below == {q \in DOMAIN d : q # <<>> /\ Parent(q) = p}
<1>1. IsFiniteSet(DOMAIN d) /\ below \subseteq DOMAIN d
  BY DEF IsTree
<1> HIDE DEF below
<1>2. IsFiniteSet(below)
  BY <1>1, FS_Subset
<1>3. QED
  BY <1>2, FS_CardinalityType DEF Size, below

(* Where the innermost call is, in the input.                               *)
LEMMA InputFacts ==
  ASSUME TypeOK, Shape, InputInv, Running, stack # <<>>
  PROVE  /\ IsTree(Input) /\ Top.at \in DOMAIN Input
         /\ InCollection => Top.size = Size(Input, Top.at)
         /\ Parent(Field) = Top.at /\ Field # <<>> /\ Field[Len(Field)] = Top.next
         /\ TypeAt(Top.at) = Top.type
         /\ Size(Input, Field) \in Nat
         /\ Field \in DOMAIN Input => Input[Field] \in Seq(Int) /\ Input[Top.at] = <<>>
         /\ InCollection /\ Top.next <= Top.size => Field \in DOMAIN Input
<1>1. IsTree(Input)
  BY DataAssumption DEF InputInv, Input, Running, IsSample, IsMessage
<1>2. Top \in Frames /\ CallInv(Top) /\ Len(stack) \in Nat \ {0}
  BY TopFacts
<1>a. Len(stack) \in 1 .. Len(stack)
  BY <1>2
<1>3. /\ Top.at \in DOMAIN Input
      /\ InCollection => Top.size = Size(Input, Top.at)
  BY <1>a DEF InputInv, InCollection, Top
<1>4. Top.at \in Paths /\ Top.next \in Nat /\ Top.next # 0
  BY <1>2 DEF Frames, CallInv
<1>5. Parent(Field) = Top.at /\ Field # <<>> /\ Field[Len(Field)] = Top.next
  BY <1>4, ParentAppend DEF Field
<1>6. TypeAt(Top.at) = Top.type
  BY <1>2 DEF CallInv
<1>7. Size(Input, Field) \in Nat /\ Size(Input, Top.at) \in Nat
  BY <1>1, SizeFacts
<1>8. Field \in DOMAIN Input => Input[Field] \in Seq(Int) /\ Input[Top.at] = <<>>
  BY <1>1, <1>5 DEF IsTree
<1>9. ASSUME InCollection, Top.next <= Top.size PROVE Field \in DOMAIN Input
  <2>1. KindOf(TypeAt(Top.at)) \notin StructKinds
    BY <1>6, <1>9 DEF InCollection, CollectionKinds, StructKinds
  <2>2. \A n \in 1 .. Size(Input, Top.at) : Append(Top.at, n) \in DOMAIN Input
    BY <1>1, <1>3, <2>1 DEF IsTree
  <2>3. Top.next \in 1 .. Size(Input, Top.at)
    BY <1>3, <1>4, <1>7, <1>9
  <2>4. QED
    BY <2>2, <2>3 DEF Field
<1>10. QED
  BY <1>1, <1>3, <1>5, <1>6, <1>7, <1>8, <1>9

(* The value of a sample at the innermost call.                             *)
LEMMA SampleFacts ==
  ASSUME TypeOK, Shape, InputInv, phase = "dds2pb", stack # <<>>, Field \in DOMAIN sample,
         NEW t, t = TypeAt(Field)
  PROVE  IF \/ KindOf(t) \in ScalarKinds \cup {"STRING"}
            \/ /\ KindOf(t) \in CollectionKinds /\ KindOf(Element(t)) = "OCTET"
               /\ InStruct => Entry.field.type = "BYTES"
         THEN Size(sample, Field) = 0 ELSE sample[Field] = <<>>
<1>1. IsSample(sample)
  BY DataAssumption DEF InputInv
<1>2. Parent(Field) = Top.at /\ Field[Len(Field)] = Top.next /\ TypeAt(Top.at) = Top.type
  BY InputFacts DEF Running
<1>3. QED
  BY <1>1, <1>2 DEF IsSample, InStruct, Entry

(* A field of the message at the innermost call.                            *)
LEMMA FieldFacts ==
  ASSUME TypeOK, Shape, InputInv, phase = "pb2dds", stack # <<>>, Field \in DOMAIN message,
         InStruct
  PROVE  IF Entry.field.repeated \/ Entry.field.type = "MESSAGE"
         THEN message[Field] = <<>> ELSE Size(message, Field) = 0
<1>1. IsMessage(message)
  BY DataAssumption DEF InputInv
<1>2. /\ Parent(Field) = Top.at /\ Field # <<>> /\ Field[Len(Field)] = Top.next
      /\ TypeAt(Top.at) = Top.type
  BY InputFacts DEF Running
<1>3. QED
  BY <1>1, <1>2 DEF IsMessage, InStruct, Entry

(* An element of a repeated field at the innermost call.                    *)
LEMMA RepeatedFacts ==
  ASSUME TypeOK, Shape, InputInv, phase = "pb2dds", stack # <<>>, InCollection,
         Top.next <= Top.size, RepeatedField.repeated
  PROVE  IF RepeatedField.type = "MESSAGE"
         THEN message[Field] = <<>> ELSE Size(message, Field) = 0
<1>1. IsMessage(message) /\ Input = message
  BY DataAssumption DEF InputInv, Input
<1>2. /\ Top.size = Size(message, Top.at) /\ Top.at \in DOMAIN message
      /\ Size(message, Top.at) \in Nat
  BY <1>1, InputFacts, SizeFacts DEF Running, IsMessage
<1>3. Len(stack) > 1 /\ Len(stack) \in Nat /\ stack \in Seq(Frames) /\ Top \in Frames /\ CallInv(Top)
  BY ElementFacts, TopFacts
<1>4. Len(stack) \in 2 .. Len(stack) /\ Len(stack) - 1 \in 1 .. Len(stack)
  BY <1>3
<1>5. Caller \in Frames /\ CallInv(Caller)
  BY <1>3, <1>4, ElementOfSeq DEF Caller, Shape, StackInv
<1>6. Caller.at \in Paths /\ Caller.next \in Nat /\ TypeAt(Caller.at) = Caller.type
  BY <1>5 DEF Frames, CallInv
<1>7. Top.at = Append(Caller.at, Caller.next)
  BY <1>4 DEF Shape, StackInv, Top, Caller
<1>8. Parent(Top.at) = Caller.at /\ Top.at # <<>> /\ Top.at[Len(Top.at)] = Caller.next
  BY <1>6, <1>7, ParentAppend
<1>9. /\ KindOf(Caller.type) \in StructKinds
      /\ RepeatedField = Schema[Caller.type].members[Caller.next].field
  BY DEF RepeatedField
<1>10. Top.next \in 1 .. Size(message, Top.at)
  BY <1>2, <1>3 DEF Frames, CallInv
<1>11. QED
  BY <1>1, <1>2, <1>6, <1>8, <1>9, <1>10 DEF IsMessage, Field

-----------------------------------------------------------------------------
(* dds_to_protobuf().                                                       *)

(* Where a step of dds_to_protobuf() starts from.                           *)
LEMMA DdsFacts ==
  ASSUME TypeOK, Shape, InputInv, Working("dds2pb")
  PROVE  /\ phase = "dds2pb" /\ Running /\ stack # <<>> /\ ok /\ Top.next <= Top.size
         /\ Here = Field /\ Input = sample /\ Result = message
         /\ Field \in DOMAIN sample => sample[Field] \in Seq(Int)
         /\ InCollection => Field \in DOMAIN sample
         /\ str_buffer \in Seq(Int)
<1>1. phase = "dds2pb" /\ Running /\ stack # <<>> /\ ok /\ Top.next <= Top.size
  BY DEF Working, Running
<1>2. Input = sample /\ Result = message
  BY <1>1 DEF Input, Result
<1>3. Here = Field
  BY <1>1, TopFacts
<1>4. QED
  BY <1>1, <1>2, <1>3, InputFacts DEF TypeOK

(* A single value goes to its field, or the accessor does not fit.          *)
LEMMA StoreShape ==
  ASSUME TypeOK, Shape, BufferInv, InputInv, Working("dds2pb"), InStruct,
         Field \in DOMAIN sample, Size(sample, Field) = 0,
         NEW accessor, Store(accessor, sample[Field]), HasRoom(str_buffer'),
         UNCHANGED <<cache, bound, ok, reason, calls>>
  PROVE  Aborts \/ Advances
<1>1. /\ phase = "dds2pb" /\ Running /\ stack # <<>> /\ Top.next <= Top.size
      /\ Input = sample /\ Result = message
  BY DdsFacts
<1>2. ~HoldsStrings(Top.type)
  BY <1>1, MemberFacts
<1>3. CASE Fits(Entry.field, accessor, FALSE)
  <2>1. /\ message' = Put(message, Field, sample[Field]) /\ stack' = Advanced(stack)
        /\ UNCHANGED <<phase, sample>>
    BY <1>3 DEF Store
  <2>2. InputKept /\ Writes(sample[Field]) /\ Matches(Field, sample[Field])
    BY <1>1, <2>1, StructOrCollection DEF InputKept, Writes, Result, Matches
  <2>3. LeafDone
    BY <1>1, <2>2 DEF LeafDone
  <2>4. QED
    BY <1>1, <1>2, <2>1, <2>2, <2>3, AdvancedPlainly
<1>4. CASE ~Fits(Entry.field, accessor, FALSE)
  BY <1>4 DEF Store, Aborts, converted
<1>5. QED
  BY <1>3, <1>4

(* The parts of a frame that goes on after a string was added.              *)
LEMMA LengthRemembered ==
  ASSUME TypeOK, Shape, stack # <<>>, NEW len \in Nat,
         stack' = Advanced([stack EXCEPT ![Len(stack)].ddsValueLen = len])
  PROVE  NextFrame(len)
<1>1. stack \in Seq(Frames) /\ Top \in Frames /\ Len(stack) \in Nat \ {0}
  BY TopFacts
<1>2. Len(stack) \in 1 .. Len(stack)
  BY <1>1
<1> DEFINE s == [stack EXCEPT ![Len(stack)].ddsValueLen = len]
<1>3. s = [stack EXCEPT ![Len(stack)] = [Top EXCEPT !.ddsValueLen = len]]
  BY DEF Top
<1>4. [Top EXCEPT !.ddsValueLen = len] \in Frames
  BY <1>1 DEF Frames
<1>5. s \in Seq(Frames) /\ Len(s) = Len(stack) /\ s[Len(stack)] = [Top EXCEPT !.ddsValueLen = len]
  BY <1>1, <1>2, <1>3, <1>4, SMTT(30)
<1>6. Advanced(s) = [s EXCEPT ![Len(stack)] = [s[Len(stack)] EXCEPT !.next = s[Len(stack)].next + 1]]
  BY <1>5 DEF Advanced
<1>7. [s[Len(stack)] EXCEPT !.next = s[Len(stack)].next + 1] =
        [Top EXCEPT !.next = Top.next + 1, !.ddsValueLen = len]
  <2>1. \A f \in Frames :
          /\ [f EXCEPT !.ddsValueLen = len].next = f.next
          /\ [[f EXCEPT !.ddsValueLen = len] EXCEPT !.next = f.next + 1] =
               [f EXCEPT !.next = f.next + 1, !.ddsValueLen = len]
    BY DEF Frames
  <2>2. QED
    BY <1>1, <1>5, <2>1
<1>8. Advanced(s) = [s EXCEPT ![Len(stack)] = [Top EXCEPT !.next = Top.next + 1, !.ddsValueLen = len]]
  BY <1>6, <1>7
<1>9. \A x : [[stack EXCEPT ![Len(stack)] = [Top EXCEPT !.ddsValueLen = len]]
                EXCEPT ![Len(stack)] = x] = [stack EXCEPT ![Len(stack)] = x]
  BY <1>1, <1>2
<1> HIDE DEF s
<1>10. QED
  BY <1>3, <1>8, <1>9 DEF NextFrame, s

(* An element goes to the repeated field, or the accessor does not fit.     *)
LEMMA AddShape ==
  ASSUME TypeOK, Shape, BufferInv, InputInv, Working("dds2pb"), InCollection,
         Size(sample, Field) = 0,
         NEW accessor, NEW frames, Add(accessor, sample[Field], frames),
         HasRoom(str_buffer'),
         \/ frames = stack /\ (~HoldsStrings(Top.type) \/ str_buffer' = str_buffer)
         \/ /\ HoldsStrings(Top.type) /\ Len(sample[Field]) + 1 <= Len(str_buffer')
            /\ frames = [stack EXCEPT ![Len(stack)].ddsValueLen = Len(sample[Field]) + 1],
         UNCHANGED <<cache, bound, ok, reason, calls>>
  PROVE  Aborts \/ Advances
<1>1. /\ phase = "dds2pb" /\ Running /\ stack # <<>> /\ Top.next <= Top.size
      /\ Input = sample /\ Result = message /\ Field \in DOMAIN sample
      /\ sample[Field] \in Seq(Int)
  BY DdsFacts
<1>2. CASE Fits(RepeatedField, accessor, TRUE)
  <2>1. /\ message' = Put(Put(message, Top.at, <<>>), Field, sample[Field])
        /\ stack' = Advanced(frames) /\ UNCHANGED <<phase, sample>>
    BY <1>2 DEF Add, Added
  <2>2. InputKept /\ Writes(sample[Field]) /\ Matches(Field, sample[Field])
    BY <1>1, <2>1 DEF InputKept, Writes, Result, Matches
  <2>3. LeafDone
    BY <1>1, <2>2 DEF LeafDone
  <2>4. CASE frames = stack /\ (~HoldsStrings(Top.type) \/ str_buffer' = str_buffer)
    BY <1>1, <2>1, <2>2, <2>3, <2>4, AdvancedPlainly
  <2>5. CASE /\ HoldsStrings(Top.type) /\ Len(sample[Field]) + 1 <= Len(str_buffer')
             /\ frames = [stack EXCEPT ![Len(stack)].ddsValueLen = Len(sample[Field]) + 1]
    <3> DEFINE len == Len(sample[Field]) + 1
    <3>1. len \in Nat
      BY <1>1
    <3>2. stack' = Advanced([stack EXCEPT ![Len(stack)].ddsValueLen = len])
      BY <2>1, <2>5
    <3>3. len <= Len(str_buffer')
      BY <2>5
    <3> HIDE DEF len
    <3>4. NextFrame(len)
      BY <1>1, <3>1, <3>2, LengthRemembered
    <3>5. QED
      BY <1>1, <2>1, <2>2, <2>3, <2>5, <3>1, <3>3, <3>4 DEF Advances
  <2>6. QED
    BY <2>4, <2>5
<1>3. CASE ~Fits(RepeatedField, accessor, TRUE)
  BY <1>3 DEF Add, Aborts, converted
<1>4. QED
  BY <1>2, <1>3

(* A failure that touches neither the buffer nor the cache.                 *)
LEMMA FailShape ==
  ASSUME TypeOK, BufferInv, NEW r \in Reasons \ {"none", "bind"}, Fail(r)
  PROVE  Fails
  BY SameBuffer DEF Fail, Fails, TypeOK, converted

(* A member of the sample: a leaf, a struct or a collection.                *)
LEMMA DdsMemberShape ==
  ASSUME TypeOK, Shape, BufferInv, InputInv,
         \/ SkipMember \/ NoField \/ SetScalar \/ SetString \/ SetBytes
         \/ UnsupportedMember \/ EnterStruct \/ EmptyCollection \/ EnterCollection
  PROVE  Fails \/ Aborts \/ Advances \/ Enters
<1>1. CASE SkipMember
  <2>1. Working("dds2pb") /\ InStruct /\ Here \notin DOMAIN sample /\ stack' = Advanced(stack)
        /\ UNCHANGED <<phase, cache, bound, str_buffer, converted, ok, reason, calls>>
    BY <1>1 DEF SkipMember
  <2>2. Running /\ stack # <<>> /\ Here = Field /\ Input = sample
    BY <2>1, DdsFacts
  <2>3. InputKept /\ LeafDone /\ HasRoom(str_buffer')
    BY <2>1, <2>2, SameBuffer, StructOrCollection DEF InputKept, LeafDone, converted
  <2>4. QED
    BY <2>1, <2>2, <2>3, AdvancedPlainly
<1>2. CASE NoField
  BY <1>2, FailShape DEF NoField, Reasons
<1>3. CASE UnsupportedMember
  BY <1>3, FailShape DEF UnsupportedMember, Reasons
<1>4. ASSUME AtMember
      PROVE  /\ Working("dds2pb") /\ InStruct /\ Field \in DOMAIN sample /\ Here = Field
             /\ Input = sample /\ Result = message /\ phase = "dds2pb" /\ Running /\ stack # <<>>
             /\ sample[Field] \in Seq(Int) /\ str_buffer \in Seq(Int)
             /\ MemberType \in Types /\ Rank[MemberType] < Rank[Top.type]
             /\ TypeAt(Field) = MemberType /\ ~HoldsStrings(Top.type)
             /\ Size(sample, Field) \in Nat
  <2>1. Working("dds2pb") /\ InStruct /\ Here \in DOMAIN sample
    BY <1>4 DEF AtMember
  <2>2. /\ phase = "dds2pb" /\ Running /\ stack # <<>> /\ Top.next <= Top.size
        /\ Here = Field /\ Input = sample /\ Result = message /\ str_buffer \in Seq(Int)
        /\ Field \in DOMAIN sample => sample[Field] \in Seq(Int)
    BY <2>1, DdsFacts
  <2>3. Size(sample, Field) \in Nat
    BY <2>2, InputFacts
  <2>4. QED
    BY <2>1, <2>2, <2>3, MemberFacts
<1>5. CASE SetScalar
  <2>1. AtMember /\ KindOf(MemberType) \in ScalarKinds
    BY <1>5 DEF SetScalar
  <2>2. Size(sample, Field) = 0
    BY <1>4, <2>1, SampleFacts
  <2>3. HasRoom(str_buffer')
    BY <1>5, SameBuffer DEF SetScalar
  <2>4. QED
    BY <1>4, <1>5, <2>1, <2>2, <2>3, StoreShape DEF SetScalar
<1>6. CASE SetString
  <2>1. AtMember /\ KindOf(MemberType) = "STRING"
    BY <1>6 DEF SetString
  <2>2. Size(sample, Field) = 0
    BY <1>4, <2>1, SampleFacts
  <2>3. /\ str_buffer' = GetString(sample[Field])
        /\ Store("STRING", SubSeq(str_buffer', 1, Len(sample[Field])))
        /\ UNCHANGED <<cache, bound, ok, reason, calls>>
    BY <1>4, <1>6, <2>1 DEF SetString
  <2>4. HasRoom(str_buffer') /\ SubSeq(str_buffer', 1, Len(sample[Field])) = sample[Field]
    BY <1>4, <2>1, <2>3, GetStringFacts
  <2>5. QED
    BY <1>4, <2>1, <2>2, <2>3, <2>4, StoreShape
<1>7. CASE SetBytes
  <2>1. AtMember /\ IsBytes
    BY <1>7 DEF SetBytes
  <2>2. Size(sample, Field) = 0
    BY <1>4, <2>1, SampleFacts DEF IsBytes
  <2>3. /\ str_buffer' = Overwritten(Resized(str_buffer, Len(sample[Field])), sample[Field])
        /\ Store("STRING", str_buffer')
        /\ UNCHANGED <<cache, bound, ok, reason, calls>>
    BY <1>4, <1>7, <2>1 DEF SetBytes
  <2>4. str_buffer' = sample[Field]
    BY <1>4, <2>1, <2>3, BytesFacts
  <2>5. HasRoom(str_buffer')
    BY <1>4, <2>1, <2>4, NoLengths
  <2>6. QED
    BY <1>4, <2>1, <2>2, <2>3, <2>4, <2>5, StoreShape
<1>8. CASE EnterStruct
  <2>1. AtMember /\ KindOf(MemberType) = "STRUCT"
    BY <1>8 DEF EnterStruct
  <2>2. CASE ~Fits(Entry.field, "MESSAGE", FALSE)
    BY <1>4, <1>8, <2>1, <2>2, MisfitShape DEF EnterStruct
  <2>3. CASE Fits(Entry.field, "MESSAGE", FALSE)
    <3> DEFINE size == Len(Schema[MemberType].members)
               m == Put(message, Field, <<>>)
    <3>1. Enter(MemberType, Frame(MemberType, Field, size), sample, m)
      BY <1>8, <2>3 DEF EnterStruct
    <3>2. size \in Nat /\ HasParts(MemberType) /\ KindOf(MemberType) \in StructKinds
      BY <1>4, <2>1, SchemaFacts DEF HasParts, StructKinds
    <3>3. sample[Field] = <<>>
      BY <1>4, <2>1, SampleFacts DEF ScalarKinds, CollectionKinds
    <3>4. Matches(Field, <<>>)
      BY <1>4, <2>1, <3>3 DEF Matches
    <3>5. message' = m /\ phase' = phase => Writes(<<>>)
      BY <1>4, <2>1, StructOrCollection DEF Writes, Result
    <3> HIDE DEF size, m
    <3>6. size = IF KindOf(MemberType) \in StructKinds THEN Len(Schema[MemberType].members)
                 ELSE Size(Input, Field)
      BY <3>2 DEF size
    <3>7. QED
      BY <1>4, <2>1, <3>1, <3>2, <3>4, <3>5, <3>6, EnterShape
  <2>4. QED
    BY <2>2, <2>3
<1>9. CASE EmptyCollection
  <2>1. /\ AtMember /\ KindOf(MemberType) \in CollectionKinds /\ ~IsBytes
        /\ Size(sample, Field) = 0 /\ stack' = Advanced(stack)
        /\ UNCHANGED <<phase, cache, bound, str_buffer, converted, ok, reason, calls>>
    BY <1>4, <1>9 DEF EmptyCollection, AtCollection
  <2>2. sample[Field] = <<>>
    <3>1. KindOf(MemberType) \notin ScalarKinds \cup {"STRING"}
      BY <2>1 DEF CollectionKinds, ScalarKinds
    <3>2. QED
      BY <1>4, <2>1, <3>1, SampleFacts DEF IsBytes
  <2>3. Omitted(Field)
    BY <1>4, <2>1, <2>2 DEF Omitted
  <2>4. InputKept /\ LeafDone /\ HasRoom(str_buffer')
    BY <1>4, <2>1, <2>3, SameBuffer, StructOrCollection DEF InputKept, LeafDone, converted
  <2>5. QED
    BY <1>4, <2>1, <2>4, AdvancedPlainly
<1>10. CASE EnterCollection
  <2> DEFINE size == Size(sample, Field)
  <2>1. /\ AtMember /\ KindOf(MemberType) \in CollectionKinds /\ ~IsBytes
        /\ size > 0
        /\ Enter(MemberType, Frame(MemberType, Field, size), sample, message)
    BY <1>4, <1>10 DEF EnterCollection, AtCollection
  <2>2. sample[Field] = <<>>
    <3>1. KindOf(MemberType) \notin ScalarKinds \cup {"STRING"}
      BY <2>1 DEF CollectionKinds, ScalarKinds
    <3>2. QED
      BY <1>4, <2>1, <3>1, SampleFacts DEF IsBytes
  <2>3. Matches(Field, <<>>) /\ HasParts(MemberType)
    BY <1>4, <2>1, <2>2 DEF Matches, HasParts
  <2>4. KindOf(MemberType) \notin StructKinds /\ size \in Nat /\ size # 0
    BY <1>4, <2>1 DEF CollectionKinds, StructKinds
  <2>5. size = IF KindOf(MemberType) \in StructKinds THEN Len(Schema[MemberType].members)
               ELSE Size(Input, Field)
    BY <1>4, <2>1, <2>4
  <2> HIDE DEF size
  <2>6. sample' = sample /\ message' = message => UNCHANGED converted
    BY DEF converted
  <2>7. QED
    BY <1>4, <2>1, <2>3, <2>4, <2>5, <2>6, EnterShape, StructOrCollection
<1>11. QED
  BY <1>1, <1>2, <1>3, <1>5, <1>6, <1>7, <1>8, <1>9, <1>10

(* An element of a collection of the sample.                                *)
LEMMA DdsElementShape ==
  ASSUME TypeOK, Shape, BufferInv, InputInv,
         AddScalar \/ AddString \/ AddBytes \/ EnterElement \/ UnsupportedElement
           \/ ElementNotBytes
  PROVE  Fails \/ Aborts \/ Advances \/ Enters
<1>1. /\ Working("dds2pb") /\ InCollection /\ Field \in DOMAIN sample /\ Here = Field
      /\ Input = sample /\ Result = message /\ phase = "dds2pb" /\ Running /\ stack # <<>>
      /\ sample[Field] \in Seq(Int) /\ str_buffer \in Seq(Int)
  <2>1. Working("dds2pb") /\ InCollection
    BY DEF AddScalar, AddString, AddBytes, EnterElement, UnsupportedElement,
           ElementNotBytes, AtElement
  <2>2. QED
    BY <2>1, DdsFacts
<1>2. /\ ElementType \in Types /\ Rank[ElementType] < Rank[Top.type]
      /\ TypeAt(Field) = ElementType /\ ~InStruct
      /\ Size(sample, Field) \in Nat
  BY <1>1, ElementFacts, InputFacts
<1>3. HoldsStrings(Top.type) <=> KindOf(ElementType) = "STRING"
  BY <1>1 DEF HoldsStrings, ElementType, InCollection
<1>4. CASE AddScalar
  <2>1. KindOf(ElementType) \in ScalarKinds
    BY <1>4 DEF AddScalar, AtElement
  <2>2. Size(sample, Field) = 0
    BY <1>1, <1>2, <2>1, SampleFacts
  <2>3. PICK accessor : Add(accessor, sample[Field], stack)
    BY <1>1, <1>4 DEF AddScalar
  <2>4. str_buffer' = str_buffer /\ UNCHANGED <<cache, bound, ok, reason, calls>>
    BY <1>4 DEF AddScalar
  <2>5. HasRoom(str_buffer')
    BY <2>4, SameBuffer
  <2>6. QED
    BY <1>1, <2>2, <2>3, <2>4, <2>5, AddShape
<1>5. CASE AddString
  <2>1. KindOf(ElementType) = "STRING"
    BY <1>5 DEF AddString, AtElement
  <2>2. Size(sample, Field) = 0
    BY <1>1, <1>2, <2>1, SampleFacts
  <2>3. /\ str_buffer' = GetString(sample[Field])
        /\ Add("STRING", SubSeq(str_buffer', 1, Len(sample[Field])),
               [stack EXCEPT ![Len(stack)].ddsValueLen = Len(sample[Field]) + 1])
        /\ UNCHANGED <<cache, bound, ok, reason, calls>>
    BY <1>1, <1>5 DEF AddString
  <2>4. /\ HasRoom(str_buffer') /\ SubSeq(str_buffer', 1, Len(sample[Field])) = sample[Field]
        /\ Len(sample[Field]) + 1 <= Len(str_buffer')
    BY <1>1, <2>3, GetStringFacts
  <2>5. QED
    BY <1>1, <1>3, <2>1, <2>2, <2>3, <2>4, AddShape
<1>6. CASE AddBytes
  <2>1. KindOf(ElementType) = "SEQUENCE" /\ KindOf(Element(ElementType)) = "OCTET"
    BY <1>6 DEF AddBytes, AtElement
  <2>2. Size(sample, Field) = 0
    BY <1>1, <1>2, <2>1, SampleFacts DEF CollectionKinds
  <2>3. /\ str_buffer' = Overwritten(Resized(str_buffer, Len(sample[Field])), sample[Field])
        /\ Add("STRING", str_buffer', stack)
        /\ UNCHANGED <<cache, bound, ok, reason, calls>>
    BY <1>1, <1>6 DEF AddBytes
  <2>4. str_buffer' = sample[Field]
    BY <1>1, <2>3, BytesFacts
  <2>5. ~HoldsStrings(Top.type)
    BY <1>3, <2>1
  <2>6. HasRoom(str_buffer')
    BY <1>1, <2>4, <2>5, NoLengths
  <2>7. QED
    BY <1>1, <2>2, <2>3, <2>4, <2>5, <2>6, AddShape
<1>7. CASE EnterElement
  <2>1. KindOf(ElementType) = "STRUCT"
    BY <1>7 DEF EnterElement, AtElement
  <2>2. CASE ~Fits(RepeatedField, "MESSAGE", TRUE)
    BY <1>1, <1>2, <1>7, <2>2, MisfitShape DEF EnterElement
  <2>3. CASE Fits(RepeatedField, "MESSAGE", TRUE)
    <3> DEFINE size == Len(Schema[ElementType].members)
               m == Added(<<>>)
    <3>1. Enter(ElementType, Frame(ElementType, Field, size), sample, m)
      BY <1>7, <2>3 DEF EnterElement
    <3>2. /\ size \in Nat /\ HasParts(ElementType) /\ KindOf(ElementType) \in StructKinds
          /\ ~HoldsStrings(Top.type)
      BY <1>2, <1>3, <2>1, SchemaFacts DEF HasParts, StructKinds
    <3>3. sample[Field] = <<>>
      BY <1>1, <1>2, <2>1, SampleFacts DEF ScalarKinds, CollectionKinds
    <3>4. Matches(Field, <<>>)
      BY <1>1, <3>3 DEF Matches
    <3>5. message' = m /\ phase' = phase => Writes(<<>>)
      BY <1>1 DEF Writes, Result, Added
    <3> HIDE DEF size, m
    <3>6. size = IF KindOf(ElementType) \in StructKinds THEN Len(Schema[ElementType].members)
                 ELSE Size(Input, Field)
      BY <3>2 DEF size
    <3>7. QED
      BY <1>1, <1>2, <3>1, <3>2, <3>4, <3>5, <3>6, EnterShape
  <2>4. QED
    BY <2>2, <2>3
<1>8. CASE UnsupportedElement
  BY <1>8, FailShape DEF UnsupportedElement, Reasons
<1>9. CASE ElementNotBytes
  <2>1. KindOf(ElementType) = "SEQUENCE" /\ str_buffer' = Resized(str_buffer, Size(sample, Field))
    BY <1>1, <1>9 DEF ElementNotBytes, AtElement
  <2>2. ~HoldsStrings(Top.type) /\ str_buffer' \in Seq(Int)
    BY <1>1, <1>2, <1>3, <2>1, ResizedFacts
  <2>3. HasRoom(str_buffer')
    BY <1>1, <2>2, NoLengths
  <2>4. QED
    BY <1>9, <2>3 DEF ElementNotBytes, Fails, Reasons, TypeOK, converted
<1>10. QED
  BY <1>4, <1>5, <1>6, <1>7, <1>8, <1>9

-----------------------------------------------------------------------------
(* protobuf_to_dds().                                                       *)

(* Where a step of protobuf_to_dds() starts from.                           *)
LEMMA PbFacts ==
  ASSUME TypeOK, Shape, InputInv, Working("pb2dds")
  PROVE  /\ phase = "pb2dds" /\ Running /\ stack # <<>> /\ ok /\ Top.next <= Top.size
         /\ Here = Field /\ Input = message /\ Result = sample
         /\ Size(message, Field) \in Nat
         /\ Field \in DOMAIN message => message[Field] \in Seq(Int)
         /\ InCollection => Field \in DOMAIN message
<1>1. phase = "pb2dds" /\ Running /\ stack # <<>> /\ ok /\ Top.next <= Top.size
  BY DEF Working, Running
<1>2. Input = message /\ Result = sample
  BY <1>1 DEF Input, Result
<1>3. Here = Field
  BY <1>1, TopFacts
<1>4. QED
  BY <1>1, <1>2, <1>3, InputFacts

(* So a number that is written is the number of the message.                *)
LEMMA NumberMatches ==
  ASSUME NEW ft \in NumberFields, NEW t, NEW v, NEW d,
         \/ d = SetField(ft, KindOf(t), v)
         \/ d = SetElement(ft, KindOf(t), v),
         d # <<>>
  PROVE  SameValue(t, d, v)
<1>1. d = v /\ KindOf(t) \notin {"STRING", "ARRAY"}
  <2>1. CASE ft = "DOUBLE"
    BY <2>1, NumberExact DEF SetField, SetElement
  <2>2. CASE ft = "FLOAT"
    BY <2>2, NumberExact DEF SetField, SetElement
  <2>3. CASE ft = "INT64"
    BY <2>3, NumberExact DEF SetField, SetElement
  <2>4. CASE ft = "UINT64"
    BY <2>4, NumberExact DEF SetField, SetElement
  <2>5. CASE ft = "INT32"
    BY <2>5, FuzzyLongExact DEF SetField, SetElement
  <2>6. CASE ft = "UINT32"
    BY <2>6, FuzzyULongExact DEF SetField, SetElement
  <2>7. CASE ft = "BOOL"
    BY <2>7, NumberExact DEF SetField, SetElement
  <2>8. QED
    BY <2>1, <2>2, <2>3, <2>4, <2>5, <2>6, <2>7 DEF NumberFields
<1>2. QED
  BY <1>1 DEF SameValue

(* Bytes that fit are written whole, an array is filled up with zeros.      *)
LEMMA BytesMatch ==
  ASSUME NEW t \in Types, NEW v \in Seq(Int), FuzzyBytesFit(t, v)
  PROVE  SameValue(t, FuzzyBytes(t, v), v)
<1>1. KindOf(t) \in CollectionKinds /\ Len(v) <= Schema[t].bound /\ Schema[t].bound \in Nat /\ Len(v) \in Nat
  BY SchemaFacts DEF FuzzyBytesFit
<1>2. CASE KindOf(t) = "ARRAY"
  <2> DEFINE n == Schema[t].bound
  <2>1. FuzzyBytes(t, v) = Resized(v, n)
    BY <1>2 DEF FuzzyBytes, Resized
  <2>2. Len(Resized(v, n)) = n
    BY <1>1, ResizedFacts
  <2>3. QED
    BY <1>1, <1>2, <2>1, <2>2 DEF SameValue
<1>3. CASE KindOf(t) # "ARRAY"
  BY <1>1, <1>3 DEF FuzzyBytes, SameValue, CollectionKinds
<1>4. QED
  BY <1>2, <1>3

(* An empty struct or collection matches one.                               *)
LEMMA NothingMatches ==
  ASSUME NEW t, KindOf(t) \in StructKinds \cup CollectionKinds
  PROVE  SameValue(t, <<>>, <<>>)
<1>1. <<>> \in Seq(Int) /\ Len(<<>>) = 0 /\ Resized(<<>>, 0) = <<>>
  BY DEF Resized
<1>2. KindOf(t) # "STRING"
  BY DEF StructKinds, CollectionKinds
<1>3. QED
  BY <1>1, <1>2 DEF SameValue

(* A value is written to its member, or is refused.                         *)
LEMMA WriteShape ==
  ASSUME TypeOK, Shape, BufferInv, InputInv, Working("pb2dds"), Field \in DOMAIN message,
         Size(message, Field) = 0, NEW written \in BOOLEAN, NEW v, Write(written, v),
         written => SameValue(TypeAt(Field), v, message[Field])
  PROVE  Fails \/ Advances
<1>1. /\ phase = "pb2dds" /\ Running /\ stack # <<>>
      /\ Here = Field /\ Input = message /\ Result = sample
  BY PbFacts
<1>2. CASE Fail("range")
  BY <1>2, FailShape DEF Reasons
<1>3. CASE ~Fail("range")
  <2>1. /\ written /\ sample' = Assigned(v) /\ stack' = Advanced(stack)
        /\ UNCHANGED <<phase, cache, bound, str_buffer, message, ok, reason, calls>>
    BY <1>1, <1>3 DEF Write
  <2>2. InputKept /\ Writes(v) /\ Matches(Field, v)
    BY <1>1, <2>1 DEF InputKept, Writes, Result, Matches
  <2>3. LeafDone /\ HasRoom(str_buffer')
    BY <1>1, <2>1, <2>2, SameBuffer DEF LeafDone
  <2>4. QED
    BY <1>1, <2>1, <2>2, <2>3, AdvancedPlainly
<1>4. QED
  BY <1>2, <1>3

(* An object made for a type that cannot be bound.                          *)
LEMMA RefuseShape ==
  ASSUME TypeOK, BufferInv, NEW t \in Types, NEW r \in Reasons \ {"none", "bind"}, Refuse(t, r)
  PROVE  Fails
<1>1. cache \subseteq cache' /\ cache' \subseteq Types
  BY DEF Refuse, TypeOK
<1>2. QED
  BY <1>1, SameBuffer DEF Refuse, Fails, converted

(* A field of the message: a leaf, a message or a repeated field.           *)
LEMMA PbFieldShape ==
  ASSUME TypeOK, Shape, BufferInv, InputInv, InStruct,
         \/ SkipField \/ NoMember \/ FieldNumber \/ FieldString \/ FieldBytes
         \/ FieldEnum \/ FieldMessage \/ FieldRepeated
  PROVE  Fails \/ Aborts \/ Advances \/ Enters
<1>1. Working("pb2dds")
  BY DEF SkipField, NoMember, FieldNumber, FieldString, FieldBytes, FieldEnum,
         FieldMessage, FieldRepeated, AtField
<1>2. /\ phase = "pb2dds" /\ Running /\ stack # <<>> /\ ok /\ Top.next <= Top.size
      /\ Here = Field /\ Input = message /\ Result = sample
      /\ Size(message, Field) \in Nat
      /\ Field \in DOMAIN message => message[Field] \in Seq(Int)
  BY <1>1, PbFacts
<1>3. /\ MemberType \in Types /\ Rank[MemberType] < Rank[Top.type]
      /\ TypeAt(Field) = MemberType /\ ~HoldsStrings(Top.type)
  BY <1>2, MemberFacts
<1>4. CASE SkipField
  <2>1. /\ Field \notin DOMAIN message /\ stack' = Advanced(stack)
        /\ UNCHANGED <<phase, cache, bound, str_buffer, converted, ok, reason, calls>>
    BY <1>4 DEF SkipField
  <2>2. InputKept /\ LeafDone /\ HasRoom(str_buffer')
    BY <1>2, <2>1, SameBuffer, StructOrCollection DEF InputKept, LeafDone, converted
  <2>3. QED
    BY <1>2, <2>1, <2>2, AdvancedPlainly
<1>5. CASE NoMember
  BY <1>5, FailShape DEF NoMember, Reasons
<1>6. ASSUME NEW repeated, AtField(repeated)
      PROVE  /\ Field \in DOMAIN message /\ Entry.field.repeated = repeated
             /\ IF repeated \/ Entry.field.type = "MESSAGE"
                THEN message[Field] = <<>> ELSE Size(message, Field) = 0
  <2>1. Field \in DOMAIN message /\ Entry.field.repeated = repeated
    BY <1>6 DEF AtField
  <2>2. QED
    BY <1>2, <2>1, FieldFacts
<1>7. CASE FieldNumber
  <2> DEFINE v == SetField(Entry.field.type, KindOf(MemberType), message[Field])
  <2>1. AtField(FALSE) /\ Entry.field.type \in NumberFields /\ Write(v # <<>>, v)
    BY <1>7 DEF FieldNumber
  <2>2. Field \in DOMAIN message /\ Size(message, Field) = 0
    BY <1>6, <2>1 DEF NumberFields
  <2>3. v # <<>> => SameValue(MemberType, v, message[Field])
    BY <2>1, NumberMatches
  <2> HIDE DEF v
  <2>4. QED
    BY <1>1, <1>3, <2>1, <2>2, <2>3, WriteShape
<1>8. CASE FieldString
  <2>1. /\ AtField(FALSE) /\ Entry.field.type = "STRING"
        /\ Write(KindOf(MemberType) = "STRING", CutAtNul(message[Field]))
    BY <1>8 DEF FieldString
  <2>2. Field \in DOMAIN message /\ Size(message, Field) = 0
    BY <1>6, <2>1
  <2>3. KindOf(MemberType) = "STRING" =>
          SameValue(MemberType, CutAtNul(message[Field]), message[Field])
    BY DEF SameValue
  <2>4. QED
    BY <1>1, <1>3, <2>1, <2>2, <2>3, WriteShape
<1>9. CASE FieldBytes
  <2>1. /\ AtField(FALSE) /\ Entry.field.type = "BYTES"
        /\ Write(FuzzyBytesFit(MemberType, message[Field]), FuzzyBytes(MemberType, message[Field]))
    BY <1>9 DEF FieldBytes
  <2>2. Field \in DOMAIN message /\ Size(message, Field) = 0
    BY <1>6, <2>1
  <2>3. FuzzyBytesFit(MemberType, message[Field]) =>
          SameValue(MemberType, FuzzyBytes(MemberType, message[Field]), message[Field])
    BY <1>2, <1>3, <2>2, BytesMatch
  <2>4. FuzzyBytesFit(MemberType, message[Field]) \in BOOLEAN
    BY DEF FuzzyBytesFit
  <2>5. QED
    BY <1>1, <1>3, <2>1, <2>2, <2>3, <2>4, WriteShape
<1>10. CASE FieldEnum
  <2> DEFINE v == SetExactly("LONG", KindOf(MemberType), message[Field])
  <2>1. AtField(FALSE) /\ Entry.field.type = "ENUM" /\ Write(v # <<>>, v)
    BY <1>10 DEF FieldEnum
  <2>2. Field \in DOMAIN message /\ Size(message, Field) = 0
    BY <1>6, <2>1
  <2>3. v # <<>> => SameValue(MemberType, v, message[Field])
    BY NumberExact DEF SameValue
  <2> HIDE DEF v
  <2>4. QED
    BY <1>1, <1>3, <2>1, <2>2, <2>3, WriteShape
<1>11. CASE FieldMessage
  <2>1. AtField(FALSE) /\ Entry.field.type = "MESSAGE"
    BY <1>11 DEF FieldMessage
  <2>2. Field \in DOMAIN message /\ message[Field] = <<>>
    BY <1>6, <2>1
  <2>3. CASE KindOf(MemberType) \notin StructKinds \cup CollectionKinds
    BY <1>3, <1>11, <2>3, RefuseShape DEF FieldMessage, Reasons
  <2>4. CASE KindOf(MemberType) \in StructKinds \cup CollectionKinds
    <3> DEFINE size == IF KindOf(MemberType) \in StructKinds
                       THEN Len(Schema[MemberType].members) ELSE Size(message, Field)
               s == Assigned(<<>>)
    <3>1. Enter(MemberType, Frame(MemberType, Field, size), s, message)
      BY <1>2, <1>11, <2>4 DEF FieldMessage, MessageFrame
    <3>2. size \in Nat /\ HasParts(MemberType)
      BY <1>2, <1>3, <2>4, SchemaFacts DEF HasParts
    <3>3. SameValue(MemberType, <<>>, <<>>)
      BY <2>4, NothingMatches
    <3>4. Matches(Field, <<>>)
      BY <1>2, <1>3, <2>2, <3>3 DEF Matches
    <3>5. sample' = s /\ phase' = phase => Writes(<<>>)
      BY <1>2 DEF Writes, Result
    <3> HIDE DEF size, s
    <3>6. size = IF KindOf(MemberType) \in StructKinds THEN Len(Schema[MemberType].members)
                 ELSE Size(Input, Field)
      BY <1>2 DEF size
    <3>7. QED
      BY <1>2, <1>3, <2>2, <3>1, <3>2, <3>4, <3>5, <3>6, EnterShape
  <2>5. QED
    BY <2>3, <2>4
<1>12. CASE FieldRepeated
  <2>1. AtField(TRUE)
    BY <1>12 DEF FieldRepeated
  <2>2. Field \in DOMAIN message /\ message[Field] = <<>>
    BY <1>6, <2>1
  <2>3. CASE KindOf(MemberType) \notin CollectionKinds
    BY <1>3, <1>12, <2>3, RefuseShape DEF FieldRepeated, Reasons
  <2>4. CASE KindOf(MemberType) \in CollectionKinds
    <3> DEFINE size == Size(message, Field)
               s == Assigned(<<>>)
    <3>1. Enter(MemberType, Frame(MemberType, Field, size), s, message)
      BY <1>2, <1>12, <2>4 DEF FieldRepeated
    <3>2. size \in Nat /\ HasParts(MemberType) /\ KindOf(MemberType) \notin StructKinds
      BY <1>2, <2>4 DEF HasParts, CollectionKinds, StructKinds
    <3>3. SameValue(MemberType, <<>>, <<>>)
      BY <2>4, NothingMatches
    <3>4. Matches(Field, <<>>)
      BY <1>2, <1>3, <2>2, <3>3 DEF Matches
    <3>5. sample' = s /\ phase' = phase => Writes(<<>>)
      BY <1>2 DEF Writes, Result
    <3> HIDE DEF size, s
    <3>6. size = IF KindOf(MemberType) \in StructKinds THEN Len(Schema[MemberType].members)
                 ELSE Size(Input, Field)
      BY <1>2, <3>2 DEF size
    <3>7. QED
      BY <1>2, <1>3, <2>2, <3>1, <3>2, <3>4, <3>5, <3>6, EnterShape
  <2>5. QED
    BY <2>3, <2>4
<1>13. QED
  BY <1>4, <1>5, <1>7, <1>8, <1>9, <1>10, <1>11, <1>12

(* An element of a repeated field.                                          *)
LEMMA PbElementShape ==
  ASSUME TypeOK, Shape, BufferInv, InputInv,
         \/ ElementNumber \/ ElementString \/ ElementBytes \/ ElementEnum
         \/ ElementMessage
  PROVE  Fails \/ Aborts \/ Advances \/ Enters
<1>1. Working("pb2dds") /\ InCollection /\ RepeatedField.repeated
  BY DEF ElementNumber, ElementString, ElementBytes, ElementEnum, ElementMessage, AtRepeated
<1>2. /\ phase = "pb2dds" /\ Running /\ stack # <<>> /\ ok /\ Top.next <= Top.size
      /\ Here = Field /\ Input = message /\ Result = sample
      /\ Size(message, Field) \in Nat
      /\ Field \in DOMAIN message /\ message[Field] \in Seq(Int)
  BY <1>1, PbFacts
<1>3. /\ ElementType \in Types /\ Rank[ElementType] < Rank[Top.type]
      /\ TypeAt(Field) = ElementType /\ ~InStruct
  BY <1>1, <1>2, ElementFacts
<1>4. IF RepeatedField.type = "MESSAGE"
      THEN message[Field] = <<>> ELSE Size(message, Field) = 0
  BY <1>1, <1>2, RepeatedFacts
<1>5. CASE ElementNumber
  <2> DEFINE v == SetElement(RepeatedField.type, KindOf(ElementType), message[Field])
  <2>1. RepeatedField.type \in NumberFields /\ Write(v # <<>>, v)
    BY <1>5 DEF ElementNumber, AtRepeated
  <2>2. Size(message, Field) = 0
    BY <1>4, <2>1 DEF NumberFields
  <2>3. v # <<>> => SameValue(ElementType, v, message[Field])
    BY <2>1, NumberMatches
  <2> HIDE DEF v
  <2>4. QED
    BY <1>1, <1>2, <1>3, <2>1, <2>2, <2>3, WriteShape
<1>6. CASE ElementString
  <2>1. /\ RepeatedField.type = "STRING"
        /\ Write(KindOf(ElementType) = "STRING", CutAtNul(message[Field]))
    BY <1>6 DEF ElementString, AtRepeated
  <2>2. Size(message, Field) = 0
    BY <1>4, <2>1
  <2>3. KindOf(ElementType) = "STRING" =>
          SameValue(ElementType, CutAtNul(message[Field]), message[Field])
    BY DEF SameValue
  <2>4. QED
    BY <1>1, <1>2, <1>3, <2>1, <2>2, <2>3, WriteShape
<1>7. CASE ElementBytes
  <2>1. /\ RepeatedField.type = "BYTES"
        /\ Write(FuzzyBytesFit(ElementType, message[Field]), FuzzyBytes(ElementType, message[Field]))
    BY <1>7 DEF ElementBytes, AtRepeated
  <2>2. Size(message, Field) = 0
    BY <1>4, <2>1
  <2>3. FuzzyBytesFit(ElementType, message[Field]) =>
          SameValue(ElementType, FuzzyBytes(ElementType, message[Field]), message[Field])
    BY <1>2, <1>3, BytesMatch
  <2>4. FuzzyBytesFit(ElementType, message[Field]) \in BOOLEAN
    BY DEF FuzzyBytesFit
  <2>5. QED
    BY <1>1, <1>2, <1>3, <2>1, <2>2, <2>3, <2>4, WriteShape
<1>8. CASE ElementEnum
  <2> DEFINE v == SetExactly("LONG", KindOf(ElementType), message[Field])
  <2>1. RepeatedField.type = "ENUM" /\ Write(v # <<>>, v)
    BY <1>8 DEF ElementEnum, AtRepeated
  <2>2. Size(message, Field) = 0
    BY <1>4, <2>1
  <2>3. v # <<>> => SameValue(ElementType, v, message[Field])
    BY NumberExact DEF SameValue
  <2> HIDE DEF v
  <2>4. QED
    BY <1>1, <1>2, <1>3, <2>1, <2>2, <2>3, WriteShape
<1>9. CASE ElementMessage
  <2>1. message[Field] = <<>>
    BY <1>4, <1>9 DEF ElementMessage, AtRepeated
  <2> DEFINE binds == /\ KindOf(ElementType) \in StructKinds \cup CollectionKinds
                      /\ Top.next <= Schema[Top.type].bound
  <2>2. CASE ~binds
    BY <1>3, <1>9, <2>2, RefuseShape DEF ElementMessage, Reasons
  <2>3. CASE binds
    <3> DEFINE size == IF KindOf(ElementType) \in StructKinds
                       THEN Len(Schema[ElementType].members) ELSE Size(message, Field)
               s == Assigned(<<>>)
    <3>1. Enter(ElementType, Frame(ElementType, Field, size), s, message)
      BY <1>2, <1>9, <2>3 DEF ElementMessage, MessageFrame
    <3>2. size \in Nat /\ HasParts(ElementType)
      BY <1>2, <1>3, <2>3, SchemaFacts DEF HasParts
    <3>3. SameValue(ElementType, <<>>, <<>>)
      BY <2>3, NothingMatches
    <3>4. Matches(Field, <<>>)
      BY <1>2, <1>3, <2>1, <3>3 DEF Matches
    <3>5. sample' = s /\ phase' = phase => Writes(<<>>)
      BY <1>2 DEF Writes, Result
    <3>6. ~HoldsStrings(Top.type)
      BY <2>3 DEF HoldsStrings, ElementType, StructKinds, CollectionKinds
    <3> HIDE DEF size, s
    <3>7. size = IF KindOf(ElementType) \in StructKinds THEN Len(Schema[ElementType].members)
                 ELSE Size(Input, Field)
      BY <1>2 DEF size
    <3>8. QED
      BY <1>2, <1>3, <2>1, <3>1, <3>2, <3>4, <3>5, <3>6, <3>7, EnterShape
  <2>4. QED
    BY <2>2, <2>3
<1>10. QED
  BY <1>5, <1>6, <1>7, <1>8, <1>9

-----------------------------------------------------------------------------
(* Library calls that fail, and all steps inside a conversion together.     *)

(* The type of the member or element a failing call was for.                *)
LEMMA TypeHereFacts ==
  ASSUME TypeOK, Shape, stack # <<>>, Top.next <= Top.size
  PROVE  TypeHere \in Types /\ TypeHere = TypeAt(Field)
<1>1. Top \in Frames /\ CallInv(Top)
  BY TopFacts
<1>2. CASE InStruct
  BY <1>2, MemberFacts DEF TypeHere
<1>3. CASE ~InStruct
  <2>1. InCollection
    BY <1>1, <1>3 DEF CallInv, HasParts, InStruct, InCollection
  <2>2. QED
    BY <1>3, <2>1, ElementFacts DEF TypeHere
<1>4. QED
  BY <1>2, <1>3

(* A library call may fail after the buffer was made ready for a string or  *)
(* bytes: the lengths remembered are still true.                            *)
LEMMA LibraryFailsShape ==
  ASSUME TypeOK, Shape, BufferInv, InputInv, LibraryFails
  PROVE  Fails
<1>1. /\ stack # <<>> /\ Top.next <= Top.size /\ phase \in {"dds2pb", "pb2dds"}
      /\ Working(phase)
  BY DEF LibraryFails, Working
<1>2. TypeHere \in Types /\ TypeHere = TypeAt(Field) /\ Here = Field
  BY <1>1, TypeHereFacts, TopFacts
<1>3. cache \subseteq cache' /\ cache' \subseteq Types
  <2>1. cache \subseteq Types
    BY DEF TypeOK
  <2>2. cache' = cache \/ cache' = cache \cup {TypeHere}
    BY DEF LibraryFails
  <2>3. QED
    BY <1>2, <2>1, <2>2
<1>4. HasRoom(str_buffer')
  <2>1. CASE str_buffer' = str_buffer
    BY <2>1, SameBuffer
  <2>2. CASE str_buffer' # str_buffer
    <3>1. str_buffer' \in Prepared
      BY <2>2 DEF LibraryFails
    <3>2. phase = "dds2pb" /\ Field \in DOMAIN sample
      BY <1>1, <1>2, <3>1 DEF Prepared
    <3>3. sample[Field] \in Seq(Int) /\ str_buffer \in Seq(Int)
      BY <1>1, <3>2, DdsFacts
    <3>4. CASE KindOf(TypeHere) = "STRING"
      <4>1. str_buffer' \in {Presized, Room(Presized, Capacity, sample[Field])}
        BY <1>2, <3>1, <3>2, <3>4 DEF Prepared
      <4>2. QED
        BY <1>1, <3>3, <4>1, CapacityFacts, GetStringFacts
    <3>5. CASE KindOf(TypeHere) # "STRING"
      <4>1. str_buffer' = Resized(str_buffer, Len(sample[Field]))
        BY <1>2, <3>1, <3>2, <3>5 DEF Prepared
      <4>2. str_buffer' \in Seq(Int)
        BY <3>3, <4>1, ResizedFacts
      <4>3. ~HoldsStrings(Top.type)
        BY <3>5 DEF TypeHere, HoldsStrings, InStruct, ElementType, StructKinds, CollectionKinds
      <4>4. QED
        BY <1>1, <4>2, <4>3, NoLengths
    <3>6. QED
      BY <3>4, <3>5
  <2>3. QED
    BY <2>1, <2>2
<1>5. QED
  BY <1>3, <1>4 DEF LibraryFails, Fails, Reasons, converted

(* A step inside a conversion fails, ends the process, finishes a leaf or   *)
(* begins the call for a part.                                              *)
LEMMA WorkShape ==
  ASSUME TypeOK, Shape, BufferInv, InputInv,
         DdsToProtobuf \/ ProtobufToDds \/ LibraryFails
  PROVE  Fails \/ Aborts \/ Advances \/ Enters
<1>1. CASE DdsToProtobuf
  BY <1>1, DdsMemberShape, DdsElementShape DEF DdsToProtobuf
<1>2. CASE ProtobufToDds
  <2>1. CASE NoMember /\ ~InStruct
    BY <2>1, FailShape DEF NoMember, Reasons
  <2>2. CASE ~(NoMember /\ ~InStruct)
    <3>1. \/ ElementNumber \/ ElementString \/ ElementBytes \/ ElementEnum \/ ElementMessage
          \/ /\ InStruct
             /\ \/ SkipField \/ NoMember \/ FieldNumber \/ FieldString \/ FieldBytes
                \/ FieldEnum \/ FieldMessage \/ FieldRepeated
      BY <1>2, <2>2 DEF ProtobufToDds, SkipField, FieldNumber, FieldString, FieldBytes,
         FieldEnum, FieldMessage, FieldRepeated, AtField
    <3>2. QED
      BY <3>1, PbFieldShape, PbElementShape
  <2>3. QED
    BY <2>1, <2>2
<1>3. CASE LibraryFails
  BY <1>3, LibraryFailsShape
<1>4. QED
  BY <1>1, <1>2, <1>3

-----------------------------------------------------------------------------
(* What advancing, beginning and ending a call does to the calls, the       *)
(* bindings and their places in the input.                                  *)

(* The objects bound in b that an unbinding has left.                       *)
Left(b) == {t \in DOMAIN b : b[t].state = "left"}

Calls(s, b) ==
  /\ s \in Seq(Frames)
  /\ s # <<>> => s[1].at = <<>>
  /\ \A i \in 1 .. Len(s) : CallInv(s[i])
  /\ \A i, j \in 1 .. Len(s) : i < j => Rank[s[j].type] < Rank[s[i].type]
  /\ \A i \in 2 .. Len(s) : s[i].at = Append(s[i - 1].at, s[i - 1].next)
  /\ DOMAIN b \ Left(b) = {s[i].type : i \in 2 .. Len(s)}
  /\ \A i \in 2 .. Len(s) :
       /\ b[s[i].type].by = IF i = 2 THEN RootObject ELSE s[i - 1].type
       /\ b[s[i].type].at = s[i].at

Places(s, d) ==
  \A i \in 1 .. Len(s) :
    /\ s[i].at \in DOMAIN d
    /\ KindOf(s[i].type) \in CollectionKinds => s[i].size = Size(d, s[i].at)

(* The innermost call goes on.                                              *)
LEMMA CallsAdvance ==
  ASSUME NEW s, NEW b, NEW d, Calls(s, b), s # <<>>, NEW f \in Frames,
         f.type = s[Len(s)].type, f.at = s[Len(s)].at, f.size = s[Len(s)].size, f.next # 0,
         NEW r, r = [s EXCEPT ![Len(s)] = f]
  PROVE  Calls(r, b) /\ (Places(s, d) => Places(r, d))
<1>1. s \in Seq(Frames) /\ Len(s) \in Nat \ {0}
  BY DEF Calls
<1>2. Len(s) \in 1 .. Len(s)
  BY <1>1
<1>3. /\ r \in Seq(Frames) /\ Len(r) = Len(s) /\ r # <<>> /\ r[Len(s)] = f
      /\ \A i \in 1 .. Len(s) : i # Len(s) => r[i] = s[i]
  BY <1>1, <1>2
<1>4. \A i \in 1 .. Len(s) : r[i].type = s[i].type /\ r[i].at = s[i].at /\ r[i].size = s[i].size
  BY <1>3
<1>5. \A i \in 2 .. Len(s) : i - 1 \in 1 .. Len(s) /\ i \in 1 .. Len(s) /\ i - 1 # Len(s)
  BY <1>1
<1>6. 1 \in 1 .. Len(s)
  BY <1>1
<1>7. \A i \in 1 .. Len(s) : CallInv(r[i])
  <2>1. CallInv(f)
    <3>1. CallInv(s[Len(s)])
      BY <1>2 DEF Calls
    <3>2. QED
      BY <3>1 DEF CallInv
  <2>2. QED
    BY <1>3, <2>1 DEF Calls
<1>8. \A i, j \in 1 .. Len(s) : i < j => Rank[r[j].type] < Rank[r[i].type]
  BY <1>4 DEF Calls
<1>9. \A i \in 2 .. Len(s) : r[i].at = Append(r[i - 1].at, r[i - 1].next)
  BY <1>3, <1>4, <1>5, ZenonT(30) DEF Calls
<1>10. {r[i].type : i \in 2 .. Len(s)} = {s[i].type : i \in 2 .. Len(s)}
  BY <1>4, <1>5
<1>11. \A i \in 2 .. Len(s) :
         /\ b[r[i].type].by = IF i = 2 THEN RootObject ELSE r[i - 1].type
         /\ b[r[i].type].at = r[i].at
  <2> TAKE i \in 2 .. Len(s)
  <2>1. r[i].type = s[i].type /\ r[i].at = s[i].at /\ r[i - 1].type = s[i - 1].type
    BY <1>4, <1>5
  <2>2. QED
    BY <2>1 DEF Calls
<1>12. r[1].at = <<>>
  BY <1>4, <1>6 DEF Calls
<1>13. Calls(r, b)
  BY <1>3, <1>7, <1>8, <1>9, <1>10, <1>11, <1>12 DEF Calls
<1>14. Places(s, d) => Places(r, d)
  BY <1>3, <1>4 DEF Places
<1>15. QED
  BY <1>13, <1>14

(* f is the call for a part of what the innermost call is at, c binds it.   *)
Pushes(s, b, f, c, r) ==
  /\ s # <<>> /\ f \in Frames /\ CallInv(f)
  /\ f.at = Append(s[Len(s)].at, s[Len(s)].next)
  /\ Rank[f.type] < Rank[s[Len(s)].type]
  /\ f.type \notin DOMAIN b
  /\ c = Put(b, f.type, [by |-> IF Len(s) = 1 THEN RootObject ELSE s[Len(s)].type,
                         at |-> f.at, state |-> "call"])
  /\ r = Append(s, f)

(* A part of the innermost call's data is bound and its call begins.        *)
LEMMA CallsPush ==
  ASSUME NEW s, NEW b, NEW f, NEW c, NEW r, Calls(s, b), Pushes(s, b, f, c, r)
  PROVE  Calls(r, c) /\ Left(b) \subseteq Left(c)
<1>a. /\ s # <<>> /\ f \in Frames /\ CallInv(f)
      /\ f.at = Append(s[Len(s)].at, s[Len(s)].next)
      /\ Rank[f.type] < Rank[s[Len(s)].type]
      /\ r = Append(s, f)
  BY DEF Pushes
<1> DEFINE owner == IF Len(s) = 1 THEN RootObject ELSE s[Len(s)].type
<1>b. f.type \notin DOMAIN b /\ c = Put(b, f.type, [by |-> owner, at |-> f.at, state |-> "call"])
  BY DEF Pushes
<1> HIDE DEF owner
<1>1. s \in Seq(Frames) /\ Len(s) \in Nat \ {0}
  BY <1>a DEF Calls
<1>2. /\ Len(s) \in 1 .. Len(s) /\ 1 \in 1 .. Len(s)
      /\ \A i \in 1 .. Len(s) + 1 : i \in 1 .. Len(s) \/ i = Len(s) + 1
  BY <1>1
<1>3. /\ r \in Seq(Frames) /\ Len(r) = Len(s) + 1 /\ r # <<>> /\ r[Len(s) + 1] = f
      /\ \A i \in 1 .. Len(s) : r[i] = s[i]
  BY <1>a, <1>1
<1>4. \A i \in 1 .. Len(s) : Rank[s[i].type] \in Nat
  <2> TAKE i \in 1 .. Len(s)
  <2>1. s[i] \in Frames
    BY <1>1
  <2>2. s[i].type \in Types
    BY <2>1 DEF Frames
  <2>3. QED
    BY <2>2, SchemaFacts
<1>5. Rank[f.type] \in Nat
  BY <1>a, SchemaFacts DEF Frames
<1>6. \A i \in 1 .. Len(s) : Rank[f.type] < Rank[s[i].type] /\ s[i].type # f.type
  <2> TAKE i \in 1 .. Len(s)
  <2>1. i = Len(s) \/ Rank[s[Len(s)].type] < Rank[s[i].type]
    BY <1>1, <1>2 DEF Calls
  <2>2. Rank[s[i].type] \in Nat /\ Rank[s[Len(s)].type] \in Nat
    BY <1>2, <1>4
  <2>3. QED
    BY <1>a, <1>5, <2>1, <2>2
<1>7. \A i \in 1 .. Len(r) : CallInv(r[i])
  BY <1>a, <1>2, <1>3 DEF Calls
<1>8. \A i, j \in 1 .. Len(r) : i < j => Rank[r[j].type] < Rank[r[i].type]
  <2> SUFFICES ASSUME NEW i \in 1 .. Len(r), NEW j \in 1 .. Len(r), i < j
               PROVE  Rank[r[j].type] < Rank[r[i].type]
    OBVIOUS
  <2>1. i \in 1 .. Len(s) /\ (j \in 1 .. Len(s) \/ j = Len(s) + 1)
    BY <1>1, <1>3
  <2>2. QED
    BY <1>3, <1>6, <2>1 DEF Calls
<1>9. \A i \in 2 .. Len(r) :
        /\ i - 1 \in 1 .. Len(s)
        /\ \/ i \in 2 .. Len(s) /\ i \in 1 .. Len(s)
           \/ i = Len(s) + 1 /\ i - 1 = Len(s) /\ (i = 2 <=> Len(s) = 1)
  <2>1. \A n \in Nat \ {0} : \A i \in 2 .. n + 1 :
          /\ i - 1 \in 1 .. n
          /\ \/ i \in 2 .. n /\ i \in 1 .. n
             \/ i = n + 1 /\ i - 1 = n /\ (i = 2 <=> n = 1)
    OBVIOUS
  <2>2. QED
    BY <1>1, <1>3, <2>1, Zenon
<1>10. \A i \in 2 .. Len(r) : r[i].at = Append(r[i - 1].at, r[i - 1].next)
  BY <1>a, <1>3, <1>9 DEF Calls
<1>11. /\ DOMAIN c \ Left(c) = (DOMAIN b \ Left(b)) \cup {f.type}
       /\ Left(b) \subseteq Left(c)
  <2> DEFINE e == [by |-> owner, at |-> f.at, state |-> "call"]
  <2>1. e.state # "left"
    OBVIOUS
  <2> HIDE DEF e
  <2>2. /\ DOMAIN c = DOMAIN b \cup {f.type} /\ c[f.type] = e
        /\ \A t \in DOMAIN b : c[t] = b[t]
    BY <1>b DEF Put, e
  <2>3. QED
    BY <1>b, <2>1, <2>2 DEF Left
<1>12. {r[i].type : i \in 2 .. Len(r)} = {s[i].type : i \in 2 .. Len(s)} \cup {f.type}
  <2>1. Len(s) + 1 \in 2 .. Len(r) /\ \A i \in 2 .. Len(s) : i \in 2 .. Len(r) /\ i \in 1 .. Len(s)
    BY <1>1, <1>3
  <2>2. \A i \in 2 .. Len(s) : r[i].type = s[i].type
    BY <1>3, <2>1
  <2>3. \A i \in 2 .. Len(r) : i \in 2 .. Len(s) \/ i = Len(s) + 1
    BY <1>9
  <2>4. QED
    BY <1>3, <2>1, <2>2, <2>3
<1>13. ASSUME NEW i \in 2 .. Len(r)
       PROVE  /\ c[r[i].type].by = IF i = 2 THEN RootObject ELSE r[i - 1].type
              /\ c[r[i].type].at = r[i].at
  <2>1. CASE i \in 2 .. Len(s) /\ i \in 1 .. Len(s)
    <3>1. r[i] = s[i] /\ r[i - 1] = s[i - 1] /\ s[i].type # f.type /\ s[i].type \in DOMAIN b
      BY <1>3, <1>6, <1>9, <2>1 DEF Calls
    <3>2. c[s[i].type] = b[s[i].type]
      BY <1>b, <3>1 DEF Put
    <3>3. /\ b[s[i].type].by = IF i = 2 THEN RootObject ELSE s[i - 1].type
          /\ b[s[i].type].at = s[i].at
      BY <2>1 DEF Calls
    <3>4. QED
      BY <3>1, <3>2, <3>3
  <2>2. CASE i = Len(s) + 1 /\ i - 1 = Len(s) /\ (i = 2 <=> Len(s) = 1)
    <3>1. r[i] = f /\ r[i - 1] = s[Len(s)]
      BY <1>2, <1>3, <2>2
    <3> DEFINE z == c[f.type]
    <3>2. z = [by |-> owner, at |-> f.at, state |-> "call"]
      BY <1>b DEF Put
    <3> HIDE DEF z
    <3>3. z.by = owner /\ z.at = f.at
      BY <3>2
    <3>4. owner = IF i = 2 THEN RootObject ELSE r[i - 1].type
      BY <2>2, <3>1, Zenon DEF owner
    <3>5. QED
      BY <3>1, <3>3, <3>4, Zenon DEF z
  <2>3. QED
    BY <1>9, <2>1, <2>2
<1>14. r[1].at = <<>>
  BY <1>2, <1>3 DEF Calls
<1>15. DOMAIN c \ Left(c) = {r[i].type : i \in 2 .. Len(r)}
  BY <1>11, <1>12 DEF Calls
<1>16. Calls(r, c)
  BY <1>3, <1>7, <1>8, <1>10, <1>13, <1>14, <1>15 DEF Calls
<1>17. QED
  BY <1>11, <1>16

(* The part is a place of the input.                                        *)
LEMMA PlacesPush ==
  ASSUME NEW s \in Seq(Frames), NEW f \in Frames, NEW d, Places(s, d), f.at \in DOMAIN d,
         KindOf(f.type) \in CollectionKinds => f.size = Size(d, f.at)
  PROVE  Places(Append(s, f), d)
<1>1. /\ Len(s) \in Nat /\ Len(Append(s, f)) = Len(s) + 1 /\ Append(s, f)[Len(s) + 1] = f
      /\ \A i \in 1 .. Len(s) : Append(s, f)[i] = s[i]
  OBVIOUS
<1>2. \A i \in 1 .. Len(s) + 1 : i \in 1 .. Len(s) \/ i = Len(s) + 1
  BY <1>1
<1>3. QED
  BY <1>1, <1>2 DEF Places

(* The calls outside the innermost one.                                     *)
LEMMA OuterCalls ==
  ASSUME NEW s \in Seq(Frames), s # <<>>, NEW r, r = SubSeq(s, 1, Len(s) - 1)
  PROVE  /\ r \in Seq(Frames) /\ Len(r) = Len(s) - 1
         /\ \A i \in 1 .. Len(r) : r[i] = s[i]
<1> DEFINE n == Len(s) - 1
<1>1. n \in Nat /\ n <= Len(s) /\ r = SubSeq(s, 1, n)
  OBVIOUS
<1> HIDE DEF n
<1>2. r \in Seq(Frames) /\ Len(r) = n /\ \A i \in 1 .. n : r[i] = s[i]
  BY <1>1
<1>3. QED
  BY <1>2 DEF n

(* The object of type t is unbound, or left bound.                          *)
Releases(b, t, c) ==
  /\ DOMAIN c \ {t} = DOMAIN b \ {t}
  /\ \A u \in DOMAIN b \ {t} : c[u] = b[u]
  /\ t \in DOMAIN c => c[t].state = "left"

(* r is the calls outside the innermost one, c their bindings.              *)
Pops(s, b, c, r) ==
  /\ s # <<>>
  /\ IF Len(s) = 1 THEN c = b ELSE Releases(b, s[Len(s)].type, c)
  /\ r = SubSeq(s, 1, Len(s) - 1)

(* The innermost call ends and its object is unbound or left bound.         *)
LEMMA CallsPop ==
  ASSUME NEW s, NEW b, NEW c, NEW r, Calls(s, b), Pops(s, b, c, r)
  PROVE  /\ Calls(r, c) /\ \A d : Places(s, d) => Places(r, d)
         /\ Left(b) \subseteq Left(c)
         /\ Len(r) = Len(s) - 1
         /\ \A i \in 1 .. Len(r) : r[i] = s[i] /\ i \in 1 .. Len(s) /\ i # Len(s)
<1>a. /\ s # <<>> /\ r = SubSeq(s, 1, Len(s) - 1)
      /\ IF Len(s) = 1 THEN c = b ELSE Releases(b, s[Len(s)].type, c)
  BY DEF Pops
<1>1. s \in Seq(Frames) /\ Len(s) \in Nat \ {0}
  BY <1>a DEF Calls
<1>2. Len(s) - 1 \in Nat /\ Len(s) \in 1 .. Len(s)
  BY <1>1
<1>3. /\ r \in Seq(Frames) /\ Len(r) = Len(s) - 1
      /\ \A i \in 1 .. Len(r) : r[i] = s[i]
  BY <1>a, <1>1, OuterCalls
<1>4. /\ \A i \in 1 .. Len(r) : i \in 1 .. Len(s) /\ i < Len(s)
      /\ \A i \in 2 .. Len(r) : i \in 2 .. Len(s) /\ i \in 1 .. Len(r) /\ i - 1 \in 1 .. Len(r)
      /\ \A i \in 2 .. Len(s) : i \in 2 .. Len(r) \/ i = Len(s)
      /\ r # <<>> => 1 \in 1 .. Len(r)
  BY <1>1, <1>3
<1>5. \A i \in 1 .. Len(r) : s[i].type # s[Len(s)].type
  <2> TAKE i \in 1 .. Len(r)
  <2>1. i \in 1 .. Len(s) /\ i < Len(s)
    BY <1>4
  <2>2. Rank[s[Len(s)].type] < Rank[s[i].type]
    BY <1>2, <2>1 DEF Calls
  <2>3. s[i] \in Frames
    BY <1>1, <2>1
  <2>4. Rank[s[i].type] \in Nat
    BY <2>3, SchemaFacts DEF Frames
  <2>5. QED
    BY <2>2, <2>4
<1>6. DOMAIN c \ Left(c) = {r[i].type : i \in 2 .. Len(r)}
  <2>1. CASE Len(s) = 1
    <3>1. 2 .. Len(s) = {} /\ 2 .. Len(r) = {}
      BY <1>3, <2>1
    <3>2. QED
      BY <1>a, <2>1, <3>1 DEF Calls
  <2>2. CASE Len(s) # 1
    <3>1. DOMAIN c \ Left(c) = {s[i].type : i \in 2 .. Len(s)} \ {s[Len(s)].type}
      <4>1. DOMAIN c \ Left(c) = (DOMAIN b \ Left(b)) \ {s[Len(s)].type}
        BY <1>a, <2>2 DEF Releases, Left
      <4>2. QED
        BY <4>1 DEF Calls
    <3>2. \A i \in 2 .. Len(r) : r[i].type = s[i].type /\ i \in 2 .. Len(s)
                                 /\ s[i].type # s[Len(s)].type
      BY <1>3, <1>4, <1>5
    <3>3. \A i \in 2 .. Len(s) : s[i].type # s[Len(s)].type => i \in 2 .. Len(r)
      BY <1>4
    <3>4. QED
      BY <3>1, <3>2, <3>3
  <2>3. QED
    BY <2>1, <2>2
<1>7. ASSUME NEW i \in 2 .. Len(r)
      PROVE  /\ c[r[i].type].by = IF i = 2 THEN RootObject ELSE r[i - 1].type
             /\ c[r[i].type].at = r[i].at
  <2>1. /\ r[i] = s[i] /\ r[i - 1] = s[i - 1] /\ i \in 2 .. Len(s)
        /\ s[i].type # s[Len(s)].type /\ s[i].type \in DOMAIN b
    BY <1>3, <1>4, <1>5 DEF Calls
  <2>2. c[s[i].type] = b[s[i].type]
    BY <1>a, <2>1 DEF Releases
  <2>3. /\ b[s[i].type].by = IF i = 2 THEN RootObject ELSE s[i - 1].type
        /\ b[s[i].type].at = s[i].at
    BY <2>1 DEF Calls
  <2>4. QED
    BY <2>1, <2>2, <2>3
<1>8. \A i \in 1 .. Len(r) : CallInv(r[i])
  BY <1>3, <1>4 DEF Calls
<1>9. \A i, j \in 1 .. Len(r) : i < j => Rank[r[j].type] < Rank[r[i].type]
  BY <1>3, <1>4 DEF Calls
<1>10. \A i \in 2 .. Len(r) : r[i].at = Append(r[i - 1].at, r[i - 1].next)
  BY <1>3, <1>4 DEF Calls
<1>11. r # <<>> => r[1].at = <<>>
  BY <1>a, <1>3, <1>4 DEF Calls
<1>12. Calls(r, c)
  BY <1>3, <1>6, <1>7, <1>8, <1>9, <1>10, <1>11 DEF Calls
<1>13. \A d : Places(s, d) => Places(r, d)
  BY <1>3, <1>4 DEF Places
<1>14. Left(b) \subseteq Left(c)
  <2>1. CASE Len(s) = 1
    BY <1>a, <2>1
  <2>2. CASE Len(s) # 1
    <3>1. Len(s) \in 2 .. Len(s)
      BY <1>1, <2>2, AtLeastTwo, Zenon
    <3>2. s[Len(s)].type \notin Left(b)
      BY <3>1 DEF Calls
    <3>3. QED
      BY <1>a, <2>2, <3>2 DEF Releases, Left
  <2>3. QED
    BY <2>1, <2>2
<1>15. QED
  BY <1>1, <1>3, <1>4, <1>12, <1>13, <1>14

-----------------------------------------------------------------------------
(* The invariant is kept.                                                   *)

(* The calls and bindings of a state that satisfies the invariant.          *)
LEMMA ShapeIsCalls ==
  ASSUME TypeOK, Shape
  PROVE  Calls(stack, bound)
  BY DEF TypeOK, Shape, StackInv, BindingsFollowCalls, LeftBound, Left, PathsAgree, Calls

(* The same after a step.                                                   *)
LEMMA CallsIsShape ==
  ASSUME Calls(stack', bound'),
         stack' # <<>> => phase' \in {"dds2pb", "pb2dds", "aborted"}
  PROVE  Shape'
  BY DEF Shape, StackInv, BindingsFollowCalls, LeftBound, Left, PathsAgree, Calls

(* A failure.                                                               *)
LEMMA FailsKeeps ==
  ASSUME Control, Fails
  PROVE  Control'
<1>1. Shape'
  BY DEF Control, Fails, Shape, StackInv, BindingsFollowCalls, LeftBound, PathsAgree
<1>2. BufferInv'
  BY DEF Control, Fails, BufferInv, RoomInv, CapacityHonest, HasRoom
<1>3. InputInv'
  BY DEF Control, Fails, InputInv, Running, Input, converted
<1>4. ok' \in BOOLEAN /\ (ok' <=> reason' = "none")
  BY Zenon DEF Fails
<1>5. TypeOK' /\ BindNeverRefused'
  BY <1>4 DEF Control, Fails, TypeOK, BindNeverRefused, LeftBound, HasRoom
<1>6. QED
  BY <1>1, <1>2, <1>3, <1>5 DEF Control

(* The end of the process.                                                  *)
LEMMA AbortsKeeps ==
  ASSUME Control, Aborts
  PROVE  Control'
<1>1. Shape'
  <2>1. Calls(stack', bound') /\ phase' = "aborted"
    BY ShapeIsCalls DEF Control, Aborts
  <2>2. QED
    BY <2>1, CallsIsShape
<1>2. BufferInv'
  BY DEF Control, Aborts, BufferInv, RoomInv, CapacityHonest, HasRoom
<1>3. InputInv'
  BY DEF Aborts, InputInv, Running
<1>4. ok' \in BOOLEAN /\ (ok' <=> reason' = "none")
  BY Zenon DEF Control, TypeOK, Aborts
<1>5. TypeOK' /\ BindNeverRefused'
  BY <1>4 DEF Control, Aborts, TypeOK, BindNeverRefused, LeftBound, HasRoom
<1>6. QED
  BY <1>1, <1>2, <1>3, <1>5 DEF Control

(* The input stays what it was.                                             *)
LEMMA InputStays ==
  ASSUME Running, InputKept, UNCHANGED phase
  PROVE  Input' = Input /\ Running'
  BY DEF Running, InputKept, Input

(* The places of the calls before and after a step.                         *)
LEMMA PlacesAreInput ==
  ASSUME InputInv, Running, InputKept, UNCHANGED phase,
         Places(stack, Input) => Places(stack', Input)
  PROVE  InputInv'
<1>1. Places(stack, Input)
  BY DEF InputInv, Places
<1>2. Input' = Input /\ Running'
  BY InputStays
<1>3. \A i \in 1 .. Len(stack') :
        /\ stack'[i].at \in DOMAIN Input'
        /\ KindOf(stack'[i].type) \in CollectionKinds =>
             stack'[i].size = Size(Input', stack'[i].at)
  BY <1>1, <1>2 DEF Places
<1>4. /\ phase' = "dds2pb" => sample' \in Samples
      /\ phase' = "pb2dds" => message' \in Messages
  BY DEF InputInv, InputKept
<1> DEFINE d == Input'
<1>5. QED
  BY <1>3, <1>4 DEF InputInv

(* The innermost call goes on.                                              *)
LEMMA AdvancesKeeps ==
  ASSUME Control, Advances
  PROVE  Control'
<1>1. /\ TypeOK /\ Shape /\ BufferInv /\ InputInv /\ BindNeverRefused
      /\ Running /\ stack # <<>> /\ InputKept /\ HasRoom(str_buffer')
      /\ UNCHANGED <<phase, cache, bound, ok, reason, calls>>
  BY DEF Control, Advances
<1>2. Calls(stack, bound) /\ Top \in Frames /\ stack \in Seq(Frames) /\ Len(stack) \in Nat \ {0}
  BY <1>1, ShapeIsCalls, TopFacts
<1>3. PICK len \in Nat : /\ len # 0 => HoldsStrings(Top.type)
                         /\ len <= Len(str_buffer')
                         /\ NextFrame(len)
  BY DEF Advances
<1> DEFINE f == [Top EXCEPT !.next = Top.next + 1, !.ddsValueLen = len]
<1>4. /\ f \in Frames /\ f.type = Top.type /\ f.at = Top.at /\ f.size = Top.size
      /\ f.next # 0 /\ f.ddsValueLen = len
  <2>1. Top.next \in Nat /\ Top.next + 1 \in Nat /\ Top.next + 1 # 0
    BY <1>2 DEF Frames
  <2>2. \A n \in Nat : [Top EXCEPT !.next = n, !.ddsValueLen = len] \in Frames
    BY <1>2 DEF Frames
  <2>3. \A n \in Nat :
          /\ [Top EXCEPT !.next = n, !.ddsValueLen = len].next = n
          /\ [Top EXCEPT !.next = n, !.ddsValueLen = len].ddsValueLen = len
          /\ [Top EXCEPT !.next = n, !.ddsValueLen = len].type = Top.type
          /\ [Top EXCEPT !.next = n, !.ddsValueLen = len].at = Top.at
          /\ [Top EXCEPT !.next = n, !.ddsValueLen = len].size = Top.size
    BY <1>2 DEF Frames
  <2>4. QED
    BY <2>1, <2>2, <2>3, Zenon
<1>5. stack' = [stack EXCEPT ![Len(stack)] = f]
  BY <1>3 DEF NextFrame
<1> HIDE DEF f
<1>6. Calls(stack', bound) /\ (Places(stack, Input) => Places(stack', Input))
  BY <1>1, <1>2, <1>4, <1>5, CallsAdvance DEF Top
<1>7. /\ stack' \in Seq(Frames) /\ Len(stack') = Len(stack) /\ stack'[Len(stack)] = f
      /\ \A i \in 1 .. Len(stack) : i # Len(stack) => stack'[i] = stack[i]
  <2>1. Len(stack) \in 1 .. Len(stack)
    BY <1>2
  <2>2. QED
    BY <1>2, <1>4, <1>5, <2>1
<1>8. Shape'
  <2>1. stack' # <<>> => phase' \in {"dds2pb", "pb2dds", "aborted"}
    BY <1>1 DEF Running
  <2>2. QED
    BY <1>1, <1>6, <2>1, CallsIsShape
<1>9. InputInv'
  BY <1>1, <1>6, PlacesAreInput
<1>10. BufferInv'
  <2>1. \A i \in 1 .. Len(stack') :
          stack'[i].ddsValueLen # 0 => i = Len(stack') /\ HoldsStrings(stack'[i].type)
    BY <1>1, <1>3, <1>4, <1>7 DEF BufferInv, RoomInv
  <2>2. \A i \in 1 .. Len(stack') : stack'[i].ddsValueLen <= Len(str_buffer')
    BY <1>1, <1>3, <1>4, <1>7 DEF HasRoom
  <2>3. QED
    BY <2>1, <2>2 DEF BufferInv, RoomInv, CapacityHonest
<1>11. ok' \in BOOLEAN /\ (ok' <=> reason' = "none")
  BY <1>1, Zenon DEF TypeOK
<1>12. TypeOK' /\ BindNeverRefused'
  BY <1>1, <1>7, <1>11 DEF TypeOK, BindNeverRefused, LeftBound, HasRoom
<1>13. QED
  BY <1>8, <1>9, <1>10, <1>12 DEF Control

(* A call begins.                                                           *)
LEMMA EntersKeeps ==
  ASSUME Control, Enters
  PROVE  Control'
<1>1. /\ TypeOK /\ Shape /\ BufferInv /\ InputInv /\ BindNeverRefused
      /\ Running /\ stack # <<>> /\ InputKept
      /\ UNCHANGED <<phase, str_buffer, ok, reason, calls>>
  BY DEF Control, Enters
<1>2. /\ Calls(stack, bound) /\ Top \in Frames /\ stack \in Seq(Frames)
      /\ Len(stack) \in Nat \ {0} /\ Field \in Paths /\ Here = Field
  BY <1>1, ShapeIsCalls, TopFacts
<1>3. PICK t \in Types, size \in Nat : EntersPart(t, size)
  BY DEF Enters
<1>4. /\ HasParts(t) /\ t = TypeAt(Field) /\ Rank[t] < Rank[Top.type]
      /\ size = IF KindOf(t) \in StructKinds THEN Len(Schema[t].members)
                ELSE Size(Input, Field)
      /\ ~HoldsStrings(Top.type) /\ Field \in DOMAIN Input
      /\ t \notin DOMAIN bound
      /\ bound' = Put(bound, t, [by |-> TopObject, at |-> Field, state |-> "call"])
      /\ stack' = Append(stack, Frame(t, Field, size))
      /\ cache' = cache \cup {t}
  BY <1>2, <1>3 DEF EntersPart, Bound
<1> DEFINE f == Frame(t, Field, size)
<1>5. /\ f \in Frames /\ f.type = t /\ f.at = Field /\ f.size = size /\ f.next = 1
      /\ f.ddsValueLen = 0
  BY <1>2 DEF Frame, Frames
<1> HIDE DEF f
<1>6. CallInv(f)
  BY <1>4, <1>5 DEF CallInv
<1>7. bound' = Put(bound, f.type,
                   [by |-> IF Len(stack) = 1 THEN RootObject ELSE stack[Len(stack)].type,
                    at |-> f.at, state |-> "call"])
  BY <1>4, <1>5 DEF TopObject, Top
<1>8. /\ stack' = Append(stack, f) /\ f.at = Append(stack[Len(stack)].at, stack[Len(stack)].next)
      /\ Rank[f.type] < Rank[stack[Len(stack)].type]
  BY <1>4, <1>5 DEF f, Field, Top
<1>9. f.at \in DOMAIN Input /\ (KindOf(f.type) \in CollectionKinds => f.size = Size(Input, f.at))
  BY <1>4, <1>5 DEF CollectionKinds, StructKinds
<1>a. Pushes(stack, bound, f, bound', stack')
  BY <1>1, <1>4, <1>5, <1>6, <1>7, <1>8 DEF Pushes
<1>10. /\ Calls(stack', bound') /\ (Places(stack, Input) => Places(stack', Input))
       /\ Left(bound) \subseteq Left(bound')
  BY <1>2, <1>5, <1>8, <1>9, <1>a, CallsPush, PlacesPush
<1>11. Shape'
  <2>1. stack' # <<>> => phase' \in {"dds2pb", "pb2dds", "aborted"}
    BY <1>1 DEF Running
  <2>2. QED
    BY <1>10, <2>1, CallsIsShape
<1>12. InputInv'
  BY <1>1, <1>10, PlacesAreInput
<1>13. str_buffer \in Seq(Int) /\ Len(str_buffer) \in Nat
  BY <1>1 DEF TypeOK
<1>14. \A i \in 1 .. Len(stack) : stack[i].ddsValueLen = 0
  BY <1>1, <1>4, <1>13, NoLengths
<1>15. \A i \in 1 .. Len(stack') : stack'[i].ddsValueLen = 0
  <2>1. /\ Len(stack') = Len(stack) + 1 /\ stack'[Len(stack) + 1] = f
        /\ \A i \in 1 .. Len(stack) : stack'[i] = stack[i]
    BY <1>2, <1>5, <1>8
  <2>2. \A i \in 1 .. Len(stack) + 1 : i \in 1 .. Len(stack) \/ i = Len(stack) + 1
    BY <1>2
  <2>3. QED
    BY <1>5, <1>14, <2>1, <2>2
<1>16. BufferInv'
  BY <1>1, <1>13, <1>15 DEF BufferInv, RoomInv, CapacityHonest
<1>17. ok' \in BOOLEAN /\ (ok' <=> reason' = "none")
  BY <1>1, Zenon DEF TypeOK
<1>18. /\ cache' \subseteq Types /\ DOMAIN bound' \subseteq cache'
       /\ \A u \in DOMAIN bound' : bound'[u] \in Bindings
  <2> DEFINE e == [by |-> TopObject, at |-> Field, state |-> "call"]
  <2>1. TopObject \in Types \cup {RootObject, EarlierRoot}
    BY <1>2 DEF TopObject, Frames
  <2>2. e \in Bindings
    BY <1>2, <2>1 DEF Bindings
  <2>3. /\ cache \subseteq Types /\ DOMAIN bound \subseteq cache
        /\ \A u \in DOMAIN bound : bound[u] \in Bindings
    BY <1>1 DEF TypeOK
  <2>4. bound' = Put(bound, t, e)
    BY <1>4
  <2> HIDE DEF e
  <2>5. QED
    BY <1>4, <2>2, <2>3, <2>4 DEF Put
<1>19. stack' \in Seq(Frames)
  BY <1>10 DEF Calls
<1>20. TypeOK'
  BY <1>1, <1>13, <1>17, <1>18, <1>19 DEF TypeOK
<1>21. BindNeverRefused'
  BY <1>1, <1>10 DEF BindNeverRefused, LeftBound, Left
<1>22. QED
  BY <1>11, <1>12, <1>16, <1>20, <1>21 DEF Control

(* A call returns and its caller goes on, or returns as well.               *)
LEMMA ReturnKeeps ==
  ASSUME Control, Return
  PROVE  Control'
<1> DEFINE outer == SubSeq(stack, 1, Len(stack) - 1)
<1>1. /\ TypeOK /\ Shape /\ BufferInv /\ InputInv /\ BindNeverRefused
      /\ Running /\ stack # <<>>
      /\ stack' = IF ok /\ outer # <<>> THEN Advanced(outer) ELSE outer
      /\ UNCHANGED <<phase, cache, str_buffer, converted, ok, reason, calls>>
  BY DEF Control, Return, Running
<1>2. Calls(stack, bound) /\ stack \in Seq(Frames) /\ Len(stack) \in Nat \ {0}
  BY <1>1, ShapeIsCalls, TopFacts
<1>c. /\ IF Len(stack) = 1 THEN bound' = bound
         ELSE Releases(bound, stack[Len(stack)].type, bound')
      /\ DOMAIN bound' \subseteq DOMAIN bound
      /\ \A u \in DOMAIN bound' : bound'[u] \in Bindings
  <2>1. \A u \in DOMAIN bound : bound[u] \in Bindings
    BY <1>1 DEF TypeOK
  <2>2. CASE Len(stack) = 1
    BY <2>1, <2>2 DEF Return
  <2>3. CASE Len(stack) # 1 /\ bound' = Unbound(Top.type)
    BY <2>1, <2>3 DEF Unbound, Releases, Top
  <2>4. CASE Len(stack) # 1 /\ bound' = [bound EXCEPT ![Top.type].state = "left"]
    <3> DEFINE t == Top.type
    <3>1. \A e \in Bindings : /\ [e EXCEPT !.state = "left"] \in Bindings
                             /\ [e EXCEPT !.state = "left"].state = "left"
      BY DEF Bindings
    <3> HIDE DEF t
    <3>2. bound' = [bound EXCEPT ![t] = [bound[t] EXCEPT !.state = "left"]]
      BY <2>4 DEF t
    <3> DEFINE e == [bound[t] EXCEPT !.state = "left"]
    <3>3. t \in DOMAIN bound => e \in Bindings /\ e.state = "left"
      BY <2>1, <3>1
    <3> HIDE DEF e
    <3>4. /\ DOMAIN bound' = DOMAIN bound
          /\ \A u \in DOMAIN bound : bound'[u] = IF u = t THEN e ELSE bound[u]
      BY <3>2 DEF e
    <3>5. Releases(bound, t, bound') /\ \A u \in DOMAIN bound' : bound'[u] \in Bindings
      BY <2>1, <3>3, <3>4 DEF Releases
    <3>6. QED
      BY <2>4, <3>4, <3>5 DEF t, Top
  <2>5. QED
    BY <2>2, <2>3, <2>4 DEF Return
<1>a. Pops(stack, bound, bound', outer)
  BY <1>1, <1>c DEF Pops
<1>b. stack' = IF ok /\ outer # <<>> THEN Advanced(outer) ELSE outer
  BY <1>1
<1> HIDE DEF outer
<1>3. /\ Calls(outer, bound') /\ (Places(stack, Input) => Places(outer, Input))
      /\ Left(bound) \subseteq Left(bound')
      /\ \A i \in 1 .. Len(outer) : outer[i] = stack[i] /\ i \in 1 .. Len(stack) /\ i # Len(stack)
  BY <1>2, <1>a, CallsPop
<1>4. outer \in Seq(Frames)
  BY <1>3 DEF Calls
<1>5. \A i \in 1 .. Len(outer) : outer[i].ddsValueLen = 0
  BY <1>1, <1>3 DEF BufferInv, RoomInv
<1>6. /\ Calls(stack', bound') /\ (Places(stack, Input) => Places(stack', Input))
      /\ \A i \in 1 .. Len(stack') : stack'[i].ddsValueLen = 0
  <2>1. CASE ~(ok /\ outer # <<>>)
    <3>1. stack' = outer
      BY <1>b, <2>1, Zenon
    <3>2. QED
      BY <1>3, <1>5, <3>1
  <2>2. CASE ok /\ outer # <<>>
    <3> DEFINE g == outer[Len(outer)]
               f == [g EXCEPT !.next = g.next + 1]
    <3>1. Len(outer) \in 1 .. Len(outer) /\ g \in Frames
      BY <1>4, <2>2
    <3>2. stack' = [outer EXCEPT ![Len(outer)] = f]
      <4>1. stack' = Advanced(outer)
        BY <1>b, <2>2, Zenon
      <4>2. QED
        BY <4>1 DEF Advanced
    <3>3. /\ f \in Frames /\ f.type = g.type /\ f.at = g.at /\ f.size = g.size
          /\ f.next # 0 /\ f.ddsValueLen = g.ddsValueLen
      <4> HIDE DEF g
      <4>1. g.next \in Nat /\ g.next + 1 \in Nat /\ g.next + 1 # 0
        BY <3>1 DEF Frames
      <4>2. \A n \in Nat : [g EXCEPT !.next = n] \in Frames
        BY <3>1 DEF Frames
      <4>3. \A n \in Nat :
              /\ [g EXCEPT !.next = n].next = n
              /\ [g EXCEPT !.next = n].ddsValueLen = g.ddsValueLen
              /\ [g EXCEPT !.next = n].type = g.type
              /\ [g EXCEPT !.next = n].at = g.at
              /\ [g EXCEPT !.next = n].size = g.size
        BY <3>1 DEF Frames
      <4>4. QED
        BY <4>1, <4>2, <4>3, Zenon
    <3> HIDE DEF f
    <3>4. Calls(stack', bound') /\ (Places(outer, Input) => Places(stack', Input))
      BY <1>3, <2>2, <3>2, <3>3, CallsAdvance
    <3>5. /\ Len(stack') = Len(outer) /\ stack'[Len(outer)] = f
          /\ \A i \in 1 .. Len(outer) : i # Len(outer) => stack'[i] = outer[i]
      BY <1>4, <3>1, <3>2, <3>3
    <3>6. QED
      BY <1>3, <1>5, <3>1, <3>3, <3>4, <3>5
  <2>3. QED
    BY <2>1, <2>2
<1>7. Shape'
  <2>1. stack' # <<>> => phase' \in {"dds2pb", "pb2dds", "aborted"}
    BY <1>1 DEF Running
  <2>2. QED
    BY <1>6, <2>1, CallsIsShape
<1>8. InputKept
  BY <1>1 DEF InputKept, converted
<1>9. InputInv'
  BY <1>1, <1>6, <1>8, PlacesAreInput
<1>10. str_buffer \in Seq(Int) /\ Len(str_buffer) \in Nat
  BY <1>1 DEF TypeOK
<1>11. BufferInv'
  BY <1>1, <1>6, <1>10 DEF BufferInv, RoomInv, CapacityHonest
<1>12. ok' \in BOOLEAN /\ (ok' <=> reason' = "none")
  BY <1>1, Zenon DEF TypeOK
<1>13. DOMAIN bound' \subseteq cache' /\ \A u \in DOMAIN bound' : bound'[u] \in Bindings
  BY <1>1, <1>c DEF TypeOK
<1>14. stack' \in Seq(Frames)
  BY <1>6 DEF Calls
<1>15. TypeOK'
  BY <1>1, <1>10, <1>12, <1>13, <1>14 DEF TypeOK
<1>16. BindNeverRefused'
  BY <1>1, <1>3 DEF BindNeverRefused, LeftBound, Left
<1>17. QED
  BY <1>7, <1>9, <1>11, <1>15, <1>16 DEF Control

(* Between two conversions there is no call, and so no bound object but     *)
(* those left.                                                              *)
LEMMA NoCalls ==
  ASSUME TypeOK, Shape, stack = <<>> \/ phase \in {"new", "idle"}
  PROVE  stack = <<>> /\ DOMAIN bound = LeftBound
<1>1. stack = <<>>
  BY DEF Shape, StackInv
<1>2. 2 .. Len(stack) = {}
  BY <1>1
<1>3. QED
  BY <1>1, <1>2 DEF Shape, BindingsFollowCalls, LeftBound

(* Nothing is in progress after a step.                                     *)
LEMMA NothingInProgress ==
  ASSUME stack' = <<>>, DOMAIN (bound') = LeftBound'
  PROVE  Shape' /\ BufferInv'
<1>1. 1 .. Len(stack') = {} /\ 2 .. Len(stack') = {}
  OBVIOUS
<1>2. QED
  BY <1>1 DEF Shape, StackInv, BindingsFollowCalls, PathsAgree, BufferInv, RoomInv,
     CapacityHonest

(* The last call of a conversion has returned.                              *)
LEMMA FinishKeeps ==
  ASSUME Control, Finish
  PROVE  Control'
<1>1. stack' = <<>> /\ DOMAIN (bound') = LeftBound' /\ LeftBound' = LeftBound
  BY NoCalls DEF Control, Finish, LeftBound
<1>2. Shape' /\ BufferInv'
  BY <1>1, NothingInProgress
<1>3. InputInv'
  BY DEF Finish, InputInv, Running
<1>4. ok' \in BOOLEAN /\ (ok' <=> reason' = "none")
  <2>1. CASE UNCHANGED <<ok, reason>>
    BY <2>1, Zenon DEF Control, TypeOK
  <2>2. CASE ok' = FALSE /\ reason' = "wire"
    BY <2>2
  <2>3. QED
    BY <2>1, <2>2 DEF Finish
<1>5. reason' \in Reasons /\ BindNeverRefused'
  BY <1>1 DEF Control, TypeOK, Finish, Reasons, BindNeverRefused
<1>6. TypeOK'
  BY <1>4, <1>5 DEF Control, TypeOK, Finish
<1>7. QED
  BY <1>2, <1>3, <1>5, <1>6 DEF Control

(* The prototype of the message is looked up.                               *)
LEMMA ConstructKeeps ==
  ASSUME Control, NEW files, Construct(files)
  PROVE  Control'
<1>1. stack' = <<>> /\ DOMAIN (bound') = LeftBound' /\ LeftBound' = LeftBound
  BY NoCalls DEF Control, Construct, LeftBound
<1>2. Shape' /\ BufferInv'
  BY <1>1, NothingInProgress
<1>3. phase' \in {"idle", "thrown"}
  BY DEF Construct
<1>4. InputInv'
  BY <1>3 DEF InputInv, Running
<1>5. ok' \in BOOLEAN /\ (ok' <=> reason' = "none")
  BY Zenon DEF Control, TypeOK, Construct
<1>6. TypeOK' /\ BindNeverRefused'
  BY <1>1, <1>3, <1>5 DEF Control, TypeOK, Construct, BindNeverRefused
<1>7. QED
  BY <1>2, <1>4, <1>6 DEF Control

(* The first call of a conversion, for the root.                            *)
LEMMA RootCall ==
  ASSUME NEW b, DOMAIN b = Left(b), NEW d, IsTree(d)
  PROVE  LET s == <<Frame(Root, <<>>, Len(Schema[Root].members))>>
         IN /\ Calls(s, b) /\ Places(s, d) /\ s # <<>>
            /\ \A i \in 1 .. Len(s) : s[i].ddsValueLen = 0
<1> DEFINE f == Frame(Root, <<>>, Len(Schema[Root].members))
           s == <<f>>
<1>1. Root \in Types /\ KindOf(Root) = "STRUCT" /\ Len(Schema[Root].members) \in Nat
  BY TypesAssumption, SchemaFacts DEF KindOf
<1>2. <<>> \in Paths
  BY DEF Paths
<1>3. /\ f \in Frames /\ f.type = Root /\ f.at = <<>> /\ f.next = 1
      /\ f.size = Len(Schema[Root].members) /\ f.ddsValueLen = 0
  BY <1>1, <1>2 DEF Frame, Frames
<1> HIDE DEF f
<1>4. CallInv(f)
  BY <1>1, <1>3, TypeAtFacts DEF CallInv, HasParts, StructKinds
<1>5. /\ s \in Seq(Frames) /\ Len(s) = 1 /\ s[1] = f /\ s # <<>>
      /\ 1 .. Len(s) = {1} /\ 2 .. Len(s) = {}
  BY <1>3
<1> HIDE DEF s
<1>6. \A i, j \in 1 .. Len(s) : ~(i < j)
  BY <1>5
<1>7. Calls(s, b)
  BY <1>3, <1>4, <1>5, <1>6 DEF Calls
<1>8. Places(s, d)
  BY <1>1, <1>3, <1>5 DEF Places, IsTree, CollectionKinds
<1>9. QED
  BY <1>3, <1>5, <1>7, <1>8 DEF s, f

(* Another object may be the root: what was left bound still is.            *)
LEMMA AnyRoot ==
  ASSUME TypeOK, bound' \in {bound, OtherRoot}
  PROVE  /\ DOMAIN (bound') = DOMAIN bound /\ LeftBound' = LeftBound
         /\ \A t \in DOMAIN bound : bound'[t] \in Bindings
<1>1. \A t \in DOMAIN bound : bound[t] \in Bindings
  BY DEF TypeOK
<1>2. CASE bound' = bound
  BY <1>1, <1>2 DEF LeftBound
<1>3. CASE bound' = OtherRoot
  <2>1. \A e \in Bindings :
          /\ [e EXCEPT !.by = EarlierRoot] \in Bindings
          /\ [e EXCEPT !.by = EarlierRoot].state = e.state
    BY DEF Bindings
  <2>2. DOMAIN (bound') = DOMAIN bound
    BY <1>3 DEF OtherRoot
  <2>3. ASSUME NEW t \in DOMAIN bound
        PROVE  bound'[t] \in Bindings /\ bound'[t].state = bound[t].state
    <3>1. bound'[t] \in {bound[t], [bound[t] EXCEPT !.by = EarlierRoot]}
      BY <1>3, <2>3 DEF OtherRoot
    <3>2. QED
      BY <1>1, <2>1, <2>3, <3>1
  <2>4. QED
    BY <2>2, <2>3 DEF LeftBound
<1>4. QED
  BY <1>2, <1>3

(* A conversion starts.                                                     *)
LEMMA StartKeeps ==
  ASSUME Control, phase = "idle",
         phase' \in {"dds2pb", "pb2dds"}, calls' \in 0 .. MaxCalls,
         phase' = "dds2pb" => sample' \in Samples,
         phase' = "pb2dds" => message' \in Messages,
         stack' = <<Frame(Root, <<>>, Len(Schema[Root].members))>>,
         ok' = TRUE, reason' = "none", bound' \in {bound, OtherRoot},
         UNCHANGED <<cache, str_buffer>>
  PROVE  Control'
<1>1. /\ TypeOK /\ DOMAIN bound = LeftBound
      /\ str_buffer \in Seq(Int) /\ Len(str_buffer) \in Nat
  BY NoCalls DEF Control, TypeOK
<1>a. /\ DOMAIN (bound') = DOMAIN bound /\ LeftBound' = LeftBound
      /\ \A t \in DOMAIN bound : bound'[t] \in Bindings
  BY <1>1, AnyRoot
<1>b. DOMAIN (bound') = Left(bound')
  BY <1>1, <1>a DEF LeftBound, Left
<1> DEFINE d == Input'
<1>2. IsTree(d)
  BY DataAssumption DEF Input, IsSample, IsMessage
<1> HIDE DEF d
<1>3. /\ Calls(stack', bound') /\ Places(stack', d) /\ stack' # <<>>
      /\ \A i \in 1 .. Len(stack') : stack'[i].ddsValueLen = 0
  BY <1>b, <1>2, RootCall
<1>4. Shape'
  BY <1>3, CallsIsShape
<1>5. BufferInv'
  BY <1>1, <1>3 DEF BufferInv, RoomInv, CapacityHonest
<1>6. \A i \in 1 .. Len(stack') :
        /\ stack'[i].at \in DOMAIN Input'
        /\ KindOf(stack'[i].type) \in CollectionKinds =>
             stack'[i].size = Size(Input', stack'[i].at)
  BY <1>3 DEF Places, d
<1>7. InputInv'
  BY <1>6 DEF InputInv
<1>8. stack' \in Seq(Frames)
  BY <1>3 DEF Calls
<1>9. ok' \in BOOLEAN /\ (ok' <=> reason' = "none")
  OBVIOUS
<1>10. TypeOK' /\ BindNeverRefused'
  BY <1>1, <1>a, <1>8, <1>9 DEF TypeOK, BindNeverRefused, Reasons
<1>11. QED
  BY <1>4, <1>5, <1>7, <1>10 DEF Control

(* serialize().                                                             *)
LEMMA SerializeKeeps ==
  ASSUME Control, NEW s \in Samples, Serialize(s)
  PROVE  Control'
<1>1. calls' \in 0 .. MaxCalls
  BY ConverterAssumption DEF Control, TypeOK, Serialize
<1>2. QED
  BY <1>1, StartKeeps DEF Serialize

(* deserialize(), for a message that can be parsed or not.                  *)
LEMMA DeserializeKeeps ==
  ASSUME Control, NEW m \in Messages, Deserialize(m)
  PROVE  Control'
<1>1. calls' \in 0 .. MaxCalls
  BY ConverterAssumption DEF Control, TypeOK, Deserialize
<1>2. CASE stack' # <<>>
  BY <1>1, <1>2, StartKeeps DEF Deserialize
<1>3. CASE stack' = <<>>
  <2>1. /\ ok' = FALSE /\ reason' = "wire" /\ phase = "idle" /\ phase' = "pb2dds"
        /\ message' \in Messages /\ UNCHANGED <<cache, str_buffer>>
        /\ bound' \in {bound, OtherRoot}
    BY <1>3 DEF Deserialize
  <2>a. /\ DOMAIN (bound') = DOMAIN bound /\ LeftBound' = LeftBound
        /\ \A t \in DOMAIN bound : bound'[t] \in Bindings
    BY <2>1, AnyRoot DEF Control
  <2>2. DOMAIN (bound') = LeftBound'
    BY <2>1, <2>a, NoCalls DEF Control
  <2>3. Shape' /\ BufferInv'
    BY <1>3, <2>2, NothingInProgress
  <2>4. 1 .. Len(stack') = {}
    BY <1>3
  <2>5. InputInv'
    BY <2>1, <2>4 DEF InputInv
  <2>6. ok' \in BOOLEAN /\ (ok' <=> reason' = "none")
    BY <2>1
  <2>7. TypeOK' /\ BindNeverRefused'
    BY <1>1, <1>3, <2>1, <2>a, <2>6 DEF Control, TypeOK, BindNeverRefused, Reasons
  <2>8. QED
    BY <2>3, <2>5, <2>7 DEF Control
<1>4. QED
  BY <1>2, <1>3

(* The converter begins without calls.                                      *)
LEMMA InitControl == Init => Control
<1> SUFFICES ASSUME Init PROVE Control
  OBVIOUS
<1>1. 1 .. Len(stack) = {} /\ 2 .. Len(stack) = {} /\ DOMAIN bound = {}
  BY DEF Init
<1>2. Shape /\ BufferInv /\ InputInv
  BY <1>1 DEF Init, Shape, StackInv, BindingsFollowCalls, LeftBound, PathsAgree, BufferInv, RoomInv,
              CapacityHonest, InputInv, Running
<1>3. TypeOK /\ BindNeverRefused
  BY <1>1, ConverterAssumption DEF Init, TypeOK, Reasons, BindNeverRefused
<1>4. QED
  BY <1>2, <1>3 DEF Control

(* Nothing but a step of the program changes the state.                     *)
LEMMA StutterControl == Control /\ UNCHANGED vars => Control'
<1> SUFFICES ASSUME Control, UNCHANGED vars PROVE Control'
  OBVIOUS
<1>1. UNCHANGED <<phase, stack, cache, bound, str_buffer, sample, message, ok, reason, calls>>
  BY DEF vars
<1>2. Shape' /\ BufferInv'
  BY <1>1 DEF Control, Shape, StackInv, BindingsFollowCalls, LeftBound, PathsAgree,
              BufferInv, RoomInv, CapacityHonest
<1>3. InputInv'
  BY <1>1 DEF Control, InputInv, Running, Input
<1>4. ok' \in BOOLEAN /\ (ok' <=> reason' = "none")
  BY <1>1, Zenon DEF Control, TypeOK
<1>5. TypeOK' /\ BindNeverRefused'
  BY <1>1, <1>4 DEF Control, TypeOK, BindNeverRefused, LeftBound
<1>6. QED
  BY <1>2, <1>3, <1>5 DEF Control

-----------------------------------------------------------------------------
(* Nothing foreign is written.                                              *)

(* In the terms of input and result.                                        *)
Foreign == Running => \A p \in DOMAIN Result : p \in DOMAIN Input /\ Matches(p, Result[p])

(* The two say the same.                                                    *)
LEMMA ForeignIsNothingForeign ==
  Foreign <=> NothingForeign
<1>1. CASE phase = "dds2pb"
  BY <1>1 DEF Foreign, NothingForeign, Running, Result, Input, Matches
<1>2. CASE phase = "pb2dds"
  BY <1>2 DEF Foreign, NothingForeign, Running, Result, Input, Matches
<1>3. CASE phase \notin {"dds2pb", "pb2dds"}
  BY <1>3 DEF Foreign, NothingForeign, Running
<1>4. QED
  BY <1>1, <1>2, <1>3

(* The repeated field an element is added to matches, too.                  *)
LEMMA CollectionMatches ==
  ASSUME TypeOK, Shape, InputInv, Running, stack # <<>>, InCollection, Field \in DOMAIN Input
  PROVE  Top.at \in DOMAIN Input /\ Matches(Top.at, <<>>)
<1>1. Top.at \in DOMAIN Input /\ Input[Top.at] = <<>> /\ TypeAt(Top.at) = Top.type
  BY InputFacts
<1>2. CASE phase = "dds2pb"
  BY <1>1, <1>2 DEF Matches, Input
<1>3. CASE phase # "dds2pb"
  <2>1. SameValue(Top.type, <<>>, <<>>)
    BY NothingMatches DEF InCollection
  <2>2. QED
    BY <1>1, <1>3, <2>1 DEF Matches, Input
<1>4. QED
  BY <1>2, <1>3

(* What a union does not drop stays as it is.                               *)
LEMMA SelectedFacts ==
  /\ DOMAIN Selected \subseteq DOMAIN sample
  /\ \A q \in DOMAIN Selected : Selected[q] = sample[q]
  /\ \A q \in DOMAIN sample \ DOMAIN Selected :
       /\ KindOf(Top.type) = "UNION" /\ Inside(q, TopPath)
       /\ q # TopPath /\ ~Inside(q, Here)
  BY DEF Selected

(* What is in the result before v is written to it.                         *)
Kept == IF phase = "pb2dds" THEN Selected ELSE Result

(* Writing, in these terms.                                                 *)
LEMMA WritesFacts ==
  ASSUME TypeOK, Shape, stack # <<>>, NEW v, Writes(v)
  PROVE  Result' = IF phase # "pb2dds" /\ InCollection
                   THEN Put(Put(Kept, Top.at, <<>>), Field, v)
                   ELSE Put(Kept, Field, v)
<1>1. Here = Field
  BY TopFacts
<1>2. QED
  BY <1>1 DEF Writes, Kept, Assigned

(* A value that matches is written.                                         *)
LEMMA WritesKeepsForeign ==
  ASSUME TypeOK, Shape, InputInv, Foreign, Running, stack # <<>>, InputKept, UNCHANGED phase,
         Field \in DOMAIN Input, NEW v, Matches(Field, v), Writes(v)
  PROVE  Foreign'
<1>1. Input' = Input
  BY InputStays
<1>2. \A p, x : Matches(p, x)' <=> Matches(p, x)
  BY DEF Matches, InputKept, Running
<1>3. PICK old : old = Kept
  OBVIOUS
<1>4. PICK new : new = Result'
  OBVIOUS
<1>5. \A p \in DOMAIN old : p \in DOMAIN Input /\ Matches(p, old[p])
  <2>1. \A p \in DOMAIN old : p \in DOMAIN Result /\ old[p] = Result[p]
    <3>1. CASE phase = "pb2dds"
      BY <1>3, <3>1, SelectedFacts DEF Kept, Result
    <3>2. CASE phase # "pb2dds"
      BY <1>3, <3>2 DEF Kept
    <3>3. QED
      BY <3>1, <3>2
  <2>2. QED
    BY <2>1 DEF Foreign
<1>6. \/ new = Put(old, Field, v)
      \/ InCollection /\ new = Put(Put(old, Top.at, <<>>), Field, v)
  BY <1>3, <1>4, WritesFacts
<1>7. ASSUME NEW p \in DOMAIN new
      PROVE  p \in DOMAIN Input /\ Matches(p, new[p])
  <2>1. CASE new = Put(old, Field, v)
    <3>1. CASE p = Field
      BY <2>1, <3>1 DEF Put
    <3>2. CASE p # Field
      BY <1>5, <1>7, <2>1, <3>2 DEF Put
    <3>3. QED
      BY <3>1, <3>2
  <2>2. CASE InCollection /\ new = Put(Put(old, Top.at, <<>>), Field, v)
    <3>1. Top.at \in DOMAIN Input /\ Matches(Top.at, <<>>)
      BY <2>2, CollectionMatches
    <3>2. CASE p = Field
      BY <2>2, <3>2 DEF Put
    <3>3. CASE p # Field
      <4> DEFINE d == Put(old, Top.at, <<>>)
      <4>1. new = Put(d, Field, v)
        BY <2>2
      <4>2. DOMAIN d = DOMAIN old \cup {Top.at} /\ d[Top.at] = <<>>
            /\ \A q \in DOMAIN old : q # Top.at => d[q] = old[q]
        BY DEF Put
      <4> HIDE DEF d
      <4>3. p \in DOMAIN d /\ new[p] = d[p]
        BY <1>7, <3>3, <4>1 DEF Put
      <4>4. QED
        BY <1>5, <3>1, <4>2, <4>3
    <3>4. QED
      BY <3>2, <3>3
  <2>3. QED
    BY <1>6, <2>1, <2>2
<1>8. QED
  BY <1>1, <1>2, <1>4, <1>7 DEF Foreign

(* The result stays what it was.                                            *)
LEMMA SameResultKeepsForeign ==
  ASSUME Foreign, UNCHANGED <<phase, converted>>
  PROVE  Foreign'
  BY DEF Foreign, Running, Input, Result, Matches, converted

(* A step inside a conversion writes what the input has, or nothing.        *)
LEMMA WorkKeepsForeign ==
  ASSUME Control, Foreign, Fails \/ Aborts \/ Advances \/ Enters
  PROVE  Foreign'
<1>1. CASE Fails
  BY <1>1, SameResultKeepsForeign DEF Fails
<1>2. CASE Aborts
  BY <1>2 DEF Aborts, Foreign, Running
<1>3. CASE Advances
  <2>1. Running /\ stack # <<>> /\ InputKept /\ LeafDone /\ UNCHANGED phase
    BY <1>3 DEF Advances
  <2>2. CASE UNCHANGED converted
    BY <2>1, <2>2, SameResultKeepsForeign
  <2>3. CASE ~UNCHANGED converted
    <3>1. PICK v : Matches(Field, v) /\ Writes(v)
      BY <2>1, <2>3 DEF LeafDone
    <3>2. Field \in DOMAIN Input
      BY <2>1, <2>3 DEF LeafDone
    <3>3. QED
      BY <2>1, <3>1, <3>2, WritesKeepsForeign DEF Control
  <2>4. QED
    BY <2>2, <2>3
<1>4. CASE Enters
  <2>1. Running /\ stack # <<>> /\ InputKept /\ UNCHANGED phase
    BY <1>4 DEF Enters
  <2>2. PICK t \in Types, size \in Nat : EntersPart(t, size)
    BY <1>4 DEF Enters
  <2>3. CASE UNCHANGED converted
    BY <2>1, <2>3, SameResultKeepsForeign
  <2>4. CASE ~UNCHANGED converted
    <3>1. Field \in DOMAIN Input /\ Matches(Field, <<>>) /\ Writes(<<>>)
      BY <2>2, <2>4 DEF EntersPart
    <3>2. QED
      BY <2>1, <3>1, WritesKeepsForeign DEF Control
  <2>5. QED
    BY <2>3, <2>4
<1>5. QED
  BY <1>1, <1>2, <1>3, <1>4

(* A conversion starts with an empty result.                                *)
LEMMA StartIsNotForeign ==
  ASSUME \/ phase' = "dds2pb" /\ sample' \in Samples /\ message' = Empty
         \/ phase' = "pb2dds" /\ message' \in Messages /\ sample' = Empty
  PROVE  Foreign'
<1>1. DOMAIN Empty = {<<>>} /\ Empty[<<>>] = <<>>
  BY DEF Empty
<1>2. CASE phase' = "dds2pb" /\ sample' \in Samples /\ message' = Empty
  <2>1. <<>> \in DOMAIN sample' /\ sample'[<<>>] = <<>>
    BY <1>2, DataAssumption DEF IsSample, IsTree
  <2>2. QED
    BY <1>1, <1>2, <2>1 DEF Foreign, Input, Result, Matches
<1>3. CASE phase' = "pb2dds" /\ message' \in Messages /\ sample' = Empty
  <2>1. <<>> \in DOMAIN message' /\ message'[<<>>] = <<>>
    BY <1>3, DataAssumption DEF IsMessage, IsTree
  <2>2. KindOf(TypeAt(<<>>)) = "STRUCT"
    BY TypeAtFacts, TypesAssumption DEF KindOf
  <2>3. SameValue(TypeAt(<<>>), <<>>, <<>>)
    BY <2>2, NothingMatches DEF StructKinds
  <2>4. QED
    BY <1>1, <1>3, <2>1, <2>3 DEF Foreign, Input, Result, Matches
<1>4. QED
  BY <1>2, <1>3

-----------------------------------------------------------------------------
(* Nothing is left out.                                                     *)

(* Path p leads into what is at path at; there, to part Part(p, at).        *)
Below(p, at) == Len(p) > Len(at) /\ SubSeq(p, 1, Len(at)) = at
Part(p, at) == p[Len(at) + 1]

(* A path into something leads to one of its parts or into that part.       *)
LEMMA BelowFacts ==
  ASSUME NEW p \in Paths, NEW at \in Paths, Below(p, at)
  PROVE  /\ Part(p, at) \in Nat
         /\ Append(at, Part(p, at)) = SubSeq(p, 1, Len(at) + 1)
         /\ p = Append(at, Part(p, at)) \/ Below(p, Append(at, Part(p, at)))
<1>1. /\ p \in Seq(Nat) /\ at \in Seq(Nat) /\ Len(p) \in Nat /\ Len(at) \in Nat
      /\ Len(p) > Len(at)
  BY DEF Paths, Below
<1>2. Part(p, at) \in Nat
  BY <1>1 DEF Part
<1>3. \A i \in 1 .. Len(at) : at[i] = p[i]
  <2> DEFINE q == SubSeq(p, 1, Len(at))
  <2>1. \A i \in 1 .. Len(at) : q[i] = p[i]
    BY <1>1
  <2>2. q = at
    BY DEF Below
  <2> HIDE DEF q
  <2>3. QED
    BY <2>1, <2>2
<1> DEFINE q == Append(at, Part(p, at))
           r == SubSeq(p, 1, Len(at) + 1)
<1>4. q \in Seq(Nat) /\ Len(q) = Len(at) + 1 /\ \A i \in 1 .. Len(at) + 1 : q[i] = p[i]
  BY <1>1, <1>2, <1>3 DEF Part
<1>5. r \in Seq(Nat) /\ Len(r) = Len(at) + 1 /\ \A i \in 1 .. Len(at) + 1 : r[i] = p[i]
  BY <1>1
<1> HIDE DEF q, r
<1>6. q = r
  BY <1>4, <1>5
<1>7. p = q \/ Below(p, q)
  <2>1. CASE Len(p) = Len(at) + 1
    BY <1>1, <1>4, <2>1
  <2>2. CASE Len(p) # Len(at) + 1
    BY <1>1, <1>4, <1>6, <2>2 DEF Below, r
  <2>3. QED
    BY <2>1, <2>2
<1>8. QED
  BY <1>2, <1>6, <1>7 DEF q, r

(* A tree has every place on the way to a place of it.                      *)
LEMMA PrefixClosed ==
  ASSUME NEW d, IsTree(d), NEW p \in DOMAIN d, NEW n \in Nat, n <= Len(p)
  PROVE  SubSeq(p, 1, n) \in DOMAIN d
<1>1. p \in Paths /\ p \in Seq(Nat) /\ Len(p) \in Nat
  BY DEF IsTree, Paths
<1> DEFINE Missing == {k \in Nat : k <= Len(p) /\ SubSeq(p, 1, Len(p) - k) \notin DOMAIN d}
<1>2. Missing = {}
  <2> SUFFICES ASSUME Missing # {} PROVE FALSE
    OBVIOUS
  <2>1. Missing \subseteq Nat
    OBVIOUS
  <2>2. PICK x \in Missing : \A y \in Missing : ~(<<y, x>> \in OpToRel(<, Nat))
    <3> HIDE DEF Missing
    <3>1. QED
      BY <2>1, NatLessThanWellFounded, WFMin, Zenon
  <2>3. x \in Nat /\ x <= Len(p) /\ SubSeq(p, 1, Len(p) - x) \notin DOMAIN d
        /\ \A y \in Missing : ~(y < x)
    BY <2>1, <2>2 DEF OpToRel
  <2>4. x # 0
    <3>1. SubSeq(p, 1, Len(p)) = p
      BY <1>1
    <3>2. Len(p) - 0 = Len(p)
      BY <1>1
    <3>3. QED
      BY <2>3, <3>1, <3>2
  <2> DEFINE m == Len(p) - (x - 1)
             q == SubSeq(p, 1, m)
  <2>5. /\ x - 1 \in Nat /\ x - 1 <= Len(p) /\ x - 1 < x
        /\ m \in Nat \ {0} /\ m <= Len(p) /\ m - 1 = Len(p) - x /\ m - 1 \in Nat
    BY <1>1, <2>3, <2>4
  <2>6. q \in DOMAIN d
    BY <2>3, <2>5
  <2> HIDE DEF m
  <2>7. q \in Seq(Nat) /\ Len(q) = m /\ \A i \in 1 .. m : q[i] = p[i]
    BY <1>1, <2>5
  <2> HIDE DEF q
  <2>8. Parent(q) = SubSeq(p, 1, m - 1)
    <3>1. SubSeq(q, 1, m - 1) = SubSeq(p, 1, m - 1)
      BY <1>1, <2>5, <2>7, SMTT(30)
    <3>2. QED
      BY <2>7, <3>1 DEF Parent
  <2>9. Parent(q) \in DOMAIN d
    BY <2>5, <2>6, <2>7 DEF IsTree
  <2>10. QED
    BY <2>3, <2>5, <2>8, <2>9
<1>3. Len(p) - n \in Nat /\ Len(p) - n <= Len(p) /\ Len(p) - (Len(p) - n) = n
  BY <1>1
<1>4. QED
  BY <1>2, <1>3

(* What a tree has inside a place begins with a part of that place.         *)
LEMMA BelowTree ==
  ASSUME NEW d, IsTree(d), NEW p \in DOMAIN d, NEW at \in Paths, Below(p, at)
  PROVE  /\ at \in DOMAIN d /\ Append(at, Part(p, at)) \in DOMAIN d
         /\ Part(p, at) \in Nat /\ Part(p, at) >= 1
         /\ Part(p, at) <= IF KindOf(TypeAt(at)) \in StructKinds
                           THEN Len(Schema[TypeAt(at)].members) ELSE Size(d, at)
         /\ Size(d, at) # 0
<1>1. p \in Paths /\ Len(p) \in Nat /\ Len(at) \in Nat /\ Len(p) > Len(at)
  BY DEF IsTree, Paths, Below
<1>2. at \in DOMAIN d
  <2>1. SubSeq(p, 1, Len(at)) \in DOMAIN d
    BY <1>1, PrefixClosed
  <2>2. QED
    BY <2>1 DEF Below
<1> DEFINE k == Part(p, at)
           q == Append(at, k)
<1>3. k \in Nat /\ q = SubSeq(p, 1, Len(at) + 1)
  BY <1>1, BelowFacts
<1>4. q \in DOMAIN d
  <2>1. Len(at) + 1 \in Nat /\ Len(at) + 1 <= Len(p)
    BY <1>1
  <2>2. SubSeq(p, 1, Len(at) + 1) \in DOMAIN d
    BY <2>1, PrefixClosed
  <2>3. QED
    BY <1>3, <2>2
<1> HIDE DEF k
<1>5. q # <<>> /\ Parent(q) = at /\ q[Len(q)] = k
  BY <1>3, ParentAppend
<1>6. Size(d, at) \in Nat
  BY SizeFacts
<1> HIDE DEF q
<1> DEFINE max == IF KindOf(TypeAt(at)) \in StructKinds
                  THEN Len(Schema[TypeAt(at)].members) ELSE Size(d, at)
<1>7. k \in 1 .. max
  <2>1. q[Len(q)] \in 1 .. IF KindOf(TypeAt(Parent(q))) \in StructKinds
                           THEN Len(Schema[TypeAt(Parent(q))].members)
                           ELSE Size(d, Parent(q))
    BY <1>4, <1>5 DEF IsTree
  <2>2. QED
    BY <1>5, <2>1
<1>8. k >= 1 /\ k <= max
  <2> HIDE DEF max
  <2>1. QED
    BY <1>3, <1>7
<1>9. Size(d, at) # 0
  <2> DEFINE below == {x \in DOMAIN d : x # <<>> /\ Parent(x) = at}
  <2>1. q \in below /\ below \subseteq DOMAIN d /\ IsFiniteSet(DOMAIN d)
    BY <1>4, <1>5 DEF IsTree
  <2>2. Size(d, at) = Cardinality(below)
    BY DEF Size
  <2> HIDE DEF below
  <2>3. IsFiniteSet(below)
    BY <2>1, FS_Subset
  <2>4. Cardinality(below) # 0
    BY <2>1, <2>3, FS_EmptySet
  <2>5. QED
    BY <2>2, <2>4
<1>10. QED
  BY <1>2, <1>3, <1>4, <1>8, <1>9 DEF k, q, max

(* A call of s still has path p before it: in the part it is at or in a     *)
(* later one, but for a call that waits for that of the part it is at.      *)
AheadIn(p, s) ==
  \E i \in 1 .. Len(s) :
    /\ Below(p, s[i].at) /\ Part(p, s[i].at) >= s[i].next
    /\ i # Len(s) => Part(p, s[i].at) # s[i].next

(* What the innermost call has before it when it goes on.                   *)
LEMMA AheadAdvance ==
  ASSUME NEW s \in Seq(Frames), s # <<>>, NEW p \in Paths, AheadIn(p, s),
         NEW f \in Frames, f.at = s[Len(s)].at, f.next = s[Len(s)].next + 1,
         NEW r, r = [s EXCEPT ![Len(s)] = f]
  PROVE  \/ AheadIn(p, r)
         \/ Below(p, s[Len(s)].at) /\ Part(p, s[Len(s)].at) = s[Len(s)].next
<1>1. Len(s) \in Nat /\ Len(s) \in 1 .. Len(s)
  OBVIOUS
<1>2. /\ Len(r) = Len(s) /\ r[Len(s)] = f
      /\ \A i \in 1 .. Len(s) : i # Len(s) => r[i] = s[i]
  BY <1>1
<1>3. PICK i \in 1 .. Len(s) :
        /\ Below(p, s[i].at) /\ Part(p, s[i].at) >= s[i].next
        /\ i # Len(s) => Part(p, s[i].at) # s[i].next
  BY DEF AheadIn
<1>4. CASE i # Len(s)
  BY <1>2, <1>3, <1>4, ZenonT(30) DEF AheadIn
<1>5. CASE i = Len(s)
  <2>1. s[i] \in Frames
    BY <1>1, <1>3
  <2>2. s[i].at \in Paths /\ s[i].next \in Nat
    BY <2>1 DEF Frames
  <2>3. Part(p, s[i].at) \in Nat
    BY <1>3, <2>2, BelowFacts
  <2>4. CASE Part(p, s[i].at) = s[i].next
    BY <1>3, <1>5, <2>4
  <2>5. CASE Part(p, s[i].at) # s[i].next
    <3>1. Part(p, s[i].at) >= s[i].next + 1
      BY <1>3, <2>2, <2>3, <2>5
    <3>2. Below(p, r[i].at) /\ Part(p, r[i].at) >= r[i].next
      BY <1>2, <1>3, <1>5, <3>1
    <3>3. QED
      BY <1>1, <1>2, <1>5, <3>2 DEF AheadIn
  <2>6. QED
    BY <2>4, <2>5
<1>6. QED
  BY <1>4, <1>5

(* What was before the innermost call when a call begins for the part it is *)
(* at.                                                                      *)
LEMMA AheadPush ==
  ASSUME NEW s \in Seq(Frames), s # <<>>, NEW p \in Paths, AheadIn(p, s),
         NEW f \in Frames, f.at = Append(s[Len(s)].at, s[Len(s)].next), f.next = 1,
         NEW r, r = Append(s, f)
  PROVE  \/ AheadIn(p, r) \/ p = f.at
         \/ Below(p, f.at) /\ ~(Part(p, f.at) >= 1)
<1>1. Len(s) \in Nat /\ Len(s) \in 1 .. Len(s)
  OBVIOUS
<1>2. /\ Len(r) = Len(s) + 1 /\ r[Len(s) + 1] = f
      /\ \A i \in 1 .. Len(s) : r[i] = s[i] /\ i \in 1 .. Len(r) /\ i # Len(r)
      /\ Len(r) \in 1 .. Len(r)
  BY <1>1
<1>3. PICK i \in 1 .. Len(s) :
        /\ Below(p, s[i].at) /\ Part(p, s[i].at) >= s[i].next
        /\ i # Len(s) => Part(p, s[i].at) # s[i].next
  BY DEF AheadIn
<1>4. CASE Part(p, s[i].at) # s[i].next
  BY <1>2, <1>3, <1>4 DEF AheadIn
<1>5. CASE Part(p, s[i].at) = s[i].next
  <2>1. s[i] \in Frames /\ i = Len(s)
    BY <1>1, <1>3, <1>5
  <2>2. s[i].at \in Paths
    BY <2>1 DEF Frames
  <2>3. p = f.at \/ Below(p, f.at)
    BY <1>3, <1>5, <2>1, <2>2, BelowFacts
  <2>4. CASE Below(p, f.at) /\ Part(p, f.at) >= 1
    BY <1>2, <2>4 DEF AheadIn
  <2>5. QED
    BY <2>3, <2>4
<1>6. QED
  BY <1>4, <1>5

(* What was before the calls when the innermost one returns.                *)
LEMMA AheadPop ==
  ASSUME NEW s \in Seq(Frames), NEW p \in Paths, AheadIn(p, s),
         NEW o \in Seq(Frames), Len(o) = Len(s) - 1, \A i \in 1 .. Len(o) : o[i] = s[i],
         NEW r, r = IF o # <<>> THEN Advanced(o) ELSE o
  PROVE  \/ AheadIn(p, r)
         \/ Below(p, s[Len(s)].at) /\ Part(p, s[Len(s)].at) >= s[Len(s)].next
<1>1. Len(s) \in Nat /\ Len(o) \in Nat /\ Len(s) = Len(o) + 1
  OBVIOUS
<1>2. PICK i \in 1 .. Len(s) :
        /\ Below(p, s[i].at) /\ Part(p, s[i].at) >= s[i].next
        /\ i # Len(s) => Part(p, s[i].at) # s[i].next
  BY DEF AheadIn
<1>3. CASE i = Len(s)
  BY <1>2, <1>3
<1>4. CASE i # Len(s)
  <2>1. i \in 1 .. Len(o) /\ o # <<>>
    BY <1>1, <1>4
  <2>2. o[i] = s[i] /\ s[i] \in Frames
    BY <2>1
  <2>3. s[i].at \in Paths /\ s[i].next \in Nat
    BY <2>2 DEF Frames
  <2>4. Part(p, s[i].at) \in Nat
    BY <1>2, <2>3, BelowFacts
  <2>5. Part(p, s[i].at) >= s[i].next + 1
    BY <1>2, <1>4, <2>3, <2>4
  <2> DEFINE g == o[Len(o)]
  <2>6. Len(o) \in 1 .. Len(o) /\ g \in Frames
    BY <1>1, <2>1
  <2>7. r = [o EXCEPT ![Len(o)] = [g EXCEPT !.next = g.next + 1]]
    BY <2>1 DEF Advanced
  <2>8. [g EXCEPT !.next = g.next + 1].at = g.at /\ [g EXCEPT !.next = g.next + 1].next = g.next + 1
    BY <2>6 DEF Frames
  <2> DEFINE h == [g EXCEPT !.next = g.next + 1]
  <2> HIDE DEF h
  <2>9. /\ Len(r) = Len(o) /\ r[Len(o)] = h
        /\ \A j \in 1 .. Len(o) : j # Len(o) => r[j] = o[j]
    BY <2>6, <2>7 DEF h
  <2>10. h.at = g.at /\ h.next = g.next + 1
    BY <2>8 DEF h
  <2>11. CASE i = Len(o)
    <3>1. r[i].at = s[i].at /\ r[i].next = s[i].next + 1
      BY <2>2, <2>9, <2>10, <2>11
    <3>2. QED
      BY <1>2, <2>1, <2>5, <2>9, <2>11, <3>1 DEF AheadIn
  <2>12. CASE i # Len(o)
    BY <1>2, <1>4, <2>1, <2>2, <2>9, <2>12, SMTT(30) DEF AheadIn
  <2>13. QED
    BY <2>11, <2>12
<1>5. QED
  BY <1>3, <1>4

(* The repeated field that the first element will bring into being.         *)
Awaited(p) ==
  /\ stack # <<>> /\ phase = "dds2pb" /\ InCollection
  /\ Top.next = 1 /\ Top.size # 0 /\ p = Top.at

Done(p) ==
  \/ p \in DOMAIN Result
  \/ phase = "dds2pb" /\ Omitted(p)
  \/ phase = "pb2dds" /\ Superseded(p)

(* While nothing failed, what is not converted is still before a call.      *)
Covered ==
  Running /\ ok =>
    \A p \in DOMAIN Input : Done(p) \/ AheadIn(p, stack) \/ Awaited(p)

(* What a union drops belongs to another of its members than the one that  *)
(* is set.                                                                  *)
LEMMA DroppedIsSuperseded ==
  ASSUME TypeOK, Shape, stack # <<>>, Field \in DOMAIN message,
         NEW q \in Paths, q \in DOMAIN sample \ DOMAIN Selected
  PROVE  Superseded(q)
<1>1. /\ Top \in Frames /\ TopPath = Top.at /\ Here = Field /\ TypeAt(Top.at) = Top.type
  BY TopFacts DEF CallInv
<1>2. /\ KindOf(Top.type) = "UNION" /\ Inside(q, Top.at) /\ q # Top.at /\ ~Inside(q, Field)
  BY <1>1, SelectedFacts
<1> DEFINE at == Top.at
           k == Top.next
<1>3. at \in Seq(Nat) /\ k \in Nat /\ q \in Seq(Nat)
  BY <1>1 DEF Frames, Paths
<1>4. Field = Append(at, k)
  BY DEF Field
<1> HIDE DEF at, k
<1>5. /\ Len(at) \in Nat /\ Len(q) \in Nat /\ Len(q) >= Len(at)
      /\ \A i \in 1 .. Len(at) : q[i] = at[i]
  BY <1>2, <1>3 DEF Inside, at
<1>6. Len(q) # Len(at)
  <2> SUFFICES ASSUME Len(q) = Len(at) PROVE q = at
    BY <1>2 DEF at
  <2>1. QED
    BY <1>3, <1>5, SeqEqual
<1> DEFINE n == Len(at) + 1
<1>7. n \in 1 .. Len(q) /\ n - 1 = Len(at)
  BY <1>5, <1>6
<1>8. SubSeq(q, 1, n - 1) = at
  <2>1. SubSeq(q, 1, Len(at)) = at
    BY <1>3, <1>5
  <2>2. QED
    BY <1>7, <2>1
<1>9. Field # <<>> /\ Parent(Field) = at /\ Len(Field) = n /\ Field[n] = k
      /\ \A i \in 1 .. Len(at) : Field[i] = at[i]
  <2>1. Parent(Field) = at
    BY <1>3, <1>4, ParentAppend DEF Paths
  <2>2. \A a \in Seq(Nat), j \in Nat :
          /\ Append(a, j) # <<>> /\ Len(Append(a, j)) = Len(a) + 1
          /\ Append(a, j)[Len(a) + 1] = j
          /\ \A i \in 1 .. Len(a) : Append(a, j)[i] = a[i]
    OBVIOUS
  <2>3. QED
    BY <1>3, <1>4, <2>1, <2>2, Zenon
<1>10. q[n] # k
  <2> SUFFICES ASSUME q[n] = k PROVE Inside(q, Field)
    BY <1>2
  <2>1. \A i \in 1 .. n : i \in 1 .. Len(at) \/ i = n
    BY <1>5
  <2>2. \A i \in 1 .. n : q[i] = Field[i]
    BY <1>5, <1>9, <2>1
  <2>3. QED
    BY <1>5, <1>6, <1>9, <2>2 DEF Inside
<1> HIDE DEF n
<1>11. KindOf(TypeAt(at)) = "UNION"
  BY <1>1, <1>2 DEF at
<1>12. QED
  BY <1>7, <1>8, <1>9, <1>10, <1>11 DEF Superseded

(* What is done stays done.                                                 *)
LEMMA DoneStays ==
  ASSUME TypeOK, Shape, InputInv, Running, stack # <<>>, InputKept, UNCHANGED phase,
         UNCHANGED converted \/ (Field \in DOMAIN Input /\ \E v : Writes(v))
  PROVE  \A p \in DOMAIN Input : Done(p) => Done(p)'
<1>0. \A p \in DOMAIN Input : p \in Paths
  BY InputFacts DEF IsTree
<1>1. ASSUME NEW p \in DOMAIN Input, p \in DOMAIN Result
      PROVE  p \in DOMAIN (Result') \/ (phase = "pb2dds" /\ Superseded(p))
  <2>1. CASE UNCHANGED converted
    BY <1>1, <2>1 DEF Result, converted
  <2>2. CASE Field \in DOMAIN Input /\ \E v : Writes(v)
    <3>1. PICK v : Writes(v)
      BY <2>2
    <3>2. PICK old : old = Kept
      OBVIOUS
    <3>3. PICK new : new = Result'
      OBVIOUS
    <3>4. new = Put(old, Field, v) \/ new = Put(Put(old, Top.at, <<>>), Field, v)
      BY <3>1, <3>2, <3>3, WritesFacts
    <3>5. DOMAIN old \subseteq DOMAIN new
      BY <3>4 DEF Put
    <3>6. CASE p \in DOMAIN old
      BY <3>3, <3>5, <3>6
    <3>7. CASE p \notin DOMAIN old
      <4>1. phase = "pb2dds" /\ p \in DOMAIN sample \ DOMAIN Selected
        BY <1>1, <3>2, <3>7 DEF Kept, Result
      <4>2. Field \in DOMAIN message
        BY <2>2, <4>1 DEF Input
      <4>3. QED
        BY <1>0, <1>1, <4>1, <4>2, DroppedIsSuperseded
    <3>8. QED
      BY <3>6, <3>7
  <2>3. QED
    BY <2>1, <2>2
<1>2. ASSUME NEW p, phase = "dds2pb" PROVE Omitted(p)' <=> Omitted(p)
  BY <1>2 DEF Omitted, InputKept
<1>3. ASSUME NEW p, phase = "pb2dds" PROVE Superseded(p)' <=> Superseded(p)
  BY <1>3 DEF Superseded, InputKept
<1>4. QED
  BY <1>1, <1>2, <1>3 DEF Done

(* What is written is there, and so is the repeated field it was added to.  *)
LEMMA WrittenIsDone ==
  ASSUME TypeOK, Shape, stack # <<>>, NEW v, Writes(v)
  PROVE  /\ Field \in DOMAIN (Result')
         /\ phase = "dds2pb" /\ InCollection => Top.at \in DOMAIN (Result')
<1>1. PICK old : old = Kept
  OBVIOUS
<1>2. PICK new : new = Result'
  OBVIOUS
<1>3. new = IF phase # "pb2dds" /\ InCollection
            THEN Put(Put(old, Top.at, <<>>), Field, v) ELSE Put(old, Field, v)
  BY <1>1, <1>2, WritesFacts
<1>4. Field \in DOMAIN new /\ (phase = "dds2pb" /\ InCollection => Top.at \in DOMAIN new)
  BY <1>3 DEF Put
<1>5. QED
  BY <1>2, <1>4

(* The innermost call goes on after a leaf.                                 *)
LEMMA AdvancesCovers ==
  ASSUME Control, Covered, Advances
  PROVE  Covered'
<1>1. /\ TypeOK /\ Shape /\ InputInv /\ Running /\ stack # <<>> /\ InputKept /\ LeafDone
      /\ UNCHANGED <<phase, ok>>
  BY DEF Control, Advances
<1>2. Input' = Input /\ IsTree(Input)
  BY <1>1, InputStays, InputFacts
<1>3. /\ stack \in Seq(Frames) /\ Top \in Frames /\ Field \in Paths
      /\ Top.at \in Paths /\ Top.next \in Nat
  BY <1>1, TopFacts DEF Frames
<1>4. PICK len \in Nat : NextFrame(len)
  BY DEF Advances
<1> DEFINE f == [Top EXCEPT !.next = Top.next + 1, !.ddsValueLen = len]
<1>5. f \in Frames /\ f.at = Top.at /\ f.next = Top.next + 1
  <2>1. \A n \in Nat :
          /\ [Top EXCEPT !.next = n, !.ddsValueLen = len] \in Frames
          /\ [Top EXCEPT !.next = n, !.ddsValueLen = len].at = Top.at
          /\ [Top EXCEPT !.next = n, !.ddsValueLen = len].next = n
    BY <1>3 DEF Frames
  <2>2. Top.next + 1 \in Nat
    BY <1>3
  <2>3. QED
    BY <2>1, <2>2, Zenon
<1>6. stack' = [stack EXCEPT ![Len(stack)] = f]
  BY <1>4 DEF NextFrame
<1> HIDE DEF f
<1>7. \A p \in DOMAIN Input : Done(p) => Done(p)'
  BY <1>1, DoneStays DEF LeafDone
<1> SUFFICES ASSUME ok, NEW p \in DOMAIN Input
             PROVE  Done(p)' \/ AheadIn(p, stack')
  BY <1>1, <1>2 DEF Covered
<1>8. p \in Paths
  BY <1>2 DEF IsTree
<1>9. CASE Done(p)
  BY <1>7, <1>9
<1>10. CASE Awaited(p)
  <2>1. InCollection /\ phase = "dds2pb" /\ p = Top.at
    BY <1>10 DEF Awaited
  <2>2. \E v : Writes(v)
    BY <1>1, <2>1 DEF LeafDone
  <2>3. p \in DOMAIN (Result')
    BY <1>1, <2>1, <2>2, WrittenIsDone
  <2>4. QED
    BY <2>3 DEF Done
<1>11. CASE AheadIn(p, stack)
  <2>1. \/ AheadIn(p, stack')
        \/ Below(p, Top.at) /\ Part(p, Top.at) = Top.next
    BY <1>1, <1>3, <1>5, <1>6, <1>8, <1>11, AheadAdvance DEF Top
  <2>2. CASE Below(p, Top.at) /\ Part(p, Top.at) = Top.next
    <3>1. Field \in DOMAIN Input
      BY <1>2, <1>3, <2>2, BelowTree DEF Field
    <3>2. p = Field \/ Below(p, Field)
      BY <1>3, <1>8, <2>2, BelowFacts DEF Field
    <3>3. ~Below(p, Field)
      BY <1>1, <1>2, <1>3, <3>1, BelowTree DEF LeafDone
    <3>4. CASE phase = "dds2pb" /\ Omitted(Field) /\ UNCHANGED converted
      BY <1>7, <3>2, <3>3, <3>4 DEF Done
    <3>5. CASE \E v : Writes(v)
      BY <1>1, <3>2, <3>3, <3>5, WrittenIsDone DEF Done
    <3>6. QED
      BY <1>1, <3>1, <3>4, <3>5 DEF LeafDone
  <2>3. QED
    BY <2>1, <2>2
<1>12. QED
  BY <1>1, <1>9, <1>10, <1>11 DEF Covered

(* A call begins for the part the innermost one is at.                      *)
LEMMA EntersCovers ==
  ASSUME Control, Covered, Enters
  PROVE  Covered'
<1>1. /\ TypeOK /\ Shape /\ InputInv /\ Running /\ stack # <<>> /\ InputKept
      /\ UNCHANGED <<phase, ok>>
  BY DEF Control, Enters
<1>2. Input' = Input /\ IsTree(Input)
  BY <1>1, InputStays, InputFacts
<1>3. stack \in Seq(Frames) /\ Field \in Paths
  BY <1>1, TopFacts
<1>4. PICK t \in Types, size \in Nat : EntersPart(t, size)
  BY DEF Enters
<1> DEFINE f == Frame(t, Field, size)
<1>5. /\ f \in Frames /\ f.at = Field /\ f.next = 1 /\ f.type = t /\ f.size = size
  BY <1>3 DEF Frame, Frames
<1>6. stack' = Append(stack, f)
  BY <1>4 DEF EntersPart
<1> HIDE DEF f
<1>7. \/ Writes(<<>>)
      \/ /\ ~InCollection /\ phase = "dds2pb" /\ KindOf(t) \in CollectionKinds /\ size # 0
         /\ UNCHANGED converted
  BY <1>4 DEF EntersPart
<1>8. \A p \in DOMAIN Input : Done(p) => Done(p)'
  BY <1>1, <1>4, <1>7, DoneStays DEF EntersPart
<1>9. Len(stack') = Len(stack) + 1 /\ stack'[Len(stack')] = f /\ stack' # <<>>
  BY <1>3, <1>5, <1>6
<1> SUFFICES ASSUME ok, NEW p \in DOMAIN Input
             PROVE  Done(p)' \/ AheadIn(p, stack') \/ Awaited(p)'
  BY <1>1, <1>2 DEF Covered
<1>10. p \in Paths
  BY <1>2 DEF IsTree
<1>11. CASE Done(p)
  BY <1>8, <1>11
<1>12. CASE Awaited(p)
  <2>1. InCollection /\ phase = "dds2pb" /\ p = Top.at
    BY <1>12 DEF Awaited
  <2>2. p \in DOMAIN (Result')
    BY <1>1, <1>7, <2>1, WrittenIsDone
  <2>3. QED
    BY <2>2 DEF Done
<1>13. CASE AheadIn(p, stack)
  <2>1. \/ AheadIn(p, stack') \/ p = Field
        \/ Below(p, Field) /\ ~(Part(p, Field) >= 1)
    <3>1. f.at = Append(stack[Len(stack)].at, stack[Len(stack)].next)
      BY <1>5 DEF Field, Top
    <3>2. \/ AheadIn(p, stack') \/ p = f.at
          \/ Below(p, f.at) /\ ~(Part(p, f.at) >= 1)
      BY <1>1, <1>3, <1>5, <1>6, <1>10, <1>13, <3>1, AheadPush
    <3>3. QED
      BY <1>5, <3>2
  <2>2. ~(Below(p, Field) /\ ~(Part(p, Field) >= 1))
    BY <1>2, <1>3, BelowTree
  <2>3. CASE p = Field
    <3>1. CASE Writes(<<>>)
      BY <1>1, <2>3, <3>1, WrittenIsDone DEF Done
    <3>2. CASE phase = "dds2pb" /\ KindOf(t) \in CollectionKinds /\ size # 0
      <4>1. Awaited(p)'
        BY <1>1, <1>5, <1>9, <2>3, <3>2 DEF Awaited, InCollection, Top
      <4>2. QED
        BY <4>1
    <3>3. QED
      BY <1>7, <3>1, <3>2
  <2>4. QED
    BY <2>1, <2>2, <2>3
<1>14. QED
  BY <1>1, <1>11, <1>12, <1>13 DEF Covered

(* A call that went through all its parts returns.                          *)
LEMMA ReturnCovers ==
  ASSUME Control, Covered, Return
  PROVE  Covered'
<1> DEFINE outer == SubSeq(stack, 1, Len(stack) - 1)
<1>1. /\ TypeOK /\ Shape /\ InputInv /\ Running /\ stack # <<>>
      /\ ~ok \/ Top.next > Top.size
      /\ stack' = IF ok /\ outer # <<>> THEN Advanced(outer) ELSE outer
      /\ UNCHANGED <<phase, converted, ok>>
  BY DEF Control, Return, Running
<1>2. stack \in Seq(Frames) /\ Top \in Frames /\ CallInv(Top)
  BY <1>1, TopFacts
<1>3. outer = SubSeq(stack, 1, Len(stack) - 1)
  OBVIOUS
<1>4. stack' = IF ok /\ outer # <<>> THEN Advanced(outer) ELSE outer
  BY <1>1
<1> HIDE DEF outer
<1>5. /\ outer \in Seq(Frames) /\ Len(outer) = Len(stack) - 1
      /\ \A i \in 1 .. Len(outer) : outer[i] = stack[i]
  BY <1>1, <1>2, <1>3, OuterCalls
<1>7. InputKept
  BY <1>1 DEF InputKept, converted
<1>8. Input' = Input /\ IsTree(Input)
  BY <1>1, <1>7, InputStays, InputFacts
<1>9. \A p \in DOMAIN Input : Done(p) => Done(p)'
  BY <1>1, <1>7, DoneStays
<1> SUFFICES ASSUME ok, NEW p \in DOMAIN Input
             PROVE  Done(p)' \/ AheadIn(p, stack')
  BY <1>1, <1>8 DEF Covered
<1>10. /\ p \in Paths /\ Top.at \in Paths /\ Top.next \in Nat /\ Top.size \in Nat
       /\ Top.next > Top.size /\ Top.next # 0
  BY <1>1, <1>2, <1>8 DEF IsTree, Frames, CallInv
<1>11. CASE Done(p)
  BY <1>9, <1>11
<1>12. ~Awaited(p)
  BY <1>10 DEF Awaited
<1>13. CASE AheadIn(p, stack)
  <2>1. stack' = IF outer # <<>> THEN Advanced(outer) ELSE outer
    BY <1>4, Zenon
  <2>2. \/ AheadIn(p, stack')
        \/ Below(p, Top.at) /\ Part(p, Top.at) >= Top.next
    BY <1>2, <1>5, <1>10, <1>13, <2>1, AheadPop DEF Top
  <2>3. ~(Below(p, Top.at) /\ Part(p, Top.at) >= Top.next)
    <3> SUFFICES ASSUME Below(p, Top.at), Part(p, Top.at) >= Top.next PROVE FALSE
      OBVIOUS
    <3>1. /\ Part(p, Top.at) \in Nat
          /\ Part(p, Top.at) <= IF KindOf(TypeAt(Top.at)) \in StructKinds
                                THEN Len(Schema[TypeAt(Top.at)].members) ELSE Size(Input, Top.at)
      BY <1>8, <1>10, BelowTree
    <3>2. TypeAt(Top.at) = Top.type /\ (InCollection => Top.size = Size(Input, Top.at))
      BY <1>1, InputFacts
    <3>3. (IF KindOf(TypeAt(Top.at)) \in StructKinds
           THEN Len(Schema[TypeAt(Top.at)].members) ELSE Size(Input, Top.at)) = Top.size
      BY <1>2, <3>2 DEF CallInv, HasParts, InCollection
    <3>4. QED
      BY <1>10, <3>1, <3>3
  <2>4. QED
    BY <2>2, <2>3
<1>14. QED
  BY <1>1, <1>11, <1>12, <1>13 DEF Covered

(* A conversion starts with everything before the call for the root.        *)
LEMMA StartCovers ==
  ASSUME \/ phase' = "dds2pb" /\ sample' \in Samples /\ message' = Empty
         \/ phase' = "pb2dds" /\ message' \in Messages /\ sample' = Empty,
         ok' => stack' = <<Frame(Root, <<>>, Len(Schema[Root].members))>>
  PROVE  Covered'
<1> SUFFICES ASSUME ok', NEW p \in DOMAIN (Input')
             PROVE  Done(p)' \/ AheadIn(p, stack')
  BY DEF Covered
<1>1. PICK d : d = Input'
  OBVIOUS
<1>2. IsTree(d)
  BY <1>1, DataAssumption DEF Input, IsSample, IsMessage
<1>3. p \in DOMAIN d /\ p \in Paths /\ <<>> \in Paths
  BY <1>1, <1>2 DEF IsTree, Paths
<1>4. CASE p = <<>>
  <2>1. Result' = Empty /\ DOMAIN Empty = {<<>>}
    BY DEF Result, Empty
  <2>2. QED
    BY <1>4, <2>1 DEF Done
<1>5. CASE p # <<>>
  <2>1. Below(p, <<>>)
    BY <1>3, <1>5 DEF Below, Paths
  <2>2. Part(p, <<>>) \in Nat /\ Part(p, <<>>) >= 1
    BY <1>2, <1>3, <2>1, BelowTree
  <2> DEFINE f == Frame(Root, <<>>, Len(Schema[Root].members))
  <2>3. f.at = <<>> /\ f.next = 1
    BY DEF Frame
  <2>4. stack' = <<f>>
    OBVIOUS
  <2> HIDE DEF f
  <2>5. Len(stack') = 1 /\ stack'[1] = f /\ 1 \in 1 .. Len(stack')
    BY <2>4
  <2>6. QED
    BY <2>1, <2>2, <2>3, <2>5 DEF AheadIn
<1>6. QED
  BY <1>4, <1>5

(* Nothing but a step of the program changes what is covered.               *)
LEMMA StutterCovers == Covered /\ UNCHANGED vars => Covered'
  BY DEF Covered, vars, Running, Input, Done, Result, Omitted, Superseded, Awaited,
         InCollection, Top

(* When the calls are over nothing is before them.                          *)
LEMMA CoveredAtEnd == Covered => NothingLeftOut
<1> SUFFICES ASSUME Covered, stack = <<>>, ok
             PROVE  /\ phase = "dds2pb" =>
                         \A p \in DOMAIN sample : p \in DOMAIN message \/ Omitted(p)
                    /\ phase = "pb2dds" =>
                         \A p \in DOMAIN message : p \in DOMAIN sample \/ Superseded(p)
  BY DEF NothingLeftOut
<1>1. \A p : ~AheadIn(p, stack) /\ ~Awaited(p)
  <2>1. 1 .. Len(stack) = {}
    OBVIOUS
  <2>2. QED
    BY <2>1 DEF AheadIn, Awaited
<1>2. Running => \A p \in DOMAIN Input : Done(p)
  BY <1>1 DEF Covered
<1>3. QED
  BY <1>2 DEF Running, Input, Done, Result

-----------------------------------------------------------------------------
(* The theorems.                                                            *)

IInv == Control /\ Foreign /\ Covered

(* The inductive invariant holds: the calls in progress have the bound      *)
(* objects that no unbinding has left, descend through the input, write     *)
(* what is there, and have before them all that is not converted yet.       *)
THEOREM Invariance == Spec => []IInv
<1>1. Init => IInv
  BY InitControl DEF Init, IInv, Foreign, Covered, Running
<1>2. IInv /\ [Next]_vars => IInv'
  <2> SUFFICES ASSUME Control, Foreign, Covered, [Next]_vars
               PROVE  Control' /\ Foreign' /\ Covered'
    BY DEF IInv
  <2>1. CASE DdsToProtobuf \/ ProtobufToDds \/ LibraryFails
    <3>1. Fails \/ Aborts \/ Advances \/ Enters
      BY <2>1, WorkShape DEF Control
    <3>2. Control'
      BY <3>1, FailsKeeps, AbortsKeeps, AdvancesKeeps, EntersKeeps
    <3>3. Foreign'
      BY <3>1, WorkKeepsForeign
    <3>4. Covered'
      <4>1. CASE Fails
        BY <4>1 DEF Fails, Covered
      <4>2. CASE Aborts
        BY <4>2 DEF Aborts, Covered, Running
      <4>3. QED
        BY <3>1, <4>1, <4>2, AdvancesCovers, EntersCovers
    <3>5. QED
      BY <3>2, <3>3, <3>4
  <2>2. CASE Return
    BY <2>2, ReturnKeeps, ReturnCovers, SameResultKeepsForeign DEF Return
  <2>3. CASE Finish
    <3>1. Foreign' /\ Covered'
      BY <2>3 DEF Finish, Foreign, Covered, Running
    <3>2. QED
      BY <2>3, <3>1, FinishKeeps
  <2>4. ASSUME NEW files \in DescriptorSets, Construct(files)
        PROVE  Control' /\ Foreign' /\ Covered'
    <3>1. Foreign' /\ Covered'
      BY <2>4 DEF Construct, Foreign, Covered, Running
    <3>2. QED
      BY <2>4, <3>1, ConstructKeeps
  <2>5. ASSUME NEW s \in Samples, Serialize(s)
        PROVE  Control' /\ Foreign' /\ Covered'
    <3>1. Foreign' /\ Covered'
      BY <2>5, StartIsNotForeign, StartCovers DEF Serialize
    <3>2. QED
      BY <2>5, <3>1, SerializeKeeps
  <2>6. ASSUME NEW m \in Messages, Deserialize(m)
        PROVE  Control' /\ Foreign' /\ Covered'
    <3>1. Foreign' /\ Covered'
      BY <2>6, StartIsNotForeign, StartCovers DEF Deserialize
    <3>2. QED
      BY <2>6, <3>1, DeserializeKeeps
  <2>7. CASE UNCHANGED vars
    BY <2>7, StutterControl, StutterCovers, SameResultKeepsForeign DEF vars, converted
  <2>8. QED
    BY <2>1, <2>2, <2>3, <2>4, <2>5, <2>6, <2>7 DEF Next, Step
<1>3. QED
  BY <1>1, <1>2, PTL DEF Spec

(* Type correctness: the calls, the objects and their bindings, the buffer  *)
(* and the outcome always have their types, failed only with a reason.      *)
THEOREM TypeCorrect == Spec => []TypeOK
<1>1. IInv => TypeOK
  BY DEF IInv, Control
<1>2. QED
  BY <1>1, Invariance, PTL

(* An object is bound exactly while the call it was bound for runs, or for  *)
(* good when its unbinding failed: the scope exits try to unbind all of     *)
(* them, after a failure half-way as well.                                  *)
THEOREM BindingsFollow == Spec => []BindingsFollowCalls
<1>1. IInv => BindingsFollowCalls
  BY DEF IInv, Control, Shape
<1>2. QED
  BY <1>1, Invariance, PTL

(* One object per type is enough: types do not contain themselves, so that  *)
(* bind_complex_member() meets an object or a parent in use only after an   *)
(* unbinding has failed.                                                    *)
THEOREM OneObjectPerType == Spec => []BindNeverRefused
<1>1. IInv => BindNeverRefused
  BY DEF IInv, Control
<1>2. QED
  BY <1>1, Invariance, PTL

(* get_string() is never told of more room than the buffer has, though a    *)
(* loop over strings offers what the element before needed.                 *)
THEOREM HonestCapacity == Spec => []CapacityHonest
<1>1. IInv => CapacityHonest
  BY DEF IInv, Control, BufferInv
<1>2. QED
  BY <1>1, Invariance, PTL

(* What a conversion wrote is what its input has there, in both directions, *)
(* for every schema, sample, message and failure.                           *)
THEOREM NothingForeignWritten == Spec => []NothingForeign
<1>1. IInv => NothingForeign
  BY ForeignIsNothingForeign DEF IInv
<1>2. QED
  BY <1>1, Invariance, PTL

(* A conversion that reports success left nothing out but collections       *)
(* without elements and what a union cannot hold besides another member, in *)
(* both directions and for every schema.                                    *)
THEOREM NothingIsLeftOut == Spec => []NothingLeftOut
<1>1. IInv => NothingLeftOut
  BY CoveredAtEnd DEF IInv
<1>2. QED
  BY <1>1, Invariance, PTL

============================================================================
