-------------------- MODULE TransformationPlugin_proof --------------------
(***************************************************************************)
(* Proofs about TransformationPlugin for every set of transformations and   *)
(* every set of failing stages: what each resource's two counters are,      *)
(* given the outcome of the transformation's creation and whether it is     *)
(* registered.                                                              *)
(***************************************************************************)
EXTENDS TransformationPlugin, SequenceTheorems, TLAPS

Registered(t) == \E i \in 1 .. Len(transforms) : transforms[i] = t

(* The stages whose failure leaves the type support behind.                 *)
LeakingStages == {"validate", "buffers", "message_type", "converter"}
Kept(t, p) == p = "tsupport" /\ outcome[t] \in LeakingStages

(* Every entry of the registry is a transformation that was created, once.  *)
RegistryInv ==
  /\ \A i, j \in 1 .. Len(transforms) : i # j => transforms[i] # transforms[j]
  /\ \A i \in 1 .. Len(transforms) : outcome[transforms[i]] = "ok"

(* The counters of part p of transformation t.                              *)
PartInv(t, p) ==
  /\ allocs[<<t, p>>] \in 0 .. 1 /\ frees[<<t, p>>] \in 0 .. 1
  /\ outcome[t] = "none" => allocs[<<t, p>>] = 0 /\ frees[<<t, p>>] = 0
  /\ outcome[t] = "ok" =>
       allocs[<<t, p>>] = 1 /\ frees[<<t, p>>] = IF Registered(t) THEN 0 ELSE 1
  /\ outcome[t] \notin {"none", "ok"} =>
       IF Kept(t, p) THEN allocs[<<t, p>>] = 1 /\ frees[<<t, p>>] = 0
       ELSE frees[<<t, p>>] = allocs[<<t, p>>]

PartsInv == \A t \in Transforms, p \in TransformParts : PartInv(t, p)

(* The counters of the plugin's own parts.                                  *)
PluginInv ==
  /\ plugin \in {"none", "unready"} => transforms = <<>>
  /\ \A r \in PluginParts :
       /\ allocs[r] \in 0 .. 1 /\ frees[r] \in 0 .. 2
       /\ plugin = "none" => allocs[r] = 0 /\ frees[r] = 0
       /\ plugin \in {"live", "crashed"} => allocs[r] = 1 /\ frees[r] = 0
       /\ plugin = "gone" =>
            frees[r] <= allocs[r] /\ (transforms = <<>> => frees[r] = allocs[r])
       /\ plugin = "unready" =>
            frees[r] = allocs[r] + IF r = <<"plugin", "user_plugin">> THEN 1 ELSE 0

IInv == TypeOK /\ RegistryInv /\ PartsInv /\ PluginInv

-----------------------------------------------------------------------------
(* Parts and stages.                                                        *)

(* The resources of the plugin and those of the transformations are apart.  *)
LEMMA ResourceCases ==
  /\ \A r \in Resources :
       r \in PluginParts \/ \E t \in Transforms, p \in TransformParts : r = <<t, p>>
  /\ \A t \in Transforms, p \in TransformParts :
       <<t, p>> \in Resources /\ <<t, p>> \notin PluginParts
  /\ PluginParts \subseteq Resources
BY TransformsAssumption DEF Resources, PluginParts

(* A part of the plugin is no part of a transformation.                     *)
LEMMA PartsApart ==
  ASSUME NEW t \in Transforms, NEW r \in PluginParts
  PROVE  r \in Resources /\ r \notin {t} \X TransformParts
BY TransformsAssumption DEF Resources, PluginParts

(* The stages of the table, one by one.                                     *)
LEMMA StageValues ==
  /\ DOMAIN TransformStages = 1 .. 12
  /\ TransformStages[1] = "self" /\ TransformStages[2] = "state"
  /\ TransformStages[3] = "config" /\ TransformStages[4] = "input_type"
  /\ TransformStages[5] = "output_type" /\ TransformStages[6] = "parse"
  /\ TransformStages[7] = "base" /\ TransformStages[8] = "validate"
  /\ TransformStages[9] = "buffers" /\ TransformStages[10] = "message_type"
  /\ TransformStages[11] = "converter" /\ TransformStages[12] = "register"
BY DEF TransformStages

(* The stages are the twelve strings of the table.                          *)
LEMMA StageNames ==
  Range(TransformStages) =
    {"self", "state", "config", "input_type", "output_type", "parse", "base",
     "validate", "buffers", "message_type", "converter", "register"}
<1>1. \A i \in 1 .. 12 : i \in {1, 2, 3, 4, 5, 6, 7, 8, 9, 10, 11, 12}
  OBVIOUS
<1>2. QED
  BY <1>1, StageValues DEF Range

(* The type support is there before a stage that comes after "base".        *)
LEMMA TypeSupportBefore ==
  ASSUME NEW t, NEW stage \in Range(TransformStages)
  PROVE  <<t, "tsupport">> \in AllocatedBefore(t, stage)
           <=> stage \in LeakingStages \cup {"register"}
<1>1. \A i \in 1 .. 12 : "tsupport" \in NewParts(TransformStages[i]) <=> i = 7
  <2>1. \A i \in 1 .. 12 : TransformStages[i] = "base" <=> i = 7
    BY StageValues
  <2>2. \A i \in 1 .. 12 : TransformStages[i] # "tsupport"
    BY StageValues
  <2>3. QED
    BY <2>1, <2>2 DEF NewParts
<1>2. (\A j \in 1 .. 7 : TransformStages[j] # stage)
        <=> stage \in LeakingStages \cup {"register"}
  BY StageValues, StageNames DEF LeakingStages
<1>3. QED
  BY <1>1, <1>2, StageValues DEF AllocatedBefore

(* Before "register" every part is there.                                   *)
LEMMA AllBeforeRegister ==
  ASSUME NEW t
  PROVE  {t} \X TransformParts \subseteq AllocatedBefore(t, "register")
<1>1. \A i \in 1 .. 11 : \A j \in 1 .. i : TransformStages[j] # "register"
  BY StageValues
<1>2. \A p \in TransformParts : \E i \in 1 .. 11 : p \in NewParts(TransformStages[i])
  <2> DEFINE In(p, i) == p \in NewParts(TransformStages[i])
  <2>1. In("self", 1) /\ In("state", 2) /\ In("config", 3) /\ In("input_type", 4)
    BY StageValues DEF NewParts, TransformParts, ConfigParts, StateParts
  <2>2. In("output_type", 5) /\ In("tsupport", 7) /\ In("pb_buffer", 9)
    BY StageValues DEF NewParts, TransformParts, ConfigParts, StateParts
  <2>3. In("message_type", 10) /\ In("converter", 11)
    BY StageValues DEF NewParts, TransformParts, ConfigParts, StateParts
  <2> HIDE DEF In
  <2>4. \A p \in TransformParts : \E i \in 1 .. 11 : In(p, i)
    BY <2>1, <2>2, <2>3 DEF TransformParts, ConfigParts, StateParts
  <2>5. QED
    BY <2>4 DEF In
<1>3. QED
  BY <1>1, <1>2, StageValues DEF AllocatedBefore

(* Only parts of t are allocated by its creation.                           *)
LEMMA AllocatedParts ==
  ASSUME NEW t, NEW stage
  PROVE  AllocatedBefore(t, stage) \subseteq {t} \X TransformParts
<1>1. \A s : NewParts(s) \subseteq TransformParts
  BY DEF NewParts, TransformParts, StateParts
<1>2. QED
  BY <1>1 DEF AllocatedBefore

(* What a failing creation frees it has allocated, and it frees everything  *)
(* but the type support, which stays after the stages from "validate" to    *)
(* "converter".                                                             *)
LEMMA FailureFrees ==
  ASSUME NEW t, NEW stage \in Range(TransformStages), NEW p \in TransformParts
  PROVE  /\ FreedByFailure(t, stage) \subseteq AllocatedBefore(t, stage)
         /\ IF p = "tsupport" /\ stage \in LeakingStages
            THEN <<t, p>> \in AllocatedBefore(t, stage) \ FreedByFailure(t, stage)
            ELSE <<t, p>> \in AllocatedBefore(t, stage) <=> <<t, p>> \in FreedByFailure(t, stage)
<1>1. CASE stage = "register"
  BY <1>1, AllBeforeRegister, AllocatedParts DEF FreedByFailure, DeletedByT, LeakingStages
<1>2. CASE stage # "register"
  <2>1. p # "tsupport" => <<t, p>> \in {t} \X (ConfigParts \cup StateParts \cup {"self"})
    BY DEF TransformParts
  <2>2. "tsupport" \notin ConfigParts \cup StateParts \cup {"self"}
    BY DEF ConfigParts, StateParts
  <2>3. QED
    BY <1>2, <2>1, <2>2, TypeSupportBefore DEF FreedByFailure
<1>3. QED
  BY <1>1, <1>2
-----------------------------------------------------------------------------
(* The registry.                                                            *)

(* The registered transformations are the range of the sequence.            *)
LEMMA RangeIsRegistered ==
  ASSUME TypeOK, NEW t
  PROVE  t \in Range(transforms) <=> Registered(t)
BY DEF TypeOK, Range, Registered

(* finalize_transformation takes out t and nothing else, and the others     *)
(* stay apart.                                                              *)
LEMMA RemovedEntries ==
  ASSUME TypeOK, RegistryInv, NEW t \in Transforms, Registered(t), transforms' = Removed(t)
  PROVE  /\ transforms' \in Seq(Transforms)
         /\ \A i, j \in 1 .. Len(transforms') : i # j => transforms'[i] # transforms'[j]
         /\ \A u : Registered(u)' <=> Registered(u) /\ u # t
<1> DEFINE k == IndexOf(t)
<1> DEFINE n == Len(transforms)
<1>1. n \in Nat /\ \A i \in 1 .. n : transforms[i] \in Transforms
  BY DEF TypeOK
<1>2. k \in 1 .. n /\ transforms[k] = t
  BY DEF Registered, IndexOf
<1>3. n - 1 \in Nat
  BY <1>1, <1>2
<1> HIDE DEF k
<1>4. transforms' = [i \in 1 .. n - 1 |-> IF i < k THEN transforms[i] ELSE transforms[i + 1]]
  BY DEF Removed, k
<1>5. /\ transforms' \in Seq(Transforms) /\ Len(transforms') = n - 1
      /\ \A i \in 1 .. n - 1 : transforms'[i] = transforms[IF i < k THEN i ELSE i + 1]
  BY <1>1, <1>2, <1>3, <1>4
<1> HIDE DEF n
<1>6. \A i, j \in 1 .. n : i # j => transforms[i] # transforms[j]
  BY DEF RegistryInv, n
<1>7. \A i, j \in 1 .. Len(transforms') : i # j => transforms'[i] # transforms'[j]
  BY <1>1, <1>2, <1>3, <1>5, <1>6
<1>8. ASSUME NEW u PROVE Registered(u)' <=> Registered(u) /\ u # t
  <2>1. ASSUME Registered(u)' PROVE Registered(u) /\ u # t
    <3>1. PICK i \in 1 .. n - 1 : transforms'[i] = u
      BY <2>1, <1>5 DEF Registered
    <3>2. CASE i < k
      BY <3>1, <3>2, <1>1, <1>2, <1>5, <1>6 DEF Registered, n
    <3>3. CASE i >= k
      BY <3>1, <3>3, <1>1, <1>2, <1>5, <1>6 DEF Registered, n
    <3>4. QED
      BY <3>2, <3>3, <1>1, <1>2
  <2>2. ASSUME Registered(u), u # t PROVE Registered(u)'
    <3>1. PICK i \in 1 .. n : transforms[i] = u
      BY <2>2 DEF Registered, n
    <3>2. CASE i < k
      BY <3>1, <3>2, <1>1, <1>2, <1>5 DEF Registered
    <3>3. CASE i > k
      <4>1. i - 1 \in 1 .. n - 1 /\ transforms'[i - 1] = u
        BY <3>1, <3>3, <1>1, <1>2, <1>5
      <4>2. QED
        BY <4>1, <1>5 DEF Registered
    <3>4. QED
      BY <2>2, <3>1, <3>2, <3>3, <1>1, <1>2
  <2>3. QED
    BY <2>1, <2>2
<1>9. QED
  BY <1>5, <1>7, <1>8

-----------------------------------------------------------------------------
(* Before anything is created the invariant holds.                          *)
LEMMA InitIInv == Init => IInv
<1> SUFFICES ASSUME Init PROVE IInv
  OBVIOUS
<1>1. TypeOK
  BY DEF Init, TypeOK
<1>2. RegistryInv /\ PluginInv
  BY ResourceCases DEF Init, RegistryInv, PluginInv
<1>3. ASSUME NEW t \in Transforms, NEW p \in TransformParts PROVE PartInv(t, p)
  <2>1. outcome[t] = "none" /\ allocs[<<t, p>>] = 0 /\ frees[<<t, p>>] = 0
    BY ResourceCases DEF Init
  <2>2. QED
    BY <2>1 DEF PartInv
<1>4. QED
  BY <1>1, <1>2, <1>3 DEF IInv, PartsInv

(* A step that leaves the transformations alone keeps what is known of      *)
(* them.                                                                    *)
LEMMA TransformsUntouched ==
  ASSUME TypeOK, RegistryInv, PartsInv, UNCHANGED <<transforms, outcome>>,
         \A t \in Transforms, p \in TransformParts :
           allocs'[<<t, p>>] = allocs[<<t, p>>] /\ frees'[<<t, p>>] = frees[<<t, p>>]
  PROVE  RegistryInv' /\ PartsInv'
<1>1. RegistryInv'
  BY DEF RegistryInv
<1>2. ASSUME NEW t \in Transforms, NEW p \in TransformParts PROVE PartInv(t, p)'
  <2>1. PartInv(t, p)
    BY DEF PartsInv
  <2>2. QED
    BY <2>1 DEF PartInv, Kept, Registered
<1>3. QED
  BY <1>1, <1>2 DEF PartsInv

(* The counters are typed, by what the two invariants say of each.          *)
LEMMA CountersTyped ==
  ASSUME PartsInv', PluginInv',
         allocs' = [r \in Resources |-> allocs'[r]], frees' = [r \in Resources |-> frees'[r]]
  PROVE  allocs' \in [Resources -> 0 .. 1] /\ frees' \in [Resources -> 0 .. 2]
<1>1. ASSUME NEW r \in Resources PROVE allocs'[r] \in 0 .. 1 /\ frees'[r] \in 0 .. 2
  <2>1. CASE r \in PluginParts
    BY <2>1 DEF PluginInv
  <2>2. ASSUME NEW t \in Transforms, NEW p \in TransformParts, r = <<t, p>>
        PROVE  allocs'[r] \in 0 .. 1 /\ frees'[r] \in 0 .. 2
    <3>1. PartInv(t, p)'
      BY DEF PartsInv
    <3>2. QED
      BY <2>2, <3>1 DEF PartInv
  <2>3. QED
    BY <2>1, <2>2, ResourceCases
<1>2. QED
  BY <1>1

(* Creating the plugin, with success or not, and deleting it.               *)
LEMMA PluginSteps ==
  ASSUME IInv, PluginCreate \/ PluginCreateFails \/ PluginDelete
  PROVE  IInv'
<1> USE DEF IInv
<1> DEFINE Self == <<"plugin", "self">>
<1> DEFINE User == <<"plugin", "user_plugin">>
<1>0. /\ Self \in PluginParts /\ User \in PluginParts /\ Self # User
      /\ \A t \in Transforms, p \in TransformParts : <<t, p>> # Self /\ <<t, p>> # User
  BY ResourceCases DEF PluginParts
<1>1. UNCHANGED <<transforms, outcome>>
  BY DEF PluginCreate, PluginCreateFails, PluginDelete
<1> SUFFICES /\ plugin' \in {"none", "live", "gone", "unready", "crashed"} /\ PluginInv'
             /\ allocs' = [r \in Resources |-> allocs'[r]]
             /\ frees' = [r \in Resources |-> frees'[r]]
             /\ \A t \in Transforms, p \in TransformParts :
                  allocs'[<<t, p>>] = allocs[<<t, p>>] /\ frees'[<<t, p>>] = frees[<<t, p>>]
  BY <1>1, TransformsUntouched, CountersTyped DEF TypeOK
<1> USE ResourceCases, <1>0, <1>1
<1>2. CASE PluginCreate
  BY <1>2 DEF PluginCreate, PluginInv, Allocate, TypeOK
<1>3. CASE PluginDelete
  <2>1. /\ plugin = "live" /\ plugin' = "gone" /\ UNCHANGED allocs
        /\ Free({Self} \cup FinalizePlugin)
    BY <1>3 DEF PluginDelete
  <2>2. FinalizePlugin \subseteq PluginParts
    BY DEF FinalizePlugin
  <2>3. transforms = <<>> => {Self} \cup FinalizePlugin = PluginParts
    BY DEF FinalizePlugin
  <2>4. QED
    BY <2>1, <2>2, <2>3, SMTT(30) DEF PluginInv, Free, TypeOK
<1>4. CASE PluginCreateFails
  <2>0. plugin = "none"
    BY <1>4 DEF PluginCreateFails
  <2>1. CASE plugin' = "gone" /\ UNCHANGED <<allocs, frees>>
    BY <2>0, <2>1 DEF PluginInv, TypeOK
  <2>2. CASE plugin' = "gone" /\ Allocate({Self}) /\ Free({Self})
    BY <2>0, <2>2 DEF PluginInv, Allocate, Free, TypeOK
  <2>3. CASE /\ plugin' = "unready" /\ Allocate({Self, User})
             /\ frees' = [frees EXCEPT ![User] = @ + 2, ![Self] = @ + 1]
    <3>1. \A r \in Resources : frees'[r] = IF r = User THEN frees[r] + 2
                                         ELSE IF r = Self THEN frees[r] + 1 ELSE frees[r]
      BY <2>3 DEF TypeOK
    <3>2. frees' = [r \in Resources |-> frees'[r]]
      BY <2>3 DEF TypeOK
    <3>3. \A r \in Resources :
            allocs'[r] = IF r = User \/ r = Self THEN allocs[r] + 1 ELSE allocs[r]
      BY <2>3 DEF Allocate, TypeOK
    <3>4. allocs' = [r \in Resources |-> allocs'[r]]
      BY <2>3 DEF Allocate
    <3> HIDE DEF User, Self
    <3>5. ASSUME NEW r \in PluginParts
          PROVE  /\ allocs'[r] \in 0 .. 1 /\ frees'[r] \in 0 .. 2
                 /\ frees'[r] = allocs'[r] + IF r = User THEN 1 ELSE 0
      BY <2>0, <3>1, <3>3 DEF PluginInv
    <3>6. PluginInv'
      BY <2>0, <2>3, <3>5 DEF PluginInv, User
    <3>7. QED
      BY <2>3, <3>1, <3>2, <3>3, <3>4, <3>6, ZenonT(30) DEF TypeOK
  <2>4. QED
    BY <1>4, <2>1, <2>2, <2>3 DEF PluginCreateFails
<1>5. QED
  BY <1>2, <1>3, <1>4

(* A step that leaves the plugin alone keeps what is known of it, provided  *)
(* the registry is empty only if it was or the plugin is live.              *)
LEMMA PluginUntouched ==
  ASSUME TypeOK, PluginInv, plugin = "live", plugin' \in {"live", "crashed"},
         \A r \in PluginParts : allocs'[r] = allocs[r] /\ frees'[r] = frees[r]
  PROVE  PluginInv'
BY DEF PluginInv

(* A transformation is created and registered.                              *)
LEMMA CreateStep ==
  ASSUME IInv, NEW t \in Transforms, CreateTransformation(t)
  PROVE  IInv'
<1> USE DEF IInv
<1>1. /\ plugin = "live" /\ outcome[t] = "none" /\ UNCHANGED <<plugin, frees>>
      /\ transforms' = Append(transforms, t)
      /\ outcome' = [outcome EXCEPT ![t] = "ok"]
      /\ allocs' = [r \in Resources |-> allocs[r] + IF r \in {t} \X TransformParts THEN 1 ELSE 0]
  BY DEF CreateTransformation, Allocate
<1>2. /\ transforms' \in Seq(Transforms) /\ Len(transforms') = Len(transforms) + 1
      /\ \A i \in 1 .. Len(transforms) : transforms'[i] = transforms[i]
      /\ transforms'[Len(transforms) + 1] = t /\ Len(transforms) \in Nat
  BY <1>1, AppendProperties DEF TypeOK
<1>3. ~Registered(t)
  BY <1>1 DEF RegistryInv, Registered
<1>4. RegistryInv'
  BY <1>1, <1>2, <1>3 DEF RegistryInv, Registered, TypeOK
<1>5. \A u \in Transforms : Registered(u)' <=> Registered(u) \/ u = t
  BY <1>1, <1>2 DEF Registered
<1>6. ASSUME NEW u \in Transforms, NEW p \in TransformParts PROVE PartInv(u, p)'
  <2>1. PartInv(u, p) /\ <<u, p>> \in Resources
    BY ResourceCases DEF PartsInv
  <2>2. allocs'[<<u, p>>] = allocs[<<u, p>>] + IF u = t THEN 1 ELSE 0
    BY <1>1, <2>1
  <2>3. CASE u = t
    BY <1>1, <1>5, <2>1, <2>2, <2>3 DEF PartInv, TypeOK
  <2>4. CASE u # t
    BY <1>1, <1>5, <2>1, <2>2, <2>4 DEF PartInv, Kept, TypeOK
  <2>5. QED
    BY <2>3, <2>4
<1>7. \A r \in PluginParts : allocs'[r] = allocs[r] /\ frees'[r] = frees[r]
  BY <1>1, PartsApart DEF TypeOK
<1>8. PluginInv'
  BY <1>1, <1>7, PluginUntouched
<1>9. PartsInv'
  BY <1>6 DEF PartsInv
<1>10. allocs' = [r \in Resources |-> allocs'[r]] /\ frees' = [r \in Resources |-> frees'[r]]
  BY <1>1 DEF TypeOK
<1>11. TypeOK'
  BY <1>1, <1>2, <1>8, <1>9, <1>10, CountersTyped DEF TypeOK
<1>12. QED
  BY <1>4, <1>8, <1>9, <1>11

(* A transformation whose creation fails is not registered; what it had     *)
(* allocated is freed, but for the type support.                            *)
LEMMA CreateFailsStep ==
  ASSUME IInv, NEW t \in Transforms, NEW stage \in Range(TransformStages),
         CreateTransformationFails(t, stage)
  PROVE  IInv'
<1> USE DEF IInv
<1> DEFINE A == AllocatedBefore(t, stage)
<1> DEFINE F == FreedByFailure(t, stage)
<1>0. /\ A \subseteq {t} \X TransformParts /\ F \subseteq A
      /\ stage \notin {"none", "ok"}
  <2>1. "self" \in TransformParts
    BY DEF TransformParts
  <2>2. QED
    BY <2>1, AllocatedParts, FailureFrees, StageNames
<1>1. /\ plugin = "live" /\ outcome[t] = "none" /\ UNCHANGED <<plugin, transforms>>
      /\ outcome' = [outcome EXCEPT ![t] = stage]
      /\ allocs' = [r \in Resources |-> allocs[r] + IF r \in A THEN 1 ELSE 0]
      /\ frees' = [r \in Resources |-> frees[r] + IF r \in F THEN 1 ELSE 0]
  BY DEF CreateTransformationFails, Allocate, Free
<1> HIDE DEF A, F
<1>2. ~Registered(t) /\ \A u : Registered(u)' <=> Registered(u)
  BY <1>1 DEF RegistryInv, Registered
<1>3. RegistryInv'
  BY <1>1, <1>2 DEF RegistryInv, Registered, TypeOK
<1>4. ASSUME NEW u \in Transforms, NEW p \in TransformParts PROVE PartInv(u, p)'
  <2>1. PartInv(u, p) /\ <<u, p>> \in Resources
    BY ResourceCases DEF PartsInv
  <2>2. CASE u = t
    <3>1. /\ allocs'[<<u, p>>] = IF <<u, p>> \in A THEN 1 ELSE 0
          /\ frees'[<<u, p>>] = IF <<u, p>> \in F THEN 1 ELSE 0
      BY <1>1, <2>1, <2>2 DEF PartInv
    <3>2. outcome'[u] = stage
      BY <1>1, <2>2 DEF TypeOK
    <3>3. IF p = "tsupport" /\ stage \in LeakingStages
          THEN <<u, p>> \in A \ F
          ELSE <<u, p>> \in A <=> <<u, p>> \in F
      BY <2>2, FailureFrees DEF A, F
    <3>4. QED
      BY <1>0, <3>1, <3>2, <3>3 DEF PartInv, Kept
  <2>3. CASE u # t
    <3>1. <<u, p>> \notin A /\ <<u, p>> \notin F
      BY <1>0, <2>3
    <3>2. allocs'[<<u, p>>] = allocs[<<u, p>>] /\ frees'[<<u, p>>] = frees[<<u, p>>]
      BY <1>1, <2>1, <3>1 DEF PartInv
    <3>3. outcome'[u] = outcome[u]
      BY <1>1, <2>3 DEF TypeOK
    <3>4. QED
      BY <1>2, <2>1, <3>2, <3>3 DEF PartInv, Kept
  <2>4. QED
    BY <2>2, <2>3
<1>5. \A r \in PluginParts : allocs'[r] = allocs[r] /\ frees'[r] = frees[r]
  BY <1>0, <1>1, PartsApart DEF TypeOK
<1>6. PluginInv'
  BY <1>1, <1>5, PluginUntouched
<1>7. PartsInv'
  BY <1>4 DEF PartsInv
<1>8. allocs' = [r \in Resources |-> allocs'[r]] /\ frees' = [r \in Resources |-> frees'[r]]
  BY <1>1
<1>9. TypeOK'
  BY <1>1, <1>6, <1>7, <1>8, CountersTyped DEF TypeOK
<1>10. QED
  BY <1>3, <1>6, <1>7, <1>9

(* A registered transformation is deleted with all its parts, and its entry *)
(* is removed.                                                              *)
LEMMA DeleteStep ==
  ASSUME IInv, NEW t \in Transforms, DeleteTransformation(t)
  PROVE  IInv'
<1> USE DEF IInv
<1>1. /\ plugin = "live" /\ Registered(t) /\ UNCHANGED <<plugin, outcome, allocs>>
      /\ transforms' = Removed(t)
      /\ frees' = [r \in Resources |-> frees[r] + IF r \in {t} \X TransformParts THEN 1 ELSE 0]
  BY RangeIsRegistered DEF DeleteTransformation, Free, DeletedByT
<1>2. /\ transforms' \in Seq(Transforms)
      /\ \A i, j \in 1 .. Len(transforms') : i # j => transforms'[i] # transforms'[j]
      /\ \A u : Registered(u)' <=> Registered(u) /\ u # t
  BY <1>1, RemovedEntries
<1>3. RegistryInv'
  <2>1. \A u : Registered(u) => outcome[u] = "ok"
    BY DEF RegistryInv, Registered
  <2>2. ASSUME NEW u, NEW i \in 1 .. Len(transforms'), transforms'[i] = u
        PROVE  outcome'[u] = "ok"
    <3>1. Registered(u)'
      BY <2>2 DEF Registered
    <3>2. QED
      BY <1>1, <1>2, <2>1, <3>1
  <2>3. QED
    BY <1>1, <1>2, <2>1, <2>2 DEF RegistryInv
<1>4. ASSUME NEW u \in Transforms, NEW p \in TransformParts PROVE PartInv(u, p)'
  <2>1. PartInv(u, p) /\ <<u, p>> \in Resources /\ PartInv(t, p)
    BY ResourceCases DEF PartsInv
  <2>2. frees'[<<u, p>>] = frees[<<u, p>>] + IF u = t THEN 1 ELSE 0
    BY <1>1, <2>1
  <2>3. outcome[t] = "ok"
    BY <1>1 DEF RegistryInv, Registered
  <2>4. CASE u = t
    BY <1>1, <1>2, <2>1, <2>2, <2>3, <2>4 DEF PartInv
  <2>5. CASE u # t
    BY <1>1, <1>2, <2>1, <2>2, <2>5 DEF PartInv, Kept
  <2>6. QED
    BY <2>4, <2>5
<1>5. \A r \in PluginParts : allocs'[r] = allocs[r] /\ frees'[r] = frees[r]
  BY <1>1, PartsApart DEF TypeOK
<1>6. PluginInv'
  BY <1>1, <1>5, PluginUntouched
<1>7. PartsInv'
  BY <1>4 DEF PartsInv
<1>8. allocs' = [r \in Resources |-> allocs'[r]] /\ frees' = [r \in Resources |-> frees'[r]]
  BY <1>1 DEF TypeOK
<1>9. TypeOK'
  BY <1>1, <1>2, <1>6, <1>7, <1>8, CountersTyped DEF TypeOK
<1>10. QED
  BY <1>3, <1>6, <1>7, <1>9

(* Every step keeps the invariant.                                          *)
LEMMA StepIInv == IInv /\ [Next]_vars => IInv'
<1> SUFFICES ASSUME IInv, [Next]_vars PROVE IInv'
  OBVIOUS
<1>1. CASE PluginCreate \/ PluginCreateFails \/ PluginDelete
  BY <1>1, PluginSteps
<1>2. ASSUME NEW t \in Transforms, DerivesNameFromNull(t) PROVE IInv'
  <2>1. /\ plugin = "live" /\ plugin' = "crashed"
        /\ UNCHANGED <<transforms, outcome, allocs, frees>>
    BY <1>2 DEF DerivesNameFromNull
  <2>2. RegistryInv' /\ PartsInv'
    BY <2>1, TransformsUntouched DEF IInv
  <2>3. PluginInv'
    BY <2>1, PluginUntouched DEF IInv
  <2>4. QED
    BY <2>1, <2>2, <2>3 DEF IInv, TypeOK
<1>3. CASE UNCHANGED vars
  <2>1. RegistryInv' /\ PartsInv'
    BY <1>3, TransformsUntouched DEF IInv, vars
  <2>2. TypeOK' /\ PluginInv'
    BY <1>3 DEF IInv, vars, TypeOK, PluginInv
  <2>3. QED
    BY <2>1, <2>2 DEF IInv
<1>4. QED
  BY <1>1, <1>2, <1>3, CreateStep, CreateFailsStep, DeleteStep DEF Next

-----------------------------------------------------------------------------
(* IInv holds in every state of a plugin.                                   *)
THEOREM Invariance == Spec => []IInv
<1>1. QED
  BY InitIInv, StepIInv, PTL DEF Spec

(* The state of a plugin is always well typed: no part is allocated twice.  *)
THEOREM TypeCorrect == Spec => []TypeOK
<1>1. IInv => TypeOK
  BY DEF IInv
<1>2. QED
  BY <1>1, Invariance, PTL

(* What the invariant says of a part, in terms of whether it is live.       *)
LEMMA PartLive ==
  ASSUME IInv, NEW t \in Transforms, NEW p \in TransformParts
  PROVE  /\ frees[<<t, p>>] <= allocs[<<t, p>>]
         /\ Registered(t) => Live(<<t, p>>)
         /\ ~Registered(t) => (Live(<<t, p>>) <=> Kept(t, p))
<1>1. PartInv(t, p)
  BY DEF IInv, PartsInv
<1>2. Registered(t) => outcome[t] = "ok"
  BY DEF IInv, RegistryInv, Registered
<1>3. QED
  BY <1>1, <1>2 DEF PartInv, Live, Kept, LeakingStages

(* The registry of a live plugin lists exactly the transformations that     *)
(* exist, each once, through every order of creations, failures and         *)
(* deletions of any number of transformations.                              *)
THEOREM RegistryIsExact == Spec => []RegistryExact
<1>1. ASSUME IInv PROVE RegistryExact
  <2>1. ASSUME NEW t \in Transforms
        PROVE  /\ t \in Range(transforms) <=> Live(<<t, "self">>)
               /\ t \in Range(transforms) => \A p \in TransformParts : Live(<<t, p>>)
    <3>1. "self" \in TransformParts /\ ~Kept(t, "self")
      BY DEF TransformParts, Kept
    <3>2. t \in Range(transforms) <=> Registered(t)
      BY <1>1, RangeIsRegistered DEF IInv
    <3>3. QED
      BY <1>1, <3>1, <3>2, PartLive
  <2>2. QED
    BY <1>1, <2>1 DEF RegistryExact, IInv, RegistryInv
<1>2. QED
  BY <1>1, Invariance, PTL

(* No part of a transformation or of the plugin is freed twice or unless it *)
(* was allocated, except the user plugin that initialize_static and its     *)
(* caller both delete.                                                      *)
THEOREM FreedAtMostOnce == Spec => []FreedOnce
<1>1. ASSUME IInv PROVE FreedOnce
  <2>1. ASSUME NEW r \in PluginParts
        PROVE  frees[r] <= allocs[r] + IF plugin = "unready" /\ r = <<"plugin", "user_plugin">> THEN 1 ELSE 0
    BY <1>1 DEF IInv, PluginInv, TypeOK
  <2>2. ASSUME NEW t \in Transforms, NEW p \in TransformParts
        PROVE  frees[<<t, p>>] <= allocs[<<t, p>>] /\ allocs[<<t, p>>] \in Nat /\ frees[<<t, p>>] \in Nat
    BY <1>1, PartLive, ResourceCases DEF IInv, TypeOK
  <2>3. QED
    BY <2>1, <2>2, ResourceCases DEF FreedOnce
<1>2. QED
  BY <1>1, Invariance, PTL

(* Nothing is left of a transformation that is gone or whose creation       *)
(* failed, nor of a plugin that is gone after its transformations; the one  *)
(* leak is the type support of a transformation that failed after its       *)
(* parent was initialized.                                                  *)
THEOREM OnlyTypeSupportLeaks == Spec => []NothingLeaked
<1>1. ASSUME IInv PROVE NothingLeaked
  <2>1. ASSUME NEW t \in Transforms \ Range(transforms), NEW p \in TransformParts
        PROVE  Live(<<t, p>>) <=>
                 p = "tsupport" /\ outcome[t] \in {"validate", "buffers", "message_type", "converter"}
    <3>1. ~Registered(t)
      BY <1>1, RangeIsRegistered DEF IInv
    <3>2. QED
      BY <1>1, <3>1, PartLive DEF Kept, LeakingStages
  <2>2. ASSUME plugin \in {"gone", "unready"}, transforms = <<>>, NEW r \in PluginParts
        PROVE  ~Live(r)
    BY <1>1, <2>2 DEF IInv, PluginInv, Live
  <2>3. QED
    BY <2>1, <2>2 DEF NothingLeaked
<1>2. QED
  BY <1>1, Invariance, PTL
============================================================================
