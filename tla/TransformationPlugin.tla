----------------------- MODULE TransformationPlugin -----------------------
(***************************************************************************)
(* The life of a transformation plugin and of its transformations           *)
(* (TransformationTemplateDefine.h as ProtobufTransformation instantiates   *)
(* it: static, with a configuration and a state per transformation, without *)
(* the optional mutex; TransformationPlugin.c; Transformation.c).           *)
(*                                                                          *)
(* Every resource counts how often it was allocated and how often freed, so *)
(* that a leak and a double free both show.  A constructor is a sequence of *)
(* stages; FailAt says at which of them a call may fail.                    *)
(*                                                                          *)
(* External: Routing Service creates one plugin, then creates and deletes   *)
(* transformations one call at a time, and deletes the plugin.              *)
(***************************************************************************)
EXTENDS Integers, Sequences, Functions

CONSTANTS Transforms,  \* the transformations Routing Service may ask for
          FailAt       \* the stages that may fail

(* The stages of TPlugin_new and of TPlugin_create_transformation, in the   *)
(* order of the code.                                                       *)
PluginStages == <<"plugin", "user_plugin", "transforms", "plugin_config">>
TransformStages ==
  <<"self", "state", "config", "input_type", "output_type", "parse", "base",
    "validate", "buffers", "message_type", "converter", "register">>

(* The parts of a transformation: what TConfig_delete frees (the            *)
(* configuration with its own strings, and the type names of its parent),   *)
(* what TState_delete frees, what RTI_TSFM_Transformation_finalize frees    *)
(* (the type support and the samples of read_buffer), and the object.       *)
ConfigParts == {"config", "input_type", "output_type"}
StateParts == {"state", "pb_buffer", "message_type", "converter"}
TransformParts == ConfigParts \cup StateParts \cup {"self", "tsupport"}

(* The parts a stage allocates when it succeeds: "input_type" and           *)
(* "output_type" are the two copies of TransformationConfig_default;        *)
(* "parse" only replaces strings, or refuses transformation_type; "base"    *)
(* makes the type support; "validate" to "converter" are the rest of        *)
(* ProtobufTransformation_initialize; "register" enters it in the plugin.   *)
NewParts(stage) ==
  CASE stage = "base" -> {"tsupport"}
    [] stage = "buffers" -> {"pb_buffer"}
    [] OTHER -> {stage} \cap TransformParts

ASSUME TransformsAssumption == "plugin" \notin Transforms
ASSUME FailAtAssumption == FailAt \subseteq Range(PluginStages) \cup Range(TransformStages)

VARIABLES
  plugin,      \* "none", "live", "gone", "unready": it could not be initialized,
               \* or "crashed": the process is gone
  transforms,  \* the sequence self->transforms of the plugin
  outcome,     \* of each creation: "none", "ok", or the stage at which it failed
  allocs,      \* allocs[r], frees[r]: allocations and frees of resource r
  frees

vars == <<plugin, transforms, outcome, allocs, frees>>

(* What the plugin and what each transformation allocate.                   *)
PluginParts == {"plugin"} \X {"self", "user_plugin", "config"}
Resources == PluginParts \cup (Transforms \X TransformParts)

TypeOK ==
  /\ plugin \in {"none", "live", "gone", "unready", "crashed"}
  /\ transforms \in Seq(Transforms)
  /\ outcome \in [Transforms -> {"none", "ok"} \cup Range(TransformStages)]
  /\ allocs \in [Resources -> 0 .. 1] /\ frees \in [Resources -> 0 .. 2]

Init ==
  /\ plugin = "none" /\ transforms = <<>> /\ outcome = [t \in Transforms |-> "none"]
  /\ allocs = [r \in Resources |-> 0] /\ frees = [r \in Resources |-> 0]

(* The parts in A are allocated; those in F are freed.                      *)
Allocate(A) == allocs' = [r \in Resources |-> allocs[r] + IF r \in A THEN 1 ELSE 0]
Free(F) == frees' = [r \in Resources |-> frees[r] + IF r \in F THEN 1 ELSE 0]

-----------------------------------------------------------------------------
(* RTI_TSFM_TransformationPlugin_finalize.  With transformations left it    *)
(* returns at once; otherwise it deletes the user plugin and the config.    *)
FinalizePlugin == IF transforms = <<>> THEN PluginParts \ {<<"plugin", "self">>} ELSE {}

PluginCreate ==
  /\ plugin = "none"
  /\ plugin' = "live"
  /\ Allocate(PluginParts)
  /\ UNCHANGED <<transforms, outcome, frees>>

PluginCreateFails ==
  /\ plugin = "none"
  /\ \/ /\ "plugin" \in FailAt
        /\ plugin' = "gone"
        /\ UNCHANGED <<allocs, frees>>
     \/ /\ "user_plugin" \in FailAt
        /\ plugin' = "gone"
        /\ Allocate({<<"plugin", "self">>}) /\ Free({<<"plugin", "self">>})
     \* initialize_static fails: it has finalized the parent, user_plugin
     \* included, when TPlugin_new deletes user_plugin once more
     \/ /\ {"transforms", "plugin_config"} \cap FailAt # {}
        /\ plugin' = "unready"
        /\ Allocate({<<"plugin", "self">>, <<"plugin", "user_plugin">>})
        /\ frees' = [frees EXCEPT ![<<"plugin", "user_plugin">>] = @ + 2,
                                   ![<<"plugin", "self">>] = @ + 1]
  /\ UNCHANGED <<transforms, outcome>>

(* TPlugin_delete frees the plugin even if finalizing it was refused.       *)
PluginDelete ==
  /\ plugin = "live"
  /\ Free({<<"plugin", "self">>} \cup FinalizePlugin)
  /\ plugin' = "gone"
  /\ UNCHANGED <<transforms, outcome, allocs>>

-----------------------------------------------------------------------------
(* What the creation of t has allocated before a stage.                     *)
AllocatedBefore(t, stage) ==
  LET Earlier(i) == \A j \in 1 .. i : TransformStages[j] # stage IN
  {t} \X UNION {NewParts(TransformStages[i]) : i \in {k \in DOMAIN TransformStages : Earlier(k)}}

(* T_delete: config, state, then the parent's finalize, then the object.    *)
DeletedByT(t) == {t} \X TransformParts

(* Variant: a transformation that could not be registered is freed like one *)
(* that could not be initialized.                                           *)
FreedAsUninitialized(t, stage) == AllocatedBefore(t, stage) \ {<<t, "tsupport">>}

(* The error path of T_new frees state, config and object as far as they    *)
(* exist.  The parent is not finalized, as T_initialize failed: when its own*)
(* initialization failed it has finalized itself, when a later step of      *)
(* ProtobufTransformation_initialize failed nobody does.                    *)
FreedByFailure(t, stage) ==
  IF stage = "register"
  THEN DeletedByT(t)
  ELSE AllocatedBefore(t, stage) \cap ({t} \X (ConfigParts \cup StateParts \cup {"self"}))

CreateTransformation(t) ==
  /\ plugin = "live" /\ outcome[t] = "none"
  /\ transforms' = Append(transforms, t)
  /\ outcome' = [outcome EXCEPT ![t] = "ok"]
  /\ Allocate({t} \X TransformParts)
  /\ UNCHANGED <<plugin, frees>>

CreateTransformationFails(t, stage) ==
  /\ plugin = "live" /\ outcome[t] = "none"
  /\ stage \in FailAt
  /\ outcome' = [outcome EXCEPT ![t] = stage]
  /\ Allocate(AllocatedBefore(t, stage))
  /\ Free(FreedByFailure(t, stage))
  /\ UNCHANGED <<plugin, transforms>>

(* Without a configured message type its name is derived from the DDS type: *)
(* a string that could not be allocated is searched before it is tested.    *)
DerivesNameFromNull(t) ==
  /\ plugin = "live" /\ outcome[t] = "none"
  /\ "message_type" \in FailAt
  /\ plugin' = "crashed"
  /\ UNCHANGED <<transforms, outcome, allocs, frees>>

(* The position at which finalize_transformation finds t.                   *)
IndexOf(t) == CHOOSE i \in 1 .. Len(transforms) : transforms[i] = t

(* Variant: the sequence shrinks without moving entries up.                 *)
RemovedLast(t) == SubSeq(transforms, 1, Len(transforms) - 1)

(* The entries behind t move up by one and the sequence shrinks.            *)
Removed(t) ==
  [i \in 1 .. Len(transforms) - 1 |->
     IF i < IndexOf(t) THEN transforms[i] ELSE transforms[i + 1]]

(* Variant: the transformation is deleted and stays registered.             *)
DeleteKeepsEntry(t) ==
  /\ plugin = "live" /\ t \in Range(transforms)
  /\ Free(DeletedByT(t))
  /\ UNCHANGED <<plugin, transforms, outcome, allocs>>

DeleteTransformation(t) ==
  /\ plugin = "live"
  /\ t \in Range(transforms)
  /\ transforms' = Removed(t)
  /\ Free(DeletedByT(t))
  /\ UNCHANGED <<plugin, outcome, allocs>>

Next ==
  \/ PluginCreate \/ PluginCreateFails \/ PluginDelete
  \/ \E t \in Transforms :
       \/ CreateTransformation(t)
       \/ \E stage \in Range(TransformStages) : CreateTransformationFails(t, stage)
       \/ DerivesNameFromNull(t)
       \/ DeleteTransformation(t)

Spec == Init /\ [][Next]_vars

-----------------------------------------------------------------------------
Live(r) == allocs[r] > frees[r]

(* The registry of a live plugin lists exactly the transformations that     *)
(* exist, each once and with all its parts, through every order of          *)
(* creations, failures and deletions: none is unreachable for deletion, and *)
(* finalize_transformation leaves no dangling pointer behind.               *)
RegistryExact ==
  plugin = "live" =>
    /\ \A i, j \in 1 .. Len(transforms) : i # j => transforms[i] # transforms[j]
    /\ \A t \in Transforms :
         /\ t \in Range(transforms) <=> Live(<<t, "self">>)
         /\ t \in Range(transforms) => \A p \in TransformParts : Live(<<t, p>>)

(* No part is freed twice or without having been allocated, except the user *)
(* plugin of a plugin that could not be initialized: initialize_static and  *)
(* its caller both delete it.                                               *)
FreedOnce ==
  \A r \in Resources :
    frees[r] <= allocs[r] + IF plugin = "unready" /\ r = <<"plugin", "user_plugin">> THEN 1 ELSE 0

(* A transformation that is gone, or whose creation failed, holds nothing,  *)
(* and neither does a plugin that is gone after all its transformations.    *)
(* Only the type support of a transformation that failed after its parent   *)
(* was initialized stays, and it always does.                               *)
NothingLeaked ==
  /\ \A t \in Transforms \ Range(transforms), p \in TransformParts :
       Live(<<t, p>>) <=>
         p = "tsupport" /\ outcome[t] \in {"validate", "buffers", "message_type", "converter"}
  /\ plugin \in {"gone", "unready"} /\ transforms = <<>> => \A r \in PluginParts : ~Live(r)
============================================================================
