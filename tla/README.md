# A formal model of the Kafka adapter and the Protobuf transformation

This directory holds TLA+ specifications of the RTI Routing Service plugins in
`src/rticonnextdds-gateway`: the Kafka adapter (C, on librdkafka) and the
Protobuf transformation (C and C++, on the transformation framework of
`common/transformation`). TLC checks the specifications on small instances;
TLAPS proves every safety property and both refinements for all values of the
constants; liveness is checked by TLC only.

Paths below are relative to `src/rticonnextdds-gateway`.

## 1. The system

A Routing Service *route* reads samples from an input, passes them through
transformations and writes them to an output. Routing Service calls the plugins
of this repository through tables of function pointers. For one route all calls
(read, transform, write, return loans) come from one *session thread*. The
Kafka input adds one thread of its own, the *polling thread*.

    Kafka --> librdkafka --> [polling thread] --> StreamReader --+
                                                                 |  session thread
    Kafka <-- librdkafka <-- StreamWriter <-- DDS or Protobuf <--+
                                              transformation

| Component | Code | State it keeps | Operations |
|---|---|---|---|
| Kafka stream reader | `plugins/adapters/kafka/srcC/KafkaStreamReader.c` | `rkm`, `payload`, `poll_sem`, `read_sem`, `run_thread`, sample and info list | polling loop, `read`, `return_loan`, `error_cleanup` |
| Kafka stream writer | `.../KafkaStreamWriter.c` | `rk`, topic; `buffer_seq` local to `write` | `write`, delivery report callback |
| Kafka adapter, connection | `.../KafkaAdapter.c`, `.../KafkaConnection.c` | plugin, connection, streams and what they own | create and delete of each |
| Transformation, batches | `common/transformation/srcC/Transformation.c` | `read_buffer`, `read_buffer_loaned`, type support | `transform`, `return_loan` |
| Transformation plugin | `.../TransformationPlugin.c`, `TransformationTemplateDefine.h` | `transforms`, `user_plugin`, configuration | create and delete of plugin and transformations |
| Protobuf transformation | `plugins/transformations/protobuf/srcCxx/ProtobufTransformation.cxx`, `common/dds_specific/srcC/DynamicDataHelpers.c` | `pb_buffer`, `octet_seq`, `char_seq`, converter | initialize, `serialize`, `deserialize` |
| Protobuf/DDS converter | `common/protobuf2dds/srcCxx` | `dds_data_cache` and the bindings of its objects, `str_buffer`, the message | `serialize`, `deserialize`: recursive conversion of samples and messages |
| Configuration, logging, examples, demo | | | |

**How they interact.** Polling thread and session thread share the reader
without a lock; two binary semaphores pass the right to touch it back and forth.
librdkafka runs delivery report callbacks inside `rd_kafka_poll` and
`rd_kafka_flush`. Output samples of a transformation are lent to the route and
returned. A serializer lends its string to a DDS sequence for the time of a
call. The converter reaches nested members through DynamicData objects that it
keeps, one per type, and binds to the member for the time of a call.

**What is hard.** The interleavings of the two threads with each other and with
deletion; error paths that keep or drop the right to go on; a queue at its
limit; constructors that fail half-way and several functions that each own part
of the cleanup; buffers that outlive a call and carry something into the next.
`PROJECT.json` lists these hazards line by line with the properties that cover
them.

**What correct means.** The reader: no data race, no use after destroy, each
message at most once and in order, none skipped, no mutual waiting, no thread in
a freed reader. The writer: each sample one message, accepted in order, none
dropped by a full queue, each message reported once. The connection: what the
thread uses exists, no client left behind. A transformation: the output is
exactly the converted input, although its samples are reused. The plugin: the
registry is exact, everything is freed once. Protobuf: a call that returns
success has converted its own message. The converter: what it writes is what the
input has at the same place, success leaves nothing out, and a failure at any
depth leaves no object bound unless its unbinding failed.

## 2. Modules

| Module | Models | Remarks |
|---|---|---|
| `KafkaStreamReader` | polling loop, `read`, `return_loan`, `delete_stream_reader` | one action per step between two synchronisation points |
| `MessageHandoff` | the promise of a reader: a slot for one message | refined by `KafkaStreamReader` |
| `KafkaStreamWriter` | `write` with the retry loop, reports, flush, deletion | payloads are sequences over {0, 1, 2}, 0 is NUL |
| `ReportedOutput` | the promise of a writer: messages accepted in order, each reported once in any order, then closed | refined by `KafkaStreamWriter` |
| `KafkaConnection` | creation and deletion by stages that may fail | objects are counted apart from the fields that name them |
| `Transformation` | `transform`, `return_loan` over a reused buffer | content of a sample = set of inputs whose data it holds; `lost` = inputs of batches given up half-way |
| `TransformationPlugin` | constructors, registry, destructors; the configuration and state objects of a Protobuf transformation | allocations and frees are counted |
| `ProtobufTransformation` | validation, `serialize`, `deserialize` | a message is its identity and its size |
| `DynamicDataTypes` | DDS types paired with Protobuf fields; `resolve_type_code`, `set_fuzzy_*` | pure operators |
| `ProtobufConverter` | `dds_to_protobuf`, `protobuf_to_dds`, the object cache and `str_buffer` | the recursion is a stack of frames |
| `*_proof` | the theorems about the module of that name | inductive invariants, lemmas and proofs only |
| `MC*` | instances for TLC | give values to the constants only |

A definition whose comment begins with *Variant* is a deliberately wrong form of
the definition it precedes. No specification uses it; it exists to show that a
property notices the mistake.

### State and actions of the reader

`polled` is what `rd_kafka_consumer_poll` has returned so far, and a message
object is named by its position there; `freed` counts destroys of each object.
`rkm` and `payload` are the fields of the same name; `rkm` is not reset when the
message is destroyed, as in the code. `pc` follows the loop of
`on_data_availabe_thread`:

| `pc` | before | actions |
|---|---|---|
| `while` | the test of `run_thread` | `TestRunThread` |
| `take` | `RTIOsapiSemaphore_take(poll_sem)` | `TakePollSem`, `TakePollSemFails` |
| `poll` | `rd_kafka_consumer_poll` | `PollTimeout`, `PollReturns` |
| `polled` | the tests of `rkm` and `rkm->err`, the loan | `HandleTimeout`, `HandleConsumerError`, `LoanPayload`, `LoanPayloadFails` |
| `notify` | `on_data_available` | `OnDataAvailable` |
| `give` | `RTIOsapiSemaphore_give(read_sem)` | `GiveReadSem` |

`sess` follows the session thread through `read` and `return_loan`; `owner`
follows `delete_stream_reader`. `failed` is a history variable: the kinds of
failure that have happened. Properties that a failure may break name it, so that
they are checked in full in every behaviour in which that failure did not
happen, although every run allows it.

### State and actions of the converter

A sample or a message is a function from paths to values: `<<5, 2, 1>>` is member
1 of element 2 of member 5. Entry *i* of a struct is a DDS member and the field
of the same name; an entry may lack one of the two (`NoField`, `NoMember`), or be
absent from the data (`SkipMember`, `SkipField`). `stack` holds one frame per
call of `dds_to_protobuf`, `protobuf_to_dds` or of their functions for
collections; `Enter` is `get_cached_dds_data` followed by `bind_complex_member`,
`Return` is the way out of a call, successful or not, with the scope exit that
unbinds. If unbinding fails, the code logs it and goes on: the binding is then in
state `left`, and a later `bind_complex_member` of that object, or of another
member of the same parent, is refused. What an object reads and writes is found
through its *binding*, never through the frame: a binding left over from a failed
conversion would lead to the wrong place. `str_buffer` is kept with its size and
its content. `LibraryFails` may end any call at any member, with the buffer and
the cache in each state the code can have brought them to.

In the direction DDS to Protobuf, each kind has its accessor (`SetSigned`,
`SetUnsigned`, `SetOther`, and the same for elements); an accessor that does not
fit the field ends the process (phase `aborted`); for a nested member that is
after the object was fetched and bound (`EnterMisfit`), as in the code. In the
other direction each field type has its setter, and a refused value fails the
conversion. Setting a member of a union drops what it held before (`Selected`).

### Assumptions about what is outside `src/`

* Routing Service calls `read` after `on_data_available`, calls `return_loan`
  exactly when `read` produced a sample (`count` is 1), may stop a session
  between two calls, deletes a reader after its session stopped, and deletes
  streams before their connection. Notifications that pile up merge.
* librdkafka returns a message, an error event or nothing from a poll; accepts
  a message unless its queue is full or it rejects it; settles accepted messages
  in any order, since `producev` is given neither key nor partition; reports a
  settled message once, from `poll` or `flush`, and only then takes it off its
  queue.
* Connext: a sequence that is on loan or has memory cannot be lent a buffer; a
  value larger than the bound of a member is refused; `set_octet_array` with
  fewer elements than the array may succeed or fail.
* Connext, for the converter: a setter takes a member of its own kind; an object
  that is bound, and a parent with a bound member, cannot be bound again; dynamic
  types do not contain themselves (`RankAssumption`); a union holds one member.
  `DDS_Char` is the platform's `char`, signed or not (`CharMin`). Protobuf: an
  accessor of another type or label than the field's ends the process.
* Binary semaphores: giving one that is available leaves it available.

## 3. Runs

| Run | Result | What it shows |
|---|---|---|
| `reader` | pass | With every library call allowed to fail: `BatonExclusive`, `MessageLiveWhileUsed`, `DestroyedExactlyOnce`, `DeliveredInOrder`, `NoMessageLost`, `SilentOnlyUnread`, `NoThreadInFreedReader`, the refinement `ImplementsHandoff`, and under fairness `EventuallyDelivered`, `PollingResumes` |
| `reader_errors` | violation | `PollingSurvivesErrors`: one consumer error ends the polling thread |
| `reader_delete` | violation | `DeleteCompletes`: deletion can wait for ever |
| `writer` | pass | `FullQueueDropsNothing`, `ReportedOnce`, `TextPublished`, the refinement `ImplementsOutput`, and under fairness `WriteReturns`, `DeletionSettles` |
| `writer_payload` | violation | `PayloadPublished`: binary payloads are cut at a zero octet or run past their end |
| `connection` | pass | `ReaderReady`, `LeftByDeletion`, `LeftByFailure` |
| `transform` | pass | `OutputsExact`, `BufferClean` |
| `transform_invalid` | violation | `OutputsExact` with samples that have no valid data |
| `plugin` | pass | `RegistryExact`, `FreedOnce`, `NothingLeaked` |
| `protobuf` | pass | `OutputIsInput`, `LoanReturned` |
| `protobuf_unparsable` | violation | `FailureReturned`: a deserializer returns success when its converter failed |
| `converter` | pass | `NothingForeign`, `NothingLeftOut`, `BindingsFollowCalls`, `BindNeverRefused`, `CapacityHonest` |

Each passing run checks `TypeOK` of its module as well.

### Bounds

* `MaxPolls = 4` events per reader. The protocol holds one message at a time, so
  two messages already show every interplay of an old and a new one; four let a
  failure fall before, between and after two proper messages. The proofs remove
  this bound.
* Writer: three samples in batches of at most two, `QueueMax = 2`: the queue is
  full before the last sample, inside a batch and at its start. Five payloads:
  two texts of different length (so that the second finds the memory of the
  first), one with an inner NUL, one without, an empty one. `Garbage` is what may
  lie behind a buffer without NUL: a NUL at once, or one octet and a NUL.
* Connection: one reader and one writer, which do not share state; every call may
  fail at every stage.
* Transformation: batches of at most two, six samples: three batches of the
  largest size, enough to fail in one, reuse its slots in the next and return
  them.
* Plugin: three transformations, so that a deletion can hit the first, the middle
  and the last entry of the registry. Identities are never reused.
* Protobuf: sizes up to three and four calls: a large message, a smaller one
  after it, one after a failure. All kinds of members and bounds are initial
  states.

* Converter: two conversions of twelve samples and seventeen messages of one
  schema of 22 types, the root with 24 members, with every kind of failure. Two
  are enough because the only state that passes from one conversion to the next
  is the cache, the bindings and `str_buffer`: the first conversion brings them
  into any state it can, the second one meets it. The samples have strings that
  grow and shrink, bytes between them, the same struct nested, repeated and at
  two depths, each unsupported member, nested members whose accessor does not
  fit; the messages have numbers at and past each limit, a NUL inside a string,
  more elements than fit, two fields for one union. `InitialSize = 2` lets
  strings be shorter, equal and longer than the fresh buffer.

`CHECK_DEADLOCK FALSE` is in every configuration because each system really
ends: streams, plugins and transformations are deleted, a failed initialization
leaves nothing to call, and the bounds stop the supply of samples.

### Fairness

* `WF(PollingSteps)`, `WF(SessionSteps)`: the operating system schedules both
  threads, and a session serves what it was notified of. Weak fairness is enough
  since the thread that waits for a semaphore is the only one that takes it. No
  fairness is assumed for a message to arrive, for a session to stop or for a
  deletion to begin.
* `WF(DeleteJoins \/ DeleteCleansUp)`: a deletion goes on once it began.
* `WF(WriteSteps)`, `WF(DeleteSteps)`: the session thread runs.
* That a library call fails is never forced: failed semaphore calls are outside
  `PollingSteps` and `SessionSteps`.
* `WF(Settle)`: librdkafka settles some unsettled message sooner or later, since
  `message.timeout.ms` fails each at the latest; the queue being finite, none of
  them waits for ever. Which one is next is left open.

## 4. Proofs

Seven modules `*_proof` hold the theorems, one for each component. Each has the
same layout: the strengthening of the properties to an inductive invariant
`IInv`, lemmas about the operators of the model, the lemma that `Init` implies
`IInv`, one lemma per part of `IInv` or per action that a step preserves it, and
the theorems. The theorem `Invariance` is `Spec => []IInv`; the others follow
from it.

| Module | Theorem | States |
|---|---|---|
| `KafkaStreamReader_proof` | `TypeCorrect` | `[]TypeOK` |
| | `BatonIsExclusive` | `[]BatonExclusive` |
| | `MemorySafe`, `DestroyedOnce` | `[]MessageLiveWhileUsed`, `[]DestroyedExactlyOnce` |
| | `OrderedDelivery`, `LosslessDelivery` | `[]DeliveredInOrder`, `[]NoMessageLost` |
| | `SilenceHasACause` | `[]SilentOnlyUnread` |
| | `SafeDeletion` | `[]NoThreadInFreedReader` |
| | `RefinesHandoff` | `ImplementsHandoff` |
| `KafkaStreamWriter_proof` | `TypeCorrect` | `[]TypeOK` |
| | `NothingDropped` | `[]FullQueueDropsNothing` |
| | `ReportsAreUnique` | `[]ReportedOnce` |
| | `TextIsPublished` | `[]TextPublished` |
| | `RefinesOutput` | `ImplementsOutput` |
| `KafkaConnection_proof` | `TypeCorrect` | `[]TypeOK` |
| | `ReaderIsReady` | `[]ReaderReady` |
| | `DeletionLeaves`, `FailureLeaves` | `[]LeftByDeletion`, `[]LeftByFailure` |
| `Transformation_proof` | `TypeCorrect` | `[]TypeOK` |
| | `ExactOutputs`, `CleanBuffer` | `[]OutputsExact`, `[]BufferClean`, if every sample is valid |
| `TransformationPlugin_proof` | `TypeCorrect` | `[]TypeOK` |
| | `RegistryIsExact` | `[]RegistryExact` |
| | `FreedAtMostOnce`, `OnlyTypeSupportLeaks` | `[]FreedOnce`, `[]NothingLeaked` |
| `ProtobufTransformation_proof` | `TypeCorrect` | `[]TypeOK` |
| | `ConversionExact` | `[]OutputIsInput` |
| | `LoanAlwaysReturned` | `[]LoanReturned` |
| | `SilentFailureIsConverter` | `[]OnlyConverterSilent` |
| | `FailuresReturned` | `[]FailureReturned`, if the converter does not fail |
| `ProtobufConverter_proof` | `TypeCorrect` | `[]TypeOK` |
| | `BindingsFollow`, `OneObjectPerType` | `[]BindingsFollowCalls`, `[]BindNeverRefused` |
| | `HonestCapacity` | `[]CapacityHonest` |
| | `NothingForeignWritten`, `NothingIsLeftOut` | `[]NothingForeign`, `[]NothingLeftOut` |

### Assumptions

The named `ASSUME`s of the models are all the proofs use, and TLC evaluates them
in every run. Bounds are natural numbers, sets of faults are sets of known
faults. Beyond that:

* Reader and writer streams are different streams (`ConnectionAssumption`); no
  transformation is called `"plugin"` and no type `RootObject`, names that the
  models give to other things (`TransformsAssumption`, `ConverterAssumption`).
* A type is resolved behind its aliases and does not contain itself
  (`RankAssumption`). This is what the code relies on: with a recursive type the
  one object per type would be bound twice.
* `DataAssumption`: what is handed to a conversion is a sample or a message of the
  schema. It is a finite tree of paths that has the parent of each of its paths,
  and all elements of a collection up to its size; a node that has parts has no
  value of its own, a scalar and a string have no parts.
* `ExactOutputs` and `CleanBuffer` of the transformation assume `"invalid" \notin
  Faults`: with samples that carry no valid data `OutputsExact` is false, as the
  run `transform_invalid` shows. Every other failure is allowed. `TypeCorrect` needs
  no such assumption.
* `FailuresReturned` assumes `"convert" \notin Faults`: the run
  `protobuf_unparsable` shows the one failure that is not returned, and the
  theorem shows that there is no second one.

### The inductive invariants

**Reader.** The safety properties speak of what has gone wrong; to be preserved
they need to know *where the newest message is*:

* `FetchedIsNewest`: after a poll, `rkm` is the newest object and not destroyed.
  Without it a destroy in `error_cleanup` could hit an old, dangling `rkm`.
* `AllDestroyedBeforePoll`: whoever may poll next finds every object destroyed.
  This is what makes a dangling `rkm` harmless: the next thing that happens to it
  is an assignment.
* `NewestNotDelivered`: a message on its way to `read` is newer than everything
  delivered, so that delivering it keeps the order.
* `NewestDelivered`: unless a payload or a semaphore failed, the baton comes back
  to the polling thread only when the newest proper message has been delivered.
* `DeletedAfterStop`: a deletion runs after the session stopped, and a stopped
  session is not inside a call.

`StepHandoff` maps each step to `Fetch`, `Lend`, `Release` or a stutter of
`MessageHandoff`: the slot holds `rkm` as long as it is a proper message that has
not been destroyed.

**Writer.** That a report comes once does not follow from the counters alone.
`QueueInv` says that an accepted message is in the queue and has no report, or
has left it and has one. A poll may report any messages of the queue; that it
raises the count of each by exactly one needs `ProducedInv`: identities of accepted
messages increase and end at the sample in work, so that no message is accepted
twice when the retry loop goes round. `ValueInv` follows a payload through
`buffer_seq`: its bytes are in front, whatever a longer sample left behind them.
For the refinement, `AcceptedIds` is the sequence of messages of
`ReportedOutput` and `ReportedIds` the set of those reported; a `producev` that
accepts, a poll or flush that serves a report, and the deletion map to its
actions, everything else to a stutter.

**Connection.** A stream is created in 16 stages (a reader) or 5 (a writer).
`ReaderCount` and `WriterCount` give the objects of each part before stage *k*,
and `StreamInv` says for each phase of a stream that its objects and fields are
those of its stage. The lemmas `ReaderStageCounts`, `ReaderStageErrors` and their
counterparts go through the tables stage by stage; after them the argument is the
same for every stage. `OneStream` adds that a step of one stream leaves the
others alone, so the theorems hold for any number of streams.

**Transformation.** `LentExact`: there is a number `start` such that the *k*-th
sample on loan holds input `start + k` and nothing else but, in a deserializer,
data of the batches in `lost`; what lies beyond the batch holds at most the
latter. No data of a delivered sample ever comes back, however many batches
failed in between. The property itself only speaks of an order among identities,
from which the content of a reused sample does not follow.

**Plugin.** `PartInv` gives both counters of each part of a transformation as a
function of the stage at which its creation ended and of being registered;
`PluginInv` does so for the parts of the plugin; `RegistryInv` says that the
registry has no entry twice. A part that is freed is therefore allocated, once,
whatever the order of creations and deletions.

**Protobuf.** `ReadyMeansValid` (a transformation is ready only after
`validate_buffer_member`) excludes the default branches of `serialize` and
`deserialize`; `OnlyConverterSilent` names the one failure that is not returned.

**Converter.** `IInv` has three parts, for both directions at once.

* `Control`: the frames of the stack are calls for parts of their caller's value
  (`StackInv`), hence of strictly smaller rank, hence of different types; the
  bound objects are exactly theirs, each to its caller's (`BindingsFollowCalls`)
  and at the path of the frame (`PathsAgree`), and those that a failed unbinding
  left. From the ranks it follows that the object of the next call is not in use
  by another call: only a left object can make `bind_complex_member` refuse
  (`BindNeverRefused`). `RoomInv` says that only a loop over
  strings remembers a length and that no call is nested in one, without which
  `CapacityHonest` is not preserved by a return.
* `Foreign`: each path of the output is one of the input, with the same value.
* `Covered`: while nothing has failed, each path of the input is done, or is ahead
  of a call in progress, or is the repeated field that its first element will
  bring into being, or lies in a member of a union that gave way to another
  (`Superseded`). When the stack is empty only the first and the last are left,
  which is `NothingLeftOut`.

The ways in which the actions handle a member, an element or a failure are
reduced to six effects (the innermost call goes on after a leaf, calls, returns;
the conversion fails, aborts, begins); each part of `IInv` is proved for the
effects.

Two facts about data need an induction: the type of a path is found along its
prefixes, and a tree contains the prefixes of its paths. Both take a smallest
counterexample with `WFMin`.

### Definitions written for the proofs

The queue of librdkafka is the set of positions in `produced` that have not been
reported, since no order among them is used. `RepeatedField` and `Omitted` of the
converter are defined for every frame and path, not only for those of the
instance that TLC checks. The limits in `FuzzyLong` are inequalities, since a
large constant interval is costly for the provers.

### Only model-checked

Liveness: `EventuallyDelivered`, `PollingResumes`, `WriteReturns`,
`DeletionSettles`. They rest on fairness, hence on `ENABLED`,
which the prover does not handle. The properties of the five runs that expect a
violation are false of the code and have nothing to prove.

## 5. Where the code and its comments or documents differ

Five disagreements have a run that exhibits them:

1. `KafkaStreamReader.c:86`: `error_cleanup` returns 0 on success and the loop
   ends the thread on 0. One consumer error (informational, says the comment at
   line 78) silences the input; the loop continues only if giving the semaphore
   *failed*.
2. `KafkaConnection.c:561`: the join waits for ever if the session stopped with a
   message unread, since the polling thread waits for `return_loan`.
3. `KafkaStreamWriter.c:88`: the length of a binary payload is `strlen`.
4. `Transformation.c:519`: a sample without valid data is skipped but keeps its
   slot, while the count covers only converted samples.
5. `ProtobufTransformation.cxx:847`: `deserialize` returns `DDS_RETCODE_OK` when
   the converter fails.

Others are visible in the models, where the passing properties name them as
exceptions, or are noted here:

* A message fetched and not read when the reader is deleted is never destroyed
  (`KafkaConnection.c:579`).
* A deleted reader leaves its sample, its sample info, its type support and one
  semaphore of each pair allocated: the semaphores are created twice
  (`KafkaConnection.c:488-520`). `LeftByDeletion` says so exactly.
* The cleanup functions read `self->rk` before they test `self` for NULL, and
  are called with NULL if the stream cannot be allocated (`KafkaConnection.c:64`,
  `:241`); variable `crashed` of `KafkaConnection`.
* A connection without `bootstrap.servers` is not freed (state `leaked`).
* If `read` fails after it took `read_sem`, nothing gives `poll_sem` again and
  the input stays silent (`ReadSetFails`); `SilentOnlyUnread` says that nothing
  else does this.
* Delivery reports are served only while `write` is called, in spite of the
  comment at `KafkaStreamWriter.c:164`; the flush at deletion makes up for it
  (`DeletionSettles`).
* A creation that fails at the sample info keeps the reader and its lists, one
  that fails between `rd_kafka_conf_new` and `rd_kafka_new` keeps the
  configuration: `LeftByFailure`.
* If `initialize_static` fails, the user plugin is deleted twice
  (`TransformationPlugin.c:321`, `TransformationTemplateDefine.h`), the
  exception in `FreedOnce`.
* A transformation that fails after its base was initialized keeps its type
  support, the exception in `NothingLeaked`.
* A deserializer that failed in the middle of a batch keeps data of that batch in
  reused samples: the cleanup in `transform` is guarded by
  `out_samples == NULL`, which is false there (`Transformation.c:526`).
  `OutputsExact` and `BufferClean` name what may remain: data of samples in
  `lost`, in a deserializer, and nothing else.
* If unbinding a nested member fails, the object stays bound for the life of the
  converter (`DdsToProtobuf.cpp:83`) and later conversions that need it or its
  parent fail, though the conversion itself reports success; the exception in
  `BindNeverRefused`.
* Of several fields that a message sets for a union only the last one reaches
  DDS, and the conversion reports success (`Superseded`); unions are documented
  as unsupported.
* A message larger than the bound of the sequence member leaves the loan of
  `pb_buffer` in place (`DynamicDataHelpers.c:254`) and every later message is
  refused: the exception in `LoanReturned`.
* A bytes member of an array type is read into a string without room
  (`ProtobufTransformation.cxx:438`, `:756`), so reading fails; when written, a
  shorter message is followed by the rest of the array (`OutputIsInput` demands
  only that the message comes first).
* The comments at `DdsToProtobuf.cpp:28` and `:355` say that `str_buffer` is never
  shrunk, so that get_string's complaint about a small buffer appears once per
  session; a bytes member resizes it to its own length (lines 408 and 932), down
  to nothing for an empty one. Only the log is noisier: `CapacityHonest` and
  `NothingForeign` hold all the same. In a collection of strings the room offered
  for an element is what the one before needed, with the same effect.
* An octet array goes to a bytes field in the direction Protobuf to DDS only; in
  the other it meets a switch without a case for arrays (`DdsToProtobuf.cpp:1112`,
  `UnsupportedMember`). A char sequence is accepted as bytes in that direction
  only, too; the other one writes its elements with an accessor for numbers and
  the process ends.
* A string field with a NUL reaches DDS up to the NUL (`CutAtNul`); shorter bytes
  leave the rest of an array zero. `NothingForeign` states both.
* The derived message type name is searched before its allocation is tested
  (`ProtobufTransformation.cxx:538`, `DerivesNameFromNull`).
* `buffer_seq` of `write` is never finalized.

## 6. Not modelled

* The wire format and the text of messages; `message_type` names are model values.
* Values of configuration properties, parsing, logging and trace output: they
  decide no control flow beyond "the call failed", which is in the models.
* `update` of adapter and transformation objects, which only log or return an
  error; the mutex of the transformation framework, compiled only with
  `RTI_TSFM_ENABLE_MUTEX`, which no build file sets; the dynamic user plugin,
  whose constructor is a stub that returns NULL.
* The heap of Connext sequences; time (a timeout is a choice).
* `SequenceHelpers.c`: reached only without a length argument, which the Protobuf
  transformation always passes.
* Vendored libraries, examples, demo, scripts.

## 7. Plan

Done, in this order: reader, abstract handoff and proofs; writer; connection;
transformation; plugin; Protobuf transformation; converter; abstract output and
the refinement of the writer; proofs of all safety properties.

Next:

1. Lemmas about the conversions themselves: `resolve_type_code` and the
   `set_fuzzy_*` tables, stated once for every number and kind.
2. `KafkaRoute`: the composition Kafka input, deserializer, DDS output: what
   reaches the output when a message cannot be parsed, and that the loan of the
   reader spans transform and write.
