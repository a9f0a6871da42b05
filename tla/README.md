# A TLA+ model of the Numaflow data plane

Numaflow runs stream-processing pipelines on Kubernetes.  A pipeline is a graph of
vertices; each vertex is a set of pods, and neighbouring vertices are joined by an
inter-step buffer (ISB), a set of NATS JetStream streams.  A pod reads from its
partition of the buffer, runs a user-defined function (UDF) in a side-car, and writes
the results to the buffers of the next vertices.  This directory models the part of
that system on which its delivery guarantees rest, checks it with TLC and proves the
central invariants with TLAPS.  Paths below are relative to
`src/rust/numaflow-core/src/` unless they start with `src/`.

## 1. The system: inventory

| Component | State | Operations | Interacts through | Hard because | What makes it correct |
|---|---|---|---|---|---|
| ISB reader orchestrator, `pipeline/isb/reader.rs` | read loop position, semaphore of `max_ack_pending` permits, one WIP task per message | `streaming_read`, `process_message_batch`, `wip_loop`, `ack_with_retry`, `nak_with_retry`, `cleanup_on_shutdown` | pulls from the broker, sends `Message`s down a channel, gets the verdict through a oneshot | concurrent WIP tasks, redelivery, endless retries, shutdown | acks only what was processed; bounded in-flight work; drains at shutdown |
| JetStream reader, `pipeline/isb/jetstream/js_reader.rs` | `offset2jsmsg`, the broker handle of each offset | `fetch`, `ack`, `nack`, `mark_wip` | called by loop and WIP tasks | shared map, replaced on redelivery | the handle used is that of the delivery being resolved |
| AckHandle / MessageHandle, `message.rs` | `ref_count`, `Arc` count | `with_message`, `mark_success`, `mark_failed`, `Drop` | forks travel with every result of a UDF | last of several concurrent holders decides | ack iff every fork succeeded |
| Tracker, `tracker.rs` | entries in flight per partition, idle offset | `insert`, `delete`, `lowest_watermark`, `set_idle_offset` | reader, watermark publisher, serving | queried while it changes | exactly the messages in flight |
| Unary / batch / stream mapper, `mapper/map*.rs`, `shared/retry.rs` | concurrency semaphore, error channel, drain mode | `process_concurrent_messages`, `MapUnaryTask::execute`, retry policy | gRPC to the UDF, channel in and out | errors while tasks are running; hard shutdown | every message is resolved by exactly one path |
| ISB writer orchestrator, `pipeline/isb/writer.rs` | one `ISBWriteTask` per message, publish-ack futures (PAFs) | `route_and_write_message`, `write_to_stream`, `resolve_all_pafs`, `write_with_retry` | JetStream writers, handle verdict, watermark publish | timeouts of publishes that were stored, cancellation in the middle of several writes | success means stored everywhere |
| JetStream writer, `pipeline/isb/jetstream/js_writer.rs` | `is_full` | `async_write`, `write`, `check_stream_status` | the broker's stream | stale `is_full`, deduplication by id | waits while full; one copy per id |
| Watermarks, `watermark/` | offset timelines per processor and partition, last published / processed watermark, idle metadata | `fetch_watermark`, `publish_watermark`, heartbeats, idle publishing | KV buckets shared by all pods, tracker | pods come and go, idle publishing races with data | never passes a message that is still to come |
| Reduce: PBQ and WAL, `reduce/pbq.rs`, `reduce/wal/` | segment files, GC events | append, rotate, compact, replay | files on a volume | crash between any two writes | replay gives back every message that was not garbage collected |
| Reduce: windowers and reducers, `reduce/reducer/` | open windows, reduce tasks | assign, close, merge, expand | watermark, PBQ, UDF | a window closes while data for it arrives | each message is in its windows exactly once |
| Sink, `sinker/` | retry state, fallback and onSuccess buffers | write batch, retry, fallback | user sink, handle verdict | partial failure of a batch | ack only what a sink took |
| Source, `source.rs` | in-flight acks, read-ahead | read, ack batch, late data | user source, tracker, watermark | ack order and shutdown | no loss |
| Monovertex, `monovertex/` | bypass router | source to sink in one pod | bypass channels | two paths to the sink | each message takes one |
| Rate limiter, `src/rust/numaflow-throttling` | tokens, known pods | acquire, deposit | Redis | stale pod count | total rate bounded |
| Serving, side inputs, daemon, connectors | — | — | HTTP, KV, client libraries | — | — |
| Controller (Go, `src/pkg/reconciler`) | pipeline phases, replica counts | reconcile, scale | Kubernetes API | retried reconciliation | phases converge |

The hazards that follow from this list are in `PROJECT.json`, each at the line where it
bites and with the properties that would catch it.

## 2. Modules

| Module | Models |
|---|---|
| `ISBReader` | reader orchestrator, JetStream reader, AckHandle, the in-flight part of the tracker |
| `ISBReaderProofs` | theorems about `ISBReader` |
| `ISBWriter`, `ISBWriterProofs` | writer orchestrator and JetStream writers, and theorems about them |
| `MapVertex`, `MapVertexProofs` | reader, unary mapper and writer composed into one pod, as `MapForwarder` does, and the proof that the pod implements `AtLeastOnce` |
| `AtLeastOnce` | abstract: an input is acked only when its debts are settled |
| `OffsetTimeline` | the offset timeline as operators: `put`, `get_event_time`, the head |
| `Timeline`, `TimelineProofs` | a timeline under every sequence of WMBs, and theorems about it |
| `WatermarkVertex`, `WatermarkVertexProofs` | the watermark of a map pod, from upstream's WMBs to its own, and theorems about it; uses `OffsetTimeline` |
| `ReduceWal`, `ReduceWalProofs` | PBQ, the segment writers, compaction and replay of a reduce vertex, and theorems about them |
| `AlignedReduce`, `AlignedReduceProofs` | fixed and sliding windows: window managers, reducer, actor, reduce tasks, watermark, and theorems about them |
| `SessionReduce` | session windows: window manager, reducer, reduce task, watermark |
| `MonoVertex`, `MonoVertexProofs` | source, sink writer, sink actors, bypass router and the recovery loop of a monovertex, and theorems about them |
| `MC...` | the instances for TLC: inputs, configurations, routes |

### ISBReader

State: `broker` is the consumer's view of every offset (external): ready, delivered
(ack pending) or acked.  `jsmsg` stands for the keys of `offset2jsmsg`, `tracked` for the
tracker's entries.  `loop`, `batch`, `avail` and `held` are the read loop: where it is,
what it has still to process, and the permits of the semaphore and of the
`OwnedSemaphorePermit` it holds.  Each member of `Tasks` is one spawned WIP task:
`st` is where it is in `wip_loop`, `refs` the number of live `MessageHandle`s (the `Arc`
count) and `rc` the `ref_count` of the `AckHandle`.  `bad` and `processed` are history: they
record what really happened to a delivery, independently of the counters, so that the
properties can compare the two.

Actions, in the order of the code: `CheckCancel` (the token is honoured at the top of the
loop only), `Acquire` (`acquire_many_owned`), `Fetch` (any subset of at most a batch is
delivered, any subset of it is received; a throttled read or a failed pull is the empty
one), `StoreHandles` / `StoreFails` (the handle map is filled while decoding; one
undecodable message fails the fetch), then for each message `AckCtrl` / `AckCtrlFails`,
`DropDuplicate`, `InsertFails`, `Deliver` or `DeliverClosed`, and `EndBatch`, `Cleanup`.
`WithMessage`, `MarkSuccess`, `MarkFailed` are the handle's operations; `VerdictOf` is
`AckHandle::drop`.  `AckOk`, `AckError`, `NakOk`, `NakError`, `OffsetNotFound`, `RemoveHandle`,
`Untrack`, `Release` are the steps of a WIP task.  Telling the broker and removing the
handle are separate steps, because the code awaits between them.  The surroundings are
`AckWaitExpires`, `Cancel`, `DownstreamGone` with `JoinCancels`, `Crash` and `Restart`.

Data left out: payloads, ids, metrics, tracing.  A batch is a set, so the messages of a
batch are processed in any order, which includes the code's.  `mark_wip` changes no state of
the pod; that it fails or comes late shows as `AckWaitExpires`.

### ISBWriter

A job is a running `ISBWriteTask` (a permit of `paf_concurrency`).  `out[j][s]` is the
`WriteOutcome` of its write to stream `s`, and then what became of its PAF; the loops over
streams run in stream order (`AtStream`).  `Publish`, `DiscardFull`, `GiveUp` are the three
ways out of `write_to_stream`, `PafOk` / `PafError` and `FallbackOk` / `FallbackError` those of
`resolve_all_pafs` and `write_with_retry`; `Routed`, `Resolved` and `EndWrite` are the decisions
of `execute`.  `full` is `is_full`, which starts TRUE and is refreshed by
`check_stream_status` until the token is cancelled.  The streams are external: `net` holds
publishes on their way, `Persist` stores one unless its id is in the window `seen`, `Lose`
loses it, `ForgetId` moves the window.  `Submit` is the reader handing in again whatever no
task has succeeded for.

### MapVertex and AtLeastOnce

`MapVertex` instantiates `ISBReader` (as `R`) and `ISBWriter` (as `W`) over shared variables.
What `ISBReader` leaves open, who holds a handle and when it is marked, is fixed here:
`ms[t]` is where the message of WIP task `t` is in the mapper (`queued` in the channel, `taken` by
the loop that waits for a permit, `mapping` in the UDF call, `sending` its results), `queue`
the forks in the channel to the writer, `owner` the task a write job belongs to.
`MapErrorSeen` is the biased first branch of the select in `process_concurrent_messages`,
`MapDrain` its drain mode.  `MapCancelled` and the retry outcomes come from
`RetryController::next_step`.  The deduplication window is left out of this composition, as it
decides only how many copies a stream holds; `ISBWriter` has it.  The panic of a
component (`DownstreamGone`) is left to `ISBReader`.

`AtLeastOnce` is the promise: debts (stream, result) are settled and stay settled, an input
may be waived by configuration, and an input is acked only when it is waived or
all its debts are settled; an ack is for ever.  `ImplementsAtLeastOnce` is the refinement:
debts are settled when stored or discarded under `DiscardLatest`, waived when dropped under
`onFailure: drop`.

### OffsetTimeline, Timeline and WatermarkVertex

A WMB (offset, watermark, idle) of a processor promises that no message it writes to
the partition after that offset is older than the watermark.  `OffsetTimeline` holds the six
cases of `put` and the lookup; `Timeline` applies `put` to arbitrary WMBs and keeps the set of
all of them (`puts`) as history, so that an answer can be traced to what was published.

`WatermarkVertex` asks whether a pod that is told the truth tells the truth.  Upstream is
external and described by the contract alone: `UpWrite` writes a message with a floor, the
least event time it may have (a data message) or a control message; `Observe` shows the pod a
WMB that is right, never falls, and is idle only for a control message.  The first two are
then properties of what the pod publishes (`PublishedIsRight`, `PublishedNeverFalls`), so that
vertices can be chained.

The pod's state: `status` and `tl` are the processor manager's map, `last` is
`last_processed_wm`, `idle` the tracker's `idle_offset_map`, `trk` the watermark in each tracker
entry, `lp` the publisher's `LastPublishedState`, `idleOut` the `wmb_msg_offset` of the idle
manager, `sent` the entry in the key-value store.  `rd` is the position of each partition's
reader: `FetchEmpty` or `FetchMessage`, `NoteIdle` or `NoteBusy` (`handle_idle_watermarks`), then
`SkipCtrl` or `Enrich` and `Track`.  A batch is one message; the steps are those the code awaits
between.  `Write`, `PublishWatermark`, `Done`, `Nack` follow the message out.  `TickMin`, `TickIdle`,
`TickSkip`, `TickOffset`, `TickPublish` are `publish_idle_watermark`, which holds the lock of
`ISBWatermarkHandle` throughout (`tk # "off"`); readers and writers that need the lock wait, but
the tracker is outside it, so messages are read, tracked and finished between the ticker's steps.

`Hazards` selects what may happen (`AllHazards` lists the choices); without any the pod is
warm, every empty read means an empty partition and all processors are heard of.

Left out: several incoming edges (joins) and several output streams, whose states are
independent but for the minimum; several results of a message (`MapVertex` has them); the other
pods that read the same partition, each of which publishes for itself; the duplicate drop
(`ISBReader` has it), so that a nacked message comes back only after it has left the tracker.

### ReduceWal

`data`, `gc` and `cmp` are the segments of the three kinds, oldest first.  A segment has a create
time, entries, and is active, frozen (renamed) or left behind by a pod that is gone.  Each
writer has a channel (`dq`, `gq`, `cq`); `WriteData` writes a message and acks it, the rotations
happen at any time, as they depend on size, age and inactivity.  The compactor's cycle is
`Snapshot` (the newest data segment, taken first), `ReadGc`, a pass over compaction segments and one
over data segments (`CmpPass` / `SwitchCmp`, `DataPass` / `SwitchData`), then `DeleteGc`, which removes one GC
segment per step, oldest first, until `EndCycle`.  A pass lists its segments when it starts; `files` is the last of
them, and those up to it that are frozen are still to be read (`Listed`).  At boot the same
cycle also replays.  The switch of a segment sends `Rotate` and deletes the segment without
waiting for the writer, as in the code.  The reducer is external: `CloseWindow` finishes a window
and sends its GC event, as long as there is a GC writer, `todo` and `done` are what it holds and has finished.
What an event covers, the written and finished messages of its key before its end, is recorded with it (`covers`).  Aligned windows
are the case of one key.  `Exit` waits for what `read_isb_with_wal` waits for, which does not
include the GC writer (`StopGc` may or may not happen).  `retired`, `faulty` and `lagged` are history.
One abstraction of time is made: the first tick of the periodic compaction is taken to come after the PBQ has
passed on the last replayed entry and started to read (`Snapshot`), as the boot cycle and the end of the replay channel
follow each other within far less than the compaction interval.

### AlignedReduce

`kind` is chosen at the start: fixed windows, or sliding ones of slide `Slide`.  A window is its
start.  `chan` is the channel from PBQ, `active`, `closed` and `maxDel` the window manager, `aq` the
channel to the actor, `stream` its `ActiveStream`s (`run`, `failed`, or `dead` after the hard
shutdown), `closing` the task `window_close` awaits, `saved` the state file.  `ConsumeData` is
`assign_and_close_windows` as a whole, with its two lateness checks; `CreateWindows` and
`AssignWindows` are the managers' arithmetic, compared by `ResultComplete` with the interval
definition `WindowsOf`.  `GcWindow` takes the oldest window before it removes its own.  A stop is
a cancellation (soft, then hard) or a kill; `Frozen` leaves open how much of the GC channel
reached a frozen segment.  A kill also takes the items of the segments that are not frozen, which no boot lists
(`replay.rs:181`): `gone` is what was taken, any member of `Losses`, more than the files allow (the proofs have every
set); which of the items can be in such a segment is the business of `ReduceWal`, which has the files.  What is left
(`Readable`) and not older than `gcEnd` is replayed.

The responses of a task are handed to the writer as they come: `Respond` is one of them, written downstream, after which
the task may still fail (`CloseFails`) or be cancelled (`CloseCancelled`); it then ends without GC event and its
window stays in `closed_windows`.  Only `WriteResults`, the end of the response stream and of the writer, makes the window
`finished`.  `results` are the responses for windows that were not finished before, each with the messages
its task was sent, `again` the finished windows with one more.  A response is taken to come after the close of its window; a
UDF that streams responses earlier reduces what it was sent until then.

`early` and `lost` are history too: a watermark was published while an item was on its way from PBQ or the channel was
being drained after an error, the hard shutdown made a writer give a result up.

### SessionReduce

`Insert` and `DeleteWindow` keep what matters of `BTreeSet<Window>`: the order, and so equality, is the
end time alone.  `Assign` is `assign_windows` (open, append, expand), `Groups` and `CloseGroup` the
merging of expired windows with each other and then with an active one, `Closings` the loop
over keys in the order of a HashMap.  The SDK is external: it keeps the windows it is told of
(`SdkApply`) and answers a closed one with a result and an EOF (`Response`, `Eof`).
`tracked`, one window per key, is `tracked_windows`; `CollectGarbage` writes the GC events and deletes the
windows at `BatchTick`, after the writer has ended, and at the end of the task.  PBQ, its channel (`Read`, which raises
`latest_fetched_wm`, runs ahead of `Take`) and what a kill takes (`gone`) are as in `AlignedReduce`; `early` are the messages that a published
watermark overtook in the channel, or that were drained from it.  `flaws` is history:
which of the weaknesses of section 5 a behaviour has met.  The properties except the flaws they
cannot hold under, each by name, and `session_lost` shows one of them.

### MonoVertex

`cfg` is chosen at the start: read mode (one batch, read-ahead, streaming), concurrency,
retry strategy, secondary sinks, and the tags that the transformer gives each message (drop or
nack; the bypass condition it meets).  `spc`, `got`, `out` are the source task, `task` its ack
tasks (each is a permit), `handle` the oneshot of each message: open, ok, failed.  `job` is what the
writer and the bypass receiver are doing: a batch goes through the `Legs` of a write in order,
`Sorted` is the treatment of one round of answers by `SinkActor`, `Exhausted` the strategy after
the last retry.  `queue` are the requests at each actor, which both workers share.  An error nacks the
batch, cancels the attempt and drains; `Rebuild` is `run_forwarder_with_recovery`.  With strategy retry the code
gives up after `u16::MAX` attempts (`config/components/sink.rs:9`) and fails the batch; `GivesUp` has the retry go on, as
`SinkErrs` fails a batch at any attempt with the same outcome.
`handled`, `refused` and `ignored` are history: what a sink took or was dropped on purpose, what
was nacked, and what the bypass receiver acked all the same.

## 3. Runs

| Run | Checks | Shows |
|---|---|---|
| `reader` | `TypeOK`, `AckedOnlyIfProcessed`, `NoConcurrentDuplicate`, `DrainedOnShutdown`, `ShutdownTerminates`, `EveryMessageAcked` | acks and tracker through all redeliveries and interleavings; after cancellation the reader ends even if the broker never answers; if faults end every message is acked |
| `writer` | `TypeOK`, `SuccessMeansStored`, `DuplicatesExplained`, `WritesEndOnShutdown`, `EveryMessageWritten` | success means stored; duplicates have one of two causes; tasks end after cancellation even with full buffers; if faults are transient every message is written |
| `map_vertex` | `EveryReferenceHeld`, `ImplementsAtLeastOnce` | each counted reference has one holder; the pod implements `AtLeastOnce` |
| `timeline` | `AnswerWasPublished`, `AnswersNeverFall` | lookup in a timeline under any WMBs |
| `watermark_right` | `PublishedIsRight` | one processor, idle periods included: the published watermark overtakes no message |
| `watermark_hazards` | `WatermarkBelowFloor`, `PublishedNeverFalls` | what holds under every hazard at once, with two processors |
| `wal` | `TypeOK`, `ReplayComplete`, `ReplayInOrder`, `RetiredNotReplayed` | after a restart the reducer has every acked message it has not finished, in order; finished ones stay away although GC segments are deleted |
| `aligned_reduce` | `TypeOK`, `ResultComplete`, `GcContract`, `NoSecondResult`, `WatermarkWaitsForWindows`, `EveryMessageReduced` | a result has every message of its window once, but for those a kill has taken; a GC event covers only messages of finished windows; a graceful restart repeats no finished sliding window; the watermark waits; nothing that is left is forgotten |
| `session` | `TypeOK`, `ResultIsSession`, `GcContract`, `WatermarkWaitsForSessions`, `ClosedReleased`, `EveryMessageReduced` | the same for sessions: each result is a maximal run of messages less than the timeout apart |
| `session_lost` | `NoMessageLost` (violated) | finding 1 |
| `monovertex` | `TypeOK`, `AckedOnlyIfHandled`, `NackHonoured`, `EveryHandleHeld`, `DrainTerminates`, `EveryMessageAcked` | no ack for an unwritten message; nacks arrive; each handle has one holder; a cancelled attempt ends although sinks fail for ever; every message is acked in the end |
| `monovertex_nack` | `NackHonouredAlways` (violated) | finding 2 |

The type invariants of `MapVertex` and `WatermarkVertex` document their state; that of `Timeline`,
with `Sorted` and `HeadNeverFalls`, is proved and not checked again.

Bounds.  `reader` has a data and a control message, three permits and batches of two, so that a
redelivery can overlap its original, a batch can be larger than the free permits, and a third
task can run while two resolve; one fork makes the verdict depend on two holders.
One stop is a cancellation or a crash (`MaxStops`); restarts after a cancellation are not
bounded.  `writer` has one job at a time, two streams, one that discards and one that retries, a
message that is forwarded and one that asks for a nack; two copies (`MaxCopies`, saturating) are
enough to tell one from several.  `map_vertex` has one message with two results, so that one may be
stored and the other fail, discarded or not.
`timeline` has a capacity of three (the code has ten), four offsets and three watermarks, so that
entries are pushed out, raised in place and refused.  The `watermark` runs have two watermarks,
which tell early from late, and two or three messages in a partition: `watermark_right` needs
three (idle, data, idle again).  Its capacity is `MaxIn + 1`, so no entry is pushed out; section 5 says
what happens then.  `watermark_hazards` needs only one message in the output stream, as the
ticker raises the WMB of a control message in place.
`wal` has two messages with event times at both sides of a window end, six data and GC segments in
all (`MaxClock`) and one stop: enough for two incarnations, for GC segments between data
segments, and for several compaction cycles in each.
`aligned_reduce` has windows of length three that slide by two, so that the overlaps are uneven,
and two inputs: out-of-order messages, one at the edge of two windows, one in a window that starts
below zero; a message before any watermark, and one that is late.  One task fails and the pod
stops once, in one behaviour.  A kill takes nothing, or what was read after the first item.  `session` has four inputs
(a bridge between two sessions of which one has expired; two sessions of a key, one of which ends with that of
another key; a bridge and a second message at the time of the later session; a session that is closed by the watermark of
the message behind it), a channel of two items, so that a watermark can overtake one, and one
fault; a kill takes nothing, or what was read after the second item.  `monovertex` has two messages
and four configurations, which together have every mode, strategy, sink and route; one
answer other than success or failure (`MaxOdd`) and one fault of the source or store
(`MaxFaults`) per behaviour, any number of sink failures, one shutdown, any number of rebuilds.

Deadlock is checked in every run: the pod is never stuck, whatever the broker does.

### Fairness

In `ISBReader`, `ISBWriter` and `MapVertex`, `Progress` is what the runtime gives: the read loop, every
WIP task and every write job that can take a step eventually takes one, a holder of a handle
eventually marks or drops it, a request that was cut off ends with an error, the join notices a
panic, and the kubelet restarts an exited pod.  The shutdown properties assume no more: in particular
no broker request need ever succeed.  `FaultsEnd` is the premise of the delivery properties: from some
point on the broker answers, ack_wait runs out for a delivery nobody marks as in progress, and an
attempt repeated for ever is eventually accepted (strong fairness of the fetch that receives a
given message, of a publish, and of an `is_full` refresh that finds room).  No progress holds without
these: a broker that never answers an ack can have nothing acked.

In the reduce modules `FairSpec` gives weak fairness to the reducer, the actor and its tasks, to the
UDF's answers, to result writes, the batch timer and the graceful timeout (the hard shutdown), and
to exit and boot.  Input, cancellation, failures and the ticker have none.

In `MonoVertex` every task of the pod has weak fairness; the source delivers again what was neither
acked nor in flight and reads every ready message at some time; a sink that is called again and again
in a live attempt accepts the batch at some time (strong fairness of `SinkAccepts`).  `DrainTerminates` does not
depend on the last: a sink may fail for ever after the cancellation.

## 4. Proofs

`ISBReaderProofs` proves, for every set of offsets (infinite ones too), every finite set of
tasks at least as large as `max_ack_pending`, every batch size and any number of stops and forks:

* `TypeCorrect`: `Spec => []TypeOK`, which includes that no permit count and no reference count goes below zero;
* `AckSafety`: `Spec => []AckedOnlyIfProcessed`;
* `TrackerExact`: `Spec => [](NoConcurrentDuplicate /\ TrackedMatchesInFlight)`;
* `PermitSafety`: `Spec => [](PermitsConserved /\ BatchHasPermits)`;
* `CleanShutdown`: `Spec => []DrainedOnShutdown`.

Assumptions: `OffsetsAssumption`, `SizesAssumption`, `TasksAssumption`, all stated in
`ISBReader`.  `TasksAssumption` only says that task identities do not run out before permits do.

None of the properties is inductive.  The invariant is
`TypeOK /\ PermitInv /\ HandleInv /\ TrackInv` (theorem `Invariance`):

* `PermitInv` counts permits and relates `held` to the position of the loop and to the size of the
  batch; without it `Deliver` could take `held` below zero;
* `HandleInv` relates the two counters of a handle to its history: a live task has `rc >= refs > 0`,
  and strictly more exactly when one of its handles failed, so the last holder's verdict is an ack only
  if none failed, in which case the offset is in `processed`;
* `TrackInv` says that the tracker is the image of the tasks that have not untracked, and that this
  map is one to one; injectivity is what makes `Untrack` remove only its own task's offset.

Each part is preserved by every action under the parts before it (`PermitStep`, `HandleStep`,
`TrackStep`, one step per action); `Invariance` puts them together.  `CleanShutdown` follows from
`PermitInv`: with all permits back no task is live.  The cardinality facts are taken from
`FiniteSetTheorems`.

`TimelineProofs` proves, for every capacity above zero and all sets of offsets and watermarks:

* `TypeCorrect`: the timeline has exactly `Capacity` entries for ever;
* `SortedAlways`: `Spec => []Sorted`;
* `AnswerSound`: `Spec => []AnswerWasPublished`;
* `HeadMonotone`: `Spec => HeadNeverFalls`;
* `AnswersMonotone`: `Spec => AnswersNeverFall`.

The lemma `PutCases` reduces `put` to its three outcomes (a new head, a raised head, no change);
`FirstExists` (from the least-number principle) gives the entry that `get_event_time` finds.  `Invariance` proves the
conjunction of type, order and origin of the entries; the two action properties follow from it,
because in a sorted timeline a new head only comes in front of the entry found before.
Assumptions: `CapacityAssumption`, `TimelineAssumption`.

`ISBWriterProofs` proves, for every set of messages, write jobs and streams, every routing and tagging,
every subset of streams that discard, and any number of crashes (assumption: `WriterAssumption`):

* `TypesHold`: `Spec => []TypeOK`;
* `NoSilentLoss`: `Spec => []SuccessMeansStored`;
* `DuplicatesAreExplained`: `Spec => []DuplicatesExplained`.

`SuccessMeansStored` speaks of finished tasks only, so the invariant (`InvariantHolds`) adds
`JobInv`, what the outcomes of a running task mean: in each phase which outcomes a routed stream
can have, that `ok` means a copy is in the stream, `dropped` that it was allowed to be discarded,
and `retry` that a fallback write is on record.  `DuplicatesExplained` needs `CopyInv`: a stream
that holds a message has its id in the deduplication window, unless a fallback or the end of the
window explains the copy; otherwise a second publish of a stored message could be a first one.

`MapVertexProofs` proves, for every set of messages, tasks, write jobs and streams, every fan-out, routing
and tagging of the results (assumption: `MapAssumption`):

* `ReferencesHeld`: `Spec => []EveryReferenceHeld`;
* `AtLeastOnceDelivery`: `Spec => ImplementsAtLeastOnce`, the refinement of `AtLeastOnce`.

The invariant has five parts.  `HoldInv` counts: the references of a live handle are the map task, the
forks in the channel and the write jobs, and each result is sent once (a result sent twice would
let one job pay for another).  `HandleInv` relates the two counters of the handle: they differ exactly
when a holder failed.  `JobInv` gives the outcomes of a write their meaning, as in the writer.
`DebtInv` carries the argument: as long as the message may still be acked, every result of it is
unsent, in the channel, with a job, or paid.  When the last reference goes without a failure, `HoldInv`
leaves only `paid`, and that is what `AtLeastOnce` asks of an ack.  Every step of the pod is an
abstract step (`Settle`, `Waive`, `Ack`) or changes nothing the abstract specification sees
(`RefineStep`).

`MonoVertexProofs` proves, for every set of messages (infinite ones too), every batch size and retry
limit, every set of deployments, and any number of faults, odd answers and rebuilds (assumption:
`MonoVertexAssumption`):

* `TypesHold`: `Spec => []TypeOK`;
* `AckedIsHandled`: `Spec => []AckedOnlyIfHandled`;
* `NacksHonoured`: `Spec => []NackHonoured`;
* `HandlesHeld`: `Spec => []EveryHandleHeld`.

The invariant (`InvariantHolds`) is `Types /\ HoldInv /\ WaitInv /\ JobInv /\ AckInv /\ NackInv /\ QueueInv`:

* `HoldInv`: the open handles are the disjoint union of the source's own list, the two channels and
  the two batches, and no channel holds a message twice, so marking a batch touches no handle of others;
* `WaitInv`: the tracker is the disjoint union of what the ack tasks wait for, and a message has a
  handle exactly while it is in the tracker; a finished source task has no ack task left, which is why
  the empty tracker of a rebuilt forwarder is right;
* `JobInv`: every message of a batch is handled, set aside as nacked, left for this leg, or routed to a
  later one, unless the answer was bad (then the batch fails); without it a job could run out of legs
  with a message nobody wrote, and ack it;
* `AckInv` follows a success from the mark through the acks of a task to the source; `NackInv` says that
  the writer keeps what was nacked set aside until the batch is resolved;
* `QueueInv`: a worker is in the queue of an actor exactly while its job is on a leg of that actor, so the
  actor that answers is the one whose queue is released.

The steps that mark, route or write share the lemmas `WorkDone` (a worker's step that
respects its job keeps the invariant) and `ProceedWorks` (so does going on to the next leg).  A step
that moves no handle is covered by `QuietStep`.

`WatermarkVertexProofs` proves, for every set of processors, every set of partitions, every set of hazards,
every capacity and all bounds (assumptions: `CapacityAssumption`, `VertexAssumption`):

* `TypesHold`: `Spec => []TypeOK`;
* `WatermarksBelowFloor`: `Spec => WatermarkBelowFloor`;
* `PublishedMonotone`: `Spec => PublishedNeverFalls`;
* `PublishedPromised`: `Spec => [](\E p \in Procs : sent.watermark <= promise[p])`: what is published is not ahead of
  every upstream processor.

The invariant `GInv` adds to the types that every entry of every timeline is right (`Told`: no message of the
processor after its offset is below its watermark, and the promise keeps it so), that what a reader or a
worker holds was written (`Reach`), and that what was sent is not ahead of `LastPublishedState` (`SentOld`).
`get_event_time` finds an entry before the offset of the message, so `Told` bounds it by the floor; the minima
over processors and partitions only lower it.  `MinOf` shows that `Min` is a minimum for sets of integers that are
bounded below, finite or not.

`PublishedPromised` is what is left of `PublishedIsRight` under all hazards, where the latter fails (section 5).  Its invariant
`AllVouched` follows a watermark through the pod: each one that the fetcher, a reader, the tracker, the ticker or the
publisher holds is at most the promise of some processor.  A lookup takes a minimum over the timelines that are known, each
of whose entries was promised (`Told`); what a processor that is unknown or forgotten leaves out only changes
which one vouches; and promises only grow, so a watermark that was vouched for stays so however late it is published.

`AlignedReduceProofs` proves, for every set of inputs in which the watermark never falls and a message behind it is
marked late, every window length, slide, lateness and channel capacity, any number of failures and stops, and whatever items
kills take (assumption: `AlignedAssumption`):

* `AlignedTypes`: `Spec => []TypeOK`;
* `AlignedResults`: `Spec => []ResultComplete`;
* `AlignedGcContract`: `Spec => []GcContract`;
* `AlignedNoSecondResult`: `Spec => []NoSecondResult`;
* `AlignedWatermark`: `Spec => []WatermarkWaitsForWindows`.

These are all the invariants of `aligned_reduce`.  They share one inductive invariant, `IInv` (theorem
`AlignedInvariant`).  It starts from what depends on the input alone: items are consumed in the order they were read, so
the watermark a message is judged by is its own, `X(m)`, and whether it is accepted (`Accept`) is the same in every life
of the pod.  The parts:

* `Types` and `Stopped`: the types, finite sets of windows, and what is left of a life that has ended;
* `Order`: the channel and the replay are increasing, and no watermark the pod holds is ahead of what is still to come;
* `Windows`: every closed window is older than every active one, and the watermark has passed it;
* `Actor`: in the queue of the actor nothing follows the close of a window, closes come in the order of the windows, a
  window is opened once, and the task the actor waits for is older than all closes still queued;
* `Behind`: no GC event is ahead of the watermark, and what is to come survives it;
* `Cover` and `Published`: a logged message (accepted, not collected, not taken by a kill) that has come is in all its
  windows or they are finished, whatever the state file says; so the published watermark has passed only finished windows;
* `Once`: a finished sliding window is past `max_deleted_window_end_time`, in memory or in the state file; one
  whose task failed after a response is not, and is still among the windows;
* `Accepted`, `Fixed`, `Collected`: what a GC event covers was accepted; with fixed windows, whose ends are multiples
  of the length, the windows before it are finished, and with sliding ones the oldest window bounds it;
* `Arrived`, `Content`, `Resulted`: an open window was sent exactly what of its logged messages has come, a closing one
  all of them, in the order they were read; a response therefore has every message of its window once, but for those that were
  taken, and none is accepted for it later.

There is one lemma per action and part.  Three facts carry the arithmetic: `CreateWindows` gives exactly the windows
that contain the event time, closing by the watermark takes a prefix of the active windows, and sorting a finite set of
integers gives the one increasing sequence with that range.  Where an induction over a finite set would be used, the proof
takes a least counterexample (`LeastNatural`, `WFMin`).

`ReduceWalProofs` proves, for every number of messages, every assignment of keys and event times to them, any number of
segments, of restarts and of compaction cycles (assumption: `WalAssumption`):

* `WalTypes`: `Spec => []TypeOK`;
* `WalReplayComplete`: `Spec => []ReplayComplete`;
* `WalReplayInOrder`: `Spec => []ReplayInOrder`;
* `WalRetiredNotReplayed`: `Spec => RetiredNotReplayed`, an action property.

Segments are files that are listed once and then read, copied and removed while writers append, so none of these is
inductive.  The invariants of the first three build on each other:

* `Struct`: the types, and `Shape` and `Pass`: which segments a life of the pod has open, and that the segments a
  pass has listed stay where they are, at the front, until the pass removes them; each action's effect on
  a list of segments is one of seven moves (`PutMoves` to `RemoveMoves`), so the rest argues about those only;
* `Ahead`: a GC event, in the channel, in a segment or read by the compactor, ends no later than the last window
  closed for its key, so what `should_retain_message` drops is finished;
* `Stored`: what a segment or the compaction channel holds was acked;  `Fresh`: the boot cycle starts with an empty channel
  and an empty active segment, so a rotation of the writer lists nothing new;
* `Sound`, as long as nothing failed: an acked message is finished, in a segment, or on its way to one (`Safe`); what
  a pass has read of its first segment was copied (`Passed`), and replayed at boot (`Replayed`); so a segment that is
  removed takes nothing with it.  The order of the cycle matters here: a message leaves a segment only after it is in the
  channel, and the channel is only emptied into the active compaction segment;
* `ReadInTurn`, `DataInTurn`: messages are acked in the order they are read and a data segment is increasing;
* `Idle`, `Tidy`, `Listing`: between two segments of a pass the compaction writer has a `Rotate` at the end of its channel
  or an empty segment, and a cycle that starts with an empty channel sees all that was copied;
* `Order`, as long as nothing failed and no cycle overtook the writer: what is to be read again of the compaction
  segments, then what was copied, then what is to be read of the data segments are each increasing and in this order
  (`CmpInTurn`, `CopiesFirst`), and all that is still awaited is after what was replayed (`OutInTurn`).

`WalRetiredNotReplayed` is about the retention gate of `delete_gc_files` and holds through kills and file errors.  Its
invariant, `Retained`, adds to the parts above:

* `Times`: create times rise along the data and along the GC segments, and none is after the clock;
* `Events`, `Before`: what an event covers was acked, is of its key and before its end, and was written to data segments
  that are older than the GC segment opened after the event's;
* `Scan`: the ends of the events in a scanned GC segment are in `oldest`;  `Purged`: what a cycle has copied it retains;
* `Gate`: a data segment older than `newest` is frozen when the cycle starts, is listed by its pass, and is gone when GC
  segments are deleted, unless a dead pod left it, and then it is never read;
* `Kept`: whatever is still stored of a retired message is covered by a frozen GC segment that is still there.  The
  deletion keeps it because a segment that is `Spent` covers nothing stored (`SpentCoversNothing`): its successor
  is older than `newest`, so by `Before` and `Gate` the data segments it covers entries of are gone, and by `Scan` and
  `Purged` none of these entries was copied;
* `Closing`, `Spared`: an event written during the boot cycle covers nothing the cycle has left to read, except second
  copies of what it replayed, so freezing it retires nothing that is replayed later.

This proof corrected the model: the messages an event covers were once taken to be all finished ones, among them
messages that a killed pod had passed to the reducer and never written.

Only model-checked:

* all liveness, as fairness and ENABLED are outside the prover;
* `SessionReduce`.  Its definitions rest on folds and on sorting a set into a sequence (`FoldLeft`, `FoldRight`,
  `SetToSortSeq`, `FlattenSeq`); what these return for every input needs an induction the prover cannot do.

## 5. Findings

1. `session_lost`.  `SessionWindowManager::assign_windows` (`session.rs:95`) inserts an expanded window
   into a `BTreeSet<Window>`, in which windows are compared by their end alone
   (`unaligned/windower.rs:35`).  If another window of the key has the same end, the insertion does
   nothing: the window that was expanded is removed, the new one is in no set, although the UDF was
   told of it, and it is never closed.  With a timeout of 4, messages at 1 and 7 open [1,5) and [7,11);
   one at 4 expands the first to [1,8); a second message at 7 finds [1,8) first and expands it to [1,11),
   whose end is that of [7,11).  The messages of the lost window are in no result
   (`src/docs/user-guide/user-defined-functions/reduce/windowing/session.md:13`: the windows "are
   merged into one").
2. `monovertex_nack`.  On the bypass path `perform_write` discards the `ProcessedSinkBatch` of each of its writes
   (`write_to_sink`, `write_to_on_success`, `write_to_fallback`; in the trace it is the second)
   and `streaming_bypass_write` marks the whole batch as a success (`bypass_router.rs:320`), so a message
   the sink nacked is acked at the source.  `src/docs/user-guide/reference/per-message-nack.md:13` says
   that a nacked message is redelivered.

### Exceptions and observations

What the properties except, and what was met on the way.  None of it has a run of its own.

Reader and writer:

* `JetStreamReader::nack` (`js_reader.rs:234`) publishes the Nak and only then removes the handle.  A
  redelivery fetched in between has its handle removed in place of the old one; its ack finds no handle and
  is given up (`OffsetNotFound` is not retried), contrary to the comment at `reader.rs:540`.  The
  message is not lost (`reader` passes with this behaviour in): ack_wait brings it back.
* The fallback write after a failed PAF (`js_writer.rs:306`) carries no message id, so a stream may hold a
  message twice without any crash; `src/docs/README.md:18` promises that no element is duplicated.
  `DuplicatesExplained` shows that this and the end of the deduplication window are the only causes.

Watermark.  `watermark_right` has one processor, one partition, no hazards and enough capacity, and needs
all of it: `PublishedIsRight` is violated in the following instances, all of which the code can meet.

* `Hazards = {"throttle"}`: a read that the rate limiter or an error leaves empty is taken for an idle
  partition (`reader.rs:444`), although `watermark/isb.rs:166` warns of just that case; with a backlog and an idle
  upstream the ticker publishes the head idle watermark, and the backlog is late
  (`src/docs/core-concepts/streaming.md:336`: "Watermarks never advance past unprocessed data").
* `Hazards = {"race"}`: the head is looked up after the empty read; upstream may have written and
  turned idle in between.
* `Hazards = {"cold"}`, or a capacity smaller than the backlog: -1 means "nothing in flight"
  (`watermark/isb.rs:132`) and also "unknown watermark", which messages have after a restart or behind
  a long backlog; the idle watermark then overtakes them.
* `Hazards = {"nack"}`: a nacked message leaves the tracker at once, so nothing holds the watermark back
  until it is delivered again.
* Two processors and four messages (p1 idle, p2 idle, p2 data, p2 idle): the optimistic lock compares
  the offset of one head, that of least watermark, and the other one may have moved since the
  reader's look (`watermark/isb.rs:204`).
* Two partitions of one processor: `get_idle_watermark` looks up the idle heads one by one, and each lookup stores the
  head's watermark in `last_processed_wm` (`wm_fetcher.rs:213`), also when its offset is then found not to match
  (`watermark/isb.rs:204`).  A message of another partition is given the least of the stored watermarks, which has then
  passed messages the first partition's reader has yet to fetch.

`WatermarkBelowFloor` speaks of known processors, because a deleted one is forgotten at the first
offset beyond its last WMB (`wm_fetcher.rs:79`), while messages it wrote after that WMB may be unread.

WAL:

* Only `.frozen` segments are listed (`replay.rs:181`).  What a killed pod had in its active segment was
  acked and is never read again; `sliding.rs:40` takes a SIGKILL for a case of duplicates only.
  `ReplayComplete` therefore excepts kills and I/O errors (`faulty`).  In `AlignedReduce` and `SessionReduce` the kill takes these items
  (`gone`), and the properties except the messages taken and nothing else: the first result of a window or session may lack them, they are
  never reduced, and, where the item that would have closed a window is taken, the window waits for the next one.
* A compaction segment is replaced by entries that are still on their way to the writer
  (`compactor.rs:364`).  A cycle that starts before the writer has caught up reads around them: the order of
  the next replay changes and a GC segment may go too early (`lagged`).
* An error in the boot compaction closes the replay channel, which PBQ takes for the end of the replay.
* The join handle of the GC writer is dropped in `setup_gc_wal`, so its final rotation is not awaited: a
  graceful restart may reduce fixed windows twice.

Aligned windows:

* A result write that is retried when the hard shutdown comes is given up without an error, and the window gets
  its GC event (`lost`).
* Responses are written as they come.  A task that fails or is cancelled after one of them leaves its window unfinished: it is
  saved, and after the restart the whole window is reduced again, so that downstream has results of it twice without
  any kill.  `NoSecondResult` therefore speaks of windows whose task had ended.
* A fixed-window task fails, the other windows go on until the end of the stream: the GC event of a later
  one covers the messages of the failed one.
* Late messages within the allowed lateness pass the first check and are dropped by the second
  (`reducer.rs:660`), unless the watermark is still below their event time.
* An item is acked when it is in the WAL; until the reducer has assigned it, it is in neither tracker nor
  window, and the published watermark may pass it (`early`).
* The items that the reducer drains from its channel after an error are assigned to no window, and the watermark
  published until the end of the stream may pass them as well; they are replayed into windows it has
  passed.  The channel has to hold two items for this, which the instance of `aligned_reduce` does not have; an attempt to
  prove the property showed it, and `early` excepts it.

Session windows (`flaws`):

* `clash`: `closed_windows` is one set for all keys; two keys whose windows have the same end share one
  entry, and the first to finish stops holding the watermark for the other.
* `overwritten`: `tracked_windows` has one entry per key; a second session of the key before the timer
  replaces the first, whose closed window then holds the watermark until the pod restarts.
* `overtaken`: the GC event of a later session covers an earlier one of the key that the UDF has not
  answered.
* `lost`: as for aligned windows.
* As with aligned windows, the published watermark may pass a message between PBQ and the reducer, or one that is drained
  (`early`): its session is late when it is written.
* After a kill a session may stay open although the item whose watermark closed it was not taken: the compaction
  deletes that item with its own session's GC event.  The next item closes it.
* In a vertex that is not keyed the GC event has the key of the window (`NON_KEYED_STREAM`) and the WAL
  entries have those of the messages, so nothing is ever compacted.

Monovertex:

* When an ack fails, `invoke_ack` returns before its nacks; the messages come back only by the source's own
  means.  The tracker forgets an offset before the source is told.
* An error in a later leg nacks messages that an earlier leg has written: they are written again.
* With a bypass condition on the primary sink all other messages are acked unwritten (as documented in
  `monovertex-bypass.md:75`).
* A message with a nack tag that meets a bypass condition is written and acked.

## 6. Not modelled

* Watermark of a source, joins, several output streams: the parts of the watermark with no state shared with
  what is modelled but for a minimum.
* Accumulator windows and PBQ without a WAL (which acks on reading and replays nothing).
* Batch and stream map modes; a map UDF in a monovertex.
* The rate limiter (time and floating-point shares of a rate; here a read that may return nothing),
  serving (callbacks and an HTTP front end), the Go controller (Kubernetes reconciliation).
* Compression, encoding, metrics, tracing, gRPC details, configuration parsing, side inputs
  (a periodic copy, I/O without a protocol), source and sink connectors (adapters over client
  libraries), the daemons (reporting), API types and generated code, web server and UI.

## 7. Plan

1. Theorems about `SessionReduce`, with its folds written as recursive functions over the sorted windows.
2. One reduce vertex: `ReduceWal` and `AlignedReduce` composed over the same files, in place of the
   GC end that stands for them now.
3. The source watermark, then joins; accumulator windows; batch and stream map modes.
4. Rate limiter, serving tracker, pipeline phases of the controller.
