----------------------------- MODULE ISBReader -----------------------------
(***************************************************************************)
(* One pod's read path over one partition of an inter-step buffer: the     *)
(* orchestrator's read loop and WIP tasks (pipeline/isb/reader.rs), the    *)
(* JetStream reader's handle map (pipeline/isb/jetstream/js_reader.rs),    *)
(* the in-flight set of the tracker (tracker.rs) and the reference-counted *)
(* AckHandle (message.rs).  The broker's consumer is external: a message   *)
(* is ready, delivered (ack pending) or acked, and a delivered message     *)
(* becomes ready again when it is nacked or when ack_wait runs out.        *)
(*                                                                         *)
(* What happens to a message between the read and its verdict is left      *)
(* open here: any holder may fork the handle, mark it as a success, or     *)
(* fail or drop it.  MapVertex.tla ties those steps to the mapper and the  *)
(* writer.                                                                 *)
(***************************************************************************)
EXTENDS Naturals, FiniteSets

CONSTANTS
    Data,           \* offsets of the data messages of the partition
    Ctrl,           \* offsets of the WMB control messages of the partition
    Tasks,          \* identities for the spawned WIP tasks
    NoOffset,       \* what an unused task holds
    MaxAckPending,  \* cfg.max_ack_pending
    BatchSize,      \* the configured read batch size
    MaxForks,       \* bound: handles forked from one delivery (results of the UDF)
    MaxStops        \* bound: cancellations and crashes of the pod

Offsets == Data \cup Ctrl

ASSUME OffsetsAssumption == Data \cap Ctrl = {} /\ NoOffset \notin Offsets
ASSUME SizesAssumption ==
    /\ MaxAckPending \in Nat \ {0}
    /\ BatchSize \in Nat \ {0}
    /\ MaxForks \in Nat
    /\ MaxStops \in Nat
ASSUME TasksAssumption == IsFiniteSet(Tasks) /\ Cardinality(Tasks) >= MaxAckPending

\* let batch_size = min(self.batch_size, max_ack_pending)
ReadBatch == IF BatchSize <= MaxAckPending THEN BatchSize ELSE MaxAckPending

VARIABLES
    broker,     \* the consumer's view of every offset (external)
    jsmsg,      \* keys of offset2jsmsg: the offsets whose broker handle is held
    tracked,    \* keys of the tracker's entries
    loop,       \* where the read loop is
    batch,      \* fetched messages the loop has still to process
    avail,      \* permits left in the semaphore
    held,       \* permits the loop holds for the current batch
    off,        \* the offset each WIP task serves
    st,         \* the state of each WIP task
    refs,       \* MessageHandles alive for the task's message (Arc strong count)
    rc,         \* AckHandle.ref_count
    forks,      \* handles forked so far from the delivery
    cancel,     \* the CancellationToken
    open,       \* the receiver of the message channel exists
    stops,      \* cancellations and crashes so far
    bad,        \* history: a handle of this delivery was failed or dropped
    processed   \* history: offsets one of whose deliveries fully succeeded

readerVars == <<loop, batch, avail, held>>
taskVars == <<off, st, refs, rc, forks, bad>>
envVars == <<cancel, open, stops>>
vars == <<broker, jsmsg, tracked, readerVars, taskVars, envVars, processed>>

Live == {t \in Tasks : st[t] # "free"}

\* The task has not yet removed its message from the tracker.
Tracking == {t \in Tasks : st[t] \in {"live", "ack", "nak", "remove", "untrack"}}

LoopStates == {"top", "acquire", "fetch", "store", "process", "cleanup", "done", "failed"}
TaskStates == {"free", "live", "ack", "nak", "remove", "untrack", "release"}

TypeOK ==
    /\ broker \in [Offsets -> {"ready", "delivered", "acked"}]
    /\ jsmsg \subseteq Offsets
    /\ tracked \subseteq Offsets
    /\ loop \in LoopStates
    /\ batch \subseteq Offsets
    /\ avail \in Nat
    /\ held \in Nat
    /\ off \in [Tasks -> Offsets \cup {NoOffset}]
    /\ st \in [Tasks -> TaskStates]
    /\ refs \in [Tasks -> Nat]
    /\ rc \in [Tasks -> Nat]
    /\ forks \in [Tasks -> Nat]
    /\ cancel \in BOOLEAN
    /\ open \in BOOLEAN
    /\ stops \in Nat
    /\ bad \in [Tasks -> BOOLEAN]
    /\ processed \subseteq Offsets

Init ==
    /\ broker = [o \in Offsets |-> "ready"]
    /\ jsmsg = {} /\ tracked = {}
    /\ loop = "top" /\ batch = {}
    /\ avail = MaxAckPending /\ held = 0
    /\ off = [t \in Tasks |-> NoOffset]
    /\ st = [t \in Tasks |-> "free"]
    /\ refs = [t \in Tasks |-> 0]
    /\ rc = [t \in Tasks |-> 0]
    /\ forks = [t \in Tasks |-> 0]
    /\ cancel = FALSE /\ open = TRUE /\ stops = 0
    /\ bad = [t \in Tasks |-> FALSE]
    /\ processed = {}

----------------------------------------------------------------------------
(* The read loop: streaming_read.                                          *)

\* The token is honoured only at the top of the loop.
CheckCancel ==
    /\ loop = "top"
    /\ loop' = IF cancel THEN "cleanup" ELSE "acquire"
    /\ UNCHANGED <<broker, jsmsg, tracked, batch, avail, held, taskVars, envVars, processed>>

\* acquire_many_owned(batch_size): waits until the whole batch's permits are free.
Acquire ==
    /\ loop = "acquire"
    /\ avail >= ReadBatch
    /\ avail' = avail - ReadBatch
    /\ held' = ReadBatch
    /\ loop' = "fetch"
    /\ UNCHANGED <<broker, jsmsg, tracked, batch, taskVars, envVars, processed>>

\* apply_rate_limiting_and_fetch, up to the end of the pull: the broker delivers
\* D, of which R is received (an error on one message of the stream skips it).
\* A throttled read and a failed pull are D = {} with messages still ready.
Fetch ==
    /\ loop = "fetch"
    /\ \E D \in SUBSET {o \in Offsets : broker[o] = "ready"} :
         /\ IsFiniteSet(D) /\ Cardinality(D) <= ReadBatch
         /\ broker' = [o \in Offsets |-> IF o \in D THEN "delivered" ELSE broker[o]]
         /\ \E R \in SUBSET D : batch' = R
    /\ loop' = "store"
    /\ UNCHANGED <<jsmsg, tracked, avail, held, taskVars, envVars, processed>>

\* The received messages are decoded and their handles stored by offset.
StoreHandles ==
    /\ loop = "store"
    /\ jsmsg' = jsmsg \cup batch
    /\ loop' = "process"
    /\ UNCHANGED <<broker, tracked, batch, avail, held, taskVars, envVars, processed>>

\* One undecodable message fails the whole fetch; the handles stored before it stay.
StoreFails ==
    /\ loop = "store"
    /\ \E P \in SUBSET batch : P # batch /\ jsmsg' = jsmsg \cup P
    /\ batch' = {}
    /\ loop' = "process"
    /\ UNCHANGED <<broker, tracked, avail, held, taskVars, envVars, processed>>

\* process_message_batch, a WMB control message: acked on the spot.
AckCtrl(o) ==
    /\ loop = "process"
    /\ o \in batch \cap Ctrl
    /\ o \in jsmsg
    /\ broker' = [broker EXCEPT ![o] = "acked"]
    /\ jsmsg' = jsmsg \ {o}
    /\ batch' = batch \ {o}
    /\ UNCHANGED <<tracked, loop, avail, held, taskVars, envVars, processed>>

\* ... its ack fails (the broker may have applied it): the `?` ends the read loop
\* without the cleanup, and the error cancels the token.
AckCtrlFails(o) ==
    /\ loop = "process"
    /\ o \in batch \cap Ctrl
    /\ broker' \in {broker} \cup (IF o \in jsmsg THEN {[broker EXCEPT ![o] = "acked"]} ELSE {})
    /\ batch' = {}
    /\ avail' = avail + held
    /\ held' = 0
    /\ loop' = "failed"
    /\ cancel' = TRUE
    /\ UNCHANGED <<jsmsg, tracked, taskVars, open, stops, processed>>

\* Mutant: tracker.insert overwrites an entry instead of reporting it.
NeverDuplicate(o) == FALSE

\* tracker.insert reports DuplicateInflight for an offset it holds.
IsDuplicate(o) == o \in tracked

\* ... a delivery whose offset is still tracked is dropped, neither acked nor nacked.
DropDuplicate(o) ==
    /\ loop = "process"
    /\ o \in batch \cap Data
    /\ IsDuplicate(o)
    /\ batch' = batch \ {o}
    /\ UNCHANGED <<broker, jsmsg, tracked, loop, avail, held, taskVars, envVars, processed>>

\* ... tracker.insert fails for want of serving callback information, which ends the
\* read loop in the same way.
InsertFails(o) ==
    /\ loop = "process"
    /\ o \in batch \cap Data
    /\ batch' = {}
    /\ avail' = avail + held
    /\ held' = 0
    /\ loop' = "failed"
    /\ cancel' = TRUE
    /\ UNCHANGED <<broker, jsmsg, tracked, taskVars, open, stops, processed>>

\* ... any other message is tracked, gets an AckHandle and a WIP task that owns one
\* of the loop's permits, and is sent on.
Deliver(o, t) ==
    /\ loop = "process"
    /\ o \in batch \cap Data
    /\ ~IsDuplicate(o)
    /\ open
    /\ t \notin Live
    /\ tracked' = tracked \cup {o}
    /\ batch' = batch \ {o}
    /\ held' = held - 1
    /\ off' = [off EXCEPT ![t] = o]
    /\ st' = [st EXCEPT ![t] = "live"]
    /\ refs' = [refs EXCEPT ![t] = 1]
    /\ rc' = [rc EXCEPT ![t] = 1]
    /\ bad' = [bad EXCEPT ![t] = FALSE]
    /\ UNCHANGED <<broker, jsmsg, loop, avail, forks, envVars, processed>>

\* ... the channel is closed: the unsent handle is dropped, which nacks the message,
\* and the rest of the batch is abandoned.
DeliverClosed(o, t) ==
    /\ loop = "process"
    /\ o \in batch \cap Data
    /\ ~IsDuplicate(o)
    /\ ~open
    /\ t \notin Live
    /\ tracked' = tracked \cup {o}
    /\ batch' = {}
    /\ held' = held - 1
    /\ off' = [off EXCEPT ![t] = o]
    /\ st' = [st EXCEPT ![t] = "nak"]
    /\ refs' = [refs EXCEPT ![t] = 0]
    /\ rc' = [rc EXCEPT ![t] = 1]
    /\ bad' = [bad EXCEPT ![t] = TRUE]
    /\ UNCHANGED <<broker, jsmsg, loop, avail, forks, envVars, processed>>

\* The permits no message of the batch took are dropped with the iteration.
EndBatch ==
    /\ loop = "process"
    /\ batch = {}
    /\ avail' = avail + held
    /\ held' = 0
    /\ loop' = "top"
    /\ UNCHANGED <<broker, jsmsg, tracked, batch, taskVars, envVars, processed>>

\* Mutant: the reader does not wait for the WIP tasks.
CleanupAtOnce ==
    /\ loop = "cleanup"
    /\ loop' = "done"
    /\ UNCHANGED <<broker, jsmsg, tracked, batch, avail, held, taskVars, envVars, processed>>

\* cleanup_on_shutdown: waits for every permit, that is for every WIP task; the rate
\* limiter's own shutdown may still fail.
Cleanup ==
    /\ loop = "cleanup"
    /\ avail = MaxAckPending
    /\ loop' \in {"done", "failed"}
    /\ UNCHANGED <<broker, jsmsg, tracked, batch, avail, held, taskVars, envVars, processed>>

----------------------------------------------------------------------------
(* The handle of a message in flight: MessageHandle and AckHandle.         *)

\* Mutant: a count of one is taken for zero.
VerdictOffByOne(count) == IF count > 1 THEN "nak" ELSE "ack"

\* AckHandle::drop, run when the last MessageHandle goes.
VerdictOf(count) == IF count # 0 THEN "nak" ELSE "ack"

\* Mutant: the fork is not counted.
WithMessageUncounted(t) ==
    /\ st[t] = "live"
    /\ forks[t] < MaxForks
    /\ refs' = [refs EXCEPT ![t] = @ + 1]
    /\ forks' = [forks EXCEPT ![t] = @ + 1]
    /\ UNCHANGED <<broker, jsmsg, tracked, readerVars, off, st, rc, bad, envVars, processed>>

\* MessageHandle::clone and with_message.
WithMessage(t) ==
    /\ st[t] = "live"
    /\ forks[t] < MaxForks
    /\ refs' = [refs EXCEPT ![t] = @ + 1]
    /\ rc' = [rc EXCEPT ![t] = @ + 1]
    /\ forks' = [forks EXCEPT ![t] = @ + 1]
    /\ UNCHANGED <<broker, jsmsg, tracked, readerVars, off, st, bad, envVars, processed>>

MarkSuccess(t) ==
    /\ st[t] = "live"
    /\ refs' = [refs EXCEPT ![t] = @ - 1]
    /\ rc' = [rc EXCEPT ![t] = @ - 1]
    /\ st' = [st EXCEPT ![t] = IF refs[t] = 1 THEN VerdictOf(rc[t] - 1) ELSE "live"]
    /\ processed' = IF refs[t] = 1 /\ ~bad[t] THEN processed \cup {off[t]} ELSE processed
    /\ UNCHANGED <<broker, jsmsg, tracked, readerVars, off, forks, bad, envVars>>

\* mark_failed, and a handle dropped without a mark (a panicking holder).
MarkFailed(t) ==
    /\ st[t] = "live"
    /\ refs' = [refs EXCEPT ![t] = @ - 1]
    /\ st' = [st EXCEPT ![t] = IF refs[t] = 1 THEN VerdictOf(rc[t]) ELSE "live"]
    /\ bad' = [bad EXCEPT ![t] = TRUE]
    /\ UNCHANGED <<broker, jsmsg, tracked, readerVars, off, rc, forks, envVars, processed>>

----------------------------------------------------------------------------
(* The WIP task of a message: wip_loop, ack_with_retry, nak_with_retry and *)
(* the JetStream reader's ack and nack.                                    *)

\* double_ack answered: the broker has recorded the ack.
AckOk(t) ==
    /\ st[t] = "ack"
    /\ off[t] \in jsmsg
    /\ broker' = [broker EXCEPT ![off[t]] = "acked"]
    /\ st' = [st EXCEPT ![t] = "remove"]
    /\ UNCHANGED <<jsmsg, tracked, readerVars, off, refs, rc, forks, bad, envVars, processed>>

\* Mutant: the retry ignores the token.
AckRetriesForever(t) ==
    /\ st[t] = "ack"
    /\ off[t] \in jsmsg
    /\ broker' \in {broker, [broker EXCEPT ![off[t]] = "acked"]}
    /\ UNCHANGED <<jsmsg, tracked, readerVars, taskVars, envVars, processed>>

\* double_ack failed, before or after the broker recorded it: retried every 100 ms
\* until the token is cancelled.
AckError(t) ==
    /\ st[t] = "ack"
    /\ off[t] \in jsmsg
    /\ broker' \in {broker, [broker EXCEPT ![off[t]] = "acked"]}
    /\ st' = [st EXCEPT ![t] = IF cancel THEN "untrack" ELSE "ack"]
    /\ UNCHANGED <<jsmsg, tracked, readerVars, off, refs, rc, forks, bad, envVars, processed>>

\* The Nak was published: the broker makes the message ready, unless the Nak is lost
\* on the way or the message is no longer pending.
NakOk(t) ==
    /\ st[t] = "nak"
    /\ off[t] \in jsmsg
    /\ broker' \in {broker, [broker EXCEPT ![off[t]] = IF @ = "delivered" THEN "ready" ELSE @]}
    /\ st' = [st EXCEPT ![t] = "remove"]
    /\ UNCHANGED <<jsmsg, tracked, readerVars, off, refs, rc, forks, bad, envVars, processed>>

\* Publishing the Nak failed: retried until the token is cancelled.
NakError(t) ==
    /\ st[t] = "nak"
    /\ off[t] \in jsmsg
    /\ cancel
    /\ st' = [st EXCEPT ![t] = "untrack"]
    /\ UNCHANGED <<broker, jsmsg, tracked, readerVars, off, refs, rc, forks, bad, envVars, processed>>

\* Mutant: the task returns on the error, without tracker.delete.
OffsetNotFoundReturns(t) ==
    /\ st[t] \in {"ack", "nak"}
    /\ off[t] \notin jsmsg
    /\ st' = [st EXCEPT ![t] = "release"]
    /\ UNCHANGED <<broker, jsmsg, tracked, readerVars, off, refs, rc, forks, bad, envVars, processed>>

\* No handle for the offset: OffsetNotFound, which is not retried.
OffsetNotFound(t) ==
    /\ st[t] \in {"ack", "nak"}
    /\ off[t] \notin jsmsg
    /\ st' = [st EXCEPT ![t] = "untrack"]
    /\ UNCHANGED <<broker, jsmsg, tracked, readerVars, off, refs, rc, forks, bad, envVars, processed>>

\* get_js_message(offset, true), after the broker has answered.
RemoveHandle(t) ==
    /\ st[t] = "remove"
    /\ jsmsg' = jsmsg \ {off[t]}
    /\ st' = [st EXCEPT ![t] = "untrack"]
    /\ UNCHANGED <<broker, tracked, readerVars, off, refs, rc, forks, bad, envVars, processed>>

\* tracker.delete(offset), whatever became of the ack or the nak.
Untrack(t) ==
    /\ st[t] = "untrack"
    /\ tracked' = tracked \ {off[t]}
    /\ st' = [st EXCEPT ![t] = "release"]
    /\ UNCHANGED <<broker, jsmsg, readerVars, off, refs, rc, forks, bad, envVars, processed>>

\* The task ends and drops its permit.
Release(t) ==
    /\ st[t] = "release"
    /\ avail' = avail + 1
    /\ st' = [st EXCEPT ![t] = "free"]
    /\ off' = [off EXCEPT ![t] = NoOffset]
    /\ rc' = [rc EXCEPT ![t] = 0]
    /\ forks' = [forks EXCEPT ![t] = 0]
    /\ bad' = [bad EXCEPT ![t] = FALSE]
    /\ UNCHANGED <<broker, jsmsg, tracked, loop, batch, held, refs, envVars, processed>>

----------------------------------------------------------------------------
(* The surroundings.                                                       *)

\* ack_wait ran out before an ack, a nack or a WIP mark (mark_wip's errors are
\* ignored, so its failure shows only here).
AckWaitExpires(o) ==
    /\ broker[o] = "delivered"
    /\ broker' = [broker EXCEPT ![o] = "ready"]
    /\ UNCHANGED <<jsmsg, tracked, readerVars, taskVars, envVars, processed>>

\* SIGTERM, or an error of another component of the forwarder.
Cancel ==
    /\ ~cancel
    /\ stops < MaxStops
    /\ cancel' = TRUE
    /\ stops' = stops + 1
    /\ UNCHANGED <<broker, jsmsg, tracked, readerVars, taskVars, open, processed>>

\* The component that reads the channel panicked; joining it cancels the token.
DownstreamGone ==
    /\ open
    /\ stops < MaxStops
    /\ open' = FALSE
    /\ stops' = stops + 1
    /\ UNCHANGED <<broker, jsmsg, tracked, readerVars, taskVars, cancel, processed>>

JoinCancels ==
    /\ ~open
    /\ ~cancel
    /\ cancel' = TRUE
    /\ UNCHANGED <<broker, jsmsg, tracked, readerVars, taskVars, open, stops, processed>>

\* A new process: everything but the broker starts over.
Reset ==
    /\ jsmsg' = {} /\ tracked' = {}
    /\ loop' = "top" /\ batch' = {}
    /\ avail' = MaxAckPending /\ held' = 0
    /\ off' = [t \in Tasks |-> NoOffset]
    /\ st' = [t \in Tasks |-> "free"]
    /\ refs' = [t \in Tasks |-> 0]
    /\ rc' = [t \in Tasks |-> 0]
    /\ forks' = [t \in Tasks |-> 0]
    /\ bad' = [t \in Tasks |-> FALSE]
    /\ cancel' = FALSE /\ open' = TRUE
    /\ UNCHANGED <<broker, processed>>

Restart == loop \in {"done", "failed"} /\ Reset /\ UNCHANGED stops

Crash == stops < MaxStops /\ stops' = stops + 1 /\ Reset

----------------------------------------------------------------------------

LoopNext ==
    \/ CheckCancel \/ Acquire \/ Fetch \/ StoreHandles \/ StoreFails
    \/ \E o \in Offsets : 
         AckCtrl(o) \/ AckCtrlFails(o) \/ DropDuplicate(o) \/ InsertFails(o)
    \/ \E o \in Offsets, t \in Tasks : Deliver(o, t) \/ DeliverClosed(o, t)
    \/ EndBatch \/ Cleanup

HandleNext(t) == WithMessage(t) \/ MarkSuccess(t) \/ MarkFailed(t)

WipNext(t) ==
    \/ AckOk(t) \/ AckError(t) \/ NakOk(t) \/ NakError(t) \/ OffsetNotFound(t)
    \/ RemoveHandle(t) \/ Untrack(t) \/ Release(t)

BrokerNext == \E o \in Offsets : AckWaitExpires(o)

StopNext == Cancel \/ DownstreamGone \/ JoinCancels \/ Restart \/ Crash

Next ==
    \/ LoopNext
    \/ \E t \in Tasks : HandleNext(t) \/ WipNext(t)
    \/ BrokerNext
    \/ StopNext

Spec == Init /\ [][Next]_vars

\* The steps a WIP task takes whatever the broker does: a request under way when the
\* token is cancelled ends, if only with a timeout.
Settles(t) ==
    \/ cancel /\ (AckError(t) \/ NakError(t))
    \/ OffsetNotFound(t) \/ RemoveHandle(t) \/ Untrack(t) \/ Release(t)

\* Fairness of the tokio runtime: the read loop and every WIP task that can take a
\* step eventually does, a holder eventually marks or drops its handle, the join
\* notices a panic and the kubelet restarts an exited pod.
Progress ==
    /\ WF_vars(LoopNext)
    /\ \A t \in Tasks : WF_vars(MarkSuccess(t) \/ MarkFailed(t)) /\ WF_vars(Settles(t))
    /\ WF_vars(JoinCancels)
    /\ WF_vars(Restart)

FairSpec == Spec /\ Progress

Fault ==
    \/ StoreFails
    \/ \E o \in Offsets : AckCtrlFails(o) \/ InsertFails(o)
    \/ \E t \in Tasks : MarkFailed(t) \/ AckError(t)

Receives(o) == Fetch /\ o \in batch'

\* ack_wait runs out for a message whose delivery nobody marks as in progress.
Abandoned(o) == o \notin tracked /\ AckWaitExpires(o)

\* Faults are transient: from some point on processing succeeds and the broker
\* answers; ack_wait runs out, and a message that is ready again and again is
\* eventually pulled.
FaultsEnd ==
    /\ <>[][~Fault]_vars
    /\ \A t \in Tasks : WF_vars(AckOk(t) \/ NakOk(t))
    /\ \A o \in Offsets : WF_vars(Abandoned(o)) /\ SF_vars(Receives(o))

----------------------------------------------------------------------------
(* Properties.                                                             *)

\* A data message is acked at the broker only after some delivery of it was
\* processed to the end with every MessageHandle forked from it marked as a
\* success: no ack for a message one of whose copies failed, was dropped or is
\* still in flight (ref_count in message.rs, the order in wip_loop).
AckedOnlyIfProcessed == \A o \in Data : broker[o] = "acked" => o \in processed

\* No offset is processed twice at the same time in one pod, however often the
\* broker redelivers it (the DuplicateInflight check of tracker.insert).
NoConcurrentDuplicate ==
    \A t, u \in Tracking : off[t] = off[u] => t = u

\* The tracker holds exactly the offsets whose WIP task has not finished: a leaked
\* entry would hold the watermark back for ever, a missing one would let it pass a
\* message in flight.
TrackedMatchesInFlight == tracked = {off[t] : t \in Tracking}

\* Every permit is in the semaphore, with the read loop or with one WIP task, so
\* the in-flight messages never exceed max_ack_pending and no permit is lost
\* (acquire_many_owned, split and the drop guards).
PermitsConserved == avail + held + Cardinality(Live) = MaxAckPending

\* Every message left in the batch has a permit to split off, so the split's expect
\* cannot panic.
BatchHasPermits == loop \in {"store", "process"} => Cardinality(batch) <= held

\* When the reader reports a clean shutdown no delivery is unresolved: every message
\* it handed out has had its verdict sent and is out of the tracker.
DrainedOnShutdown == loop = "done" => tracked = {} /\ Live = {}

\* After the token is cancelled the reader always terminates: retries stop, every
\* permit comes back (cleanup_on_shutdown cannot wait for ever).
ShutdownTerminates == cancel ~> (loop \in {"done", "failed"} \/ ~cancel)

\* No message is lost: if faults end, every message of the partition is eventually
\* acked, through failures, redeliveries, crashes and restarts.
EveryMessageAcked == FaultsEnd => \A o \in Offsets : <>[](broker[o] = "acked")
=============================================================================
