----------------------------- MODULE MapVertex -----------------------------
(***************************************************************************)
(* A map vertex pod: the ISB reader, the unary mapper and the ISB writer,  *)
(* chained by channels (pipeline/forwarder/map_forwarder.rs).  The reader  *)
(* is ISBReader and the writer ISBWriter; this module adds the mapper      *)
(* (mapper/map.rs, mapper/map/unary.rs, shared/retry.rs) and what ties the *)
(* three together: the reader's MessageHandle travels to the mapper, which *)
(* forks it once per result, and each fork travels to the write task that  *)
(* marks it.                                                               *)
(***************************************************************************)
EXTENDS Naturals, FiniteSets

CONSTANTS
    Data, Tasks, NoOffset, MaxAckPending, BatchSize, MaxStops,  \* as in ISBReader
    Jobs, NoMsg, NStreams, Discard,                             \* as in ISBWriter
    Fanout,       \* how many results the UDF returns for each data message
    RouteOf(_),   \* the streams a result is forwarded to
    TagOf(_),     \* the control tag of a result
    Concurrency,  \* how many map tasks run at once
    NoTask,       \* owner of an idle job
    DropOnFail    \* retryStrategy.onFailure is drop

MaxFanout == 3

\* The result of index k for offset o; its id (vertex, offset, index) is the same
\* whenever o is delivered again.
Outputs == {m \in Data \X (1..MaxFanout) : m[2] <= Fanout[m[1]]}

ASSUME MapAssumption ==
    /\ Fanout \in [Data -> 0..MaxFanout]
    /\ Concurrency \in Nat \ {0}
    /\ DropOnFail \in BOOLEAN
    /\ NStreams \in Nat
    /\ \A m \in Outputs : RouteOf(m) \subseteq 1..NStreams /\ TagOf(m) \in {"forward", "drop", "nack"}
    /\ NoOffset \notin Data /\ NoMsg \notin Outputs /\ NoTask \notin Tasks
    /\ IsFiniteSet(Jobs)

VARIABLES
    broker, jsmsg, tracked, loop, batch, avail, held, off, st, refs, rc, forks,
    cancel, open, stops, bad, processed,                         \* of the reader
    msg, ws, out, full, net, stored, seen, done, discarded, fellBack, expired,  \* of the writer
    ms,        \* the map task of each message in flight
    next,      \* the next result the map task forwards
    queue,     \* forks <<t, k>> in the channel to the writer
    owner,     \* the message in flight whose fork a write job handles
    failing,   \* error_rx holds an error
    draining,  \* shutting_down_on_err
    dropped    \* history: inputs dropped when the UDF retries were exhausted

mapVars == <<ms, next, queue, owner, failing, draining, dropped>>
readVars == <<broker, jsmsg, tracked, loop, batch, avail, held, off, st, refs, rc, forks,
              open, bad, processed>>
writeVars == <<msg, ws, out, full, net, stored, seen, done, discarded, fellBack, expired>>
vars == <<readVars, writeVars, mapVars, cancel, stops>>

R == INSTANCE ISBReader WITH Ctrl <- {}, MaxForks <- MaxFanout
W == INSTANCE ISBWriter WITH Msgs <- Outputs, MaxCopies <- 2,
                             Routes <- [m \in Outputs |-> RouteOf(m)],
                             Tag <- [m \in Outputs |-> TagOf(m)]

Streams == 1..NStreams

TypeOK ==
    /\ R!TypeOK
    /\ W!TypeOK
    /\ ms \in [Tasks -> {"none", "queued", "taken", "mapping", "sending"}]
    /\ next \in [Tasks -> 1..MaxFanout + 1]
    /\ \A q \in queue : q[1] \in Tasks /\ <<off[q[1]], q[2]>> \in Outputs
    /\ owner \in [Jobs -> Tasks \cup {NoTask}]
    /\ failing \in BOOLEAN
    /\ draining \in BOOLEAN
    /\ dropped \subseteq Data

MapInit ==
    /\ ms = [t \in Tasks |-> "none"]
    /\ next = [t \in Tasks |-> 1]
    /\ queue = {}
    /\ owner = [j \in Jobs |-> NoTask]
    /\ failing = FALSE
    /\ draining = FALSE

Init == R!Init /\ W!Init /\ MapInit /\ dropped = {}

----------------------------------------------------------------------------
(* The reader, and the hand-over to the mapper's channel.                  *)

ReadDeliver ==
    \E o \in Data, t \in Tasks :
        /\ R!Deliver(o, t)
        /\ ms' = [ms EXCEPT ![t] = "queued"]
        /\ UNCHANGED <<writeVars, next, queue, owner, failing, draining, dropped>>

\* Every step of the reader that concerns no other component.
ReadInternal ==
    /\ \/ R!CheckCancel \/ R!Acquire \/ R!Fetch \/ R!StoreHandles \/ R!StoreFails
       \/ R!EndBatch \/ R!Cleanup
       \/ \E o \in Data : R!DropDuplicate(o) \/ R!InsertFails(o) \/ R!AckWaitExpires(o)
       \/ \E t \in Tasks : R!WipNext(t)
    /\ UNCHANGED <<writeVars, mapVars>>

----------------------------------------------------------------------------
(* The mapper.                                                             *)

Running == {t \in Tasks : ms[t] \in {"mapping", "sending"}}

\* The loop of process_concurrent_messages is at its select, not waiting for a permit.
AtSelect == \A t \in Tasks : ms[t] # "taken"

\* process_concurrent_messages takes a message from the channel; the select is biased,
\* a pending error goes first ...
MapTake(t) ==
    /\ ms[t] = "queued"
    /\ AtSelect
    /\ ~failing /\ ~draining
    /\ ms' = [ms EXCEPT ![t] = "taken"]
    /\ UNCHANGED <<readVars, writeVars, next, queue, owner, failing, draining, dropped,
                   cancel, stops>>

\* ... and spawns its task when a permit is free, whatever was reported meanwhile.
MapStart(t) ==
    /\ ms[t] = "taken"
    /\ Cardinality(Running) < Concurrency
    /\ ms' = [ms EXCEPT ![t] = "mapping"]
    /\ UNCHANGED <<readVars, writeVars, next, queue, owner, failing, draining, dropped,
                   cancel, stops>>

\* After an error the loop drains the channel and nacks.
MapDrain(t) ==
    /\ ms[t] = "queued"
    /\ AtSelect
    /\ ~failing /\ draining
    /\ ms' = [ms EXCEPT ![t] = "none"]
    /\ R!MarkFailed(t)
    /\ UNCHANGED <<writeVars, next, queue, owner, failing, draining, dropped>>

\* The UDF answered and no result carries the FAIL tag (a failed answer is retried
\* without a change of state).
MapAnswer(t) ==
    /\ ms[t] = "mapping"
    /\ ms' = [ms EXCEPT ![t] = "sending"]
    /\ next' = [next EXCEPT ![t] = 1]
    /\ UNCHANGED <<readVars, writeVars, queue, owner, failing, draining, dropped, cancel, stops>>

\* The gRPC call failed, was cut by the hard shutdown, or the retries were exhausted
\* under onFailure: retry.  The message is nacked and the error reported.
MapFail(t) ==
    /\ ms[t] = "mapping"
    /\ ms' = [ms EXCEPT ![t] = "none"]
    /\ failing' = TRUE
    /\ R!MarkFailed(t)
    /\ UNCHANGED <<writeVars, next, queue, owner, draining, dropped>>

\* The backoff wait was cut by the hard shutdown: nacked, no error reported.
MapCancelled(t) ==
    /\ ms[t] = "mapping"
    /\ cancel
    /\ ms' = [ms EXCEPT ![t] = "none"]
    /\ R!MarkFailed(t)
    /\ UNCHANGED <<writeVars, next, queue, owner, failing, draining, dropped>>

\* Retries exhausted under onFailure: drop.  The message is dropped and acked.
MapDrop(t) ==
    /\ DropOnFail
    /\ ms[t] = "mapping"
    /\ ms' = [ms EXCEPT ![t] = "none"]
    /\ dropped' = dropped \cup {off[t]}
    /\ R!MarkSuccess(t)
    /\ UNCHANGED <<writeVars, next, queue, owner, failing, draining>>

\* Mutant: a result is sent without a fork of the handle.
MapSendUncounted(t) ==
    /\ ms[t] = "sending"
    /\ next[t] <= Fanout[off[t]]
    /\ queue' = queue \cup {<<t, next[t]>>}
    /\ next' = [next EXCEPT ![t] = @ + 1]
    /\ UNCHANGED <<readVars, writeVars, ms, owner, failing, draining, dropped, cancel, stops>>

\* Each result is sent on with a fork of the handle ...
MapSend(t) ==
    /\ ms[t] = "sending"
    /\ next[t] <= Fanout[off[t]]
    /\ queue' = queue \cup {<<t, next[t]>>}
    /\ next' = [next EXCEPT ![t] = @ + 1]
    /\ R!WithMessage(t)
    /\ UNCHANGED <<writeVars, ms, owner, failing, draining, dropped>>

\* Mutant: the task gives up its reference before every result is sent.
MapDoneEarly(t) ==
    /\ ms[t] = "sending"
    /\ ms' = [ms EXCEPT ![t] = "none"]
    /\ next' = [next EXCEPT ![t] = 1]
    /\ R!MarkSuccess(t)
    /\ UNCHANGED <<writeVars, queue, owner, failing, draining, dropped>>

\* ... and after the last one the task gives up its own reference.
MapDone(t) ==
    /\ ms[t] = "sending"
    /\ next[t] > Fanout[off[t]]
    /\ ms' = [ms EXCEPT ![t] = "none"]
    /\ next' = [next EXCEPT ![t] = 1]
    /\ R!MarkSuccess(t)
    /\ UNCHANGED <<writeVars, queue, owner, failing, draining, dropped>>

\* The first error cancels the token and switches the mapper to draining.
MapErrorSeen ==
    /\ failing
    /\ AtSelect
    /\ failing' = FALSE
    /\ draining' = TRUE
    /\ cancel' = TRUE
    /\ UNCHANGED <<readVars, writeVars, ms, next, queue, owner, dropped, stops>>

MapNext(t) ==
    \/ MapTake(t) \/ MapStart(t) \/ MapDrain(t) \/ MapAnswer(t) \/ MapFail(t) \/ MapCancelled(t)
    \/ MapDrop(t) \/ MapSend(t) \/ MapDone(t)

----------------------------------------------------------------------------
(* The writer.                                                             *)

WriteStart(j, t, k) ==
    /\ <<t, k>> \in queue
    /\ queue' = queue \ {<<t, k>>}
    /\ owner' = [owner EXCEPT ![j] = t]
    /\ W!StartWrite(j, <<off[t], k>>)
    /\ UNCHANGED <<readVars, ms, next, failing, draining, dropped>>

\* The end of the write task marks its fork of the handle.
WriteEnd(j) ==
    /\ owner[j] # NoTask
    /\ W!EndWrite(j)
    /\ IF ws[j] = "success" THEN R!MarkSuccess(owner[j]) ELSE R!MarkFailed(owner[j])
    /\ owner' = [owner EXCEPT ![j] = NoTask]
    /\ UNCHANGED <<ms, next, queue, failing, draining, dropped>>

\* The steps of the writer that concern no other component; the deduplication window
\* is left out, as it decides only how many copies a stream holds.
WriteInternal ==
    /\ \/ \E j \in Jobs :
            \/ W!Routed(j) \/ W!Resolved(j)
            \/ \E s \in Streams :
                 \/ W!Publish(j, s) \/ W!DiscardFull(j, s) \/ W!GiveUp(j, s)
                 \/ W!PafOk(j, s) \/ W!PafError(j, s)
                 \/ W!FallbackOk(j, s) \/ W!FallbackError(j, s)
       \/ \E s \in Streams : W!RefreshFull(s)
       \/ W!NetNext
    /\ UNCHANGED <<readVars, mapVars>>

----------------------------------------------------------------------------

Cancel == R!Cancel /\ UNCHANGED <<writeVars, mapVars>>

ResetPod ==
    /\ R!Reset
    /\ W!Reset
    /\ ms' = [t \in Tasks |-> "none"]
    /\ next' = [t \in Tasks |-> 1]
    /\ queue' = {}
    /\ owner' = [j \in Jobs |-> NoTask]
    /\ failing' = FALSE
    /\ draining' = FALSE
    /\ UNCHANGED dropped

\* The pod is killed at any point.
Crash == stops < MaxStops /\ stops' = stops + 1 /\ ResetPod

\* Reader, mapper and writer have all returned.
Restart ==
    /\ loop \in {"done", "failed"}
    /\ queue = {}
    /\ \A t \in Tasks : ms[t] = "none"
    /\ \A j \in Jobs : ws[j] = "idle"
    /\ ResetPod
    /\ UNCHANGED stops

Next ==
    \/ ReadDeliver \/ ReadInternal
    \/ \E t \in Tasks : MapNext(t)
    \/ MapErrorSeen
    \/ \E j \in Jobs, t \in Tasks, k \in 1..MaxFanout : WriteStart(j, t, k)
    \/ \E j \in Jobs : WriteEnd(j)
    \/ WriteInternal
    \/ Cancel \/ Crash \/ Restart

Spec == Init /\ [][Next]_vars

----------------------------------------------------------------------------
(* Properties.                                                             *)

\* The result m needs nothing more on stream s.
Settled(s, m) == stored[s][m] > 0 \/ <<s, m>> \in discarded

\* What a message owes: its results but those dropped by their tag, on every stream they
\* are routed to.  A result that asks for a nack is never stored, so its message is never
\* to be acked.
OwedBy(o) == {d \in Streams \X Outputs :
                d[2][1] = o /\ TagOf(d[2]) # "drop" /\ d[1] \in RouteOf(d[2])}

\* Every reference counted by the AckHandle has exactly one holder: the map task,
\* a fork in the channel or a write job; a reference without a holder would never
\* be acked or nacked, a holder without a reference would panic or ack too early.
Holders(t) ==
    (IF ms[t] # "none" THEN 1 ELSE 0)
      + Cardinality({q \in queue : q[1] = t})
      + Cardinality({j \in Jobs : owner[j] = t})

EveryReferenceHeld ==
    \A t \in Tasks : (IF st[t] = "live" THEN refs[t] ELSE 0) = Holders(t)

\* The vertex implements at-least-once delivery: AtLeastOnce with an input acked when
\* the broker has its ack, and a debt settled when its copy is stored or discarded.
ALO == INSTANCE AtLeastOnce WITH
         Inputs <- Data,
         Debts <- Streams \X Outputs,
         Owed <- OwedBy,
         settled <- {d \in Streams \X Outputs : Settled(d[1], d[2])},
         waived <- dropped,
         acked <- {o \in Data : broker[o] = "acked"}

ImplementsAtLeastOnce == ALO!Spec
=============================================================================
