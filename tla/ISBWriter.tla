----------------------------- MODULE ISBWriter -----------------------------
(***************************************************************************)
(* The write path of a vertex: ISBWriteTask and the write orchestrator     *)
(* (pipeline/isb/writer.rs) over one JetStreamWriter per downstream stream *)
(* (pipeline/isb/jetstream/js_writer.rs).                                  *)
(*                                                                         *)
(* A job is one running ISBWriteTask.  It publishes its message, tagged    *)
(* with the message id, to every stream the message is routed to, then     *)
(* awaits the publish-ack futures (PAFs) in turn; a PAF that fails falls   *)
(* back to a blocking write.  The streams are external: a publish travels, *)
(* is stored unless its id was seen before, or is lost; its sender learns  *)
(* of it or times out.  A message whose task failed, or whose pod crashed, *)
(* is submitted again by the reader until a task succeeds.                 *)
(***************************************************************************)
EXTENDS Naturals, FiniteSets

CONSTANTS
    Msgs,        \* ids of the messages to write (vertex, offset, index)
    NoMsg,       \* what an idle job holds
    Jobs,        \* paf_concurrency permits, one per running task
    NStreams,    \* downstream streams, in the order of the edge configuration
    Routes,      \* the streams each message is forwarded to (should_forward)
    Tag,         \* "forward", "drop" or "nack": the control tag of each message
    Discard,     \* the streams with buffer_full_strategy DiscardLatest
    MaxCopies,   \* bound: copies of one message counted in a stream
    MaxStops     \* bound: cancellations and crashes of the pod

Streams == 1..NStreams

ASSUME WriterAssumption ==
    /\ NoMsg \notin Msgs
    /\ NStreams \in Nat
    /\ Routes \in [Msgs -> SUBSET Streams]
    /\ Tag \in [Msgs -> {"forward", "drop", "nack"}]
    /\ Discard \subseteq Streams
    /\ MaxCopies \in Nat /\ MaxCopies >= 2
    /\ MaxStops \in Nat

VARIABLES
    msg,        \* the message of each job
    ws,         \* the phase of each job
    out,        \* what became of the write of each job to each stream
    full,       \* is_full of each stream's writer
    net,        \* id-tagged publishes on their way to the broker (external)
    stored,     \* copies of each message in each stream (external)
    seen,       \* ids in each stream's deduplication window (external)
    cancel,     \* the CancellationToken
    stops,      \* cancellations and crashes so far
    done,       \* messages one of whose write tasks marked success
    discarded,  \* history: <<s, m>> dropped because s was full
    fellBack,   \* history: <<s, m>> written through the fallback
    expired     \* history: <<s, m>> whose id has left the window

writerVars == <<msg, ws, out, full>>
brokerVars == <<net, stored, seen>>
vars == <<writerVars, brokerVars, cancel, stops, done, discarded, fellBack, expired>>

Outcomes == {"skip", "todo", "paf", "dropped", "cancelled", "retry", "ok", "lost"}
Phases == {"idle", "write", "resolve", "success", "failed"}

NoOutcome == [s \in Streams |-> "skip"]

TypeOK ==
    /\ msg \in [Jobs -> Msgs \cup {NoMsg}]
    /\ ws \in [Jobs -> Phases]
    /\ out \in [Jobs -> [Streams -> Outcomes]]
    /\ full \in [Streams -> BOOLEAN]
    /\ net \subseteq Streams \X Msgs
    /\ stored \in [Streams -> [Msgs -> 0..MaxCopies]]
    /\ seen \in [Streams -> SUBSET Msgs]
    /\ cancel \in BOOLEAN
    /\ stops \in 0..MaxStops
    /\ done \subseteq Msgs
    /\ discarded \subseteq Streams \X Msgs
    /\ fellBack \subseteq Streams \X Msgs
    /\ expired \subseteq Streams \X Msgs
    /\ \A j \in Jobs : ws[j] = "idle" <=> msg[j] = NoMsg

Init ==
    /\ msg = [j \in Jobs |-> NoMsg]
    /\ ws = [j \in Jobs |-> "idle"]
    /\ out = [j \in Jobs |-> NoOutcome]
    /\ full = [s \in Streams |-> TRUE]
    /\ net = {}
    /\ stored = [s \in Streams |-> [m \in Msgs |-> 0]]
    /\ seen = [s \in Streams |-> {}]
    /\ cancel = FALSE
    /\ stops = 0
    /\ done = {} /\ discarded = {} /\ fellBack = {} /\ expired = {}

----------------------------------------------------------------------------
(* ISBWriteTask::execute.                                                  *)

\* The streams a task writes its message to.
Targets(m) == IF Tag[m] = "forward" THEN Routes[m] ELSE {}

\* streaming_write takes a permit and spawns the task; a message tagged to be
\* dropped succeeds and one tagged to be nacked fails without a write.
StartWrite(j, m) ==
    /\ ws[j] = "idle"
    /\ msg' = [msg EXCEPT ![j] = m]
    /\ ws' = [ws EXCEPT ![j] = CASE Tag[m] = "drop" -> "success"
                                 [] Tag[m] = "nack" -> "failed"
                                 [] OTHER -> "write"]
    /\ out' = [out EXCEPT ![j] =
                 [s \in Streams |-> IF s \in Targets(m) THEN "todo" ELSE "skip"]]
    /\ UNCHANGED <<full, brokerVars, cancel, stops, done, discarded, fellBack, expired>>

\* s is the stream the task's loop is at: the first whose outcome is one of O.
AtStream(j, s, O) ==
    /\ out[j][s] \in O
    /\ \A r \in Streams : r < s => out[j][r] \notin O

Writing(j, s) == ws[j] = "write" /\ AtStream(j, s, {"todo"})

SetOut(j, s, o) == out' = [out EXCEPT ![j][s] = o]

\* write_to_stream: async_write accepted, the publish is under way with its id.
Publish(j, s) ==
    /\ Writing(j, s)
    /\ ~full[s]
    /\ net' = net \cup {<<s, msg[j]>>}
    /\ SetOut(j, s, "paf")
    /\ UNCHANGED <<msg, ws, full, stored, seen, cancel, stops, done, discarded, fellBack, expired>>

\* write_to_stream: BufferFull under DiscardLatest.
DiscardFull(j, s) ==
    /\ Writing(j, s)
    /\ full[s]
    /\ s \in Discard
    /\ SetOut(j, s, "dropped")
    /\ discarded' = discarded \cup {<<s, msg[j]>>}
    /\ UNCHANGED <<msg, ws, full, brokerVars, cancel, stops, done, fellBack, expired>>

\* write_to_stream: BufferFull under RetryUntilSuccess, or a failed publish, finds
\* the token cancelled; otherwise it sleeps and tries again.
GiveUp(j, s) ==
    /\ Writing(j, s)
    /\ full[s] => s \notin Discard
    /\ cancel
    /\ SetOut(j, s, "cancelled")
    /\ UNCHANGED <<msg, ws, full, brokerVars, cancel, stops, done, discarded, fellBack, expired>>

\* All streams tried: a cancelled write fails the task, its PAFs are dropped.
Routed(j) ==
    /\ ws[j] = "write"
    /\ \A s \in Streams : out[j][s] # "todo"
    /\ ws' = [ws EXCEPT ![j] =
                IF \E s \in Streams : out[j][s] = "cancelled" THEN "failed" ELSE "resolve"]
    /\ UNCHANGED <<msg, out, full, brokerVars, cancel, stops, done, discarded, fellBack, expired>>

Resolving(j, s) == ws[j] = "resolve" /\ AtStream(j, s, {"paf", "retry"})

\* resolve_all_pafs: the broker acknowledged the publish (or reported a duplicate).
PafOk(j, s) ==
    /\ Resolving(j, s)
    /\ out[j][s] = "paf"
    /\ <<s, msg[j]>> \notin net
    /\ stored[s][msg[j]] > 0
    /\ SetOut(j, s, "ok")
    /\ UNCHANGED <<msg, ws, full, brokerVars, cancel, stops, done, discarded, fellBack, expired>>

\* resolve_all_pafs: the PAF failed or timed out, whatever the broker did.
PafError(j, s) ==
    /\ Resolving(j, s)
    /\ out[j][s] = "paf"
    /\ SetOut(j, s, "retry")
    /\ fellBack' = fellBack \cup {<<s, msg[j]>>}
    /\ UNCHANGED <<msg, ws, full, brokerVars, cancel, stops, done, discarded, expired>>

\* One more copy, saturating at the bound.
Copy(s, m) ==
    stored' = [stored EXCEPT ![s][m] = IF @ < MaxCopies THEN @ + 1 ELSE @]

\* write_with_retry: JetStreamWriter::write stores the message; it carries no id.
FallbackOk(j, s) ==
    /\ Resolving(j, s)
    /\ out[j][s] = "retry"
    /\ ~full[s]
    /\ Copy(s, msg[j])
    /\ SetOut(j, s, "ok")
    /\ UNCHANGED <<msg, ws, full, net, seen, cancel, stops, done, discarded, fellBack, expired>>

\* Mutant: the fallback ignores the token.
FallbackForever(j, s) ==
    /\ Resolving(j, s)
    /\ out[j][s] = "retry"
    /\ stored' = stored \/ (~full[s] /\ Copy(s, msg[j]))
    /\ UNCHANGED <<writerVars, net, seen, cancel, stops, done, discarded, fellBack, expired>>

\* write_with_retry: the attempt failed, before or after the broker stored it, or
\* the buffer is full; retried until the token is cancelled.
FallbackError(j, s) ==
    /\ Resolving(j, s)
    /\ out[j][s] = "retry"
    /\ stored' = stored \/ (~full[s] /\ Copy(s, msg[j]))
    /\ SetOut(j, s, IF cancel THEN "lost" ELSE "retry")
    /\ UNCHANGED <<msg, ws, full, net, seen, cancel, stops, done, discarded, fellBack, expired>>

\* Mutant: a write that was given up is not noticed.
ResolvedAnyway(j) ==
    /\ ws[j] = "resolve"
    /\ \A s \in Streams : out[j][s] \notin {"paf", "retry"}
    /\ ws' = [ws EXCEPT ![j] = "success"]
    /\ UNCHANGED <<msg, out, full, brokerVars, cancel, stops, done, discarded, fellBack, expired>>

\* All PAFs resolved: fewer offsets than writes fails the task.
Resolved(j) ==
    /\ ws[j] = "resolve"
    /\ \A s \in Streams : out[j][s] \notin {"paf", "retry"}
    /\ ws' = [ws EXCEPT ![j] =
                IF \E s \in Streams : out[j][s] = "lost" THEN "failed" ELSE "success"]
    /\ UNCHANGED <<msg, out, full, brokerVars, cancel, stops, done, discarded, fellBack, expired>>

\* Mutant: the permit is given back before the task is done with its message.
EndWriteKeeps(j) ==
    /\ ws[j] \in {"success", "failed"}
    /\ done' = IF ws[j] = "success" THEN done \cup {msg[j]} ELSE done
    /\ ws' = [ws EXCEPT ![j] = "idle"]
    /\ UNCHANGED <<msg, out, full, brokerVars, cancel, stops, discarded, fellBack, expired>>

\* mark_success or mark_failed; the task ends and its permit is free again.
EndWrite(j) ==
    /\ ws[j] \in {"success", "failed"}
    /\ done' = IF ws[j] = "success" THEN done \cup {msg[j]} ELSE done
    /\ msg' = [msg EXCEPT ![j] = NoMsg]
    /\ ws' = [ws EXCEPT ![j] = "idle"]
    /\ out' = [out EXCEPT ![j] = NoOutcome]
    /\ UNCHANGED <<full, brokerVars, cancel, stops, discarded, fellBack, expired>>

----------------------------------------------------------------------------
(* check_stream_status, and the streams.                                   *)

\* Mutant: is_full is set and never cleared.
RefreshSticks(s) ==
    /\ ~cancel
    /\ full' = [full EXCEPT ![s] = TRUE]
    /\ UNCHANGED <<msg, ws, out, brokerVars, cancel, stops, done, discarded, fellBack, expired>>

\* Every second is_full is set from the stream's usage, or to TRUE when the usage
\* cannot be read; the task stops when the token is cancelled.
RefreshFull(s) ==
    /\ ~cancel
    /\ \E b \in BOOLEAN : full' = [full EXCEPT ![s] = b]
    /\ UNCHANGED <<msg, ws, out, brokerVars, cancel, stops, done, discarded, fellBack, expired>>

\* Mutant: async_write sets no message id.
NoMessageId(s, m) == FALSE

\* async_write publishes with the message's id, by which the stream knows it again.
IsKnown(s, m) == m \in seen[s]

\* A publish arrives: stored unless its id is in the window.
Persist(s, m) ==
    /\ <<s, m>> \in net
    /\ net' = net \ {<<s, m>>}
    /\ seen' = [seen EXCEPT ![s] = @ \cup {m}]
    /\ IF IsKnown(s, m) THEN stored' = stored ELSE Copy(s, m)
    /\ UNCHANGED <<writerVars, cancel, stops, done, discarded, fellBack, expired>>

Lose(s, m) ==
    /\ <<s, m>> \in net
    /\ net' = net \ {<<s, m>>}
    /\ UNCHANGED <<writerVars, stored, seen, cancel, stops, done, discarded, fellBack, expired>>

\* The deduplication window moves on.
ForgetId(s, m) ==
    /\ m \in seen[s]
    /\ seen' = [seen EXCEPT ![s] = @ \ {m}]
    /\ expired' = expired \cup {<<s, m>>}
    /\ UNCHANGED <<writerVars, net, stored, cancel, stops, done, discarded, fellBack>>

Cancel ==
    /\ ~cancel
    /\ stops < MaxStops
    /\ cancel' = TRUE
    /\ stops' = stops + 1
    /\ UNCHANGED <<writerVars, brokerVars, done, discarded, fellBack, expired>>

\* A new process; publishes already sent are still on their way.
Reset ==
    /\ msg' = [j \in Jobs |-> NoMsg]
    /\ ws' = [j \in Jobs |-> "idle"]
    /\ out' = [j \in Jobs |-> NoOutcome]
    /\ full' = [s \in Streams |-> TRUE]
    /\ cancel' = FALSE
    /\ UNCHANGED <<brokerVars, done, discarded, fellBack, expired>>

Crash == stops < MaxStops /\ stops' = stops + 1 /\ Reset

\* wait_for_paf_resolvers: the pod exits once every task has ended.
Restart == cancel /\ (\A j \in Jobs : ws[j] = "idle") /\ Reset /\ UNCHANGED stops

----------------------------------------------------------------------------

\* The reader submits a message that is not yet acked and not in flight; a message
\* nacked by its own tag is nacked every time.
Submit(j, m) ==
    /\ m \notin done
    /\ \A i \in Jobs : msg[i] # m
    /\ ~cancel
    /\ StartWrite(j, m)

JobNext(j) ==
    \/ Routed(j) \/ Resolved(j) \/ EndWrite(j)
    \/ \E s \in Streams :
         \/ Publish(j, s) \/ DiscardFull(j, s) \/ GiveUp(j, s)
         \/ PafOk(j, s) \/ PafError(j, s) \/ FallbackOk(j, s) \/ FallbackError(j, s)

NetNext == \E s \in Streams, m \in Msgs : Persist(s, m) \/ Lose(s, m)

BrokerNext == NetNext \/ \E s \in Streams, m \in Msgs : ForgetId(s, m)

Next ==
    \/ \E j \in Jobs : JobNext(j) \/ \E m \in Msgs : Submit(j, m)
    \/ \E s \in Streams : RefreshFull(s)
    \/ BrokerNext
    \/ Cancel \/ Crash \/ Restart

Spec == Init /\ [][Next]_vars

\* Fairness of the tokio runtime and of the network: every task that can step does,
\* the stream status task ticks, a publish arrives or is lost, a pod that has
\* drained exits and is restarted.
Progress ==
    /\ \A j \in Jobs : WF_vars(JobNext(j))
    /\ WF_vars(NetNext)
    /\ WF_vars(Restart)

\* Transient faults: a buffer that fills drains again, and an attempt that is
\* repeated for ever is eventually accepted.
FaultsEnd ==
    /\ \A s \in Streams : SF_vars(RefreshFull(s) /\ ~full'[s])
    /\ \A m \in Msgs : SF_vars(\E j \in Jobs : Submit(j, m))
    /\ \A j \in Jobs, s \in Streams : SF_vars(Publish(j, s)) /\ SF_vars(FallbackOk(j, s))

FairSpec == Spec /\ Progress

----------------------------------------------------------------------------
(* Properties.                                                             *)

\* A message is marked as a success only when every stream it is routed to holds a
\* copy of it, except a stream configured to discard the latest message when it is
\* full: no silent loss through retries, cancellation or failed PAFs.
SuccessMeansStored ==
    \A m \in done : Tag[m] = "forward" =>
        \A s \in Routes[m] :
            stored[s][m] > 0 \/ (s \in Discard /\ <<s, m>> \in discarded)

\* Resubmission after a failure or a crash duplicates a message only in two ways: a
\* PAF failed and the fallback, which carries no id, wrote a copy, or the id had left
\* the stream's deduplication window (the message id of async_write).
DuplicatesExplained ==
    \A s \in Streams, m \in Msgs :
        stored[s][m] > 1 => <<s, m>> \in fellBack \cup expired

\* Once the token is cancelled every write task ends: no retry loop outlives it
\* (wait_for_paf_resolvers cannot wait for ever).
WritesEndOnShutdown == cancel ~> ((\A j \in Jobs : ws[j] = "idle") \/ ~cancel)

\* If faults end, every message that is not nacked by its own tag is eventually written
\* and marked as a success, through full buffers, failed PAFs, cancellation and crashes.
EveryMessageWritten == FaultsEnd => \A m \in Msgs : Tag[m] # "nack" => <>(m \in done)

=============================================================================
