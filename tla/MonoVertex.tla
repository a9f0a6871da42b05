----------------------------- MODULE MonoVertex -----------------------------
(***************************************************************************)
(* A MonoVertex pod: the source (source.rs), the sink writer               *)
(* (sinker/sink.rs) over its sink actors (sinker/actor.rs), the bypass     *)
(* router (monovertex/bypass_router.rs) and the loop that rebuilds a       *)
(* failed forwarder (lib.rs).  The source reads a batch, gives every       *)
(* message a handle and spawns ack tasks that wait for the handles; a      *)
(* message goes down one of two channels, to the sink writer or to the     *)
(* bypass receiver, and both of them call the same three sink actors.      *)
(*                                                                         *)
(* Simplifications: no map UDF (MapVertex models it), so a message has one *)
(* handle; the transformer gives a message its tags or fails; no rate      *)
(* limiter, no watermark; the read that returns end-of-stream is left out. *)
(***************************************************************************)
EXTENDS Naturals, Sequences, FiniteSets, SequencesExt, FiniteSetsExt, Functions

CONSTANTS
    Offsets,      \* the messages of the source
    BatchSize,    \* read batch, sink chunk and bypass channel capacity
    MaxRetries,   \* sink_max_retry_attempts (of a strategy other than retry)
    Configs,      \* the deployments, each with the tags its transformer gives the messages
    MaxOdd,       \* bound: sink answers other than success and failure
    MaxFaults     \* bound: failures of source and store, and early redeliveries

Secondary == {"fallback", "onSuccess", "serving"}
Actors == {"primary", "fallback", "onSuccess"}
Workers == {"writer", "bypass"}
Answers == {"ok", "fail", "fallback", "serve", "onSuccess", "nack"}

ASSUME MonoVertexAssumption ==
    /\ BatchSize \in Nat \ {0}
    /\ {MaxRetries, MaxOdd, MaxFaults} \subseteq Nat
    /\ \A c \in Configs : /\ c.mode \in {"batch", "ahead", "streaming"}
                          /\ c.concurrency \in Nat \ {0}  \* limits.concurrency
                          /\ c.strategy \in {"retry", "fallback", "drop"}
                          /\ c.sinks \subseteq Secondary
                          /\ c.bypassSink \in BOOLEAN
                          /\ \A o \in Offsets : /\ c.tag[o].mark \in {"none", "drop", "nack"}
                                                 /\ c.tag[o].dest \in {"none"} \cup Actors

VARIABLES
    cfg,                 \* the deployment
    src,                 \* what the source holds of each message
    root, cancelled,     \* the root token and the token of this attempt
    spc, got, out,       \* the source task: where it is, read and not admitted, not yet sent
    tracker, task,       \* offsets in flight; the ack task that holds each permit
    handle,              \* how the handle of each message in flight was resolved
    chan, bchan,         \* the channels to the sink writer and to the bypass receiver
    job, erring, wdone,  \* of the writer and the bypass receiver
    queue,               \* the requests waiting at each sink actor
    failed,              \* the source task returned an error
    odd, faults,         \* bounds
    handled, refused,    \* history: written or dropped on purpose; nacked in this delivery
    ignored              \* history: nacked by a sink on the bypass path

srcVars == <<spc, got, out, tracker, task, failed>>
sinkVars == <<job, erring, wdone, queue>>
env == <<cfg, root, ignored>>
vars == <<cfg, src, root, cancelled, srcVars, handle, chan, bchan, sinkVars,
          odd, faults, handled, refused, ignored>>

(***************************************************************************)
(* Permits.  Without read-ahead one batch is in flight; with it as many as *)
(* fit in the concurrency; in streaming mode each message has a permit.    *)
(***************************************************************************)

PermitsOf(c) ==
    CASE c.mode = "batch" -> 1
      [] c.mode = "ahead" -> Max({1, c.concurrency \div BatchSize})
      [] c.mode = "streaming" -> c.concurrency

Permits == PermitsOf(cfg)
Slots == UNION {1..PermitsOf(c) : c \in Configs}
NoTask == [wait |-> <<>>, acks |-> {}, nacks |-> {}]
FreeSlots == {s \in 1..Permits : task[s] = NoTask}
FreeSlot == CHOOSE s \in FreeSlots : TRUE

\* The legs of a write, in the order the code takes them: write_to_sink calls the primary
\* sink and then whatever its answers ask for; perform_write goes on with the messages that
\* were bypassed to the fallback and to the onSuccess sink.
Legs == <<"primary", "fallback", "onSuccess", "serving", "bypassFallback", "bypassOnSuccess">>
SinkOf(l) ==
    CASE Legs[l] = "bypassFallback" -> "fallback"
      [] Legs[l] = "bypassOnSuccess" -> "onSuccess"
      [] OTHER -> Legs[l]

Idle == [batch |-> {}, leg |-> 0, todo |-> {}, tries |-> 0,
         route |-> [l \in DOMAIN Legs |-> {}], nacked |-> {}, bad |-> FALSE]

Bypassed(o) ==
    \/ cfg.tag[o].dest \in {"fallback", "onSuccess"}
    \/ cfg.tag[o].dest = "primary" /\ cfg.bypassSink

TypeOK ==
    /\ cfg \in Configs
    /\ src \in [Offsets -> {"ready", "delivered", "acked"}]
    /\ {root, cancelled, failed} \subseteq BOOLEAN
    /\ spc \in {"check", "read", "admit", "transform", "dispatch", "drain", "done"}
    /\ {got, out, chan, bchan} \subseteq Seq(Offsets)
    /\ tracker \subseteq Offsets
    /\ DOMAIN task = Slots
    /\ \A s \in Slots : /\ task[s].wait \in Seq(Offsets)
                        /\ task[s].acks \cup task[s].nacks \subseteq Offsets
    /\ handle \in [Offsets -> {"none", "open", "ok", "failed"}]
    /\ \A w \in Workers : /\ job[w].leg \in 0..Len(Legs)
                          /\ job[w].todo \cup job[w].nacked \subseteq job[w].batch
    /\ {erring, wdone} \subseteq [Workers -> BOOLEAN]
    /\ queue \in [Actors -> {<<>>} \cup {<<w>> : w \in Workers}
                               \cup {<<"writer", "bypass">>, <<"bypass", "writer">>}]
    /\ odd \in 0..MaxOdd /\ faults \in 0..MaxFaults
    /\ handled \cup refused \cup ignored \subseteq Offsets

Init ==
    /\ cfg \in Configs
    /\ src = [o \in Offsets |-> "ready"]
    /\ root = FALSE /\ cancelled = FALSE
    /\ spc = "check" /\ got = <<>> /\ out = <<>> /\ tracker = {}
    /\ task = [s \in Slots |-> NoTask] /\ failed = FALSE
    /\ handle = [o \in Offsets |-> "none"]
    /\ chan = <<>> /\ bchan = <<>>
    /\ job = [w \in Workers |-> Idle]
    /\ erring = [w \in Workers |-> FALSE] /\ wdone = [w \in Workers |-> FALSE]
    /\ queue = [a \in Actors |-> <<>>]
    /\ odd = 0 /\ faults = 0 /\ handled = {} /\ refused = {} /\ ignored = {}

(***************************************************************************)
(* The source task.                                                        *)
(***************************************************************************)

\* The top of the loop.
SourceCheck ==
    /\ spc = "check"
    /\ spc' = IF cancelled THEN "drain" ELSE "read"
    /\ UNCHANGED <<env, src, cancelled, got, out, tracker, task, failed, handle, chan, bchan,
                   sinkVars, odd, faults, handled, refused>>

\* What the tracker does not refuse as a duplicate in flight.
Fresh(S) == S \ tracker

\* The fresh messages S get a handle each, and one ack task with one permit.
Admit(S) ==
    /\ tracker' = tracker \cup S
    /\ handle' = [o \in Offsets |-> IF o \in S THEN "open" ELSE handle[o]]
    /\ refused' = refused \ S
    /\ out' = SetToSeq(S)
    /\ task' = IF S = {} THEN task
               ELSE [task EXCEPT ![FreeSlot].wait = SetToSeq(S)]
    /\ spc' = IF S # {} THEN "transform" ELSE IF cfg.mode = "streaming" THEN "admit" ELSE "check"

\* A read of a batch, in some order.  Outside streaming mode the permit is acquired before the
\* read and the whole batch is admitted under it; in streaming mode each message then waits
\* for a permit of its own.
SourceRead ==
    /\ spc = "read"
    /\ cfg.mode # "streaming" => FreeSlots # {}
    /\ \E S \in SUBSET {o \in Offsets : src[o] = "ready"} :
          /\ S # {} /\ IsFiniteSet(S) /\ Cardinality(S) <= BatchSize
          /\ src' = [o \in Offsets |-> IF o \in S THEN "delivered" ELSE src[o]]
          /\ IF cfg.mode = "streaming"
             THEN /\ got' = SetToSeq(S) /\ spc' = "admit"
                  /\ UNCHANGED <<out, tracker, task, handle, refused>>
             ELSE Admit(Fresh(S)) /\ UNCHANGED got
    /\ UNCHANGED <<env, cancelled, failed, chan, bchan, sinkVars, odd, faults, handled>>

SourceReadFails ==
    /\ spc = "read" /\ faults < MaxFaults
    /\ spc' = "drain" /\ failed' = TRUE /\ faults' = faults + 1
    /\ UNCHANGED <<env, src, cancelled, got, out, tracker, task, handle, chan, bchan, sinkVars,
                   odd, handled, refused>>

\* A source with nothing to deliver answers with no messages; the task reads again.
SourceReadEmpty ==
    /\ spc = "read" /\ \A o \in Offsets : src[o] # "ready"
    /\ cfg.mode # "streaming" => FreeSlots # {}
    /\ spc' = "check"
    /\ UNCHANGED <<env, src, cancelled, got, out, tracker, task, failed, handle, chan, bchan,
                   sinkVars, odd, faults, handled, refused>>

\* Streaming: the next message read waits for its permit; the wait ends on cancellation, and
\* what was read and not admitted is forgotten.
StreamAdmit ==
    /\ spc = "admit" /\ got # <<>> /\ ~cancelled /\ FreeSlots # {}
    /\ Admit(Fresh({Head(got)}))
    /\ got' = Tail(got)
    /\ UNCHANGED <<env, src, cancelled, failed, chan, bchan, sinkVars, odd, faults, handled>>

StreamBatchEnds ==
    /\ spc = "admit" /\ (got = <<>> \/ cancelled)
    /\ got' = <<>> /\ spc' = IF cancelled THEN "drain" ELSE "check"
    /\ UNCHANGED <<env, src, cancelled, out, tracker, task, failed, handle, chan, bchan,
                   sinkVars, odd, faults, handled, refused>>

\* The transformer fails: the handles are dropped unmarked, which nacks them.
TransformFails ==
    /\ spc = "transform" /\ faults < MaxFaults
    /\ handle' = [o \in Offsets |-> IF o \in ToSet(out) THEN "failed" ELSE handle[o]]
    /\ out' = <<>> /\ got' = <<>> /\ spc' = "drain" /\ failed' = TRUE /\ faults' = faults + 1
    /\ UNCHANGED <<env, src, cancelled, tracker, task, chan, bchan, sinkVars, odd, handled, refused>>

\* The next message goes to the bypass channel or downstream.
Dispatch ==
    /\ spc \in {"transform", "dispatch"} /\ out # <<>>
    /\ LET o == Head(out)
       IN  IF Bypassed(o)
           THEN Len(bchan) < BatchSize /\ bchan' = Append(bchan, o) /\ UNCHANGED chan
           ELSE Len(chan) < 2 * BatchSize /\ chan' = Append(chan, o) /\ UNCHANGED bchan
    /\ out' = Tail(out)
    /\ spc' = IF Len(out) > 1 THEN "dispatch"
              ELSE IF cfg.mode = "streaming" THEN "admit" ELSE "check"
    /\ UNCHANGED <<env, src, cancelled, got, tracker, task, failed, handle, sinkVars,
                   odd, faults, handled, refused>>

\* All permits are back: the task ends and drops its ends of the two channels.
SourceStops ==
    /\ spc = "drain" /\ FreeSlots = 1..Permits
    /\ spc' = "done"
    /\ UNCHANGED <<env, src, cancelled, got, out, tracker, task, failed, handle, chan, bchan,
                   sinkVars, odd, faults, handled, refused>>

(***************************************************************************)
(* The ack tasks.  Each waits for its handles in order and drops every     *)
(* offset from the tracker; then it acks, and then it nacks.               *)
(***************************************************************************)

\* Mutant: a nacked message stays in the tracker.
AckRecvKeeps(s) ==
    /\ task[s].wait # <<>>
    /\ LET o == Head(task[s].wait)
       IN  /\ handle[o] \in {"ok", "failed"}
           /\ task' = [task EXCEPT ![s].wait = Tail(@),
                           ![s].acks = IF handle[o] = "ok" THEN @ \cup {o} ELSE @,
                           ![s].nacks = IF handle[o] = "failed" THEN @ \cup {o} ELSE @]
           /\ tracker' = IF handle[o] = "ok" THEN tracker \ {o} ELSE tracker
           /\ handle' = [handle EXCEPT ![o] = "none"]
    /\ UNCHANGED <<env, src, cancelled, spc, got, out, failed, chan, bchan, sinkVars,
                   odd, faults, handled, refused>>

\* The next message of the batch was marked: it goes to the acks or the nacks, and its
\* offset leaves the tracker.
AckRecv(s) ==
    /\ task[s].wait # <<>>
    /\ LET o == Head(task[s].wait)
       IN  /\ handle[o] \in {"ok", "failed"}
           /\ task' = [task EXCEPT ![s].wait = Tail(@),
                           ![s].acks = IF handle[o] = "ok" THEN @ \cup {o} ELSE @,
                           ![s].nacks = IF handle[o] = "failed" THEN @ \cup {o} ELSE @]
           /\ tracker' = tracker \ {o}
           /\ handle' = [handle EXCEPT ![o] = "none"]
    /\ UNCHANGED <<env, src, cancelled, spc, got, out, failed, chan, bchan, sinkVars,
                   odd, faults, handled, refused>>

AckSent(s) ==
    /\ task[s].wait = <<>> /\ task[s].acks # {}
    /\ src' = [o \in Offsets |-> IF o \in task[s].acks THEN "acked" ELSE src[o]]
    /\ task' = [task EXCEPT ![s].acks = {}]
    /\ UNCHANGED <<env, cancelled, spc, got, out, tracker, failed, handle, chan, bchan, sinkVars,
                   odd, faults, handled, refused>>

\* ack_with_retry gives up: the task returns before its nacks, and the attempt is cancelled.
AckFails(s) ==
    /\ task[s].wait = <<>> /\ task[s].acks # {} /\ faults < MaxFaults
    /\ task' = [task EXCEPT ![s] = NoTask]
    /\ cancelled' = TRUE /\ faults' = faults + 1
    /\ UNCHANGED <<env, src, spc, got, out, tracker, failed, handle, chan, bchan, sinkVars,
                   odd, handled, refused>>

NackSent(s) ==
    /\ task[s].wait = <<>> /\ task[s].acks = {} /\ task[s].nacks # {}
    /\ src' = [o \in Offsets |-> IF o \in task[s].nacks /\ src[o] # "acked" THEN "ready" ELSE src[o]]
    /\ task' = [task EXCEPT ![s] = NoTask]
    /\ UNCHANGED <<env, cancelled, spc, got, out, tracker, failed, handle, chan, bchan, sinkVars,
                   odd, faults, handled, refused>>

\* nack_with_retry swallows its error.
NackFails(s) ==
    /\ task[s].wait = <<>> /\ task[s].acks = {} /\ task[s].nacks # {} /\ faults < MaxFaults
    /\ task' = [task EXCEPT ![s] = NoTask]
    /\ faults' = faults + 1
    /\ UNCHANGED <<env, src, cancelled, spc, got, out, tracker, failed, handle, chan, bchan,
                   sinkVars, odd, handled, refused>>

(***************************************************************************)
(* The sink writer and the bypass receiver.                                *)
(***************************************************************************)

\* The handles h after those of oks and of bad are marked.
Marking(h, oks, bad) ==
    [o \in Offsets |-> IF o \in oks THEN "ok" ELSE IF o \in bad THEN "failed" ELSE h[o]]

\* The batch is marked and the worker is idle again.
Resolve(w, h, oks, bad) ==
    /\ handle' = Marking(h, oks, bad)
    /\ job' = [job EXCEPT ![w] = Idle]

\* Mutant: only the messages that failed are nacked.
FailsForTheRest(w, j, h) ==
    /\ Resolve(w, h, {}, j.todo)
    /\ cancelled' = TRUE
    /\ erring' = [erring EXCEPT ![w] = TRUE]

\* An error: the whole batch is nacked, the attempt cancelled, and what comes later is nacked.
Fails(w, j, h) ==
    /\ Resolve(w, h, {}, j.batch)
    /\ cancelled' = TRUE
    /\ erring' = [erring EXCEPT ![w] = TRUE]

\* Mutant: the writer forgets what the sinks nacked.
NackedNever(w, j) == {}

\* The batch was processed: the writer nacks what the sinks nacked; the bypass receiver has
\* no use for what the write methods return, and acks everything.
Nacked(w, j) == IF w = "bypass" THEN {} ELSE j.nacked

Succeeds(w, j, h) ==
    /\ Resolve(w, h, j.batch \ Nacked(w, j), Nacked(w, j))
    /\ UNCHANGED <<cancelled, erring>>

\* On to the next leg of job j that has messages; h are the handles and q the queues of the
\* actors so far.
Proceed(w, j, h, q) ==
    \E left \in {{l \in DOMAIN Legs : l > j.leg /\ j.route[l] # {}}} :
        \/ left = {} /\ Succeeds(w, j, h) /\ queue' = q
        \/ /\ left # {} /\ SinkOf(Min(left)) \in Secondary \ cfg.sinks
           /\ Fails(w, j, h) /\ queue' = q
        \/ /\ left # {} /\ SinkOf(Min(left)) \notin Secondary \ cfg.sinks
           /\ job' = [job EXCEPT ![w] = [j EXCEPT !.leg = Min(left), !.todo = j.route[Min(left)],
                                                  !.tries = 0, !.bad = FALSE]]
           /\ queue' = IF SinkOf(Min(left)) = "serving" THEN q
                       ELSE [q EXCEPT ![SinkOf(Min(left))] = Append(@, w)]
           /\ handle' = h
           /\ UNCHANGED <<cancelled, erring>>

Marked(S, m) == {o \in S : cfg.tag[o].mark = m}
ToSink(S, d) == {o \in S : cfg.tag[o].dest = d}

\* The writer takes a chunk.  Nacked messages are set aside first; with a bypass condition on
\* the primary sink the rest is acked unwritten, otherwise only what is tagged drop is.
WriterTakes(S) ==
    \E nacked \in {Marked(S, "nack")} :
    \E skipped \in {IF cfg.bypassSink THEN S \ nacked ELSE Marked(S, "drop")} :
    \E j \in {[Idle EXCEPT !.batch = S, !.nacked = nacked, !.route[1] = S \ (nacked \cup skipped)]} :
        /\ handled' = handled \cup skipped
        /\ refused' = refused \cup nacked
        /\ Proceed("writer", j, handle, queue)

\* The bypass receiver takes a chunk: what is tagged drop is acked at once, the rest is
\* written to the sink it was routed to.
BypassTakes(S) ==
    \E dropped \in {Marked(S, "drop")} :
    \E rest \in {S \ dropped} :
    \E j \in {[Idle EXCEPT !.batch = rest, !.route[1] = ToSink(rest, "primary"),
                           !.route[5] = ToSink(rest, "fallback"),
                           !.route[6] = ToSink(rest, "onSuccess")]} :
    \E h \in {Marking(handle, dropped, {})} :
        /\ handled' = handled \cup dropped
        /\ refused' = refused \cup Marked(S, "nack")
        /\ Proceed("bypass", j, h, queue)

Channel(w) == IF w = "writer" THEN chan ELSE bchan
Chunk(w) == SubSeq(Channel(w), 1, Min({BatchSize, Len(Channel(w))}))

Take(w) ==
    /\ job[w] = Idle /\ Channel(w) # <<>>
    /\ \E n \in {Len(Chunk(w))} :
          IF w = "writer" THEN chan' = SubSeq(chan, n + 1, Len(chan)) /\ UNCHANGED bchan
                          ELSE bchan' = SubSeq(bchan, n + 1, Len(bchan)) /\ UNCHANGED chan
    /\ \E S \in {ToSet(Chunk(w))} :
          \/ /\ erring[w] /\ Resolve(w, handle, {}, S)
             /\ UNCHANGED <<cancelled, erring, queue, handled, refused>>
          \/ ~erring[w] /\ w = "writer" /\ WriterTakes(S)
          \/ ~erring[w] /\ w = "bypass" /\ BypassTakes(S)
    /\ UNCHANGED <<env, src, srcVars, wdone, odd, faults>>

(***************************************************************************)
(* A sink actor serves one request at a time: it calls the sink with what  *)
(* is left of the request and sorts the messages by the answers.           *)
(***************************************************************************)

\* Job j after the answers r.  A secondary sink may not ask for the fallback or the serving
\* store; that it asks for the onSuccess sink is not looked at.
Sorted(j, r) ==
    LET is(x) == {o \in j.todo : r[o] = x}
        first == Legs[j.leg] = "primary"
    IN  [j EXCEPT !.todo = is("fail"),
                  !.nacked = @ \cup is("nack"),
                  !.route[2] = IF first THEN @ \cup is("fallback") ELSE @,
                  !.route[3] = IF first THEN @ \cup is("onSuccess") ELSE @,
                  !.route[4] = IF first THEN @ \cup is("serve") ELSE @,
                  !.bad = @ \/ (~first /\ is("fallback") \cup is("serve") # {})]

\* What a round of answers settles for good.
Settled(j, r) ==
    {o \in j.todo : r[o] = "ok" \/ (r[o] = "onSuccess" /\ Legs[j.leg] # "primary")}

\* Mutant: the actor does not go on to its next request.
ReleasedNever(a) == queue

\* The actor takes its next request.
Released(a) == [queue EXCEPT ![a] = Tail(@)]

\* Mutant: the failed messages of an answer are not looked at.
AnsweredAnyhow(w, j) == Proceed(w, j, handle, Released(SinkOf(j.leg)))

\* The request is over: j.todo holds what failed after the retries.
Answered(w, j) ==
    \E q \in {Released(SinkOf(j.leg))} :
        \/ (j.todo # {} \/ j.bad) /\ Fails(w, j, handle) /\ queue' = q
        \/ j.todo = {} /\ ~j.bad /\ Proceed(w, j, handle, q)

\* Retries are exhausted.
Exhausted(j) ==
    CASE cfg.strategy = "drop" -> [j EXCEPT !.todo = {}]
      [] cfg.strategy = "fallback" /\ Legs[j.leg] = "primary" ->
            [j EXCEPT !.todo = {}, !.route[2] = @ \cup j.todo]
      [] OTHER -> j

\* Mutant: a cancelled token does not end the retries.
GivesUpWhenExhausted(j) == cfg.strategy # "retry" /\ j.tries = MaxRetries

\* The retry loop ends: the token is cancelled, or the backoff is used up. Strategy retry has the
\* default bound, u16::MAX attempts, and the batch then fails as it does in SinkErrs; that last
\* attempt is not a case of its own here.
GivesUp(j) == cancelled \/ (cfg.strategy # "retry" /\ j.tries = MaxRetries)

Odd(r) == Cardinality({o \in DOMAIN r : r[o] \notin {"ok", "fail"}})

Attempt(w, r) ==
    \E j \in {Sorted(job[w], r)} :
    \E nacks \in {{o \in DOMAIN r : r[o] = "nack"}} :
    \E dropped \in {IF GivesUp(j) /\ ~cancelled /\ cfg.strategy = "drop" THEN j.todo ELSE {}} :
        /\ odd + Odd(r) <= MaxOdd /\ odd' = odd + Odd(r)
        /\ handled' = handled \cup Settled(job[w], r) \cup dropped
        /\ refused' = refused \cup nacks
        /\ ignored' = IF w = "bypass" THEN ignored \cup nacks ELSE ignored
        /\ \/ j.todo = {} /\ Answered(w, j)
           \/ /\ j.todo # {} /\ GivesUp(j)
              /\ \E k \in {IF cancelled THEN j ELSE Exhausted(j)} : Answered(w, k)
           \/ /\ j.todo # {} /\ ~GivesUp(j)
              /\ job' = [job EXCEPT ![w] = [j EXCEPT !.tries = IF cfg.strategy = "retry"
                                                               THEN 1 - @ ELSE @ + 1]]
              /\ UNCHANGED <<handle, cancelled, erring, queue>>
        /\ UNCHANGED <<cfg, root, src, srcVars, chan, bchan, wdone, faults>>

AtActor(w) == job[w].leg # 0 /\ SinkOf(job[w].leg) # "serving"
              /\ Head(queue[SinkOf(job[w].leg)]) = w

SinkAnswers(w) == AtActor(w) /\ \E r \in [job[w].todo -> Answers] : Attempt(w, r)

\* An attempt that ends in successes and failures, and one that ends in successes only.
SinkTries(w) == AtActor(w) /\ \E r \in [job[w].todo -> {"ok", "fail"}] : Attempt(w, r)
SinkAccepts(w) == AtActor(w) /\ ~cancelled /\ Attempt(w, [o \in job[w].todo |-> "ok"])

\* The sink call fails, or its answers miss a message, repeat one or name an unknown one.
SinkErrs(w) ==
    /\ AtActor(w) /\ odd < MaxOdd /\ odd' = odd + 1
    /\ Fails(w, job[w], handle) /\ queue' = Released(SinkOf(job[w].leg))
    /\ UNCHANGED <<env, src, srcVars, chan, bchan, wdone, faults, handled, refused>>

AtStore(w) == job[w].leg # 0 /\ SinkOf(job[w].leg) = "serving"

StorePut(w) ==
    /\ AtStore(w)
    /\ handled' = handled \cup job[w].todo
    /\ Proceed(w, [job[w] EXCEPT !.todo = {}], handle, queue)
    /\ UNCHANGED <<env, src, srcVars, chan, bchan, wdone, odd, faults, refused>>

\* The store fails, or a message has not the headers that address it.
StoreErrs(w) ==
    /\ AtStore(w) /\ faults < MaxFaults /\ faults' = faults + 1
    /\ Fails(w, job[w], handle)
    /\ UNCHANGED <<env, src, srcVars, chan, bchan, wdone, queue, odd, handled, refused>>

\* The input stream is closed and drained.
WorkerEnds(w) ==
    /\ job[w] = Idle /\ Channel(w) = <<>> /\ spc = "done" /\ ~wdone[w]
    /\ wdone' = [wdone EXCEPT ![w] = TRUE]
    /\ UNCHANGED <<env, src, cancelled, srcVars, handle, chan, bchan, job, erring, queue,
                   odd, faults, handled, refused, ignored>>

(***************************************************************************)
(* The world outside, and the recovery loop.                               *)
(***************************************************************************)

Shutdown ==
    /\ ~root /\ root' = TRUE /\ cancelled' = TRUE
    /\ UNCHANGED <<cfg, ignored, src, srcVars, handle, chan, bchan, sinkVars, odd, faults,
                   handled, refused>>

\* The source delivers again what it was not told about: after a rebuild or a lost nack, and
\* now and then while the first delivery is still in flight.
InFlight(o) == o \in tracker \/ \E s \in Slots : o \in task[s].acks \cup task[s].nacks
                             \/ o \in ToSet(got)

Redeliver(o) ==
    /\ src[o] = "delivered" /\ ~InFlight(o)
    /\ src' = [src EXCEPT ![o] = "ready"]
    /\ UNCHANGED <<env, cancelled, srcVars, handle, chan, bchan, sinkVars, odd, faults,
                   handled, refused>>

RedeliverEarly(o) ==
    /\ src[o] = "delivered" /\ InFlight(o) /\ faults < MaxFaults
    /\ src' = [src EXCEPT ![o] = "ready"] /\ faults' = faults + 1
    /\ UNCHANGED <<env, cancelled, srcVars, handle, chan, bchan, sinkVars, odd, handled, refused>>

AttemptOver == spc = "done" /\ \A w \in Workers : wdone[w]

\* run_forwarder_with_recovery builds everything anew unless the root token is cancelled.
Rebuild ==
    /\ AttemptOver /\ ~root
    /\ cancelled' = FALSE /\ spc' = "check" /\ failed' = FALSE /\ tracker' = {}
    /\ erring' = [w \in Workers |-> FALSE] /\ wdone' = [w \in Workers |-> FALSE]
    /\ UNCHANGED <<env, src, got, out, task, handle, chan, bchan, job, queue, odd, faults,
                   handled, refused>>

Exited == AttemptOver /\ root /\ UNCHANGED vars

SourceStep == SourceCheck \/ SourceRead \/ SourceReadEmpty \/ StreamAdmit \/ StreamBatchEnds
              \/ Dispatch \/ SourceStops
AckStep(s) == AckRecv(s) \/ AckSent(s) \/ NackSent(s)
WorkerStep(w) == Take(w) \/ SinkAnswers(w) \/ StorePut(w) \/ WorkerEnds(w)
Fault == \/ SourceReadFails \/ TransformFails
         \/ \E s \in Slots : AckFails(s) \/ NackFails(s)
         \/ \E w \in Workers : SinkErrs(w) \/ StoreErrs(w)
         \/ \E o \in Offsets : RedeliverEarly(o)

Next ==
    \/ SourceStep
    \/ \E s \in Slots : AckStep(s)
    \/ \E w \in Workers : WorkerStep(w)
    \/ Fault
    \/ \E o \in Offsets : Redeliver(o)
    \/ Shutdown \/ Rebuild \/ Exited

Spec == Init /\ [][Next]_vars

\* Every task goes on; the source delivers unsettled messages again and forgets none; and a
\* sink that is called again and again does not fail every time, while the attempt lives.
FairSpec ==
    /\ Spec
    /\ WF_vars(SourceStep) /\ WF_vars(Rebuild)
    /\ \A s \in Slots : WF_vars(AckStep(s))
    /\ \A w \in Workers : /\ WF_vars(Take(w) \/ SinkTries(w) \/ StorePut(w) \/ WorkerEnds(w))
                          /\ SF_vars(SinkAccepts(w))
    /\ \A o \in Offsets : WF_vars(Redeliver(o)) /\ SF_vars(SourceRead /\ src[o] # src'[o])

(***************************************************************************)
(* Properties.                                                             *)
(***************************************************************************)

\* A message the source was told to forget was written by a sink or to the serving store, or
\* was dropped on purpose (by its tag, by the drop strategy or by the bypass condition on the
\* primary sink), whatever retries, partial writes, cancellations and rebuilds came before;
\* the exception is a nack the bypass receiver does not look at.
AckedOnlyIfHandled ==
    \A o \in Offsets : src[o] = "acked" => o \in handled \cup ignored

\* A delivery that a sink or the transformer nacked is not marked as a success, in whichever
\* of the sinks and in whichever retry the nack came; on the bypass path it is.
NackHonoured ==
    \A o \in Offsets : handle[o] = "ok" /\ o \in refused => Bypassed(o)

\* What the documentation of the per-message nack says, without that exception.
NackHonouredAlways == \A o \in Offsets : handle[o] = "ok" => o \notin refused

\* The places where a handle can be.
Holders(o) ==
    {<<"out", i>> : i \in {i \in DOMAIN out : out[i] = o}}
    \cup {<<"chan", i>> : i \in {i \in DOMAIN chan : chan[i] = o}}
    \cup {<<"bchan", i>> : i \in {i \in DOMAIN bchan : bchan[i] = o}}
    \cup {<<w, 0>> : w \in {w \in Workers : o \in job[w].batch}}

\* Every unresolved handle is held by exactly one task or channel, and a resolved one by
\* none; every handle has one ack task waiting for it, and its offset is in the tracker.
EveryHandleHeld ==
    \A o \in Offsets :
        /\ Cardinality(Holders(o)) = (IF handle[o] = "open" THEN 1 ELSE 0)
        /\ handle[o] # "none" <=> o \in tracker
        /\ Cardinality({s \in Slots : o \in ToSet(task[s].wait)}) = (IF o \in tracker THEN 1 ELSE 0)

\* Once the attempt is cancelled, by SIGTERM or by one of its own components, the source, the
\* writer and the bypass receiver all end, even if every sink goes on failing.
DrainTerminates == cancelled ~> AttemptOver

\* The sinks that the tags and the strategy ask for exist.
Configured ==
    /\ cfg.strategy = "fallback" => "fallback" \in cfg.sinks
    /\ \A o \in Offsets : cfg.tag[o].dest \in Secondary => cfg.tag[o].dest \in cfg.sinks

\* Every message is acked in the end, unless the pod is told to stop or the transformer nacks
\* it each time: no message is lost between a nack, the tracker and the rebuilt forwarder.
EveryMessageAcked ==
    \A o \in Offsets :
        <>(\/ src[o] = "acked"
           \/ root
           \/ ~Configured
           \/ cfg.tag[o].mark = "nack" /\ ~Bypassed(o))
=============================================================================
