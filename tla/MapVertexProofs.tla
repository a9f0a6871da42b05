-------------------------- MODULE MapVertexProofs --------------------------
(***************************************************************************)
(* Proofs about MapVertex for every set of messages, tasks, jobs and       *)
(* streams, every fan-out up to MaxFanout, routing and tagging.            *)
(*                                                                         *)
(* Three things carry the argument that an acked message was delivered.    *)
(* HoldInv counts the holders of a handle, so a map task or a write job    *)
(* that marks it holds one of the counted references.  JobInv says what    *)
(* the phase of a write job means for the streams.  DebtInv follows every  *)
(* result of a message in flight: it is still to be sent, in the channel,  *)
(* with a job, or paid; when the last reference goes only the last is left.*)
(***************************************************************************)
EXTENDS MapVertex, FiniteSetTheorems, TLAPS

Count(t) == IF st[t] = "live" THEN refs[t] ELSE 0
InQueue(t) == {q \in queue : q[1] = t}
AtJobs(t) == {j \in Jobs : owner[j] = t}

\* The part of the types the invariants below need.
Types ==
    /\ broker \in [Data -> {"ready", "delivered", "acked"}]
    /\ off \in [Tasks -> Data \cup {NoOffset}]
    /\ st \in [Tasks -> R!TaskStates]
    /\ refs \in [Tasks -> Nat] /\ rc \in [Tasks -> Nat]
    /\ bad \in [Tasks -> BOOLEAN]
    /\ ms \in [Tasks -> {"none", "queued", "taken", "mapping", "sending"}]
    /\ next \in [Tasks -> Nat \ {0}]
    /\ queue \in SUBSET (Tasks \X (1..MaxFanout)) /\ IsFiniteSet(queue)
    /\ owner \in [Jobs -> Tasks \cup {NoTask}]
    /\ msg \in [Jobs -> Outputs \cup {NoMsg}]
    /\ ws \in [Jobs -> W!Phases]
    /\ out \in [Jobs -> [Streams -> W!Outcomes]]
    /\ stored \in [Streams -> [Outputs -> 0..2]]
    /\ discarded \subseteq Streams \X Outputs
    /\ dropped \subseteq Data

\* Who holds the references, and that a result is sent once.
HoldInv ==
    /\ \A t \in Tasks : Count(t) = Holders(t)
    /\ \A j \in Jobs : owner[j] = NoTask <=> ws[j] = "idle"
    /\ \A t \in Tasks : ms[t] \in {"queued", "taken", "mapping"} => InQueue(t) = {}
    /\ \A t \in Tasks : ms[t] = "sending" => \A q \in InQueue(t) : q[2] < next[t]
    /\ \A q \in queue : <<off[q[1]], q[2]>> \in Outputs
    /\ \A j \in Jobs : owner[j] # NoTask => msg[j] \in Outputs /\ msg[j][1] = off[owner[j]]

\* ref_count exceeds the references alive exactly when one of them failed.
HandleInv ==
    \A t \in Tasks : st[t] = "live" =>
        /\ off[t] \in Data
        /\ refs[t] >= 1 /\ rc[t] >= refs[t]
        /\ bad[t] <=> rc[t] > refs[t]

\* The outcomes a job can have, by its phase, on a stream its message goes to.
OutcomesIn(phase) ==
    CASE phase = "write"   -> {"todo", "paf", "dropped", "cancelled"}
      [] phase = "resolve" -> {"paf", "dropped", "retry", "ok", "lost"}
      [] phase = "success" -> {"dropped", "ok"}
      [] OTHER -> W!Outcomes

Goes(s, m) == TagOf(m) = "forward" /\ s \in RouteOf(m)

\* What a write came to is true of the stream, and a job forgets no stream.
JobInv ==
    \A j \in Jobs : ws[j] # "idle" =>
        /\ ws[j] # "failed" => TagOf(msg[j]) # "nack"
        /\ \A s \in Streams :
             /\ Goes(s, msg[j]) => out[j][s] \in OutcomesIn(ws[j]) \ {"skip"}
             /\ out[j][s] = "ok" => stored[s][msg[j]] > 0
             /\ out[j][s] = "dropped" => <<s, msg[j]>> \in discarded

\* The result m needs no more work.
Paid(m) == TagOf(m) # "drop" => \A s \in RouteOf(m) : Settled(s, m)

\* Result k of the message of t is still to be sent, in the channel or with a job.
Pending(t, k) ==
    \/ ms[t] \in {"queued", "taken", "mapping"}
    \/ ms[t] = "sending" /\ k >= next[t]
    \/ <<t, k>> \in queue
    \/ \E j \in Jobs : owner[j] = t /\ msg[j] = <<off[t], k>>

\* The message of t may still be acked.
Owing(t) == st[t] = "ack" \/ (st[t] = "live" /\ ~bad[t])

\* The message was dropped on purpose, or each of its results is pending or paid.
Covered(t) ==
    /\ off[t] \in Data
    /\ \/ off[t] \in dropped
       \/ \A k \in 1..Fanout[off[t]] : Pending(t, k) \/ Paid(<<off[t], k>>)

DebtInv == \A t \in Tasks : Owing(t) => Covered(t)

IInv == Types /\ HoldInv /\ HandleInv /\ JobInv /\ DebtInv

----------------------------------------------------------------------------
(* The references.                                                         *)

\* The numbers of holders are natural numbers.
LEMMA HolderSets ==
    ASSUME Types, NEW t \in Tasks
    PROVE  /\ IsFiniteSet(InQueue(t)) /\ Cardinality(InQueue(t)) \in Nat
           /\ IsFiniteSet(AtJobs(t)) /\ Cardinality(AtJobs(t)) \in Nat
           /\ Holders(t) = (IF ms[t] # "none" THEN 1 ELSE 0)
                             + Cardinality(InQueue(t)) + Cardinality(AtJobs(t))
<1>1. IsFiniteSet(InQueue(t))
  BY FS_Subset DEF Types, InQueue
<1>2. IsFiniteSet(AtJobs(t))
  BY FS_Subset, MapAssumption DEF AtJobs
<1>3. QED
  BY <1>1, <1>2, FS_CardinalityType DEF Holders, InQueue, AtJobs

\* A handle without references has no holder.
LEMMA NoHolder ==
    ASSUME Types, HoldInv, NEW t \in Tasks, Count(t) = 0
    PROVE  ms[t] = "none" /\ InQueue(t) = {} /\ AtJobs(t) = {}
<1>1. Holders(t) = 0
  BY DEF HoldInv
<1>2. ms[t] = "none" /\ Cardinality(InQueue(t)) = 0 /\ Cardinality(AtJobs(t)) = 0
  BY <1>1, HolderSets
<1>3. QED
  BY <1>2, HolderSets, FS_EmptySet

\* A holder of any kind keeps the message in flight.
LEMMA HolderLive ==
    ASSUME Types, HoldInv, NEW t \in Tasks,
           ms[t] # "none" \/ InQueue(t) # {} \/ AtJobs(t) # {}
    PROVE  st[t] = "live"
BY NoHolder DEF Count

\* A mark gives up one reference of its message and of no other.
LEMMA MarkCount ==
    ASSUME Types, HandleInv, NEW t \in Tasks, R!MarkSuccess(t) \/ R!MarkFailed(t)
    PROVE  /\ st[t] = "live" /\ Count(t) \in Nat /\ Count(t)' = Count(t) - 1
           /\ \A u \in Tasks : u # t => Count(u)' = Count(u)
           /\ st' \in [Tasks -> R!TaskStates] /\ refs' \in [Tasks -> Nat] /\ rc' \in [Tasks -> Nat]
           /\ bad' \in [Tasks -> BOOLEAN]
<1>1. st[t] = "live" /\ refs[t] >= 1 /\ rc[t] >= refs[t]
  BY DEF R!MarkSuccess, R!MarkFailed, HandleInv
<1>2. refs' = [refs EXCEPT ![t] = @ - 1] /\ refs[t] \in Nat /\ rc[t] \in Nat
  BY DEF R!MarkSuccess, R!MarkFailed, Types
<1>3. \E s \in {"ack", "nak"} : st' = [st EXCEPT ![t] = IF refs[t] = 1 THEN s ELSE "live"]
  BY DEF R!MarkSuccess, R!MarkFailed, R!VerdictOf
<1>4. bad' \in [Tasks -> BOOLEAN]
  BY Zenon DEF R!MarkSuccess, R!MarkFailed, Types
<1>5. rc' \in [Tasks -> Nat] /\ refs' \in [Tasks -> Nat]
  BY <1>1, <1>2 DEF R!MarkSuccess, R!MarkFailed, Types
<1>6. QED
  BY <1>1, <1>2, <1>3, <1>4, <1>5 DEF Count, Types, R!TaskStates

\* A fork and a write job of a message keep its handle in flight.
LEMMA ForkLive ==
    ASSUME Types, HoldInv
    PROVE  /\ \A q \in queue : q[1] \in Tasks /\ st[q[1]] = "live"
           /\ \A j \in Jobs : owner[j] # NoTask => owner[j] \in Tasks /\ st[owner[j]] = "live"
<1>1. ASSUME NEW q \in queue PROVE q[1] \in Tasks /\ st[q[1]] = "live"
  <2>1. q[1] \in Tasks /\ q \in InQueue(q[1])
    BY DEF Types, InQueue
  <2>2. QED
    BY <2>1, HolderLive
<1>2. ASSUME NEW j \in Jobs, owner[j] # NoTask PROVE owner[j] \in Tasks /\ st[owner[j]] = "live"
  <2>1. owner[j] \in Tasks /\ j \in AtJobs(owner[j])
    BY <1>2 DEF Types, AtJobs
  <2>2. QED
    BY <2>1, HolderLive
<1>3. QED
  BY <1>1, <1>2

----------------------------------------------------------------------------
(* The steps.                                                              *)

\* The steps of the reader that concern no WIP task.
ReadLoop ==
    /\ \/ R!CheckCancel \/ R!Acquire \/ R!Fetch \/ R!StoreHandles \/ R!StoreFails
       \/ R!EndBatch \/ R!Cleanup
       \/ \E o \in Data : R!DropDuplicate(o) \/ R!InsertFails(o) \/ R!AckWaitExpires(o)
    /\ UNCHANGED <<writeVars, mapVars>>

ReadWip(t) == R!WipNext(t) /\ UNCHANGED <<writeVars, mapVars>>

\* The steps of a write job on one stream, and those of the broker.
JobStream(j, s) ==
    /\ \/ W!Publish(j, s) \/ W!DiscardFull(j, s) \/ W!GiveUp(j, s)
       \/ W!PafOk(j, s) \/ W!PafError(j, s) \/ W!FallbackOk(j, s) \/ W!FallbackError(j, s)
    /\ UNCHANGED <<readVars, mapVars>>

JobPhase(j) == (W!Routed(j) \/ W!Resolved(j)) /\ UNCHANGED <<readVars, mapVars>>

Arrive(s, m) == (W!Persist(s, m) \/ W!Lose(s, m)) /\ UNCHANGED <<readVars, mapVars>>

Refresh(s) == W!RefreshFull(s) /\ UNCHANGED <<readVars, mapVars>>

\* The writer's streams are the vertex's.
LEMMA StreamsSame == W!Streams = Streams
BY DEF W!Streams, Streams

\* Every step is one of these.
LEMMA NextCases ==
    ASSUME [Next]_vars
    PROVE  \/ ReadDeliver \/ ReadLoop
           \/ \E t \in Tasks : ReadWip(t)
           \/ \E t \in Tasks : MapTake(t) \/ MapStart(t) \/ MapAnswer(t) \/ MapSend(t)
           \/ \E t \in Tasks : MapDrain(t) \/ MapFail(t) \/ MapCancelled(t) \/ MapDrop(t) \/ MapDone(t)
           \/ \E j \in Jobs, t \in Tasks, k \in 1..MaxFanout : WriteStart(j, t, k)
           \/ \E j \in Jobs : WriteEnd(j)
           \/ \E j \in Jobs : JobPhase(j)
           \/ \E j \in Jobs, s \in Streams : JobStream(j, s)
           \/ \E s \in Streams, m \in Outputs : Arrive(s, m)
           \/ \E s \in Streams : Refresh(s)
           \/ MapErrorSeen \/ Cancel \/ Crash \/ Restart \/ UNCHANGED vars
<1>1. ReadInternal => ReadLoop \/ \E t \in Tasks : ReadWip(t)
  BY DEF ReadInternal, ReadLoop, ReadWip
<1>2. WriteInternal => \/ \E j \in Jobs : JobPhase(j)
                       \/ \E j \in Jobs, s \in Streams : JobStream(j, s)
                       \/ \E s \in Streams, m \in Outputs : Arrive(s, m)
                       \/ \E s \in Streams : Refresh(s)
  BY StreamsSame DEF WriteInternal, JobPhase, JobStream, Arrive, Refresh, W!NetNext
<1>3. QED
  BY <1>1, <1>2 DEF Next, MapNext

\* W!SetOut changes one outcome.
LEMMA SetOutType ==
    ASSUME Types, NEW j \in Jobs, NEW s \in Streams, NEW o \in W!Outcomes, W!SetOut(j, s, o)
    PROVE  /\ out' \in [Jobs -> [Streams -> W!Outcomes]]
           /\ \A i \in Jobs, r \in Streams :
                out'[i][r] = IF i = j /\ r = s THEN o ELSE out[i][r]
<1>1. out \in [Jobs -> [Streams -> W!Outcomes]] /\ out[j] \in [Streams -> W!Outcomes]
  BY DEF Types
<1>2. out' = [out EXCEPT ![j] = [out[j] EXCEPT ![s] = o]]
  BY DEF W!SetOut
<1>3. [out[j] EXCEPT ![s] = o] \in [Streams -> W!Outcomes]
  BY <1>1
<1>4. QED
  BY <1>1, <1>2, <1>3

\* W!Copy adds a copy of one message to one stream.
LEMMA CopyType ==
    ASSUME Types, NEW s \in Streams, NEW m \in Outputs, W!Copy(s, m)
    PROVE  /\ stored' \in [Streams -> [Outputs -> 0..2]]
           /\ stored'[s][m] > 0
           /\ \A r \in Streams, n \in Outputs : ~(r = s /\ n = m) => stored'[r][n] = stored[r][n]
<1> DEFINE k == IF stored[s][m] < 2 THEN stored[s][m] + 1 ELSE stored[s][m]
<1>1. /\ stored \in [Streams -> [Outputs -> 0..2]]
      /\ stored[s] \in [Outputs -> 0..2] /\ stored[s][m] \in 0..2
  BY DEF Types
<1>2. k \in 0..2 /\ k > 0
  BY <1>1
<1>3. stored' = [stored EXCEPT ![s] = [stored[s] EXCEPT ![m] = k]]
  BY DEF W!Copy
<1> HIDE DEF k
<1>4. [stored[s] EXCEPT ![m] = k] \in [Outputs -> 0..2]
  BY <1>1, <1>2
<1>5. QED
  BY <1>1, <1>2, <1>3, <1>4

\* What a step does to the copies in the streams.
LEMMA StoredStep ==
    ASSUME Types, HoldInv, [Next]_vars
    PROVE  \/ UNCHANGED stored
           \/ \E s \in Streams, m \in Outputs :
                /\ stored' \in [Streams -> [Outputs -> 0..2]]
                /\ stored'[s][m] > 0
                /\ \A r \in Streams, n \in Outputs : ~(r = s /\ n = m) => stored'[r][n] = stored[r][n]
                /\ UNCHANGED <<broker, dropped, discarded>>
<1> USE DEF writeVars, mapVars, readVars
<1>1. ASSUME NEW j \in Jobs, NEW s \in Streams, JobStream(j, s), ~UNCHANGED stored
      PROVE  /\ W!Copy(s, msg[j]) /\ msg[j] \in Outputs
             /\ UNCHANGED <<broker, dropped, discarded>>
  <2>1. W!FallbackOk(j, s) \/ W!FallbackError(j, s)
    BY <1>1 DEF JobStream, W!Publish, W!DiscardFull, W!GiveUp, W!PafOk, W!PafError, W!brokerVars
  <2>2. ws[j] # "idle" /\ W!Copy(s, msg[j]) /\ UNCHANGED discarded
    BY <1>1, <2>1 DEF W!FallbackOk, W!FallbackError, W!Resolving
  <2>3. msg[j] \in Outputs
    BY <2>2 DEF HoldInv
  <2>4. QED
    BY <1>1, <2>2, <2>3 DEF JobStream
<1>2. ASSUME NEW s \in Streams, NEW m \in Outputs, Arrive(s, m), ~UNCHANGED stored
      PROVE  W!Copy(s, m) /\ UNCHANGED <<broker, dropped, discarded>>
  BY <1>2 DEF Arrive, W!Persist, W!Lose
<1>3. \/ UNCHANGED stored
      \/ \E j \in Jobs, s \in Streams : JobStream(j, s)
      \/ \E s \in Streams, m \in Outputs : Arrive(s, m)
  <2>1. \/ UNCHANGED writeVars
        \/ \E j \in Jobs, t \in Tasks, k \in 1..MaxFanout : WriteStart(j, t, k)
        \/ \E j \in Jobs : WriteEnd(j)
        \/ \E j \in Jobs : JobPhase(j)
        \/ \E j \in Jobs, s \in Streams : JobStream(j, s)
        \/ \E s \in Streams, m \in Outputs : Arrive(s, m)
        \/ \E s \in Streams : Refresh(s)
        \/ ResetPod
    BY NextCases
    DEF ReadDeliver, ReadLoop, ReadWip, MapTake, MapStart, MapAnswer, MapSend, MapDrain, MapFail,
        MapCancelled, MapDrop, MapDone, MapErrorSeen, Cancel, Crash, Restart, vars
  <2>2. QED
    BY <2>1 DEF WriteStart, W!StartWrite, WriteEnd, W!EndWrite, JobPhase, W!Routed, W!Resolved, Refresh,
        W!RefreshFull, ResetPod, W!Reset, W!brokerVars
<1>4. QED
  BY <1>1, <1>2, <1>3, CopyType

\* Every step keeps the types.
LEMMA TypesStep == ASSUME Types, HoldInv, HandleInv, [Next]_vars PROVE Types'
<1> USE DEF writeVars, mapVars, readVars
<1>s. stored' \in [Streams -> [Outputs -> 0..2]]
  BY StoredStep DEF Types
\* A step of the mapper or the reader alone.
<1>r. ASSUME UNCHANGED writeVars,
             broker' \in [Data -> {"ready", "delivered", "acked"}],
             off' \in [Tasks -> Data \cup {NoOffset}],
             st' \in [Tasks -> R!TaskStates],
             refs' \in [Tasks -> Nat] /\ rc' \in [Tasks -> Nat], bad' \in [Tasks -> BOOLEAN],
             ms' \in [Tasks -> {"none", "queued", "taken", "mapping", "sending"}],
             next' \in [Tasks -> Nat \ {0}],
             queue' \in SUBSET (Tasks \X (1..MaxFanout)) /\ IsFiniteSet(queue'),
             owner' = owner, dropped' \subseteq Data
      PROVE  Types'
  BY <1>r DEF Types
\* A step of the writer alone.
<1>w. ASSUME UNCHANGED <<readVars, mapVars>>,
             msg' = msg, ws' \in [Jobs -> W!Phases],
             out' \in [Jobs -> [Streams -> W!Outcomes]],
             discarded' \subseteq Streams \X Outputs
      PROVE  Types'
  BY <1>w, <1>s DEF Types
<1>1. CASE ReadDeliver
  <2>1. PICK o \in Data, t \in Tasks : R!Deliver(o, t) /\ ms' = [ms EXCEPT ![t] = "queued"]
    BY <1>1 DEF ReadDeliver
  <2>2. bad' \in [Tasks -> BOOLEAN]
    BY <2>1, Zenon DEF R!Deliver, Types
  <2>3. QED
    BY <1>1, <1>r, <2>1, <2>2 DEF ReadDeliver, R!Deliver, R!TaskStates, Types
<1>2. CASE ReadLoop
  <2>1. broker' \in [Data -> {"ready", "delivered", "acked"}]
    BY <1>2 DEF ReadLoop, R!CheckCancel, R!Acquire, R!Fetch, R!StoreHandles, R!StoreFails, R!EndBatch,
                R!Cleanup, R!DropDuplicate, R!InsertFails, R!AckWaitExpires, R!Offsets, Types
  <2>2. UNCHANGED R!taskVars
    BY <1>2 DEF ReadLoop, R!CheckCancel, R!Acquire, R!Fetch, R!StoreHandles, R!StoreFails, R!EndBatch,
                R!Cleanup, R!DropDuplicate, R!InsertFails, R!AckWaitExpires
  <2>3. QED
    BY <1>2, <1>r, <2>1, <2>2 DEF ReadLoop, R!taskVars, Types
<1>3. ASSUME NEW t \in Tasks, ReadWip(t) PROVE Types'
  <2>1. broker' \in [Data -> {"ready", "delivered", "acked"}]
    BY <1>3 DEF ReadWip, R!WipNext, R!AckOk, R!AckError, R!NakOk, R!NakError, R!OffsetNotFound,
                R!RemoveHandle, R!Untrack, R!Release, Types
  <2>2. /\ \E s \in R!TaskStates : st' = [st EXCEPT ![t] = s]
        /\ rc' = rc \/ rc' = [rc EXCEPT ![t] = 0]
        /\ off' = off \/ off' = [off EXCEPT ![t] = NoOffset]
    BY <1>3 DEF ReadWip, R!WipNext, R!AckOk, R!AckError, R!NakOk, R!NakError, R!OffsetNotFound,
                R!RemoveHandle, R!Untrack, R!Release, R!TaskStates
  <2>3. bad' \in [Tasks -> BOOLEAN] /\ refs' = refs
    BY <1>3, Zenon DEF ReadWip, R!WipNext, R!AckOk, R!AckError, R!NakOk, R!NakError, R!OffsetNotFound,
                R!RemoveHandle, R!Untrack, R!Release, Types
  <2>4. st' \in [Tasks -> R!TaskStates] /\ rc' \in [Tasks -> Nat] /\ off' \in [Tasks -> Data \cup {NoOffset}]
    <3>1. st \in [Tasks -> R!TaskStates] /\ rc \in [Tasks -> Nat] /\ off \in [Tasks -> Data \cup {NoOffset}]
      BY DEF Types
    <3>2. st' \in [Tasks -> R!TaskStates]
      BY <2>2, <3>1
    <3>3. QED
      BY <2>2, <3>1, <3>2
  <2>5. UNCHANGED writeVars /\ UNCHANGED <<ms, next, queue, owner, dropped>>
    BY <1>3 DEF ReadWip
  <2>6. QED
    BY <1>r, <2>1, <2>3, <2>4, <2>5 DEF Types
<1>4. ASSUME NEW t \in Tasks, MapTake(t) \/ MapStart(t) \/ MapAnswer(t) PROVE Types'
  <2>1. UNCHANGED writeVars /\ UNCHANGED <<broker, off, st, refs, rc, bad, queue, owner, dropped>>
    BY <1>4 DEF MapTake, MapStart, MapAnswer
  <2>2. /\ ms' \in [Tasks -> {"none", "queued", "taken", "mapping", "sending"}]
        /\ next' \in [Tasks -> Nat \ {0}]
    <3>1. /\ ms \in [Tasks -> {"none", "queued", "taken", "mapping", "sending"}]
          /\ next \in [Tasks -> Nat \ {0}]
      BY DEF Types
    <3>2. /\ \E s \in {"taken", "mapping", "sending"} : ms' = [ms EXCEPT ![t] = s]
          /\ next' = next \/ next' = [next EXCEPT ![t] = 1]
      BY <1>4 DEF MapTake, MapStart, MapAnswer
    <3>3. QED
      BY <3>1, <3>2
  <2>3. QED
    BY <1>r, <2>1, <2>2 DEF Types
<1>5. ASSUME NEW t \in Tasks, MapSend(t) PROVE Types'
  <2>1. off[t] \in Data /\ next[t] \in Nat \ {0}
    BY <1>5, HolderLive DEF MapSend, HandleInv, Types
  <2>2. <<t, next[t]>> \in Tasks \X (1..MaxFanout)
    BY <1>5, <2>1, MapAssumption DEF MapSend, MaxFanout
  <2>3. IsFiniteSet(queue')
    BY <1>5, FS_AddElement DEF MapSend, Types
  <2>4. QED
    BY <1>5, <1>r, <2>1, <2>2, <2>3 DEF MapSend, R!WithMessage, Types
<1>6. ASSUME NEW t \in Tasks, MapDrain(t) \/ MapFail(t) \/ MapCancelled(t) \/ MapDrop(t) \/ MapDone(t)
      PROVE  Types'
  <2>1. R!MarkSuccess(t) \/ R!MarkFailed(t)
    BY <1>6 DEF MapDrain, MapFail, MapCancelled, MapDrop, MapDone
  <2>2. off[t] \in Data
    BY <2>1, MarkCount DEF HandleInv
  <2>3. UNCHANGED <<off, broker>>
    BY <2>1 DEF R!MarkSuccess, R!MarkFailed
  <2>4. QED
    BY <1>6, <1>r, <2>1, <2>2, <2>3, MarkCount DEF MapDrain, MapFail, MapCancelled, MapDrop, MapDone, Types
<1>7. ASSUME NEW j \in Jobs, NEW t \in Tasks, NEW k \in 1..MaxFanout, WriteStart(j, t, k)
      PROVE  Types'
  <2>1. <<off[t], k>> \in Outputs
    BY <1>7 DEF WriteStart, HoldInv
  <2>2. out' \in [Jobs -> [Streams -> W!Outcomes]]
    BY <1>7, StreamsSame DEF WriteStart, W!StartWrite, W!Outcomes, Types
  <2>3. IsFiniteSet(queue')
    BY <1>7, FS_Subset DEF WriteStart, Types
  <2>4. QED
    BY <1>7, <1>s, <2>1, <2>2, <2>3 DEF WriteStart, W!StartWrite, W!Phases, Types
<1>8. ASSUME NEW j \in Jobs, WriteEnd(j) PROVE Types'
  <2>1. owner[j] \in Tasks /\ (R!MarkSuccess(owner[j]) \/ R!MarkFailed(owner[j]))
    BY <1>8, ForkLive DEF WriteEnd
  <2>2. out' \in [Jobs -> [Streams -> W!Outcomes]]
    BY <1>8, StreamsSame DEF WriteEnd, W!EndWrite, W!NoOutcome, W!Outcomes, Types
  <2>3. UNCHANGED <<off, broker>>
    BY <2>1 DEF R!MarkSuccess, R!MarkFailed
  <2>4. QED
    BY <1>8, <1>s, <2>1, <2>2, <2>3, MarkCount DEF WriteEnd, W!EndWrite, W!Phases, Types
<1>9. ASSUME NEW j \in Jobs, JobPhase(j) PROVE Types'
  BY <1>9, <1>w DEF JobPhase, W!Routed, W!Resolved, W!Phases, Types
<1>10. ASSUME NEW j \in Jobs, NEW s \in Streams, JobStream(j, s) PROVE Types'
  <2>1. out' \in [Jobs -> [Streams -> W!Outcomes]]
    BY <1>10, SetOutType DEF JobStream, W!Publish, W!DiscardFull, W!GiveUp, W!PafOk, W!PafError,
        W!FallbackOk, W!FallbackError, W!Outcomes
  <2>2. ws[j] # "idle" /\ UNCHANGED <<ws, msg>>
    BY <1>10 DEF JobStream, W!Publish, W!DiscardFull, W!GiveUp, W!PafOk, W!PafError,
        W!FallbackOk, W!FallbackError, W!Writing, W!Resolving
  <2>3. msg[j] \in Outputs
    BY <2>2 DEF HoldInv
  <2>4. discarded' \subseteq Streams \X Outputs
    BY <1>10, <2>3 DEF JobStream, W!Publish, W!DiscardFull, W!GiveUp, W!PafOk, W!PafError,
        W!FallbackOk, W!FallbackError, Types
  <2>5. QED
    BY <1>10, <1>w, <2>1, <2>2, <2>4 DEF JobStream, Types
<1>11. ASSUME NEW s \in Streams, NEW m \in Outputs, Arrive(s, m) PROVE Types'
  BY <1>11, <1>w DEF Arrive, W!Persist, W!Lose, W!writerVars, Types
<1>12. ASSUME NEW s \in Streams, Refresh(s) PROVE Types'
  BY <1>12, <1>w DEF Refresh, W!RefreshFull, W!brokerVars, Types
<1>13. CASE MapErrorSeen \/ Cancel \/ UNCHANGED vars
  BY <1>13 DEF MapErrorSeen, Cancel, R!Cancel, R!readerVars, R!taskVars, vars, Types
<1>14. CASE Crash \/ Restart
  <2>1. ResetPod
    BY <1>14 DEF Crash, Restart
  <2>2. bad' \in [Tasks -> BOOLEAN]
    BY <2>1, Zenon DEF ResetPod, R!Reset
  <2>3. IsFiniteSet(queue')
    BY <2>1, FS_EmptySet DEF ResetPod
  <2>4. out' \in [Jobs -> [Streams -> W!Outcomes]]
    BY <2>1, StreamsSame DEF ResetPod, W!Reset, W!NoOutcome, W!Outcomes
  <2>5. QED
    BY <1>s, <2>1, <2>2, <2>3, <2>4 DEF ResetPod, R!Reset, W!Reset, R!TaskStates, W!Phases, Types
<1>15. QED
  BY <1>1, <1>2, <1>3, <1>4, <1>5, <1>6, <1>7, <1>8, <1>9, <1>10, <1>11, <1>12, <1>13, <1>14, NextCases

\* Every step keeps ref_count in agreement with the handles and their marks.
LEMMA HandleStep == ASSUME Types, HandleInv, HoldInv, [Next]_vars PROVE HandleInv'
<1> USE DEF writeVars, mapVars, readVars
<1>1. CASE UNCHANGED <<off, st, refs, rc, bad>>
  BY <1>1 DEF HandleInv
<1>2. CASE ReadDeliver
  <2>1. PICK o \in Data, t \in Tasks : R!Deliver(o, t)
    BY <1>2 DEF ReadDeliver
  <2>2. /\ off'[t] = o /\ refs'[t] = 1 /\ rc'[t] = 1 /\ bad'[t] = FALSE
        /\ \A u \in Tasks \ {t} : /\ st'[u] = st[u] /\ off'[u] = off[u] /\ refs'[u] = refs[u]
                                 /\ rc'[u] = rc[u] /\ bad'[u] = bad[u]
    BY <2>1 DEF R!Deliver, Types
  <2>3. QED
    BY <2>2 DEF HandleInv
<1>3. ASSUME NEW t \in Tasks, ReadWip(t) PROVE HandleInv'
  <2>1. /\ st'[t] # "live" /\ refs' = refs
        /\ \A u \in Tasks \ {t} : st'[u] = st[u] /\ off'[u] = off[u] /\ rc'[u] = rc[u] /\ bad'[u] = bad[u]
    BY <1>3 DEF ReadWip, R!WipNext, R!AckOk, R!AckError, R!NakOk, R!NakError, R!OffsetNotFound,
                R!RemoveHandle, R!Untrack, R!Release, Types
  <2>2. QED
    BY <2>1 DEF HandleInv
<1>4. ASSUME NEW t \in Tasks, R!WithMessage(t) PROVE HandleInv'
  <2>1. /\ refs'[t] = refs[t] + 1 /\ rc'[t] = rc[t] + 1
        /\ UNCHANGED <<off, st, bad>>
        /\ \A u \in Tasks \ {t} : refs'[u] = refs[u] /\ rc'[u] = rc[u]
        /\ \A u \in Tasks : refs[u] \in Nat /\ rc[u] \in Nat
    BY <1>4 DEF R!WithMessage, Types
  <2>2. QED
    BY <2>1 DEF HandleInv
<1>5. ASSUME NEW t \in Tasks, R!MarkSuccess(t) PROVE HandleInv'
  <2>1. /\ refs'[t] = refs[t] - 1 /\ rc'[t] = rc[t] - 1 /\ UNCHANGED <<off, bad>>
        /\ st[t] = "live" /\ (st'[t] = "live" => refs[t] # 1)
        /\ \A u \in Tasks \ {t} : st'[u] = st[u] /\ refs'[u] = refs[u] /\ rc'[u] = rc[u]
        /\ refs[t] \in Nat /\ rc[t] \in Nat
    BY <1>5 DEF R!MarkSuccess, R!VerdictOf, Types
  <2>2. QED
    BY <2>1 DEF HandleInv
<1>6. ASSUME NEW t \in Tasks, R!MarkFailed(t) PROVE HandleInv'
  <2>1. /\ refs'[t] = refs[t] - 1 /\ bad'[t] = TRUE /\ UNCHANGED <<off, rc>>
        /\ st[t] = "live" /\ (st'[t] = "live" => refs[t] # 1)
        /\ \A u \in Tasks \ {t} : st'[u] = st[u] /\ refs'[u] = refs[u] /\ bad'[u] = bad[u]
        /\ refs[t] \in Nat /\ rc[t] \in Nat
    BY <1>6 DEF R!MarkFailed, R!VerdictOf, Types
  <2>2. QED
    BY <2>1 DEF HandleInv
<1>7. CASE ResetPod
  BY <1>7 DEF ResetPod, R!Reset, HandleInv
<1>8. ASSUME NEW j \in Jobs, WriteEnd(j) PROVE HandleInv'
  BY <1>5, <1>6, <1>8, ForkLive DEF WriteEnd
<1>9. \/ UNCHANGED <<off, st, refs, rc, bad>> \/ ReadDeliver \/ ResetPod
      \/ \E t \in Tasks : ReadWip(t) \/ R!WithMessage(t) \/ R!MarkSuccess(t) \/ R!MarkFailed(t)
      \/ \E j \in Jobs : WriteEnd(j)
  <2>1. ReadLoop => UNCHANGED <<off, st, refs, rc, bad>>
    BY DEF ReadLoop, R!CheckCancel, R!Acquire, R!Fetch, R!StoreHandles, R!StoreFails, R!EndBatch,
           R!Cleanup, R!DropDuplicate, R!InsertFails, R!AckWaitExpires, R!taskVars
  <2>2. QED
    BY <2>1, NextCases
    DEF MapTake, MapStart, MapAnswer, MapSend, MapDrain, MapFail, MapCancelled, MapDrop, MapDone,
        WriteStart, JobPhase, JobStream, Arrive, Refresh, MapErrorSeen, Cancel, R!Cancel, R!taskVars,
        Crash, Restart, vars
<1>10. QED
  BY <1>1, <1>2, <1>3, <1>4, <1>5, <1>6, <1>7, <1>8, <1>9

\* Holders in the next state, in terms of the sets that count.
LEMMA HoldersNext ==
    ASSUME NEW t \in Tasks
    PROVE  Holders(t)' = (IF ms'[t] # "none" THEN 1 ELSE 0)
                            + Cardinality(InQueue(t)') + Cardinality(AtJobs(t)')
BY DEF Holders, InQueue, AtJobs

\* The count stays right for a message none of whose holders changes.
LEMMA HeldStill ==
    ASSUME Types, HoldInv, NEW t \in Tasks, Count(t)' = Count(t),
           (ms'[t] = "none") <=> (ms[t] = "none"),
           InQueue(t)' = InQueue(t), AtJobs(t)' = AtJobs(t)
    PROVE  Count(t)' = Holders(t)'
BY HoldersNext, HolderSets DEF HoldInv

\* Every reference keeps one holder.
LEMMA HeldStep ==
    ASSUME Types, HoldInv, HandleInv, [Next]_vars
    PROVE  \A t \in Tasks : Count(t)' = Holders(t)'
<1> USE DEF writeVars, mapVars, readVars
<1>1. CASE ReadDeliver
  <2>1. PICK o \in Data, t \in Tasks : R!Deliver(o, t) /\ ms' = [ms EXCEPT ![t] = "queued"]
    BY <1>1 DEF ReadDeliver
  <2>2. UNCHANGED <<queue, owner>>
    BY <1>1 DEF ReadDeliver
  <2>3. Count(t) = 0 /\ Count(t)' = 1
    BY <2>1 DEF R!Deliver, R!Live, Count, Types
  <2>4. ms[t] = "none" /\ InQueue(t) = {} /\ AtJobs(t) = {}
    BY <2>3, NoHolder
  <2>5. Holders(t)' = 1
    <3>1. InQueue(t)' = {} /\ AtJobs(t)' = {} /\ ms'[t] # "none"
      BY <2>1, <2>2, <2>4 DEF InQueue, AtJobs, Types
    <3>2. QED
      BY <3>1, HoldersNext, FS_EmptySet
  <2>6. ASSUME NEW u \in Tasks, u # t PROVE Count(u)' = Holders(u)'
    <3>1. Count(u)' = Count(u) /\ ms'[u] = ms[u]
      BY <2>1, <2>6 DEF R!Deliver, Count, Types
    <3>2. InQueue(u)' = InQueue(u) /\ AtJobs(u)' = AtJobs(u)
      BY <2>2 DEF InQueue, AtJobs
    <3>3. QED
      BY <3>1, <3>2, HeldStill
  <2>7. QED
    BY <2>3, <2>5, <2>6
\* Neither a mark nor a change of holders.
<1>2. ASSUME \A u \in Tasks : Count(u)' = Count(u) /\ (ms'[u] = "none" <=> ms[u] = "none"),
             UNCHANGED <<queue, owner>>
      PROVE  \A u \in Tasks : Count(u)' = Holders(u)'
  BY <1>2, HeldStill DEF InQueue, AtJobs
<1>3. ASSUME ReadLoop \/ MapErrorSeen \/ Cancel \/ UNCHANGED vars
      PROVE  \A u \in Tasks : Count(u)' = Holders(u)'
  <2>1. UNCHANGED <<st, refs, ms, queue, owner>>
    BY <1>3 DEF ReadLoop, R!CheckCancel, R!Acquire, R!Fetch, R!StoreHandles, R!StoreFails, R!EndBatch,
           R!Cleanup, R!DropDuplicate, R!InsertFails, R!AckWaitExpires, R!taskVars, MapErrorSeen, Cancel,
           R!Cancel, vars
  <2>2. QED
    BY <1>2, <2>1 DEF Count
<1>4. ASSUME NEW t \in Tasks, ReadWip(t) PROVE \A u \in Tasks : Count(u)' = Holders(u)'
  <2>1. st[t] # "live" /\ st'[t] # "live" /\ refs' = refs /\ \A u \in Tasks \ {t} : st'[u] = st[u]
    BY <1>4 DEF ReadWip, R!WipNext, R!AckOk, R!AckError, R!NakOk, R!NakError, R!OffsetNotFound,
                R!RemoveHandle, R!Untrack, R!Release, Types
  <2>2. \A u \in Tasks : Count(u)' = Count(u)
    BY <2>1 DEF Count
  <2>3. QED
    BY <1>2, <1>4, <2>2 DEF ReadWip
<1>5. ASSUME NEW t \in Tasks, MapTake(t) \/ MapStart(t) \/ MapAnswer(t)
      PROVE  \A u \in Tasks : Count(u)' = Holders(u)'
  <2>1. UNCHANGED <<st, refs, queue, owner>>
    BY <1>5 DEF MapTake, MapStart, MapAnswer
  <2>2. \A u \in Tasks : (ms'[u] = "none" <=> ms[u] = "none")
    BY <1>5 DEF MapTake, MapStart, MapAnswer, Types
  <2>3. QED
    BY <1>2, <2>1, <2>2 DEF Count
<1>6. ASSUME NEW t \in Tasks, MapSend(t) PROVE \A u \in Tasks : Count(u)' = Holders(u)'
  <2>1. /\ st[t] = "live" /\ Count(t)' = Count(t) + 1
        /\ \A u \in Tasks \ {t} : Count(u)' = Count(u)
    BY <1>6 DEF MapSend, R!WithMessage, Count, Types
  <2>2. queue' = queue \cup {<<t, next[t]>>} /\ UNCHANGED <<ms, owner>> /\ ms[t] = "sending"
    BY <1>6 DEF MapSend
  <2>3. /\ InQueue(t)' = InQueue(t) \cup {<<t, next[t]>>}
        /\ \A u \in Tasks \ {t} : InQueue(u)' = InQueue(u)
        /\ \A u \in Tasks : AtJobs(u)' = AtJobs(u)
    BY <2>2 DEF InQueue, AtJobs
  <2>4. <<t, next[t]>> \notin InQueue(t)
    BY <2>2 DEF HoldInv, Types
  <2>5. Cardinality(InQueue(t)') = Cardinality(InQueue(t)) + 1
    BY <2>3, <2>4, HolderSets, FS_AddElement
  <2>6. Count(t)' = Holders(t)'
    <3>1. AtJobs(t)' = AtJobs(t) /\ ms'[t] = ms[t] /\ Count(t) = Holders(t)
      BY <2>2, <2>3 DEF HoldInv
    <3>2. Holders(t)' = Holders(t) + 1
      BY <2>5, <3>1, HolderSets, HoldersNext
    <3>3. QED
      BY <2>1, <3>1, <3>2
  <2>7. ASSUME NEW u \in Tasks, u # t PROVE Count(u)' = Holders(u)'
    BY <2>1, <2>2, <2>3, <2>7, HeldStill
  <2>8. QED
    BY <2>6, <2>7
<1>7. ASSUME NEW t \in Tasks, MapDrain(t) \/ MapFail(t) \/ MapCancelled(t) \/ MapDrop(t) \/ MapDone(t)
      PROVE  \A u \in Tasks : Count(u)' = Holders(u)'
  <2>1. R!MarkSuccess(t) \/ R!MarkFailed(t)
    BY <1>7 DEF MapDrain, MapFail, MapCancelled, MapDrop, MapDone
  <2>2. ms[t] # "none" /\ ms' = [ms EXCEPT ![t] = "none"] /\ UNCHANGED <<queue, owner>>
    BY <1>7 DEF MapDrain, MapFail, MapCancelled, MapDrop, MapDone
  <2>3. \A u \in Tasks : InQueue(u)' = InQueue(u) /\ AtJobs(u)' = AtJobs(u)
    BY <2>2 DEF InQueue, AtJobs
  <2>4. Count(t)' = Holders(t)'
    <3>1. ms'[t] = "none"
      BY <2>2 DEF Types
    <3>2. QED
      BY <2>1, <2>2, <2>3, <3>1, MarkCount, HolderSets, HoldersNext DEF HoldInv
  <2>5. ASSUME NEW u \in Tasks, u # t PROVE Count(u)' = Holders(u)'
    <3>1. ms'[u] = ms[u] /\ Count(u)' = Count(u)
      BY <2>1, <2>2, <2>5, MarkCount DEF Types
    <3>2. QED
      BY <2>3, <3>1, HeldStill
  <2>6. QED
    BY <2>4, <2>5
<1>8. ASSUME NEW j \in Jobs, NEW t \in Tasks, NEW k \in 1..MaxFanout, WriteStart(j, t, k)
      PROVE  \A u \in Tasks : Count(u)' = Holders(u)'
  <2>1. /\ <<t, k>> \in queue /\ queue' = queue \ {<<t, k>>}
        /\ owner' = [owner EXCEPT ![j] = t] /\ ws[j] = "idle"
        /\ UNCHANGED <<st, refs, ms>>
    BY <1>8 DEF WriteStart, W!StartWrite
  <2>2. owner[j] = NoTask
    BY <2>1 DEF HoldInv
  <2>3. \A u \in Tasks : Count(u)' = Count(u)
    BY <2>1 DEF Count
  <2>4. /\ <<t, k>> \in InQueue(t) /\ InQueue(t)' = InQueue(t) \ {<<t, k>>}
        /\ \A u \in Tasks \ {t} : InQueue(u)' = InQueue(u)
    BY <2>1 DEF InQueue
  <2>5. /\ j \notin AtJobs(t) /\ AtJobs(t)' = AtJobs(t) \cup {j}
        /\ \A u \in Tasks \ {t} : AtJobs(u)' = AtJobs(u)
    BY <2>1, <2>2, MapAssumption DEF AtJobs, Types
  <2>6. Cardinality(InQueue(t)') = Cardinality(InQueue(t)) - 1
    BY <2>4, HolderSets, FS_RemoveElement
  <2>7. Cardinality(AtJobs(t)') = Cardinality(AtJobs(t)) + 1
    BY <2>5, HolderSets, FS_AddElement
  <2>8. Count(t)' = Holders(t)'
    BY <2>1, <2>3, <2>6, <2>7, HolderSets, HoldersNext DEF HoldInv
  <2>9. ASSUME NEW u \in Tasks, u # t PROVE Count(u)' = Holders(u)'
    BY <2>1, <2>3, <2>4, <2>5, <2>9, HeldStill
  <2>10. QED
    BY <2>8, <2>9
<1>9. ASSUME NEW j \in Jobs, WriteEnd(j) PROVE \A u \in Tasks : Count(u)' = Holders(u)'
  <2>1. PICK t \in Tasks : t = owner[j]
    BY <1>9, ForkLive DEF WriteEnd
  <2>2. R!MarkSuccess(t) \/ R!MarkFailed(t)
    BY <1>9, <2>1 DEF WriteEnd
  <2>3. /\ UNCHANGED <<ms, queue>>
        /\ \A i \in Jobs : owner'[i] = IF i = j THEN NoTask ELSE owner[i]
    BY <1>9 DEF WriteEnd, Types
  <2>4. /\ j \in AtJobs(t) /\ AtJobs(t)' = AtJobs(t) \ {j}
        /\ \A u \in Tasks \ {t} : AtJobs(u)' = AtJobs(u)
        /\ \A u \in Tasks : InQueue(u)' = InQueue(u)
    BY <2>1, <2>3, MapAssumption DEF AtJobs, InQueue
  <2>5. Cardinality(AtJobs(t)') = Cardinality(AtJobs(t)) - 1
    BY <2>4, HolderSets, FS_RemoveElement
  <2>6. Holders(t)' = Holders(t) - 1
    <3>1. InQueue(t)' = InQueue(t) /\ ms'[t] = ms[t]
      BY <2>3, <2>4
    <3>2. QED
      BY <2>5, <3>1, HolderSets, HoldersNext
  <2>7. Count(t)' = Holders(t)'
    BY <2>2, <2>6, MarkCount DEF HoldInv
  <2>8. ASSUME NEW u \in Tasks, u # t PROVE Count(u)' = Holders(u)'
    BY <2>2, <2>3, <2>4, <2>8, MarkCount, HeldStill
  <2>9. QED
    BY <2>7, <2>8
<1>10. CASE ResetPod
  <2>1. \A u \in Tasks : Count(u)' = 0 /\ ms'[u] = "none" /\ InQueue(u)' = {} /\ AtJobs(u)' = {}
    BY <1>10, MapAssumption DEF ResetPod, R!Reset, Count, InQueue, AtJobs
  <2>2. QED
    BY <2>1, HoldersNext, FS_EmptySet
<1>11. ASSUME UNCHANGED <<readVars, mapVars>>
       PROVE  \A u \in Tasks : Count(u)' = Holders(u)'
  BY <1>2, <1>11 DEF Count
<1>12. QED
  BY <1>1, <1>3, <1>4, <1>5, <1>6, <1>7, <1>8, <1>9, <1>10, <1>11, NextCases
  DEF JobPhase, JobStream, Arrive, Refresh, Crash, Restart

\* The offset of a message in flight is fixed as long as somebody holds its handle.
LEMMA OffStill ==
    ASSUME Types, [Next]_vars, ~ResetPod, NEW t \in Tasks, st[t] = "live"
    PROVE  off'[t] = off[t]
<1> USE DEF writeVars, mapVars, readVars
<1>1. CASE ReadDeliver
  BY <1>1 DEF ReadDeliver, R!Deliver, R!Live, Types
<1>2. CASE ReadLoop
  BY <1>2 DEF ReadLoop, R!CheckCancel, R!Acquire, R!Fetch, R!StoreHandles, R!StoreFails, R!EndBatch,
           R!Cleanup, R!DropDuplicate, R!InsertFails, R!AckWaitExpires, R!taskVars
<1>3. ASSUME NEW u \in Tasks, ReadWip(u) PROVE off'[t] = off[t]
  BY <1>3 DEF ReadWip, R!WipNext, R!AckOk, R!AckError, R!NakOk, R!NakError, R!OffsetNotFound,
              R!RemoveHandle, R!Untrack, R!Release, Types
<1>4. ASSUME NEW j \in Jobs, WriteEnd(j) PROVE off'[t] = off[t]
  BY <1>4 DEF WriteEnd, R!MarkSuccess, R!MarkFailed
<1>5. QED
  BY <1>1, <1>2, <1>3, <1>4, NextCases
  DEF MapTake, MapStart, MapAnswer, MapSend, MapDrain, MapFail, MapCancelled, MapDrop, MapDone,
      R!WithMessage, R!MarkSuccess, R!MarkFailed, WriteStart, JobPhase, JobStream, Arrive, Refresh,
      MapErrorSeen, Cancel, R!Cancel, R!taskVars, Crash, Restart, vars

\* A job belongs to a message in flight exactly while it runs, and writes a result of it.
LEMMA OwnerStep ==
    ASSUME Types, HoldInv, [Next]_vars
    PROVE  \A j \in Jobs :
             /\ owner'[j] = NoTask <=> ws'[j] = "idle"
             /\ owner'[j] # NoTask => msg'[j] \in Outputs /\ msg'[j][1] = off'[owner'[j]]
<1> USE DEF writeVars, mapVars, readVars
<1>1. CASE ResetPod
  BY <1>1 DEF ResetPod, W!Reset
<1> SUFFICES ASSUME ~ResetPod, NEW i \in Jobs
             PROVE  /\ owner'[i] = NoTask <=> ws'[i] = "idle"
                    /\ owner'[i] # NoTask => msg'[i] \in Outputs /\ msg'[i][1] = off'[owner'[i]]
  BY <1>1
<1>2. ASSUME owner'[i] = owner[i], msg'[i] = msg[i], ws'[i] = "idle" <=> ws[i] = "idle"
      PROVE  /\ owner'[i] = NoTask <=> ws'[i] = "idle"
             /\ owner'[i] # NoTask => msg'[i] \in Outputs /\ msg'[i][1] = off'[owner'[i]]
  BY <1>2, ForkLive, OffStill DEF HoldInv
<1>3. ASSUME NEW j \in Jobs, NEW t \in Tasks, NEW k \in 1..MaxFanout, WriteStart(j, t, k)
      PROVE  /\ owner'[i] = NoTask <=> ws'[i] = "idle"
             /\ owner'[i] # NoTask => msg'[i] \in Outputs /\ msg'[i][1] = off'[owner'[i]]
  <2>1. CASE i # j
    BY <1>2, <1>3, <2>1 DEF WriteStart, W!StartWrite, Types
  <2>2. CASE i = j
    <3>1. owner'[i] = t /\ msg'[i] = <<off[t], k>> /\ ws'[i] # "idle" /\ off' = off
      BY <1>3, <2>2 DEF WriteStart, W!StartWrite, Types
    <3>2. <<off[t], k>> \in Outputs
      BY <1>3 DEF WriteStart, HoldInv
    <3>3. QED
      BY <3>1, <3>2, MapAssumption
  <2>3. QED
    BY <2>1, <2>2
<1>4. ASSUME NEW j \in Jobs, WriteEnd(j)
      PROVE  /\ owner'[i] = NoTask <=> ws'[i] = "idle"
             /\ owner'[i] # NoTask => msg'[i] \in Outputs /\ msg'[i][1] = off'[owner'[i]]
  <2>1. CASE i # j
    BY <1>2, <1>4, <2>1 DEF WriteEnd, W!EndWrite, Types
  <2>2. CASE i = j
    BY <1>4, <2>2 DEF WriteEnd, W!EndWrite, Types
  <2>3. QED
    BY <2>1, <2>2
<1>5. ASSUME NEW j \in Jobs, JobPhase(j)
      PROVE  owner'[i] = owner[i] /\ msg'[i] = msg[i] /\ (ws'[i] = "idle" <=> ws[i] = "idle")
  BY <1>5 DEF JobPhase, W!Routed, W!Resolved, Types
<1>6. ASSUME NEW j \in Jobs, NEW s \in Streams, JobStream(j, s)
      PROVE  owner' = owner /\ msg' = msg /\ ws' = ws
  BY <1>6 DEF JobStream, W!Publish, W!DiscardFull, W!GiveUp, W!PafOk, W!PafError,
        W!FallbackOk, W!FallbackError
<1>7. UNCHANGED <<owner, msg, ws>> \/ (\E j \in Jobs : JobPhase(j) \/ WriteEnd(j))
        \/ \E j \in Jobs, t \in Tasks, k \in 1..MaxFanout : WriteStart(j, t, k)
  BY <1>6, NextCases
  DEF ReadDeliver, ReadLoop, ReadWip, MapTake, MapStart, MapAnswer, MapSend, MapDrain, MapFail,
      MapCancelled, MapDrop, MapDone, Arrive, W!Persist, W!Lose, W!writerVars, Refresh, W!RefreshFull,
      MapErrorSeen, Cancel, Crash, Restart, vars
<1>8. QED
  BY <1>2, <1>3, <1>4, <1>5, <1>7

\* What is in the channel was sent by the map task before the result it is at.
LEMMA QueueStep ==
    ASSUME Types, HoldInv, HandleInv, [Next]_vars
    PROVE  /\ \A t \in Tasks : ms'[t] \in {"queued", "taken", "mapping"} => InQueue(t)' = {}
           /\ \A t \in Tasks : ms'[t] = "sending" => \A q \in InQueue(t)' : q[2] < next'[t]
           /\ \A q \in queue' : <<off'[q[1]], q[2]>> \in Outputs
<1> USE DEF writeVars, mapVars, readVars
<1>1. CASE ResetPod
  BY <1>1 DEF ResetPod, InQueue
<1>2. ASSUME ~ResetPod, NEW q \in queue PROVE q[1] \in Tasks /\ off'[q[1]] = off[q[1]]
  BY <1>2, ForkLive, OffStill
\* What is in the channel is a result of its message, if what is added to it is.
<1>3. ASSUME ~ResetPod, queue' \subseteq queue PROVE \A q \in queue' : <<off'[q[1]], q[2]>> \in Outputs
  BY <1>2, <1>3 DEF HoldInv
\* A map task that stays where it is.
<1>4. ASSUME ~ResetPod, queue' \subseteq queue, NEW t \in Tasks, ms'[t] = ms[t], next'[t] = next[t]
      PROVE  /\ ms'[t] \in {"queued", "taken", "mapping"} => InQueue(t)' = {}
             /\ ms'[t] = "sending" => \A q \in InQueue(t)' : q[2] < next'[t]
  BY <1>4 DEF HoldInv, InQueue
\* A map task moves on.
<1>5. ASSUME ~ResetPod, UNCHANGED queue, NEW t \in Tasks, InQueue(t) = {} \/ ms'[t] = "none",
             \A u \in Tasks \ {t} : ms'[u] = ms[u] /\ next'[u] = next[u]
      PROVE  /\ \A u \in Tasks : ms'[u] \in {"queued", "taken", "mapping"} => InQueue(u)' = {}
             /\ \A u \in Tasks : ms'[u] = "sending" => \A q \in InQueue(u)' : q[2] < next'[u]
             /\ \A q \in queue' : <<off'[q[1]], q[2]>> \in Outputs
  <2>1. InQueue(t)' = InQueue(t)
    BY <1>5 DEF InQueue
  <2>2. QED
    BY <1>3, <1>4, <1>5, <2>1
<1>6. ASSUME ~ResetPod, ReadDeliver
      PROVE  \E t \in Tasks : /\ UNCHANGED queue /\ InQueue(t) = {}
                              /\ \A u \in Tasks \ {t} : ms'[u] = ms[u] /\ next'[u] = next[u]
  <2>1. PICK o \in Data, t \in Tasks : R!Deliver(o, t) /\ ms' = [ms EXCEPT ![t] = "queued"]
    BY <1>6 DEF ReadDeliver
  <2>2. Count(t) = 0
    BY <2>1 DEF R!Deliver, R!Live, Count
  <2>3. QED
    BY <1>6, <2>1, <2>2, NoHolder DEF ReadDeliver, Types
<1>7. ASSUME NEW t \in Tasks, MapTake(t) \/ MapStart(t) \/ MapAnswer(t)
      PROVE  /\ UNCHANGED queue /\ InQueue(t) = {}
             /\ \A u \in Tasks \ {t} : ms'[u] = ms[u] /\ next'[u] = next[u]
  BY <1>7 DEF MapTake, MapStart, MapAnswer, HoldInv, Types
<1>8. ASSUME NEW t \in Tasks, MapDrain(t) \/ MapFail(t) \/ MapCancelled(t) \/ MapDrop(t) \/ MapDone(t)
      PROVE  /\ UNCHANGED queue /\ ms'[t] = "none"
             /\ \A u \in Tasks \ {t} : ms'[u] = ms[u] /\ next'[u] = next[u]
  BY <1>8 DEF MapDrain, MapFail, MapCancelled, MapDrop, MapDone, Types
<1>9. ASSUME ~ResetPod, NEW t \in Tasks, MapSend(t)
      PROVE  /\ \A u \in Tasks : ms'[u] \in {"queued", "taken", "mapping"} => InQueue(u)' = {}
             /\ \A u \in Tasks : ms'[u] = "sending" => \A q \in InQueue(u)' : q[2] < next'[u]
             /\ \A q \in queue' : <<off'[q[1]], q[2]>> \in Outputs
  <2>1. /\ queue' = queue \cup {<<t, next[t]>>} /\ UNCHANGED <<ms, off>> /\ ms[t] = "sending"
        /\ next'[t] = next[t] + 1 /\ next[t] \in Nat \ {0}
        /\ \A u \in Tasks \ {t} : next'[u] = next[u]
        /\ st[t] = "live" /\ next[t] <= Fanout[off[t]]
    BY <1>9 DEF MapSend, R!WithMessage, Types
  <2>2. <<off[t], next[t]>> \in Outputs
    <3>1. off[t] \in Data
      BY <2>1 DEF HandleInv
    <3>2. QED
      BY <2>1, <3>1, MapAssumption DEF Outputs, MaxFanout
  <2>3. \A q \in queue' : <<off'[q[1]], q[2]>> \in Outputs
    BY <2>1, <2>2 DEF HoldInv
  <2>4. /\ InQueue(t)' = InQueue(t) \cup {<<t, next[t]>>}
        /\ \A u \in Tasks \ {t} : InQueue(u)' = InQueue(u)
    BY <2>1 DEF InQueue
  <2>5. \A q \in InQueue(t) : q[2] \in Nat
    BY DEF InQueue, Types
  <2>6. \A q \in InQueue(t)' : q[2] < next'[t]
    BY <2>1, <2>4, <2>5 DEF HoldInv
  <2>7. ASSUME NEW u \in Tasks
        PROVE  /\ ms'[u] \in {"queued", "taken", "mapping"} => InQueue(u)' = {}
               /\ ms'[u] = "sending" => \A q \in InQueue(u)' : q[2] < next'[u]
    <3>1. CASE u = t
      BY <2>1, <2>6, <3>1
    <3>2. CASE u # t
      <4>1. InQueue(u)' = InQueue(u) /\ next'[u] = next[u] /\ ms'[u] = ms[u]
        BY <2>1, <2>4, <3>2
      <4>2. QED
        BY <4>1 DEF HoldInv
    <3>3. QED
      BY <3>1, <3>2
  <2>8. QED
    BY <2>3, <2>7
<1>10. ASSUME ~ResetPod, queue' \subseteq queue, UNCHANGED <<ms, next>>
      PROVE  /\ \A u \in Tasks : ms'[u] \in {"queued", "taken", "mapping"} => InQueue(u)' = {}
             /\ \A u \in Tasks : ms'[u] = "sending" => \A q \in InQueue(u)' : q[2] < next'[u]
             /\ \A q \in queue' : <<off'[q[1]], q[2]>> \in Outputs
  BY <1>3, <1>4, <1>10
<1>11. \/ ReadDeliver \/ ResetPod
       \/ queue' \subseteq queue /\ UNCHANGED <<ms, next>>
       \/ \E t \in Tasks : MapTake(t) \/ MapStart(t) \/ MapAnswer(t) \/ MapSend(t)
       \/ \E t \in Tasks : MapDrain(t) \/ MapFail(t) \/ MapCancelled(t) \/ MapDrop(t) \/ MapDone(t)
  <2>1. ASSUME NEW j \in Jobs, NEW t \in Tasks, NEW k \in 1..MaxFanout, WriteStart(j, t, k)
        PROVE  queue' \subseteq queue /\ UNCHANGED <<ms, next>>
    BY <2>1 DEF WriteStart
  <2>2. \/ ReadDeliver \/ ResetPod \/ UNCHANGED <<queue, ms, next>>
        \/ \E t \in Tasks : MapTake(t) \/ MapStart(t) \/ MapAnswer(t) \/ MapSend(t)
        \/ \E t \in Tasks : MapDrain(t) \/ MapFail(t) \/ MapCancelled(t) \/ MapDrop(t) \/ MapDone(t)
        \/ \E j \in Jobs, t \in Tasks, k \in 1..MaxFanout : WriteStart(j, t, k)
    BY NextCases DEF ReadLoop, ReadWip, WriteEnd, JobPhase, JobStream, Arrive, Refresh,
         MapErrorSeen, Cancel, Crash, Restart, vars
  <2>3. QED
    BY <2>1, <2>2
<1>12. QED
  BY <1>1, <1>5, <1>6, <1>7, <1>8, <1>9, <1>10, <1>11

\* Every step keeps the references and their holders in agreement.
LEMMA HoldStep == ASSUME Types, HoldInv, HandleInv, [Next]_vars PROVE HoldInv'
<1>1. \A t \in Tasks : Count(t)' = Holders(t)'
  BY HeldStep
<1>2. QED
  BY <1>1, OwnerStep, QueueStep DEF HoldInv

----------------------------------------------------------------------------
(* The write jobs.                                                         *)

\* A stored copy, a discarded message and a dropped input stay so.
LEMMA Monotone ==
    ASSUME Types, HoldInv, [Next]_vars
    PROVE  /\ \A s \in Streams, m \in Outputs : stored[s][m] > 0 => stored'[s][m] > 0
           /\ discarded \subseteq discarded' /\ dropped \subseteq dropped'
<1> USE DEF writeVars, mapVars, readVars
<1>1. \A s \in Streams, m \in Outputs : stored[s][m] > 0 => stored'[s][m] > 0
  BY StoredStep
<1>2. ASSUME NEW j \in Jobs, NEW s \in Streams, JobStream(j, s) PROVE discarded \subseteq discarded'
  BY <1>2 DEF JobStream, W!Publish, W!DiscardFull, W!GiveUp, W!PafOk, W!PafError,
        W!FallbackOk, W!FallbackError
<1>3. UNCHANGED discarded \/ \E j \in Jobs, s \in Streams : JobStream(j, s)
  BY NextCases
  DEF ReadDeliver, ReadLoop, ReadWip, MapTake, MapStart, MapAnswer, MapSend, MapDrain, MapFail,
      MapCancelled, MapDrop, MapDone, WriteStart, W!StartWrite, WriteEnd, W!EndWrite, JobPhase, W!Routed,
      W!Resolved, Arrive, W!Persist, W!Lose, Refresh, W!RefreshFull, MapErrorSeen, Cancel, Crash, Restart,
      ResetPod, W!Reset, vars
<1>4. ASSUME NEW t \in Tasks, MapDrop(t) PROVE dropped \subseteq dropped'
  BY <1>4 DEF MapDrop
<1>5. UNCHANGED dropped \/ \E t \in Tasks : MapDrop(t)
  BY NextCases
  DEF ReadDeliver, ReadLoop, ReadWip, MapTake, MapStart, MapAnswer, MapSend, MapDrain, MapFail,
      MapCancelled, MapDone, WriteStart, WriteEnd, JobPhase, JobStream, Arrive, Refresh, MapErrorSeen,
      Cancel, Crash, Restart, ResetPod, vars
<1>6. QED
  BY <1>1, <1>2, <1>3, <1>4, <1>5

\* Every step keeps the outcomes of the jobs true of the streams.
LEMMA JobStep == ASSUME Types, HoldInv, JobInv, [Next]_vars PROVE JobInv'
<1> DEFINE Good(j) == ws[j] # "idle" =>
        /\ ws[j] # "failed" => TagOf(msg[j]) # "nack"
        /\ \A s \in Streams :
             /\ Goes(s, msg[j]) => out[j][s] \in OutcomesIn(ws[j]) \ {"skip"}
             /\ out[j][s] = "ok" => stored[s][msg[j]] > 0
             /\ out[j][s] = "dropped" => <<s, msg[j]>> \in discarded
<1> USE DEF writeVars, mapVars, readVars
<1>0. \A j \in Jobs : Good(j)
  BY DEF JobInv
<1>b. \A j \in Jobs : ws[j] # "idle" => msg[j] \in Outputs
  BY DEF HoldInv
\* A job that takes no step: the streams and the history only grow.
<1>1. ASSUME NEW j \in Jobs, ws'[j] = ws[j], msg'[j] = msg[j],
             \A s \in Streams : out'[j][s] = out[j][s]
      PROVE  Good(j)'
  <2>1. \A s \in Streams : ws[j] # "idle" => (stored[s][msg[j]] > 0 => stored'[s][msg[j]] > 0)
    BY <1>b, Monotone
  <2>2. discarded \subseteq discarded'
    BY Monotone
  <2>3. QED
    BY <1>0, <1>1, <2>1, <2>2 DEF Goes
<1>2. ASSUME NEW j \in Jobs, JobPhase(j) PROVE \A i \in Jobs : Good(i)'
  <2>1. ASSUME NEW i \in Jobs, i # j PROVE Good(i)'
    BY <1>1, <1>2, <2>1 DEF JobPhase, W!Routed, W!Resolved, Types
  <2>2. Good(j)'
    <3>1. CASE W!Routed(j)
      BY <1>0, <3>1, StreamsSame DEF W!Routed, W!brokerVars, OutcomesIn, W!Outcomes, Goes, Types
    <3>2. CASE W!Resolved(j)
      BY <1>0, <3>2, StreamsSame DEF W!Resolved, W!brokerVars, OutcomesIn, W!Outcomes, Goes, Types
    <3>3. QED
      BY <1>2, <3>1, <3>2 DEF JobPhase
  <2>3. QED
    BY <2>1, <2>2
<1>3. ASSUME NEW j \in Jobs, NEW s \in Streams, JobStream(j, s) PROVE \A i \in Jobs : Good(i)'
  <2>1. UNCHANGED <<ws, msg>> /\ ws[j] # "idle"
    BY <1>3 DEF JobStream, W!Publish, W!DiscardFull, W!GiveUp, W!PafOk, W!PafError,
        W!FallbackOk, W!FallbackError, W!Writing, W!Resolving
  <2>2. msg[j] \in Outputs
    BY <1>b, <2>1
  <2>3. \A i \in Jobs, r \in Streams : ~(i = j /\ r = s) => out'[i][r] = out[i][r]
    BY <1>3, SetOutType DEF JobStream, W!Publish, W!DiscardFull, W!GiveUp, W!PafOk, W!PafError,
        W!FallbackOk, W!FallbackError, W!Outcomes
  <2>4. \/ ws[j] = "write" /\ out'[j][s] \in {"paf", "cancelled"}
        \/ ws[j] = "write" /\ out'[j][s] = "dropped" /\ <<s, msg[j]>> \in discarded'
        \/ ws[j] = "resolve" /\ out'[j][s] = "ok" /\ stored'[s][msg[j]] > 0
        \/ ws[j] = "resolve" /\ out'[j][s] \in {"retry", "lost"}
    <3>1. CASE W!Publish(j, s) \/ W!DiscardFull(j, s) \/ W!GiveUp(j, s)
      BY <3>1, SetOutType DEF W!Publish, W!DiscardFull, W!GiveUp, W!Writing, W!Outcomes
    <3>2. CASE W!PafOk(j, s) \/ W!PafError(j, s)
      BY <3>2, SetOutType DEF W!PafOk, W!PafError, W!Resolving, W!brokerVars, W!Outcomes
    <3>3. CASE W!FallbackOk(j, s)
      BY <2>2, <3>3, SetOutType, CopyType DEF W!FallbackOk, W!Resolving, W!Outcomes
    <3>4. CASE W!FallbackError(j, s)
      BY <3>4, SetOutType DEF W!FallbackError, W!Resolving, W!Outcomes
    <3>5. QED
      BY <1>3, <3>1, <3>2, <3>3, <3>4 DEF JobStream
  <2>5. ASSUME NEW i \in Jobs, i # j PROVE Good(i)'
    BY <1>1, <2>1, <2>3, <2>5
  <2>6. Good(j)'
    <3>1. \A r \in Streams : stored[r][msg[j]] > 0 => stored'[r][msg[j]] > 0
      BY <2>2, Monotone
    <3>2. discarded \subseteq discarded'
      BY Monotone
    <3>3. QED
      BY <1>0, <2>1, <2>3, <2>4, <3>1, <3>2 DEF OutcomesIn, Goes
  <2>7. QED
    BY <2>5, <2>6
<1>4. ASSUME NEW j \in Jobs, NEW t \in Tasks, NEW k \in 1..MaxFanout, WriteStart(j, t, k)
      PROVE  \A i \in Jobs : Good(i)'
  <2>1. PICK m \in Outputs : W!StartWrite(j, m)
    BY <1>4 DEF WriteStart, HoldInv
  <2>2. ASSUME NEW i \in Jobs, i # j PROVE Good(i)'
    BY <1>1, <2>1, <2>2 DEF W!StartWrite, Types
  <2>3. Good(j)'
    <3>1. \A s \in Streams : out'[j][s] = IF Goes(s, m) THEN "todo" ELSE "skip"
      BY <2>1, StreamsSame DEF W!StartWrite, W!Targets, Goes, Types
    <3>2. /\ msg'[j] = m /\ (TagOf(m) = "forward" => ws'[j] = "write")
          /\ TagOf(m) = "nack" => ws'[j] = "failed"
      BY <2>1, MapAssumption DEF W!StartWrite, Types
    <3>3. QED
      BY <3>1, <3>2 DEF Goes, OutcomesIn
  <2>4. QED
    BY <2>2, <2>3
<1>5. ASSUME NEW j \in Jobs, WriteEnd(j) PROVE \A i \in Jobs : Good(i)'
  <2>1. ASSUME NEW i \in Jobs, i # j PROVE Good(i)'
    BY <1>1, <1>5, <2>1 DEF WriteEnd, W!EndWrite, Types
  <2>2. Good(j)'
    BY <1>5 DEF WriteEnd, W!EndWrite, Types
  <2>3. QED
    BY <2>1, <2>2
<1>6. ASSUME UNCHANGED <<msg, ws, out>> PROVE \A i \in Jobs : Good(i)'
  BY <1>1, <1>6
<1>7. CASE ResetPod
  BY <1>7 DEF ResetPod, W!Reset, JobInv
<1>8. \/ UNCHANGED <<msg, ws, out>> \/ ResetPod
      \/ \E j \in Jobs : WriteEnd(j) \/ JobPhase(j)
      \/ \E j \in Jobs, s \in Streams : JobStream(j, s)
      \/ \E j \in Jobs, t \in Tasks, k \in 1..MaxFanout : WriteStart(j, t, k)
  BY NextCases
  DEF ReadDeliver, ReadLoop, ReadWip, MapTake, MapStart, MapAnswer, MapSend, MapDrain, MapFail,
      MapCancelled, MapDrop, MapDone, Arrive, W!Persist, W!Lose, W!writerVars, Refresh, W!RefreshFull,
      MapErrorSeen, Cancel, Crash, Restart, vars
<1>9. JobInv' <=> \A i \in Jobs : Good(i)'
  BY DEF JobInv
<1>10. QED
  BY <1>2, <1>3, <1>4, <1>5, <1>6, <1>7, <1>8, <1>9

----------------------------------------------------------------------------
(* The debts.                                                              *)

\* The results of a message are outputs.
LEMMA ResultOf ==
    ASSUME NEW o \in Data, NEW k \in 1..Fanout[o]
    PROVE  <<o, k>> \in Outputs /\ k \in Nat
BY MapAssumption DEF Outputs, MaxFanout

\* What is paid stays paid.
LEMMA PaidStays ==
    ASSUME Types, HoldInv, [Next]_vars, NEW m \in Outputs, Paid(m)
    PROVE  Paid(m)'
<1>1. RouteOf(m) \subseteq Streams
  BY MapAssumption DEF Streams
<1>2. \A s \in Streams : Settled(s, m) => Settled(s, m)'
  BY Monotone DEF Settled
<1>3. QED
  BY <1>1, <1>2 DEF Paid

\* A job that succeeded has paid for its result.
LEMMA JobPays ==
    ASSUME JobInv, HoldInv, NEW j \in Jobs, ws[j] = "success"
    PROVE  Paid(msg[j])
<1>1. msg[j] \in Outputs
  BY DEF HoldInv
<1>2. RouteOf(msg[j]) \subseteq Streams /\ TagOf(msg[j]) \in {"forward", "drop", "nack"}
  BY <1>1, MapAssumption DEF Streams
<1>3. TagOf(msg[j]) # "nack"
  BY DEF JobInv
<1>4. \A s \in Streams : Goes(s, msg[j]) => out[j][s] \in {"dropped", "ok"}
  BY DEF JobInv, OutcomesIn
<1>5. \A s \in Streams : out[j][s] \in {"dropped", "ok"} => Settled(s, msg[j])
  BY DEF JobInv, Settled
<1>6. QED
  BY <1>2, <1>3, <1>4, <1>5 DEF Paid, Goes

\* A mark leaves a message to be acked only if it was one before, and a failure never does.
LEMMA OwingBack ==
    ASSUME Types, HandleInv, NEW u \in Tasks, R!MarkSuccess(u) \/ R!MarkFailed(u),
           NEW t \in Tasks, Owing(t)'
    PROVE  Owing(t) /\ off'[t] = off[t] /\ (R!MarkFailed(u) => t # u)
<1>1. CASE t # u
  BY <1>1 DEF R!MarkSuccess, R!MarkFailed, Owing, Types
<1>2. CASE t = u
  <2>1. st[t] = "live" /\ refs[t] \in Nat /\ rc[t] \in Nat /\ refs[t] >= 1 /\ rc[t] >= refs[t]
        /\ (bad[t] <=> rc[t] > refs[t])
    BY <1>2 DEF R!MarkSuccess, R!MarkFailed, HandleInv, Types
  <2>2. CASE R!MarkFailed(u)
    <3>1. bad'[t] /\ (st'[t] = "live" \/ st'[t] = R!VerdictOf(rc[t]))
      BY <1>2, <2>2 DEF R!MarkFailed, Types
    <3>2. R!VerdictOf(rc[t]) = "nak"
      BY <2>1 DEF R!VerdictOf
    <3>3. QED
      BY <3>1, <3>2 DEF Owing
  <2>3. CASE R!MarkSuccess(u)
    <3>1. UNCHANGED <<off, bad>>
      BY <2>3 DEF R!MarkSuccess
    <3>2. CASE refs[t] = 1
      <4>1. st'[t] = R!VerdictOf(rc[t] - 1)
        BY <1>2, <2>3, <3>2 DEF R!MarkSuccess, Types
      <4>2. rc[t] = 1
        BY <2>1, <4>1 DEF R!VerdictOf, Owing
      <4>3. ~bad[t]
        BY <2>1, <3>2, <4>2
      <4>4. ~R!MarkFailed(u)
        BY <1>2, <4>1, <4>2, <3>2, <2>1 DEF R!MarkFailed, R!VerdictOf, Types
      <4>5. QED
        BY <2>1, <3>1, <4>3, <4>4 DEF Owing
    <3>3. CASE refs[t] # 1
      <4>1. st'[t] = "live" /\ rc' = [rc EXCEPT ![u] = @ - 1]
        BY <1>2, <2>3, <3>3 DEF R!MarkSuccess, Types
      <4>2. ~R!MarkFailed(u)
        BY <1>2, <2>1, <4>1 DEF R!MarkFailed, Types
      <4>3. QED
        BY <2>1, <3>1, <4>1, <4>2 DEF Owing
    <3>4. QED
      BY <3>2, <3>3
  <2>4. QED
    BY <2>2, <2>3
<1>3. QED
  BY <1>1, <1>2

\* A message stays covered when what was pending is pending still or paid.
LEMMA CoverKept ==
    ASSUME Types, HoldInv, DebtInv, [Next]_vars, NEW t \in Tasks, Owing(t), off'[t] = off[t],
           \A k \in 1..Fanout[off[t]] : Pending(t, k) => Pending(t, k)' \/ Paid(<<off[t], k>>)
    PROVE  Covered(t)'
<1>1. off[t] \in Data /\ Covered(t)
  BY DEF DebtInv, Covered
<1>2. CASE off[t] \in dropped
  BY <1>1, <1>2, Monotone DEF Covered
<1>3. CASE off[t] \notin dropped
  <2>1. ASSUME NEW k \in 1..Fanout[off[t]]
        PROVE  Pending(t, k)' \/ \E m \in Outputs : m = <<off'[t], k>> /\ Paid(m)'
    BY <1>1, <1>3, ResultOf, PaidStays DEF Covered
  <2>2. \A k \in 1..Fanout[off[t]] : (Pending(t, k) \/ Paid(<<off[t], k>>))'
    BY <2>1 DEF Paid, Settled
  <2>3. QED
    BY <1>1, <2>2 DEF Covered
<1>4. QED
  BY <1>2, <1>3

\* A step that leaves the map task, the channel and the jobs of a message alone.
LEMMA CoverStill ==
    ASSUME Types, HoldInv, DebtInv, [Next]_vars, NEW t \in Tasks, Owing(t), off'[t] = off[t],
           ms'[t] = ms[t], next'[t] = next[t], InQueue(t)' = InQueue(t),
           \A j \in Jobs : owner[j] = t => owner'[j] = t /\ msg'[j] = msg[j]
    PROVE  Covered(t)'
<1>1. ASSUME NEW k \in 1..Fanout[off[t]], Pending(t, k) PROVE Pending(t, k)'
  <2>1. <<t, k>> \in queue => <<t, k>> \in queue'
    BY DEF InQueue
  <2>2. QED
    BY <1>1, <2>1 DEF Pending
<1>2. QED
  BY <1>1, CoverKept

\* Every step keeps the messages that may be acked covered.
LEMMA DebtStep ==
    ASSUME Types, HoldInv, HandleInv, JobInv, DebtInv, [Next]_vars
    PROVE  DebtInv'
<1> USE DEF writeVars, mapVars, readVars
<1> SUFFICES ASSUME NEW t \in Tasks, Owing(t)' PROVE Covered(t)'
  BY DEF DebtInv
<1>1. CASE ReadDeliver
  <2>1. PICK o \in Data, u \in Tasks : R!Deliver(o, u) /\ ms' = [ms EXCEPT ![u] = "queued"]
    BY <1>1 DEF ReadDeliver
  <2>2. CASE t = u
    <3>1. off'[t] = o /\ ms'[t] = "queued"
      BY <2>1, <2>2 DEF R!Deliver, Types
    <3>2. QED
      BY <3>1 DEF Covered, Pending
  <2>3. CASE t # u
    <3>1. Owing(t) /\ off'[t] = off[t] /\ ms'[t] = ms[t]
      BY <2>1, <2>3 DEF R!Deliver, Owing, Types
    <3>2. UNCHANGED <<next, queue, owner, msg>> /\ InQueue(t)' = InQueue(t)
      BY <1>1 DEF ReadDeliver, InQueue
    <3>3. QED
      BY <3>1, <3>2, CoverStill
  <2>4. QED
    BY <2>2, <2>3
<1>2. ASSUME UNCHANGED <<off, st, bad, ms, next, queue, owner, msg>> PROVE Covered(t)'
  <2>1. Owing(t) /\ InQueue(t)' = InQueue(t)
    BY <1>2 DEF Owing, InQueue
  <2>2. QED
    BY <1>2, <2>1, CoverStill
<1>3. ASSUME ReadLoop \/ MapErrorSeen \/ Cancel \/ UNCHANGED vars PROVE Covered(t)'
  <2>1. UNCHANGED <<off, st, bad, ms, next, queue, owner, msg>>
    BY <1>3 DEF ReadLoop, R!CheckCancel, R!Acquire, R!Fetch, R!StoreHandles, R!StoreFails, R!EndBatch,
           R!Cleanup, R!DropDuplicate, R!InsertFails, R!AckWaitExpires, R!taskVars, MapErrorSeen, Cancel,
           R!Cancel, vars
  <2>2. QED
    BY <1>2, <2>1
<1>4. ASSUME NEW u \in Tasks, ReadWip(u) PROVE Covered(t)'
  <2>1. /\ st[u] # "live" /\ st'[u] # "live" /\ (st'[u] = "ack" => st[u] = "ack" /\ off'[u] = off[u])
        /\ \A v \in Tasks \ {u} : st'[v] = st[v] /\ off'[v] = off[v] /\ bad'[v] = bad[v]
    BY <1>4 DEF ReadWip, R!WipNext, R!AckOk, R!AckError, R!NakOk, R!NakError, R!OffsetNotFound,
                R!RemoveHandle, R!Untrack, R!Release, Types
  <2>2. Owing(t) /\ off'[t] = off[t]
    BY <2>1 DEF Owing
  <2>3. InQueue(t)' = InQueue(t) /\ UNCHANGED <<ms, next, owner, msg>>
    BY <1>4 DEF ReadWip, InQueue
  <2>4. QED
    BY <2>2, <2>3, CoverStill
<1>5. ASSUME NEW u \in Tasks, MapTake(u) \/ MapStart(u) \/ MapAnswer(u) PROVE Covered(t)'
  <2>1. UNCHANGED <<off, st, bad, queue, owner, msg>>
    BY <1>5 DEF MapTake, MapStart, MapAnswer
  <2>2. Owing(t) /\ off'[t] = off[t] /\ InQueue(t)' = InQueue(t)
    BY <2>1 DEF Owing, InQueue
  <2>3. CASE t # u
    <3>1. ms'[t] = ms[t] /\ next'[t] = next[t]
      BY <1>5, <2>3 DEF MapTake, MapStart, MapAnswer, Types
    <3>2. QED
      BY <2>1, <2>2, <3>1, CoverStill
  <2>4. CASE t = u
    <3>1. ms'[t] \in {"taken", "mapping"} \/ (ms'[t] = "sending" /\ next'[t] = 1)
      BY <1>5, <2>4 DEF MapTake, MapStart, MapAnswer, Types
    <3>2. \A k \in 1..Fanout[off[t]] : Pending(t, k)'
      BY <3>1 DEF Pending
    <3>3. QED
      BY <2>2, <3>2, CoverKept
  <2>5. QED
    BY <2>3, <2>4
<1>6. ASSUME NEW u \in Tasks, MapSend(u) PROVE Covered(t)'
  <2>1. /\ UNCHANGED <<off, st, bad, ms, owner, msg>> /\ queue' = queue \cup {<<u, next[u]>>}
        /\ next'[u] = next[u] + 1 /\ next[u] \in Nat
        /\ \A v \in Tasks \ {u} : next'[v] = next[v]
    BY <1>6 DEF MapSend, R!WithMessage, Types
  <2>2. Owing(t) /\ off'[t] = off[t]
    BY <2>1 DEF Owing
  <2>3. CASE t # u
    <3>1. InQueue(t)' = InQueue(t)
      BY <2>1, <2>3 DEF InQueue
    <3>2. QED
      BY <2>1, <2>2, <2>3, <3>1, CoverStill
  <2>4. CASE t = u
    <3>1. ASSUME NEW k \in 1..Fanout[off[t]], Pending(t, k) PROVE Pending(t, k)'
      <4>1. k >= next[t] => k = next[t] \/ k >= next[t] + 1
        BY <2>1, <2>4
      <4>2. QED
        BY <2>1, <2>4, <3>1, <4>1 DEF Pending
    <3>2. QED
      BY <2>2, <3>1, CoverKept
  <2>5. QED
    BY <2>3, <2>4
<1>7. ASSUME NEW u \in Tasks, MapDrain(u) \/ MapFail(u) \/ MapCancelled(u) \/ MapDrop(u) \/ MapDone(u)
      PROVE  Covered(t)'
  <2>1. /\ R!MarkSuccess(u) \/ R!MarkFailed(u)
        /\ MapDrop(u) \/ MapDone(u) \/ R!MarkFailed(u)
        /\ UNCHANGED <<queue, owner, msg>>
        /\ \A v \in Tasks \ {u} : ms'[v] = ms[v] /\ next'[v] = next[v]
    BY <1>7 DEF MapDrain, MapFail, MapCancelled, MapDrop, MapDone, Types
  <2>2. Owing(t) /\ off'[t] = off[t] /\ (R!MarkFailed(u) => t # u)
    BY <2>1, OwingBack
  <2>3. CASE t # u
    <3>1. InQueue(t)' = InQueue(t) /\ ms'[t] = ms[t] /\ next'[t] = next[t]
      BY <2>1, <2>3 DEF InQueue
    <3>2. QED
      BY <2>1, <2>2, <3>1, CoverStill
  <2>4. CASE t = u /\ MapDrop(u)
    <3>1. off[t] \in dropped' /\ off[t] \in Data
      BY <2>2, <2>4 DEF MapDrop, DebtInv, Covered
    <3>2. QED
      BY <2>2, <3>1 DEF Covered
  <2>5. CASE t = u /\ MapDone(u)
    <3>1. ms[t] = "sending" /\ next[t] > Fanout[off[t]] /\ off[t] \in Data
      BY <2>2, <2>5 DEF MapDone, DebtInv, Covered
    <3>2. next[t] \in Nat /\ Fanout[off[t]] \in Nat
      <4>1. Fanout[off[t]] \in 0..MaxFanout
        BY <3>1, MapAssumption
      <4>2. next[t] \in Nat
        BY DEF Types
      <4>3. QED
        BY <4>1, <4>2 DEF MaxFanout
    <3>3. ASSUME NEW k \in 1..Fanout[off[t]], Pending(t, k) PROVE Pending(t, k)'
      <4>1. ~(k >= next[t])
        BY <3>1, <3>2
      <4>2. QED
        BY <2>1, <2>2, <3>1, <3>3, <4>1 DEF Pending
    <3>4. QED
      BY <2>2, <3>3, CoverKept
  <2>6. QED
    BY <2>1, <2>2, <2>3, <2>4, <2>5
<1>8. ASSUME NEW j \in Jobs, NEW u \in Tasks, NEW l \in 1..MaxFanout, WriteStart(j, u, l)
      PROVE  Covered(t)'
  <2>1. /\ UNCHANGED <<off, st, bad, ms, next>> /\ queue' = queue \ {<<u, l>>} /\ ws[j] = "idle"
        /\ owner'[j] = u /\ msg'[j] = <<off[u], l>>
        /\ \A i \in Jobs \ {j} : owner'[i] = owner[i] /\ msg'[i] = msg[i]
    BY <1>8 DEF WriteStart, W!StartWrite, Types
  <2>2. owner[j] # t
    BY <2>1, MapAssumption DEF HoldInv
  <2>3. Owing(t) /\ off'[t] = off[t]
    BY <2>1 DEF Owing
  <2>4. ASSUME NEW k \in 1..Fanout[off[t]], Pending(t, k) PROVE Pending(t, k)'
    <3>1. CASE <<t, k>> = <<u, l>>
      <4>1. owner'[j] = t /\ msg'[j] = <<off'[t], k>>
        BY <2>1, <3>1
      <4>2. QED
        BY <4>1 DEF Pending
    <3>2. CASE <<t, k>> # <<u, l>>
      <4>1. <<t, k>> \in queue => <<t, k>> \in queue'
        BY <2>1, <3>2
      <4>2. QED
        BY <2>1, <2>2, <2>4, <4>1 DEF Pending
    <3>3. QED
      BY <3>1, <3>2
  <2>5. QED
    BY <2>3, <2>4, CoverKept
<1>9. ASSUME NEW j \in Jobs, WriteEnd(j) PROVE Covered(t)'
  <2>1. /\ owner[j] \in Tasks /\ UNCHANGED <<ms, next, queue>>
        /\ \A i \in Jobs \ {j} : owner'[i] = owner[i] /\ msg'[i] = msg[i]
    BY <1>9, ForkLive DEF WriteEnd, W!EndWrite, Types
  <2>2. /\ R!MarkSuccess(owner[j]) \/ R!MarkFailed(owner[j])
        /\ ws[j] # "success" => R!MarkFailed(owner[j])
    BY <1>9 DEF WriteEnd
  <2>3. Owing(t) /\ off'[t] = off[t] /\ (R!MarkFailed(owner[j]) => t # owner[j])
    BY <2>1, <2>2, OwingBack
  <2>4. CASE t # owner[j]
    <3>1. InQueue(t)' = InQueue(t)
      BY <2>1 DEF InQueue
    <3>2. QED
      BY <2>1, <2>3, <2>4, <3>1, CoverStill
  <2>5. CASE t = owner[j]
    <3>1. Paid(msg[j])
      BY <2>2, <2>3, <2>5, JobPays
    <3>2. ASSUME NEW k \in 1..Fanout[off[t]], Pending(t, k) PROVE Pending(t, k)' \/ Paid(<<off[t], k>>)
      <4>1. CASE msg[j] = <<off[t], k>>
        BY <3>1, <4>1
      <4>2. CASE msg[j] # <<off[t], k>>
        BY <2>1, <2>3, <3>2, <4>2 DEF Pending
      <4>3. QED
        BY <4>1, <4>2
    <3>3. QED
      BY <2>3, <3>2, CoverKept
  <2>6. QED
    BY <2>4, <2>5
<1>10. CASE ResetPod
  BY <1>10 DEF ResetPod, R!Reset, Owing
<1>11. ASSUME UNCHANGED <<readVars, mapVars>>, UNCHANGED msg PROVE Covered(t)'
  BY <1>2, <1>11
<1>12. ASSUME NEW j \in Jobs, NEW s \in Streams, JobStream(j, s) PROVE Covered(t)'
  BY <1>11, <1>12 DEF JobStream, W!Publish, W!DiscardFull, W!GiveUp, W!PafOk, W!PafError,
        W!FallbackOk, W!FallbackError
<1>13. QED
  BY <1>1, <1>3, <1>4, <1>5, <1>6, <1>7, <1>8, <1>9, <1>10, <1>11, <1>12, NextCases
  DEF JobPhase, W!Routed, W!Resolved, Arrive, W!Persist, W!Lose, W!writerVars, Refresh, W!RefreshFull,
      Crash, Restart

----------------------------------------------------------------------------
(* The invariant, and at-least-once delivery.                              *)

\* The invariant holds at the start ...
LEMMA InvInit == Init => IInv
<1> SUFFICES ASSUME Init PROVE IInv
  OBVIOUS
<1> USE MapAssumption DEF Init, MapInit, R!Init, W!Init
<1>1. Types
  <2>1. bad \in [Tasks -> BOOLEAN]
    BY Zenon
  <2>2. stored \in [Streams -> [Outputs -> 0..2]]
    BY StreamsSame
  <2>3. out \in [Jobs -> [Streams -> W!Outcomes]]
    BY StreamsSame DEF W!NoOutcome, W!Outcomes
  <2>4. IsFiniteSet(queue)
    BY FS_EmptySet
  <2>5. broker \in [Data -> {"ready", "delivered", "acked"}]
    BY DEF R!Offsets
  <2>6. QED
    BY <2>1, <2>2, <2>3, <2>4, <2>5 DEF Types, R!TaskStates, W!Phases
<1>2. HoldInv
  <2>1. \A t \in Tasks : ms[t] = "none" /\ Count(t) = 0 /\ InQueue(t) = {} /\ AtJobs(t) = {}
    BY DEF Count, InQueue, AtJobs
  <2>2. \A t \in Tasks : Holders(t) = 0
    BY <1>1, <2>1, HolderSets, FS_EmptySet
  <2>3. QED
    BY <2>1, <2>2 DEF HoldInv
<1>3. HandleInv /\ JobInv /\ DebtInv
  BY DEF HandleInv, JobInv, DebtInv, Owing
<1>4. QED
  BY <1>1, <1>2, <1>3 DEF IInv

\* ... and every step keeps it ...
LEMMA InvStep == IInv /\ [Next]_vars => IInv'
BY TypesStep, HoldStep, HandleStep, JobStep, DebtStep DEF IInv

\* ... so it holds in every state of the vertex.
THEOREM InvariantHolds == Spec => []IInv
BY InvInit, InvStep, PTL DEF Spec

\* Every reference counted by an AckHandle has exactly one holder, the map task, a fork in
\* the channel or a write job, for any number of messages, tasks and jobs.
THEOREM ReferencesHeld == Spec => []EveryReferenceHeld
<1>1. IInv => EveryReferenceHeld
  BY DEF IInv, HoldInv, Count, EveryReferenceHeld
<1>2. QED
  BY <1>1, InvariantHolds, PTL

\* A message whose WIP task sends the ack was dropped on purpose or owes nothing more.
LEMMA AckPaid ==
    ASSUME IInv, NEW t \in Tasks, st[t] = "ack"
    PROVE  /\ off[t] \in Data
           /\ \/ off[t] \in dropped
              \/ \A d \in OwedBy(off[t]) : Settled(d[1], d[2])
<1>1. ms[t] = "none" /\ InQueue(t) = {} /\ AtJobs(t) = {}
  BY NoHolder DEF IInv, Count
<1>2. \A k : ~Pending(t, k)
  <2>1. \A k : <<t, k>> \notin queue
    BY <1>1 DEF InQueue
  <2>2. \A j \in Jobs : owner[j] # t
    BY <1>1 DEF AtJobs
  <2>3. QED
    BY <1>1, <2>1, <2>2 DEF Pending
<1>3. Covered(t)
  BY DEF IInv, DebtInv, Owing
<1>4. ASSUME off[t] \notin dropped, NEW d \in OwedBy(off[t]) PROVE Settled(d[1], d[2])
  <2>1. d[2] \in Outputs /\ d[2][1] = off[t] /\ TagOf(d[2]) # "drop" /\ d[1] \in RouteOf(d[2])
    BY DEF OwedBy
  <2>2. d[2] = <<off[t], d[2][2]>> /\ d[2][2] \in 1..Fanout[off[t]]
    <3>1. d[2] \in Data \X (1..MaxFanout) /\ d[2][2] <= Fanout[d[2][1]]
      BY <2>1 DEF Outputs
    <3>2. Fanout[off[t]] \in 0..MaxFanout
      BY <1>3, MapAssumption DEF Covered
    <3>3. QED
      BY <2>1, <3>1, <3>2 DEF MaxFanout
  <2>3. Paid(d[2])
    BY <1>2, <1>3, <1>4, <2>2 DEF Covered
  <2>4. QED
    BY <2>1, <2>3 DEF Paid
<1>5. QED
  BY <1>3, <1>4 DEF Covered

\* What a step does to the broker's acks.
LEMMA AckedStep ==
    ASSUME IInv, [Next]_vars
    PROVE  \/ \A o \in Data : (broker'[o] = "acked") <=> (broker[o] = "acked")
           \/ \E a \in Data :
                /\ a \in dropped \/ \A d \in OwedBy(a) : Settled(d[1], d[2])
                /\ \A o \in Data : (broker'[o] = "acked") <=> (broker[o] = "acked" \/ o = a)
                /\ UNCHANGED <<stored, discarded, dropped>>
<1> USE DEF writeVars, mapVars, readVars
<1>0. broker \in [Data -> {"ready", "delivered", "acked"}]
  BY DEF IInv, Types
<1>1. CASE ReadLoop
  BY <1>0, <1>1 DEF ReadLoop, R!CheckCancel, R!Acquire, R!Fetch, R!StoreHandles, R!StoreFails, R!EndBatch,
           R!Cleanup, R!DropDuplicate, R!InsertFails, R!AckWaitExpires, R!Offsets
<1>2. ASSUME NEW t \in Tasks, ReadWip(t)
      PROVE  \/ \A o \in Data : (broker'[o] = "acked") <=> (broker[o] = "acked")
             \/ \E a \in Data :
                  /\ a \in dropped \/ \A d \in OwedBy(a) : Settled(d[1], d[2])
                  /\ \A o \in Data : (broker'[o] = "acked") <=> (broker[o] = "acked" \/ o = a)
                  /\ UNCHANGED <<stored, discarded, dropped>>
  <2>1. \/ \A o \in Data : (broker'[o] = "acked") <=> (broker[o] = "acked")
        \/ st[t] = "ack" /\ broker' = [broker EXCEPT ![off[t]] = "acked"]
    BY <1>0, <1>2 DEF ReadWip, R!WipNext, R!AckOk, R!AckError, R!NakOk, R!NakError, R!OffsetNotFound,
                R!RemoveHandle, R!Untrack, R!Release
  <2>2. UNCHANGED <<stored, discarded, dropped>>
    BY <1>2 DEF ReadWip
  <2>3. QED
    BY <1>0, <2>1, <2>2, AckPaid
<1>3. ASSUME UNCHANGED broker PROVE \A o \in Data : (broker'[o] = "acked") <=> (broker[o] = "acked")
  BY <1>3
<1>4. ASSUME NEW j \in Jobs, WriteEnd(j) PROVE UNCHANGED broker
  BY <1>4 DEF WriteEnd, R!MarkSuccess, R!MarkFailed
<1>5. UNCHANGED broker \/ ReadLoop \/ \E t \in Tasks : ReadWip(t)
  BY <1>4, NextCases
  DEF ReadDeliver, R!Deliver, MapTake, MapStart, MapAnswer, MapSend, MapDrain, MapFail, MapCancelled,
      MapDrop, MapDone, R!WithMessage, R!MarkSuccess, R!MarkFailed, WriteStart, JobPhase, JobStream, Arrive,
      Refresh, MapErrorSeen, Cancel, R!Cancel, Crash, Restart, ResetPod, R!Reset, vars
<1>6. QED
  BY <1>1, <1>2, <1>3, <1>5

\* What a step does to the debts.
LEMMA SettledStep ==
    ASSUME IInv, [Next]_vars
    PROVE  \/ \A s \in Streams, m \in Outputs : Settled(s, m)' <=> Settled(s, m)
           \/ \E r \in Streams, n \in Outputs :
                /\ \A s \in Streams, m \in Outputs :
                     Settled(s, m)' <=> (Settled(s, m) \/ (s = r /\ m = n))
                /\ UNCHANGED <<broker, dropped>>
<1> USE DEF writeVars, mapVars, readVars
<1>1. ASSUME UNCHANGED <<stored, discarded>>
      PROVE  \A s \in Streams, m \in Outputs : Settled(s, m)' <=> Settled(s, m)
  BY <1>1 DEF Settled
<1>2. ASSUME ~UNCHANGED stored
      PROVE  \E r \in Streams, n \in Outputs :
                /\ \A s \in Streams, m \in Outputs :
                     Settled(s, m)' <=> (Settled(s, m) \/ (s = r /\ m = n))
                /\ UNCHANGED <<broker, dropped>>
  <2>1. PICK r \in Streams, n \in Outputs :
          /\ stored'[r][n] > 0
          /\ \A s \in Streams, m \in Outputs : ~(s = r /\ m = n) => stored'[s][m] = stored[s][m]
          /\ UNCHANGED <<broker, dropped, discarded>>
    BY <1>2, StoredStep DEF IInv
  <2>2. ASSUME NEW s \in Streams, NEW m \in Outputs
        PROVE  Settled(s, m)' <=> (Settled(s, m) \/ (s = r /\ m = n))
    <3>1. CASE s = r /\ m = n
      BY <2>1, <3>1 DEF Settled
    <3>2. CASE ~(s = r /\ m = n)
      BY <2>1, <3>2 DEF Settled
    <3>3. QED
      BY <3>1, <3>2
  <2>3. UNCHANGED <<broker, dropped>>
    BY <2>1
  <2>4. QED
    BY <2>2, <2>3
<1>3. ASSUME NEW j \in Jobs, NEW r \in Streams, W!DiscardFull(j, r), UNCHANGED <<readVars, mapVars>>
      PROVE  \E n \in Outputs :
                /\ \A s \in Streams, m \in Outputs :
                     Settled(s, m)' <=> (Settled(s, m) \/ (s = r /\ m = n))
                /\ UNCHANGED <<broker, dropped>>
  <2>1. msg[j] \in Outputs
    BY <1>3 DEF W!DiscardFull, W!Writing, IInv, HoldInv
  <2>2. UNCHANGED stored /\ discarded' = discarded \cup {<<r, msg[j]>>}
    BY <1>3 DEF W!DiscardFull, W!brokerVars
  <2>3. QED
    BY <1>3, <2>1, <2>2 DEF Settled
<1>4. \/ ~UNCHANGED stored \/ UNCHANGED <<stored, discarded>>
      \/ \E j \in Jobs, r \in Streams : W!DiscardFull(j, r) /\ UNCHANGED <<readVars, mapVars>>
  <2>1. ASSUME NEW j \in Jobs, NEW s \in Streams, JobStream(j, s), ~UNCHANGED discarded
        PROVE  W!DiscardFull(j, s) /\ UNCHANGED <<readVars, mapVars>>
    BY <2>1 DEF JobStream, W!Publish, W!GiveUp, W!PafOk, W!PafError, W!FallbackOk, W!FallbackError
  <2>2. UNCHANGED discarded \/ \E j \in Jobs, s \in Streams : JobStream(j, s)
    BY NextCases
    DEF ReadDeliver, ReadLoop, ReadWip, MapTake, MapStart, MapAnswer, MapSend, MapDrain, MapFail,
        MapCancelled, MapDrop, MapDone, WriteStart, W!StartWrite, WriteEnd, W!EndWrite, JobPhase, W!Routed,
        W!Resolved, Arrive, W!Persist, W!Lose, Refresh, W!RefreshFull, MapErrorSeen, Cancel, Crash, Restart,
        ResetPod, W!Reset, vars
  <2>3. QED
    BY <2>1, <2>2
<1>5. QED
  BY <1>1, <1>2, <1>3, <1>4

\* What a step does to the inputs dropped on purpose.
LEMMA DroppedStep ==
    ASSUME IInv, [Next]_vars
    PROVE  \/ UNCHANGED dropped
           \/ \E o \in Data : dropped' = dropped \cup {o} /\ UNCHANGED <<broker, stored, discarded>>
<1> USE DEF writeVars, mapVars, readVars
<1>1. ASSUME NEW t \in Tasks, MapDrop(t)
      PROVE  \E o \in Data : dropped' = dropped \cup {o} /\ UNCHANGED <<broker, stored, discarded>>
  <2>1. off[t] \in Data
    BY <1>1 DEF MapDrop, R!MarkSuccess, IInv, HandleInv
  <2>2. QED
    BY <1>1, <2>1 DEF MapDrop, R!MarkSuccess
<1>2. UNCHANGED dropped \/ \E t \in Tasks : MapDrop(t)
  BY NextCases
  DEF ReadDeliver, ReadLoop, ReadWip, MapTake, MapStart, MapAnswer, MapSend, MapDrain, MapFail,
      MapCancelled, MapDone, WriteStart, WriteEnd, JobPhase, JobStream, Arrive, Refresh, MapErrorSeen,
      Cancel, Crash, Restart, ResetPod, vars
<1>3. QED
  BY <1>1, <1>2

\* Nothing is settled, dropped or acked at the start.
LEMMA RefineInit == Init => ALO!Init
<1> SUFFICES ASSUME Init PROVE ALO!Init
  OBVIOUS
<1>1. \A s \in Streams, m \in Outputs : ~Settled(s, m)
  BY StreamsSame DEF Init, W!Init, Settled
<1>2. \A o \in Data : broker[o] # "acked"
  BY DEF Init, R!Init, R!Offsets
<1>3. {d \in Streams \X Outputs : Settled(d[1], d[2])} = {}
  BY <1>1
<1>4. QED
  BY <1>2, <1>3 DEF Init, ALO!Init

\* Every step of the vertex settles a debt, drops an input on purpose, acks an input that
\* owes nothing, or is invisible.
LEMMA RefineStep ==
    ASSUME IInv, [Next]_vars
    PROVE  [ALO!Settle \/ ALO!Waive \/ ALO!Ack]_(ALO!vars)
<1> DEFINE Sett == {d \in Streams \X Outputs : Settled(d[1], d[2])}
           Acked == {o \in Data : broker[o] = "acked"}
<1>1. ASSUME \A s \in Streams, m \in Outputs : Settled(s, m)' <=> Settled(s, m) PROVE Sett' = Sett
  BY <1>1
<1>2. ASSUME \A o \in Data : (broker'[o] = "acked") <=> (broker[o] = "acked") PROVE Acked' = Acked
  BY <1>2
<1>3. \/ Sett' = Sett
      \/ \E d \in Streams \X Outputs : Sett' = Sett \cup {d} /\ UNCHANGED <<broker, dropped>>
  <2>1. ASSUME NEW r \in Streams, NEW n \in Outputs,
               \A s \in Streams, m \in Outputs :
                     Settled(s, m)' <=> (Settled(s, m) \/ (s = r /\ m = n))
        PROVE  Sett' = Sett \cup {<<r, n>>}
    BY <2>1
  <2>2. QED
    BY <1>1, <2>1, SettledStep
<1>4. \/ Acked' = Acked
      \/ \E a \in Data : /\ a \in dropped \/ OwedBy(a) \subseteq Sett
                         /\ Acked' = Acked \cup {a}
                         /\ UNCHANGED <<stored, discarded, dropped>>
  <2>1. ASSUME NEW a \in Data, \A o \in Data : (broker'[o] = "acked") <=> (broker[o] = "acked" \/ o = a)
        PROVE  Acked' = Acked \cup {a}
    BY <2>1
  <2>2. ASSUME NEW a \in Data, \A d \in OwedBy(a) : Settled(d[1], d[2]) PROVE OwedBy(a) \subseteq Sett
    BY <2>2 DEF OwedBy
  <2>3. QED
    BY <1>2, <2>1, <2>2, AckedStep
<1>5. ASSUME UNCHANGED <<stored, discarded>> PROVE Sett' = Sett
  BY <1>1, <1>5 DEF Settled
<1>6. ASSUME UNCHANGED broker PROVE Acked' = Acked
  BY <1>6
<1>7. ASSUME NEW d \in Streams \X Outputs, Sett' = Sett \cup {d}, UNCHANGED <<broker, dropped>>
      PROVE  ALO!Settle
  BY <1>6, <1>7 DEF ALO!Settle
<1>8. ASSUME NEW a \in Data, a \in dropped \/ OwedBy(a) \subseteq Sett, Acked' = Acked \cup {a},
             UNCHANGED <<stored, discarded, dropped>>
      PROVE  ALO!Ack
  BY <1>5, <1>8 DEF ALO!Ack
<1>9. ASSUME NEW o \in Data, dropped' = dropped \cup {o}, UNCHANGED <<broker, stored, discarded>>
      PROVE  ALO!Waive
  BY <1>5, <1>6, <1>9 DEF ALO!Waive
<1>10. ASSUME Sett' = Sett, Acked' = Acked, UNCHANGED dropped PROVE UNCHANGED ALO!vars
  BY <1>10 DEF ALO!vars
<1>11. QED
  BY <1>3, <1>4, <1>7, <1>8, <1>9, <1>10, DroppedStep

\* The vertex implements at-least-once delivery: whatever fails, is redelivered, cancelled or
\* crashes, the broker has the ack of a message only once every result of it is stored on
\* every stream it is routed to, was discarded by a full stream configured so, or the message
\* was dropped on purpose.
THEOREM AtLeastOnceDelivery == Spec => ImplementsAtLeastOnce
<1>1. Init => ALO!Init
  BY RefineInit
<1>2. IInv /\ [Next]_vars => [ALO!Settle \/ ALO!Waive \/ ALO!Ack]_(ALO!vars)
  BY RefineStep
<1>3. QED
  BY <1>1, <1>2, InvariantHolds, PTL DEF Spec, ALO!Spec, ImplementsAtLeastOnce

=============================================================================
