-------------------------- MODULE ISBReaderProofs --------------------------
(***************************************************************************)
(* Proofs about ISBReader for every set of offsets and tasks, batch size,  *)
(* max_ack_pending and number of crashes.                                  *)
(*                                                                         *)
(* The inductive invariant has four parts.  PermitInv accounts for the     *)
(* permits, and TypeOK rests on it (the loop never splits off a permit it  *)
(* does not hold).  HandleInv relates ref_count to the handles alive and   *)
(* to the failures so far, which is what makes the verdict of the last     *)
(* drop right.  TrackInv ties the tracker to the WIP tasks.                *)
(***************************************************************************)
EXTENDS ISBReader, FiniteSetTheorems, TLAPS

PermitInv ==
    /\ IsFiniteSet(batch)
    /\ loop \notin {"store", "process"} => batch = {}
    /\ BatchHasPermits
    /\ loop = "fetch" => held = ReadBatch
    /\ loop \in {"top", "acquire", "cleanup", "done", "failed"} => held = 0
    /\ loop = "done" => avail = MaxAckPending
    /\ PermitsConserved

HandleInv ==
    /\ \A t \in Tasks : st[t] = "live" =>
         /\ refs[t] >= 1
         /\ rc[t] >= refs[t]
         /\ bad[t] <=> rc[t] > refs[t]
    /\ \A t \in Tasks : st[t] = "ack" => off[t] \in processed
    /\ AckedOnlyIfProcessed

TrackInv ==
    /\ TrackedMatchesInFlight
    /\ NoConcurrentDuplicate
    /\ \A t \in Tracking : off[t] \in Data

\* The effective batch is positive and never larger than max_ack_pending.
LEMMA ReadBatchType == ReadBatch \in Nat \ {0} /\ ReadBatch <= MaxAckPending
BY SizesAssumption DEF ReadBatch

\* The WIP tasks are finitely many.
LEMMA LiveFinite ==
    /\ IsFiniteSet(Live)
    /\ Cardinality(Live) \in Nat
BY TasksAssumption, FS_Subset, FS_CardinalityType DEF Live

\* An element of the batch means at least one permit, and taking it leaves one less.
LEMMA BatchElement ==
    ASSUME NEW o \in batch, IsFiniteSet(batch), held \in Nat, Cardinality(batch) <= held
    PROVE  /\ held >= 1
           /\ IsFiniteSet(batch \ {o})
           /\ Cardinality(batch \ {o}) <= held - 1
           /\ Cardinality(batch) \in Nat /\ Cardinality(batch \ {o}) \in Nat
<1>1. Cardinality(batch) \in Nat /\ Cardinality(batch) # 0
  BY FS_CardinalityType, FS_EmptySet
<1>2. IsFiniteSet(batch \ {o}) /\ Cardinality(batch \ {o}) = Cardinality(batch) - 1
  BY FS_RemoveElement
<1>3. QED
  BY <1>1, <1>2

\* The initial state is well typed.
LEMMA TypeInit == Init => TypeOK
<1> SUFFICES ASSUME Init PROVE TypeOK
  OBVIOUS
<1>1. bad \in [Tasks -> BOOLEAN]
  BY Zenon DEF Init
<1>2. cancel \in BOOLEAN /\ open \in BOOLEAN
  BY DEF Init
<1>3. QED
  BY <1>1, <1>2, SizesAssumption DEF Init, TypeOK, LoopStates, TaskStates

\* Every step keeps the types; the counters need the other parts of the invariant.
LEMMA TypeStep ==
    ASSUME TypeOK, PermitInv, HandleInv, TrackInv, [Next]_vars
    PROVE  TypeOK'
<1> USE OffsetsAssumption, SizesAssumption, ReadBatchType
<1> USE DEF TypeOK, LoopStates, TaskStates
<1>1. CASE UNCHANGED vars
  BY <1>1 DEF vars, readerVars, taskVars, envVars
<1>2. CASE LoopNext
  <2>1. CASE CheckCancel BY <2>1 DEF CheckCancel, taskVars, envVars
  <2>2. CASE Acquire BY <2>2 DEF Acquire, taskVars, envVars
  <2>3. CASE Fetch BY <2>3 DEF Fetch, taskVars, envVars
  <2>4. CASE StoreHandles BY <2>4 DEF StoreHandles, taskVars, envVars
  <2>5. CASE StoreFails BY <2>5 DEF StoreFails, taskVars, envVars
  <2>6. CASE EndBatch BY <2>6 DEF EndBatch, taskVars, envVars
  <2>7. CASE Cleanup BY <2>7 DEF Cleanup, taskVars, envVars
  <2>8. ASSUME NEW o \in Offsets, AckCtrl(o) PROVE TypeOK'
    BY <2>8 DEF AckCtrl, taskVars, envVars
  <2>9. ASSUME NEW o \in Offsets, AckCtrlFails(o) PROVE TypeOK'
    BY <2>9 DEF AckCtrlFails, taskVars, envVars
  <2>10. ASSUME NEW o \in Offsets, DropDuplicate(o) PROVE TypeOK'
    BY <2>10 DEF DropDuplicate, taskVars, envVars
  <2>11. ASSUME NEW o \in Offsets, NEW t \in Tasks, Deliver(o, t) PROVE TypeOK'
    <3>1. held >= 1
      BY <2>11, BatchElement DEF Deliver, PermitInv, BatchHasPermits
    <3>2. QED
      BY <2>11, <3>1 DEF Deliver, taskVars, envVars
  <2>12. ASSUME NEW o \in Offsets, NEW t \in Tasks, DeliverClosed(o, t) PROVE TypeOK'
    <3>1. held >= 1
      BY <2>12, BatchElement DEF DeliverClosed, PermitInv, BatchHasPermits
    <3>2. QED
      BY <2>12, <3>1 DEF DeliverClosed, taskVars, envVars
  <2>13. ASSUME NEW o \in Offsets, InsertFails(o) PROVE TypeOK'
    BY <2>13 DEF InsertFails, taskVars
  <2>14. QED
    BY <1>2, <2>1, <2>2, <2>3, <2>4, <2>5, <2>6, <2>7, <2>8, <2>9, <2>10, <2>11, <2>12, <2>13
    DEF LoopNext
<1>3. ASSUME NEW t \in Tasks, HandleNext(t) PROVE TypeOK'
  <2>1. CASE WithMessage(t) BY <2>1 DEF WithMessage, readerVars, envVars
  <2>2. CASE MarkSuccess(t)
    <3>1. off[t] \in Offsets
      BY <2>2 DEF MarkSuccess, TrackInv, Tracking, Offsets
    <3>2. VerdictOf(rc[t] - 1) \in TaskStates
      BY DEF VerdictOf
    <3>3. refs[t] - 1 \in Nat /\ rc[t] - 1 \in Nat
      BY <2>2 DEF MarkSuccess, HandleInv
    <3>4. QED
      BY <2>2, <3>1, <3>2, <3>3 DEF MarkSuccess, readerVars, envVars
  <2>3. CASE MarkFailed(t)
    <3>1. bad' \in [Tasks -> BOOLEAN]
      BY <2>3, Zenon DEF MarkFailed
    <3>2. refs[t] - 1 \in Nat
      BY <2>3 DEF MarkFailed, HandleInv
    <3>3. QED
      BY <2>3, <3>1, <3>2 DEF MarkFailed, VerdictOf, readerVars, envVars
  <2>4. QED BY <1>3, <2>1, <2>2, <2>3 DEF HandleNext
<1>4. ASSUME NEW t \in Tasks, WipNext(t) PROVE TypeOK'
  <2>1. CASE AckOk(t) BY <2>1 DEF AckOk, readerVars, envVars
  <2>2. CASE AckError(t) BY <2>2 DEF AckError, readerVars, envVars
  <2>3. CASE NakOk(t) BY <2>3 DEF NakOk, readerVars, envVars
  <2>4. CASE NakError(t) BY <2>4 DEF NakError, readerVars, envVars
  <2>5. CASE OffsetNotFound(t) BY <2>5 DEF OffsetNotFound, readerVars, envVars
  <2>6. CASE RemoveHandle(t) BY <2>6 DEF RemoveHandle, readerVars, envVars
  <2>7. CASE Untrack(t) BY <2>7 DEF Untrack, readerVars, envVars
  <2>8. CASE Release(t) BY <2>8 DEF Release, envVars
  <2>9. QED
    BY <1>4, <2>1, <2>2, <2>3, <2>4, <2>5, <2>6, <2>7, <2>8 DEF WipNext
<1>5. CASE BrokerNext
  BY <1>5 DEF BrokerNext, AckWaitExpires, readerVars, taskVars, envVars
<1>6. CASE Cancel \/ DownstreamGone \/ JoinCancels
  <2>1. CASE Cancel BY <2>1 DEF Cancel, readerVars, taskVars
  <2>2. CASE DownstreamGone
    <3>1. cancel' \in BOOLEAN /\ open' \in BOOLEAN
      BY <2>2, Zenon DEF DownstreamGone
    <3>2. QED
      BY <2>2, <3>1 DEF DownstreamGone, readerVars, taskVars
  <2>3. CASE JoinCancels
    <3>1. cancel' \in BOOLEAN /\ open' \in BOOLEAN
      BY <2>3, Zenon DEF JoinCancels
    <3>2. UNCHANGED <<broker, jsmsg, tracked, readerVars, taskVars, stops, processed>>
      BY <2>3 DEF JoinCancels
    <3>3. QED
      BY <3>1, <3>2 DEF readerVars, taskVars
  <2>4. QED BY <1>6, <2>1, <2>2, <2>3
<1>7. ASSUME Reset, stops' \in Nat PROVE TypeOK'
  <2>1. bad' \in [Tasks -> BOOLEAN]
    BY <1>7, Zenon DEF Reset
  <2>2. cancel' \in BOOLEAN /\ open' \in BOOLEAN
    BY <1>7 DEF Reset
  <2>3. QED
    BY <1>7, <2>1, <2>2 DEF Reset
<1>8. CASE Restart \/ Crash
  BY <1>7, <1>8 DEF Restart, Crash
<1>9. QED
  BY <1>1, <1>2, <1>3, <1>4, <1>5, <1>6, <1>8 DEF Next, StopNext

----------------------------------------------------------------------------
(* Permits.                                                                *)

\* All permits start in the semaphore.
LEMMA PermitInit == Init => PermitInv
<1> SUFFICES ASSUME Init PROVE PermitInv
  OBVIOUS
<1>1. Live = {}
  BY DEF Init, Live
<1>2. IsFiniteSet({}) /\ Cardinality({}) = 0
  BY FS_EmptySet
<1>3. QED
  BY <1>1, <1>2, SizesAssumption
  DEF Init, PermitInv, BatchHasPermits, PermitsConserved

\* Every step accounts for the permits it moves.
LEMMA PermitStep ==
    ASSUME TypeOK, PermitInv, [Next]_vars
    PROVE  PermitInv'
<1> USE SizesAssumption, ReadBatchType
<1> USE DEF PermitInv, BatchHasPermits, PermitsConserved
<1>c. Cardinality(Live) \in Nat /\ avail \in Nat /\ held \in Nat
  BY LiveFinite DEF TypeOK
<1>e. IsFiniteSet({}) /\ Cardinality({}) = 0
  BY FS_EmptySet
\* A step that changes neither the tasks nor the loop.
<1>u. ASSUME UNCHANGED <<readerVars, st>> PROVE PermitInv'
  <2>1. Live' = Live BY <1>u DEF Live
  <2>2. QED BY <1>u, <2>1 DEF readerVars
\* A step that only moves a task from one live state to another.
<1>m. ASSUME UNCHANGED readerVars, NEW t \in Tasks, st[t] # "free",
             NEW s, s # "free", st' = [st EXCEPT ![t] = s]
      PROVE  PermitInv'
  <2>1. Live' = Live BY <1>m DEF Live, TypeOK
  <2>2. QED BY <1>m, <2>1 DEF readerVars
<1>1. CASE UNCHANGED vars
  BY <1>1, <1>u DEF vars, taskVars
<1>2. CASE LoopNext
  <2>s. ASSUME UNCHANGED taskVars PROVE Cardinality(Live') = Cardinality(Live)
    BY <2>s DEF taskVars, Live
  <2>1. CASE CheckCancel BY <2>1, <2>s, <1>c DEF CheckCancel
  <2>2. CASE Acquire BY <2>2, <2>s, <1>c, <1>e DEF Acquire
  <2>3. CASE Fetch
    <3>1. PICK D \in SUBSET Offsets :
            IsFiniteSet(D) /\ Cardinality(D) <= ReadBatch /\ batch' \subseteq D
      BY <2>3 DEF Fetch
    <3>2. /\ IsFiniteSet(batch') /\ Cardinality(batch') <= Cardinality(D)
          /\ Cardinality(batch') \in Nat /\ Cardinality(D) \in Nat
      BY <3>1, FS_Subset, FS_CardinalityType
    <3>3. Cardinality(batch') <= held
      BY <2>3, <3>1, <3>2, <1>c DEF Fetch
    <3>4. QED BY <2>3, <2>s, <3>2, <3>3, <1>c DEF Fetch
  <2>4. CASE StoreHandles BY <2>4, <2>s, <1>c DEF StoreHandles
  <2>5. CASE StoreFails BY <2>5, <2>s, <1>c, <1>e DEF StoreFails
  <2>6. CASE EndBatch BY <2>6, <2>s, <1>c, <1>e DEF EndBatch
  <2>7. CASE Cleanup BY <2>7, <2>s, <1>c DEF Cleanup
  <2>8. ASSUME NEW o \in Offsets, AckCtrl(o) PROVE PermitInv'
    <3>1. /\ IsFiniteSet(batch') /\ Cardinality(batch') <= held - 1
          /\ Cardinality(batch') \in Nat
      BY <2>8, <1>c, BatchElement DEF AckCtrl
    <3>2. QED BY <2>8, <2>s, <3>1, <1>c DEF AckCtrl
  <2>9. ASSUME NEW o \in Offsets, AckCtrlFails(o) PROVE PermitInv'
    BY <2>9, <2>s, <1>c, <1>e DEF AckCtrlFails
  <2>10. ASSUME NEW o \in Offsets, DropDuplicate(o) PROVE PermitInv'
    BY <2>10, <2>s, <1>c, BatchElement DEF DropDuplicate
  <2>d. ASSUME NEW t \in Tasks, NEW s, s # "free", t \notin Live,
               st' = [st EXCEPT ![t] = s]
        PROVE  Cardinality(Live') = Cardinality(Live) + 1
    <3>1. Live' = Live \cup {t} BY <2>d DEF Live, TypeOK
    <3>2. QED BY <2>d, <3>1, LiveFinite, FS_AddElement
  <2>11. ASSUME NEW o \in Offsets, NEW t \in Tasks, Deliver(o, t) PROVE PermitInv'
    <3>1. Cardinality(Live') = Cardinality(Live) + 1
      BY <2>11, <2>d DEF Deliver
    <3>2. QED BY <2>11, <3>1, <1>c, BatchElement DEF Deliver
  <2>12. ASSUME NEW o \in Offsets, NEW t \in Tasks, DeliverClosed(o, t) PROVE PermitInv'
    <3>1. Cardinality(Live') = Cardinality(Live) + 1
      BY <2>12, <2>d DEF DeliverClosed
    <3>2. held >= 1
      BY <2>12, <1>c, BatchElement DEF DeliverClosed
    <3>3. held' = held - 1 /\ avail' = avail /\ loop' = "process" /\ batch' = {}
      BY <2>12 DEF DeliverClosed
    <3>4. QED BY <3>1, <3>2, <3>3, <1>c, <1>e
  <2>13. ASSUME NEW o \in Offsets, InsertFails(o) PROVE PermitInv'
    BY <2>13, <2>s, <1>c, <1>e DEF InsertFails
  <2>14. QED
    BY <1>2, <2>1, <2>2, <2>3, <2>4, <2>5, <2>6, <2>7, <2>8, <2>9, <2>10, <2>11, <2>12, <2>13
    DEF LoopNext
<1>3. ASSUME NEW t \in Tasks, HandleNext(t) PROVE PermitInv'
  <2>1. CASE WithMessage(t) BY <2>1, <1>u DEF WithMessage
  <2>2. CASE MarkSuccess(t)
    BY <2>2, <1>m DEF MarkSuccess, VerdictOf
  <2>3. CASE MarkFailed(t) BY <2>3, <1>m DEF MarkFailed, VerdictOf
  <2>4. QED BY <1>3, <2>1, <2>2, <2>3 DEF HandleNext
<1>4. ASSUME NEW t \in Tasks, WipNext(t) PROVE PermitInv'
  <2>1. CASE AckOk(t) BY <2>1, <1>m DEF AckOk
  <2>2. CASE AckError(t) BY <2>2, <1>m DEF AckError
  <2>3. CASE NakOk(t) BY <2>3, <1>m DEF NakOk
  <2>4. CASE NakError(t) BY <2>4, <1>m DEF NakError
  <2>5. CASE OffsetNotFound(t) BY <2>5, <1>m DEF OffsetNotFound
  <2>6. CASE RemoveHandle(t) BY <2>6, <1>m DEF RemoveHandle
  <2>7. CASE Untrack(t) BY <2>7, <1>m DEF Untrack
  <2>8. CASE Release(t)
    <3>1. t \in Live /\ Live' = Live \ {t}
      BY <2>8 DEF Release, Live, TypeOK
    <3>2. Cardinality(Live') = Cardinality(Live) - 1 /\ Cardinality(Live) >= 1
      BY <3>1, <1>c, LiveFinite, FS_RemoveElement, FS_EmptySet
    <3>3. QED BY <2>8, <3>2, <1>c DEF Release
  <2>9. QED
    BY <1>4, <2>1, <2>2, <2>3, <2>4, <2>5, <2>6, <2>7, <2>8 DEF WipNext
<1>5. CASE BrokerNext
  BY <1>5, <1>u DEF BrokerNext, AckWaitExpires, taskVars
<1>6. CASE Cancel \/ DownstreamGone \/ JoinCancels
  BY <1>6, <1>u DEF Cancel, DownstreamGone, JoinCancels, taskVars
<1>7. CASE Restart \/ Crash
  <2>1. Live' = {} BY <1>7 DEF Restart, Crash, Reset, Live
  <2>2. QED BY <1>7, <2>1, <1>e DEF Restart, Crash, Reset
<1>8. QED
  BY <1>1, <1>2, <1>3, <1>4, <1>5, <1>6, <1>7 DEF Next, StopNext

----------------------------------------------------------------------------
(* The tracker.                                                            *)

\* Nothing is tracked initially.
LEMMA TrackInit == Init => TrackInv
BY DEF Init, TrackInv, TrackedMatchesInFlight, NoConcurrentDuplicate, Tracking

\* Every step keeps the tracker and the WIP tasks in agreement.
LEMMA TrackStep ==
    ASSUME TypeOK, TrackInv, [Next]_vars
    PROVE  TrackInv'
<1> USE DEF TrackInv, TrackedMatchesInFlight, NoConcurrentDuplicate
\* A step that leaves the tracker, the offsets and every task's tracking alone.
<1>u. ASSUME tracked' = tracked, Tracking' = Tracking, off' = off
      PROVE  TrackInv'
  BY <1>u
\* A step that moves a task between two states before its Untrack.
<1>m. ASSUME tracked' = tracked, off' = off, NEW t \in Tracking,
             NEW s \in {"live", "ack", "nak", "remove", "untrack"},
             st' = [st EXCEPT ![t] = s]
      PROVE  TrackInv'
  <2>1. Tracking' = Tracking BY <1>m DEF Tracking, TypeOK
  <2>2. QED BY <1>m, <1>u, <2>1
\* A delivery of o to t.
<1>d. ASSUME NEW o \in Data, NEW t \in Tasks, o \notin tracked, t \notin Live,
             tracked' = tracked \cup {o}, off' = [off EXCEPT ![t] = o],
             NEW s \in {"live", "nak"}, st' = [st EXCEPT ![t] = s]
      PROVE  TrackInv'
  <2>1. Tracking' = Tracking \cup {t} /\ t \notin Tracking
    BY <1>d DEF Tracking, Live, TypeOK
  <2>2. off'[t] = o /\ \A u \in Tracking : off'[u] = off[u]
    BY <1>d, <2>1 DEF TypeOK, Tracking
  <2>3. \A u \in Tracking : off[u] # o
    BY <1>d
  <2>4. TrackedMatchesInFlight'
    BY <1>d, <2>1, <2>2
  <2>5. QED BY <1>d, <2>1, <2>2, <2>3, <2>4
<1>1. CASE UNCHANGED vars
  BY <1>1, <1>u DEF vars, taskVars, Tracking
<1>2. CASE LoopNext
  <2>1. ASSUME UNCHANGED <<tracked, taskVars>> PROVE TrackInv'
    BY <2>1, <1>u DEF taskVars, Tracking
  <2>2. ASSUME NEW o \in Offsets, NEW t \in Tasks, Deliver(o, t) PROVE TrackInv'
    BY <2>2, <1>d DEF Deliver, IsDuplicate
  <2>3. ASSUME NEW o \in Offsets, NEW t \in Tasks, DeliverClosed(o, t) PROVE TrackInv'
    BY <2>3, <1>d DEF DeliverClosed, IsDuplicate
  <2>4. QED
    BY <1>2, <2>1, <2>2, <2>3
    DEF LoopNext, CheckCancel, Acquire, Fetch, StoreHandles, StoreFails, AckCtrl,
        AckCtrlFails, DropDuplicate, InsertFails, EndBatch, Cleanup
<1>3. ASSUME NEW t \in Tasks, HandleNext(t) PROVE TrackInv'
  <2>1. CASE WithMessage(t) BY <2>1, <1>u DEF WithMessage, Tracking
  <2>2. CASE MarkSuccess(t)
    BY <2>2, <1>m DEF MarkSuccess, VerdictOf, Tracking
  <2>3. CASE MarkFailed(t) BY <2>3, <1>m DEF MarkFailed, VerdictOf, Tracking
  <2>4. QED BY <1>3, <2>1, <2>2, <2>3 DEF HandleNext
<1>4. ASSUME NEW t \in Tasks, WipNext(t) PROVE TrackInv'
  <2>1. CASE AckOk(t) BY <2>1, <1>m DEF AckOk, Tracking
  <2>2. CASE AckError(t) BY <2>2, <1>m DEF AckError, Tracking
  <2>3. CASE NakOk(t) BY <2>3, <1>m DEF NakOk, Tracking
  <2>4. CASE NakError(t) BY <2>4, <1>m DEF NakError, Tracking
  <2>5. CASE OffsetNotFound(t) BY <2>5, <1>m DEF OffsetNotFound, Tracking
  <2>6. CASE RemoveHandle(t) BY <2>6, <1>m DEF RemoveHandle, Tracking
  <2>7. CASE Untrack(t)
    <3>1. t \in Tracking /\ Tracking' = Tracking \ {t} /\ off' = off
      BY <2>7 DEF Untrack, Tracking, TypeOK
    <3>2. \A u \in Tracking \ {t} : off[u] # off[t]
      BY <3>1
    <3>3. TrackedMatchesInFlight'
      BY <2>7, <3>1, <3>2 DEF Untrack
    <3>4. QED BY <3>1, <3>3
  <2>8. CASE Release(t)
    <3>1. Tracking' = Tracking /\ t \notin Tracking
      BY <2>8 DEF Release, Tracking, TypeOK
    <3>2. \A u \in Tracking : off'[u] = off[u]
      BY <2>8, <3>1 DEF Release, Tracking, TypeOK
    <3>3. QED BY <2>8, <3>1, <3>2 DEF Release
  <2>9. QED
    BY <1>4, <2>1, <2>2, <2>3, <2>4, <2>5, <2>6, <2>7, <2>8 DEF WipNext
<1>5. CASE BrokerNext
  BY <1>5, <1>u DEF BrokerNext, AckWaitExpires, taskVars, Tracking
<1>6. CASE Cancel \/ DownstreamGone \/ JoinCancels
  BY <1>6, <1>u DEF Cancel, DownstreamGone, JoinCancels, taskVars, Tracking
<1>7. CASE Restart \/ Crash
  BY <1>7 DEF Restart, Crash, Reset, Tracking
<1>8. QED
  BY <1>1, <1>2, <1>3, <1>4, <1>5, <1>6, <1>7 DEF Next, StopNext

----------------------------------------------------------------------------
(* The verdict.                                                            *)

\* No handle exists initially and nothing is acked.
LEMMA HandleInit == Init => HandleInv
BY DEF Init, HandleInv, AckedOnlyIfProcessed, Offsets

\* Every step keeps ref_count in agreement with the handles and their marks.
LEMMA HandleStep ==
    ASSUME TypeOK, HandleInv, TrackInv, [Next]_vars
    PROVE  HandleInv'
<1> USE DEF HandleInv, AckedOnlyIfProcessed
\* A step that changes no task, acks no data message and forgets no success.
<1>u. ASSUME UNCHANGED taskVars, processed \subseteq processed',
             \A o \in Data : broker'[o] = "acked" => broker[o] = "acked"
      PROVE  HandleInv'
  BY <1>u DEF taskVars
\* A step of the WIP task of t.
<1>m. ASSUME UNCHANGED <<refs, rc, bad, off, processed>>, NEW t \in Tasks,
             NEW s, s # "live", s = "ack" => st[t] = "ack",
             st' = [st EXCEPT ![t] = s],
             \A o \in Data : broker'[o] = "acked"
                             => broker[o] = "acked" \/ (st[t] = "ack" /\ o = off[t])
      PROVE  HandleInv'
  <2>1. \A u \in Tasks : st'[u] = IF u = t THEN s ELSE st[u]
    BY <1>m DEF TypeOK
  <2>2. AckedOnlyIfProcessed'
    BY <1>m
  <2>3. QED BY <1>m, <2>1, <2>2
<1>1. CASE UNCHANGED vars
  BY <1>1, <1>u DEF vars
<1>2. CASE LoopNext
  <2>1. CASE CheckCancel \/ Acquire \/ StoreHandles \/ StoreFails \/ EndBatch \/ Cleanup
    BY <2>1, <1>u DEF CheckCancel, Acquire, StoreHandles, StoreFails, EndBatch, Cleanup
  <2>2. CASE Fetch
    <3>1. \A o \in Data : broker'[o] = "acked" => broker[o] = "acked"
      BY <2>2 DEF Fetch, TypeOK, Offsets
    <3>2. QED BY <2>2, <3>1, <1>u DEF Fetch
  <2>3. ASSUME NEW o \in Offsets, AckCtrl(o) PROVE HandleInv'
    <3>1. \A d \in Data : broker'[d] = "acked" => broker[d] = "acked"
      BY <2>3, OffsetsAssumption DEF AckCtrl, TypeOK, Offsets
    <3>2. QED BY <2>3, <3>1, <1>u DEF AckCtrl
  <2>4. ASSUME NEW o \in Offsets, AckCtrlFails(o) PROVE HandleInv'
    <3>1. \A d \in Data : broker'[d] = "acked" => broker[d] = "acked"
      BY <2>4, OffsetsAssumption DEF AckCtrlFails, TypeOK, Offsets
    <3>2. QED BY <2>4, <3>1, <1>u DEF AckCtrlFails
  <2>5. ASSUME NEW o \in Offsets, DropDuplicate(o) PROVE HandleInv'
    BY <2>5, <1>u DEF DropDuplicate
  <2>i. ASSUME NEW o \in Offsets, InsertFails(o) PROVE HandleInv'
    BY <2>i, <1>u DEF InsertFails
  <2>6. ASSUME NEW o \in Offsets, NEW t \in Tasks, Deliver(o, t) PROVE HandleInv'
    <3>1. \A u \in Tasks \ {t} :
            /\ st'[u] = st[u] /\ refs'[u] = refs[u] /\ rc'[u] = rc[u]
            /\ bad'[u] = bad[u] /\ off'[u] = off[u]
      BY <2>6 DEF Deliver, TypeOK
    <3>2. st'[t] = "live" /\ refs'[t] = 1 /\ rc'[t] = 1 /\ bad'[t] = FALSE
      BY <2>6 DEF Deliver, TypeOK
    <3>3. UNCHANGED <<broker, processed>>
      BY <2>6 DEF Deliver
    <3>4. QED BY <3>1, <3>2, <3>3 DEF TypeOK
  <2>7. ASSUME NEW o \in Offsets, NEW t \in Tasks, DeliverClosed(o, t) PROVE HandleInv'
    <3>1. \A u \in Tasks \ {t} :
            /\ st'[u] = st[u] /\ refs'[u] = refs[u] /\ rc'[u] = rc[u]
            /\ bad'[u] = bad[u] /\ off'[u] = off[u]
      BY <2>7 DEF DeliverClosed, TypeOK
    <3>2. st'[t] = "nak"
      BY <2>7 DEF DeliverClosed, TypeOK
    <3>3. UNCHANGED <<broker, processed>>
      BY <2>7 DEF DeliverClosed
    <3>4. QED BY <3>1, <3>2, <3>3 DEF TypeOK
  <2>8. QED
    BY <1>2, <2>1, <2>2, <2>3, <2>4, <2>5, <2>i, <2>6, <2>7 DEF LoopNext
<1>3. ASSUME NEW t \in Tasks, HandleNext(t) PROVE HandleInv'
  <2>1. CASE WithMessage(t)
    <3>1. \A u \in Tasks : /\ refs'[u] = IF u = t THEN refs[u] + 1 ELSE refs[u]
                           /\ rc'[u] = IF u = t THEN rc[u] + 1 ELSE rc[u]
      BY <2>1 DEF WithMessage, TypeOK
    <3>2. UNCHANGED <<st, off, bad, broker, processed>>
      BY <2>1 DEF WithMessage
    <3>3. QED BY <3>1, <3>2 DEF TypeOK
  <2>2. CASE MarkSuccess(t)
    <3>1. \A u \in Tasks \ {t} : st'[u] = st[u] /\ refs'[u] = refs[u] /\ rc'[u] = rc[u]
      BY <2>2 DEF MarkSuccess, TypeOK
    <3>2. /\ st'[t] = IF refs[t] = 1 THEN VerdictOf(rc[t] - 1) ELSE "live"
          /\ refs'[t] = refs[t] - 1 /\ rc'[t] = rc[t] - 1
      BY <2>2 DEF MarkSuccess, TypeOK
    <3>3. /\ UNCHANGED <<off, bad, broker>> /\ processed \subseteq processed'
          /\ st[t] = "live" /\ (refs[t] = 1 /\ ~bad[t] => off[t] \in processed')
      BY <2>2 DEF MarkSuccess
    <3>4. st'[t] = "ack" => off'[t] \in processed'
      BY <3>2, <3>3 DEF VerdictOf, TypeOK
    <3>5. st'[t] = "live" =>
            /\ refs'[t] >= 1 /\ rc'[t] >= refs'[t] /\ (bad'[t] <=> rc'[t] > refs'[t])
      BY <3>2, <3>3 DEF VerdictOf, TypeOK
    <3>6. QED BY <3>1, <3>3, <3>4, <3>5
  <2>3. CASE MarkFailed(t)
    <3>1. \A u \in Tasks \ {t} : st'[u] = st[u] /\ refs'[u] = refs[u] /\ bad'[u] = bad[u]
      BY <2>3 DEF MarkFailed, TypeOK
    <3>2. /\ st'[t] = IF refs[t] = 1 THEN VerdictOf(rc[t]) ELSE "live"
          /\ refs'[t] = refs[t] - 1 /\ bad'[t] = TRUE
      BY <2>3 DEF MarkFailed, TypeOK
    <3>3. UNCHANGED <<off, rc, broker, processed>> /\ st[t] = "live"
      BY <2>3 DEF MarkFailed
    <3>4. st'[t] # "ack"
      BY <3>2, <3>3 DEF VerdictOf, TypeOK
    <3>5. st'[t] = "live" =>
            /\ refs'[t] >= 1 /\ rc'[t] >= refs'[t] /\ (bad'[t] <=> rc'[t] > refs'[t])
      BY <3>2, <3>3 DEF VerdictOf, TypeOK
    <3>6. QED BY <3>1, <3>3, <3>4, <3>5
  <2>4. QED BY <1>3, <2>1, <2>2, <2>3 DEF HandleNext
<1>4. ASSUME NEW t \in Tasks, WipNext(t) PROVE HandleInv'
  <2>1. CASE AckOk(t) BY <2>1, <1>m DEF AckOk, TypeOK, Offsets
  <2>2. CASE AckError(t) BY <2>2, <1>m DEF AckError, TypeOK, Offsets
  <2>3. CASE NakOk(t) BY <2>3, <1>m DEF NakOk, TypeOK, Offsets
  <2>4. CASE NakError(t) BY <2>4, <1>m DEF NakError
  <2>5. CASE OffsetNotFound(t) BY <2>5, <1>m DEF OffsetNotFound
  <2>6. CASE RemoveHandle(t) BY <2>6, <1>m DEF RemoveHandle
  <2>7. CASE Untrack(t) BY <2>7, <1>m DEF Untrack
  <2>8. CASE Release(t)
    <3>1. \A u \in Tasks \ {t} :
            /\ st'[u] = st[u] /\ rc'[u] = rc[u] /\ bad'[u] = bad[u] /\ off'[u] = off[u]
      BY <2>8 DEF Release, TypeOK
    <3>2. st'[t] = "free" /\ UNCHANGED <<broker, refs, processed>>
      BY <2>8 DEF Release, TypeOK
    <3>3. QED BY <3>1, <3>2 DEF TypeOK
  <2>9. QED
    BY <1>4, <2>1, <2>2, <2>3, <2>4, <2>5, <2>6, <2>7, <2>8 DEF WipNext
<1>5. CASE BrokerNext
  <2>1. PICK o \in Offsets : AckWaitExpires(o)
    BY <1>5 DEF BrokerNext
  <2>2. \A d \in Data : broker'[d] = "acked" => broker[d] = "acked"
    BY <2>1 DEF AckWaitExpires, TypeOK, Offsets
  <2>3. QED BY <2>1, <2>2, <1>u DEF AckWaitExpires
<1>6. CASE Cancel \/ DownstreamGone \/ JoinCancels
  BY <1>6, <1>u DEF Cancel, DownstreamGone, JoinCancels
<1>7. CASE Restart \/ Crash
  BY <1>7 DEF Restart, Crash, Reset
<1>8. QED
  BY <1>1, <1>2, <1>3, <1>4, <1>5, <1>6, <1>7 DEF Next, StopNext

----------------------------------------------------------------------------
(* The theorems.                                                           *)

IInv == TypeOK /\ PermitInv /\ HandleInv /\ TrackInv

\* The inductive invariant holds in every reachable state of the reader.
THEOREM Invariance == Spec => []IInv
<1>1. Init => IInv
  BY TypeInit, PermitInit, HandleInit, TrackInit DEF IInv
<1>2. IInv /\ [Next]_vars => IInv'
  BY TypeStep, PermitStep, HandleStep, TrackStep DEF IInv
<1>3. QED
  BY <1>1, <1>2, PTL DEF Spec

\* Type correctness: in particular no counter goes below zero, so the loop never
\* splits off a permit it does not hold and ref_count never underflows.
THEOREM TypeCorrect == Spec => []TypeOK
<1>1. IInv => TypeOK
  BY DEF IInv
<1>2. QED
  BY <1>1, Invariance, PTL

\* A data message is acked only after a delivery of it fully succeeded
\* (AckHandle's ref_count and the order in wip_loop).
THEOREM AckSafety == Spec => []AckedOnlyIfProcessed
<1>1. IInv => AckedOnlyIfProcessed
  BY DEF IInv, HandleInv
<1>2. QED
  BY <1>1, Invariance, PTL

\* The tracker is exactly the set of offsets in flight, each with one WIP task
\* (tracker.insert, the duplicate check and the delete of wip_loop).
THEOREM TrackerExact == Spec => [](TrackedMatchesInFlight /\ NoConcurrentDuplicate)
<1>1. IInv => TrackedMatchesInFlight /\ NoConcurrentDuplicate
  BY DEF IInv, TrackInv
<1>2. QED
  BY <1>1, Invariance, PTL

\* The semaphore bounds the messages in flight, loses no permit, and the loop has a
\* permit for every message it still has to process (acquire_many_owned, split).
THEOREM PermitSafety == Spec => [](PermitsConserved /\ BatchHasPermits)
<1>1. IInv => PermitsConserved /\ BatchHasPermits
  BY DEF IInv, PermitInv
<1>2. QED
  BY <1>1, Invariance, PTL

\* A reader that ended through cleanup_on_shutdown has nothing in flight.
THEOREM CleanShutdown == Spec => []DrainedOnShutdown
<1>1. ASSUME IInv, loop = "done" PROVE tracked = {} /\ Live = {}
  <2>1. Cardinality(Live) = 0
    BY <1>1, LiveFinite, SizesAssumption DEF IInv, TypeOK, PermitInv, PermitsConserved
  <2>2. Live = {}
    BY <2>1, LiveFinite, FS_EmptySet
  <2>3. Tracking \subseteq Live
    BY DEF Tracking, Live
  <2>4. QED
    BY <1>1, <2>2, <2>3 DEF IInv, TrackInv, TrackedMatchesInFlight
<1>2. IInv => DrainedOnShutdown
  BY <1>1 DEF DrainedOnShutdown
<1>3. QED
  BY <1>2, Invariance, PTL
=============================================================================
