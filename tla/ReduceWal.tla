----------------------------- MODULE ReduceWal -----------------------------
(***************************************************************************)
(* The persistence of a reduce vertex: PBQ (reduce/pbq.rs), the segment    *)
(* writers (reduce/wal/segment/append.rs), the compactor (compactor.rs)    *)
(* and the replay of segments (replay.rs).                                 *)
(*                                                                         *)
(* Messages are read from the ISB, written to the active data segment,     *)
(* acked, and passed to the reducer.  The reducer writes a GC event when a *)
(* window is finished: the messages of the event's key older than its end  *)
(* are no longer needed.  The compactor copies what is still needed from   *)
(* the frozen segments to compaction segments and deletes the former; at   *)
(* boot it also replays what it keeps.                                     *)
(*                                                                         *)
(* A segment is active (being written), frozen (renamed, complete) or left *)
(* (the active one of a pod that is gone).  Only frozen segments are ever  *)
(* read, so the content of a left one, and the flushes of an active one,   *)
(* cannot be observed.  Aligned windows are the case of one key.           *)
(***************************************************************************)
EXTENDS Integers, Sequences, SequencesExt, FiniteSets

CONSTANTS
    NMsgs,      \* messages of the partition, in the order they are read
    Keys,
    Key,        \* the key of each message
    Et,         \* the event time of each message
    MaxTime,    \* window ends are 1..MaxTime
    Faults,     \* what may go wrong, a subset of {"kill", "io"}
    MaxClock,   \* bound: data and GC segments opened
    MaxStops    \* bound: shutdowns and kills

Msgs == 1..NMsgs

ASSUME WalAssumption ==
    /\ NMsgs \in Nat /\ MaxTime \in Nat
    /\ Key \in [Msgs -> Keys]
    /\ Et \in [Msgs -> 0..MaxTime]
    /\ Faults \subseteq {"kill", "io"}
    /\ MaxClock \in Nat \ {0} /\ MaxStops \in Nat

VARIABLES
    data, gc, cmp,  \* the segments of each kind, oldest first
    clock,          \* create times given to data and GC segments so far
    pbq,            \* where PBQ is: boot, read, drain or down
    dq, gq, cq,     \* the channels to the data, GC and compaction writers
    cpt,            \* where the compactor is
    newest,         \* newest_data_micros of the cycle
    oldest,         \* oldest_time of the cycle, per key
    scanned,        \* create times of the GC segments read in the cycle
    files, pos,     \* end of the segments listed for the pass, entries read of the first one
    acked,          \* messages acked to the ISB
    cancel,         \* the CancellationToken
    todo, done,     \* external: messages the reducer holds, and has finished
    closed,         \* external: end of the last window closed, per key
    out,            \* history: the messages replayed since boot
    retired,        \* history: written, then covered by a GC event that was frozen
    stops,          \* shutdowns and kills so far
    faulty,         \* history: a fault happened
    lagged          \* history: a cycle started before the compaction writer was done

segVars == <<data, gc, cmp, clock>>
cptVars == <<cpt, newest, oldest, scanned, files, pos>>
redVars == <<todo, done, closed>>
histVars == <<out, retired, stops, faulty, lagged>>
vars == <<segVars, pbq, dq, gq, cq, cptVars, acked, cancel, redVars, histVars>>

Rotate == 0      \* SegmentWriteMessage::Rotate
States == {"active", "frozen", "left"}
Segment(E) == [ts : 0..MaxClock, es : Seq(E), st : States]
Event == [key : Keys, end : 1..MaxTime, covers : SUBSET Msgs]

\* A writer has one active segment at most, and it is the last it opened.
OneActive(segs) == \A i \in DOMAIN segs : segs[i].st = "active" => i = Len(segs)

TypeOK ==
    /\ data \in Seq(Segment(Msgs)) /\ gc \in Seq(Segment(Event)) /\ cmp \in Seq(Segment(Msgs))
    /\ clock \in 0..MaxClock
    /\ pbq \in {"boot", "read", "drain", "down"}
    /\ dq \in Seq(Msgs) /\ gq \in Seq([key : Keys, end : 1..MaxTime]) /\ cq \in Seq(Msgs \cup {Rotate})
    /\ cpt \in {"snap", "gc", "cmp", "data", "delete", "wait", "off"}
    /\ newest \in -1..MaxClock
    /\ oldest \in [Keys -> 0..MaxTime]
    /\ scanned \subseteq 1..MaxClock
    /\ files \in Nat /\ pos \in Nat
    /\ acked \subseteq Msgs /\ todo \subseteq Msgs /\ done \subseteq Msgs /\ retired \subseteq Msgs
    /\ closed \in [Keys -> 0..MaxTime]
    /\ out \in Seq(Msgs)
    /\ {cancel, faulty, lagged} \subseteq BOOLEAN
    /\ stops \in 0..MaxStops
    /\ OneActive(data) /\ OneActive(gc) /\ OneActive(cmp)

Init ==
    /\ data = <<>>
    /\ gc = <<[ts |-> 1, es |-> <<>>, st |-> "active"]>>
    /\ cmp = <<[ts |-> 0, es |-> <<>>, st |-> "active"]>>
    /\ clock = 1
    /\ pbq = "boot"
    /\ dq = <<>> /\ gq = <<>> /\ cq = <<>>
    /\ cpt = "snap" /\ newest = -1 /\ oldest = [k \in Keys |-> 0]
    /\ scanned = {} /\ files = 0 /\ pos = 0
    /\ acked = {} /\ cancel = FALSE
    /\ todo = {} /\ done = {} /\ closed = [k \in Keys |-> 0]
    /\ out = <<>> /\ retired = {} /\ stops = 0 /\ faulty = FALSE /\ lagged = FALSE

----------------------------------------------------------------------------
(* SegmentWriteActor.                                                      *)

Active(segs) == segs # <<>> /\ Last(segs).st = "active"
NonEmpty(segs) == Active(segs) /\ Last(segs).es # <<>>

\* write_data to the active segment.
Put(segs, e) == [segs EXCEPT ![Len(segs)].es = Append(@, e)]

\* Mutant: the next segment is opened without renaming this one.
FreezeNothing(segs) == segs

\* rotate_file: rename the active segment unless it is empty.
Freeze(segs) == IF NonEmpty(segs) THEN [segs EXCEPT ![Len(segs)].st = "frozen"] ELSE segs

\* open_segment.
Open(segs, t) == Append(segs, [ts |-> t, es |-> <<>>, st |-> "active"])

\* Covered by the events of the active GC segment when they were written.
JustRetired == UNION {Last(gc).es[i].covers : i \in DOMAIN Last(gc).es}

\* handle_message: written and, that done, acked.
WriteData ==
    /\ dq # <<>>
    /\ Active(data)
    /\ data' = Put(data, Head(dq))
    /\ dq' = Tail(dq)
    /\ acked' = acked \cup {Head(dq)}
    /\ UNCHANGED <<gc, cmp, clock, pbq, gq, cq, cptVars, cancel, redVars, histVars>>

\* The size or the age of the segment, or the lack of writes, makes the writer rotate.
RotateData ==
    /\ NonEmpty(data)
    /\ clock < MaxClock
    /\ clock' = clock + 1
    /\ data' = Open(Freeze(data), clock')
    /\ UNCHANGED <<gc, cmp, pbq, dq, gq, cq, cptVars, acked, cancel, redVars, histVars>>

\* A GC event is written; what it covers of the written messages is history.
WriteGc ==
    /\ gq # <<>>
    /\ Active(gc)
    /\ LET e == Head(gq)
           covers == {m \in acked \cap done : Key[m] = e.key /\ Et[m] < e.end}
       IN  gc' = Put(gc, [key |-> e.key, end |-> e.end, covers |-> covers])
    /\ gq' = Tail(gq)
    /\ UNCHANGED <<data, cmp, clock, pbq, dq, cq, cptVars, acked, cancel, redVars, histVars>>

RotateGc ==
    /\ NonEmpty(gc)
    /\ clock < MaxClock
    /\ clock' = clock + 1
    /\ gc' = Open(Freeze(gc), clock')
    /\ retired' = retired \cup JustRetired
    /\ UNCHANGED <<data, cmp, pbq, dq, gq, cq, cptVars, acked, cancel, redVars, out, stops, faulty, lagged>>

\* The next command of the compactor.
WriteCmp ==
    /\ cq # <<>>
    /\ Active(cmp)
    /\ cmp' = IF Head(cq) # Rotate THEN Put(cmp, Head(cq))
              ELSE IF NonEmpty(cmp) THEN Open(Freeze(cmp), 0) ELSE cmp
    /\ cq' = Tail(cq)
    /\ UNCHANGED <<data, gc, clock, pbq, dq, gq, cptVars, acked, cancel, redVars, histVars>>

\* Its size or its age, or the lack of commands, makes the writer rotate here too.
RotateCmp ==
    /\ NonEmpty(cmp)
    /\ cmp' = Open(Freeze(cmp), 0)
    /\ UNCHANGED <<data, gc, clock, pbq, dq, gq, cq, cptVars, acked, cancel, redVars, histVars>>

----------------------------------------------------------------------------
(* Compactor.                                                              *)

Frozen(segs) == {i \in DOMAIN segs : segs[i].st = "frozen"}
Entries(segs) == UNION {Range(segs[i].es) : i \in Frozen(segs)}

\* What a pass lists, the segments of it that are left, and the one it is at.
LastFrozen(segs) == IF Frozen(segs) = {} THEN 0 ELSE Max(Frozen(segs))
Listed(segs) == {i \in Frozen(segs) : i <= files}
First(segs) == Min(Listed(segs))

\* Mutant: what is as old as the end of the last window is dropped too.
RetainNewer(m) == Et[m] > oldest[Key[m]]

\* should_retain_message, for both kinds of windows.
ShouldRetain(m) == Et[m] >= oldest[Key[m]]

\* newest_data_segment_micros, before any segment is read; periodic cycles start by a tick. The
\* first tick is taken to come after the PBQ has passed on the replay, the next StartRead.
Snapshot ==
    /\ cpt = "snap" \/ (cpt = "wait" /\ pbq # "boot")
    /\ newest' = IF data = <<>> THEN -1 ELSE Last(data).ts
    /\ cpt' = "gc"
    /\ lagged' = (lagged \/ cq # <<>>)
    /\ UNCHANGED <<segVars, pbq, dq, gq, cq, oldest, scanned, files, pos, acked, cancel, redVars,
                   out, retired, stops, faulty>>

\* build_aligned_compaction, build_unaligned_compaction: the largest end of each key.
ReadGc ==
    /\ cpt = "gc"
    /\ LET ends(k) == {e.end : e \in {x \in Entries(gc) : x.key = k}}
       IN  oldest' = [k \in Keys |-> IF ends(k) = {} THEN 0 ELSE Max(ends(k))]
    /\ scanned' = {gc[i].ts : i \in Frozen(gc)}
    /\ cpt' = "cmp"
    /\ files' = LastFrozen(cmp) /\ pos' = 0
    /\ UNCHANGED <<segVars, pbq, dq, gq, cq, newest, acked, cancel, redVars, histVars>>

\* What the reducer is given; a message it has closed the window of is dropped as late.
Deliver(m, late) ==
    IF late THEN /\ done' = done \cup {m}
                 /\ UNCHANGED todo
            ELSE /\ todo' = todo \cup {m}
                 /\ UNCHANGED done

\* One entry of the first segment of a pass of process_wal_stream; replayed at boot.
ReadEntry(segs) ==
    /\ Listed(segs) # {}
    /\ pos < Len(segs[First(segs)].es)
    /\ pos' = pos + 1
    /\ LET m == segs[First(segs)].es[pos'] IN
       IF ShouldRetain(m)
       THEN /\ cq' = Append(cq, m)
            /\ IF pbq = "boot"
               THEN /\ Deliver(m, FALSE)
                    /\ out' = Append(out, m)
               ELSE UNCHANGED <<todo, done, out>>
       ELSE UNCHANGED <<cq, todo, done, out>>
    /\ UNCHANGED <<segVars, pbq, dq, gq, cpt, newest, oldest, scanned, files,
                   acked, cancel, closed, retired, stops, faulty, lagged>>

\* CmdFileSwitch: a Rotate is sent and the segment is removed, without waiting in between.
SwitchCmp ==
    /\ cpt = "cmp" /\ Listed(cmp) # {}
    /\ pos = Len(cmp[First(cmp)].es)
    /\ cq' = Append(cq, Rotate)
    /\ cmp' = RemoveAt(cmp, First(cmp))
    /\ files' = files - 1 /\ pos' = 0
    /\ UNCHANGED <<data, gc, clock, pbq, dq, gq, cpt, newest, oldest, scanned,
                   acked, cancel, redVars, histVars>>

\* Mutant: the segment stays.
SwitchDataKeeps ==
    /\ cpt = "data" /\ Listed(data) # {}
    /\ pos = Len(data[First(data)].es)
    /\ cq' = Append(cq, Rotate)
    /\ files' = files - 1 /\ pos' = 0
    /\ UNCHANGED <<segVars, pbq, dq, gq, cpt, newest, oldest, scanned,
                   acked, cancel, redVars, histVars>>

SwitchData ==
    /\ cpt = "data" /\ Listed(data) # {}
    /\ pos = Len(data[First(data)].es)
    /\ cq' = Append(cq, Rotate)
    /\ data' = RemoveAt(data, First(data))
    /\ files' = files - 1 /\ pos' = 0
    /\ UNCHANGED <<gc, cmp, clock, pbq, dq, gq, cpt, newest, oldest, scanned,
                   acked, cancel, redVars, histVars>>

CmpPass == cpt = "cmp" /\ ReadEntry(cmp)
DataPass == cpt = "data" /\ ReadEntry(data)

\* The compaction segments are done; the data segments frozen by now are listed.
EndCmpPass ==
    /\ cpt = "cmp" /\ Listed(cmp) = {}
    /\ cpt' = "data"
    /\ files' = LastFrozen(data) /\ pos' = 0
    /\ UNCHANGED <<segVars, pbq, dq, gq, cq, newest, oldest, scanned, acked, cancel, redVars, histVars>>

EndDataPass ==
    /\ cpt = "data" /\ Listed(data) = {}
    /\ cpt' = "delete"
    /\ files' = 0 /\ pos' = 0
    /\ UNCHANGED <<segVars, pbq, dq, gq, cq, newest, oldest, scanned,
                   acked, cancel, redVars, histVars>>

\* The create times of the GC segments after f.
Later(f) == {g.ts : g \in {x \in Range(gc) : x.ts > f.ts}}

\* Mutant: the segment's own create time is compared instead of its successor's.
SpentByOwnTime(f) == f.st = "frozen" /\ f.ts \in scanned /\ newest > f.ts

\* A scanned segment whose successor (successor_create_micros) is older than newest.
Spent(f) ==
    /\ f.st = "frozen" /\ f.ts \in scanned
    /\ Later(f) # {}
    /\ newest > Min(Later(f))

\* What delete_gc_files removes; the boot cycle removes none.
ToDelete == {i \in DOMAIN gc : pbq # "boot" /\ Spent(gc[i])}

\* One iteration of delete_gc_files, oldest first.
DeleteGc ==
    /\ cpt = "delete"
    /\ ToDelete # {}
    /\ gc' = RemoveAt(gc, Min(ToDelete))
    /\ UNCHANGED <<data, cmp, clock, pbq, dq, gq, cq, cptVars, acked, cancel, redVars, histVars>>

EndCycle ==
    /\ cpt = "delete"
    /\ ToDelete = {}
    /\ cpt' = "wait"
    /\ newest' = -1 /\ oldest' = [k \in Keys |-> 0] /\ scanned' = {}
    /\ UNCHANGED <<segVars, pbq, dq, gq, cq, files, pos, acked, cancel, redVars, histVars>>

\* An error of the file system ends the compactor; PBQ takes the closed channel for the
\* end of the replay.
CompactFails ==
    /\ "io" \in Faults
    /\ cpt \in {"gc", "cmp", "data", "delete"}
    /\ cpt' = "off"
    /\ faulty' = TRUE
    /\ UNCHANGED <<segVars, pbq, dq, gq, cq, newest, oldest, scanned, files, pos,
                   acked, cancel, redVars, out, retired, stops, lagged>>

\* The token is seen between cycles; the channel to the compaction writer is closed.
CompactorStops ==
    /\ cpt = "wait" /\ pbq # "boot"
    /\ cancel
    /\ cpt' = "off"
    /\ UNCHANGED <<segVars, pbq, dq, gq, cq, newest, oldest, scanned, files, pos,
                   acked, cancel, redVars, histVars>>

----------------------------------------------------------------------------
(* PBQ and the reducer.                                                    *)

\* The replay channel is closed: the data segment is opened and reading starts.
StartRead ==
    /\ pbq = "boot"
    /\ cpt \in {"wait", "off"}
    /\ clock < MaxClock
    /\ clock' = clock + 1
    /\ data' = Open(data, clock')
    /\ pbq' = "read"
    /\ UNCHANGED <<gc, cmp, dq, gq, cq, cptVars, acked, cancel, redVars, histVars>>

Unread == Msgs \ (acked \cup Range(dq))

\* A message goes to the writer and to the reducer.
Read ==
    /\ pbq = "read"
    /\ ~cancel
    /\ Unread # {}
    /\ LET m == Min(Unread) IN
       /\ dq' = Append(dq, m)
       /\ Deliver(m, Et[m] < closed[Key[m]])
    /\ UNCHANGED <<segVars, pbq, gq, cq, cptVars, acked, cancel, closed, histVars>>

\* What the boot cycle has still to replay.
Unreplayed ==
    IF pbq # "boot" THEN {}
    ELSE IF cpt \in {"wait", "off"} THEN {}
    ELSE (Entries(data) \cup Entries(cmp)) \ Range(out)

\* The reducer has the results of a window, and all windows of the key before it, written
\* downstream and sends the GC event.  Its watermark is past the window, so none of
\* the window's messages is still to be replayed.  The GC channel is closed when it has ended.
CloseWindow(k, e) ==
    /\ pbq # "down" /\ Active(gc)
    /\ \E m \in todo : Key[m] = k /\ Et[m] = e - 1
    /\ \A m \in Unreplayed : Key[m] = k => Et[m] >= e
    /\ LET finished == {m \in todo : Key[m] = k /\ Et[m] < e} IN
       /\ done' = done \cup finished
       /\ todo' = todo \ finished
    /\ closed' = [closed EXCEPT ![k] = IF e > @ THEN e ELSE @]
    /\ gq' = Append(gq, [key |-> k, end |-> e])
    /\ UNCHANGED <<segVars, pbq, dq, cq, cptVars, acked, cancel, histVars>>

----------------------------------------------------------------------------
(* Shutdown, kill and boot.                                                *)

Cancel ==
    /\ pbq # "down" /\ ~cancel
    /\ stops < MaxStops
    /\ stops' = stops + 1
    /\ cancel' = TRUE
    /\ UNCHANGED <<segVars, pbq, dq, gq, cq, cptVars, acked, redVars, out, retired, faulty, lagged>>

\* The ISB reader has ended; the data writer writes what is left and freezes its segment.
StopRead ==
    /\ pbq = "read" /\ cancel /\ dq = <<>>
    /\ pbq' = "drain"
    /\ data' = Freeze(data)
    /\ UNCHANGED <<gc, cmp, clock, dq, gq, cq, cptVars, acked, cancel, redVars, histVars>>

\* The GC writer is not waited for: it may or may not get to freeze its segment.
StopGc ==
    /\ pbq = "drain" /\ gq = <<>>
    /\ NonEmpty(gc)
    /\ gc' = Freeze(gc)
    /\ retired' = retired \cup JustRetired
    /\ UNCHANGED <<data, cmp, clock, pbq, dq, gq, cq, cptVars, acked, cancel, redVars, out, stops, faulty, lagged>>

\* The active segments of a pod that is gone; their content is not read again.
Leave(segs) ==
    IF Active(segs) THEN [segs EXCEPT ![Len(segs)].st = "left", ![Len(segs)].es = <<>>] ELSE segs

\* An empty active compaction segment, or one whose content is not read again, is forgotten.
Forget(segs) == IF Active(segs) THEN Front(segs) ELSE segs

Down ==
    /\ pbq' = "down" /\ cancel' = FALSE
    /\ dq' = <<>> /\ gq' = <<>> /\ cq' = <<>>
    /\ cpt' = "off" /\ newest' = -1 /\ oldest' = [k \in Keys |-> 0]
    /\ scanned' = {} /\ files' = 0 /\ pos' = 0
    /\ todo' = {} /\ out' = <<>>
    /\ data' = Leave(data) /\ gc' = Leave(gc)
    /\ UNCHANGED <<clock, acked, done, closed, retired, lagged>>

\* All that PBQ waits for is done, the final rotation of the compaction writer included.
Exit ==
    /\ pbq = "drain" /\ cpt = "off" /\ cq = <<>>
    /\ cmp' = Forget(Freeze(cmp))
    /\ Down
    /\ UNCHANGED <<stops, faulty, lagged>>

\* Killed, or ended by a writer's error, which drops what is buffered just the same.
Kill ==
    /\ "kill" \in Faults
    /\ pbq # "down"
    /\ stops < MaxStops
    /\ stops' = stops + 1
    /\ faulty' = TRUE
    /\ cmp' = Forget(cmp)
    /\ Down

\* create_wal_components and the start of the reducer open a compaction and a GC segment.
Boot ==
    /\ pbq = "down"
    /\ clock + 1 < MaxClock
    /\ clock' = clock + 1
    /\ gc' = Open(gc, clock')
    /\ cmp' = Open(cmp, 0)
    /\ pbq' = "boot"
    /\ cpt' = "snap"
    /\ UNCHANGED <<data, dq, gq, cq, newest, oldest, scanned, files, pos,
                   acked, cancel, redVars, histVars>>

\* The bounds leave no room for another boot, or neither a message nor a stop.
BoundReached ==
    /\ \/ pbq \in {"down", "boot"} /\ clock + 1 >= MaxClock
       \/ pbq = "read" /\ ~cancel /\ Unread = {} /\ stops = MaxStops
    /\ UNCHANGED vars

WriterNext == WriteData \/ RotateData \/ WriteGc \/ RotateGc \/ WriteCmp \/ RotateCmp

CompactorNext ==
    \/ Snapshot \/ ReadGc \/ CmpPass \/ SwitchCmp \/ EndCmpPass
    \/ DataPass \/ SwitchData \/ EndDataPass \/ DeleteGc \/ EndCycle
    \/ CompactorStops \/ CompactFails

Next ==
    \/ WriterNext
    \/ CompactorNext
    \/ StartRead \/ Read \/ \E k \in Keys, e \in 1..MaxTime : CloseWindow(k, e)
    \/ Cancel \/ StopRead \/ StopGc \/ Exit \/ Kill \/ Boot \/ BoundReached

Spec == Init /\ [][Next]_vars

----------------------------------------------------------------------------

\* Once the replay is over, every acked message is with the reducer or finished, through
\* any number of shutdowns: acking after the write (append.rs) loses nothing.
ReplayComplete ==
    ~faulty /\ pbq \in {"read", "drain"} => acked \subseteq todo \cup done

\* Messages are replayed in the order they were read, each once ("make sure the order of
\* the messages does not change", segment.rs), as long as no cycle starts before the
\* compaction writer has done what the one before it sent.
ReplayInOrder ==
    ~faulty /\ ~lagged => \A i, j \in DOMAIN out : i < j => out[i] < out[j]

\* A message that was written before a GC event which covers it is not replayed once the
\* event is frozen, though the GC segment may be deleted before the data segment is
\* compacted (the retention gate of delete_gc_files), kills included.  A second copy, left by
\* a kill, of a message that was replayed since this boot is excepted, and so are the runs
\* in which a cycle overtakes the compaction writer.
RetiredNotReplayed ==
    [][~lagged /\ Len(out') > Len(out) => Last(out') \notin retired \/ Contains(out, Last(out'))]_vars
=============================================================================
