-------------------------- MODULE WatermarkVertex --------------------------
(***************************************************************************)
(* The watermark of one map pod, from the entries (WMBs) its upstream      *)
(* processors publish to the entries it publishes itself: the processor    *)
(* manager and the fetcher (watermark/processor/manager.rs,                *)
(* watermark/isb/wm_fetcher.rs), the readers' idle detection               *)
(* (pipeline/isb/reader.rs), the tracker's watermarks (tracker.rs), the    *)
(* state behind the watermark handle's lock (watermark/isb.rs), the idle   *)
(* manager (watermark/idle/isb.rs) and the publisher                       *)
(* (watermark/isb/wm_publisher.rs).                                        *)
(*                                                                         *)
(* The floor of a message is the least event time it may carry.  A WMB     *)
(* (offset, watermark) of a processor is right when every message of that  *)
(* processor with a larger offset has a floor of at least the watermark.   *)
(* Upstream is external and only publishes right WMBs; the question is     *)
(* whether this pod's WMBs are right too.                                  *)
(***************************************************************************)
EXTENDS OffsetTimeline, FiniteSets, FiniteSetsExt

CONSTANTS
    Procs,      \* upstream processors
    Parts,      \* from_partitions, an interval of numbers
    Hazards,    \* what may happen, a subset of AllHazards
    MaxIn,      \* bound: messages in one input partition
    MaxOut,     \* bound: messages in the output stream
    MaxWm       \* bound: watermarks are 0..MaxWm

\* cold: the processors are unknown at first; throttle: a read yields nothing although
\* there is something to read; race: upstream turns idle between a reader's read and its
\* look at the heads; nack: processing fails; silent: a processor is not heard of for a
\* while; stale: for long, or its entry is deleted.
AllHazards == {"cold", "throttle", "race", "nack", "silent", "stale"}

ASSUME VertexAssumption ==
    /\ Procs # {} /\ Parts # {} /\ Parts \subseteq Nat
    /\ Hazards \subseteq AllHazards
    /\ MaxIn \in Nat /\ MaxOut \in Nat /\ MaxWm \in Nat

InOffsets == 1..MaxIn
Wms == -1..MaxWm
NoWMB == [offset |-> 0, watermark |-> -1, idle |-> FALSE]
None == 0           \* no idle offset
Untracked == -2

VARIABLES
    in,         \* the input partitions (external)
    promise,    \* what each upstream processor has promised (external)
    status,     \* the manager's status of each processor, or "absent"
    tl,         \* the timelines of each processor
    last,       \* last_processed_wm of each partition
    rd,         \* where the reader of each partition is
    cur,        \* the offset it has fetched
    val,        \* the watermark it has looked up
    unread,     \* the next new offset of each partition (external)
    nacked,     \* offsets to be delivered again (external)
    idle,       \* idle_offset_map
    trk,        \* the watermark of each tracked message
    wr,         \* 0: not written, n: written at offset n, -1: its WMB is published
    out,        \* the output stream
    lp,         \* LastPublishedState of the output stream
    sent,       \* the last WMB that reached the key-value store
    idleOut,    \* wmb_msg_offset of the output stream
    tk,         \* where the idle ticker is; it holds the lock when not "off"
    tkwm,       \* the watermark it has computed
    tkoff       \* the offset it will publish for

upVars == <<in, promise>>
fetchVars == <<status, tl, last>>
readVars == <<rd, cur, val, unread, nacked, idle>>
workVars == <<trk, wr>>
pubVars == <<out, lp, sent, idleOut>>
tickVars == <<tk, tkwm, tkoff>>
vars == <<upVars, fetchVars, readVars, workVars, pubVars, tickVars>>

Known == {p \in Procs : status[p] # "absent"}
Active == {p \in Procs : status[p] = "active"}

\* A pod that is not cold has read before: it knows the processors.
WarmTimeline == Put(NewTimeline, [offset |-> 0, watermark |-> 0, idle |-> FALSE])

Init ==
    /\ in = [k \in Parts |-> <<>>]
    /\ promise = [p \in Procs |-> 0]
    /\ status = [p \in Procs |-> IF "cold" \in Hazards THEN "absent" ELSE "active"]
    /\ tl = [p \in Procs |-> [k \in Parts |->
                IF "cold" \in Hazards THEN NewTimeline ELSE WarmTimeline]]
    /\ last = [k \in Parts |-> IF "cold" \in Hazards THEN -1 ELSE 0]
    /\ rd = [k \in Parts |-> "fetch"]
    /\ cur = [k \in Parts |-> 0]
    /\ val = [k \in Parts |-> -1]
    /\ unread = [k \in Parts |-> 1]
    /\ nacked = [k \in Parts |-> {}]
    /\ idle = [k \in Parts |-> None]
    /\ trk = [k \in Parts |-> [o \in InOffsets |-> Untracked]]
    /\ wr = [k \in Parts |-> [o \in InOffsets |-> 0]]
    /\ out = <<>>
    /\ lp = [offset |-> -1, watermark |-> -1]
    /\ sent = [offset |-> -1, watermark |-> -1, idle |-> FALSE]
    /\ idleOut = None
    /\ tk = "off" /\ tkwm = -1 /\ tkoff = None

----------------------------------------------------------------------------
(* Upstream, and the watch on its key-value store.                         *)

UpWrite(p, k, f, c) ==
    /\ Len(in[k]) < MaxIn
    /\ f >= promise[p]
    /\ in' = [in EXCEPT ![k] = Append(@, [proc |-> p, floor |-> f, ctrl |-> c])]
    /\ UNCHANGED <<promise, fetchVars, readVars, workVars, pubVars, tickVars>>

\* The WMB (o, w) of p for partition k is right, now and for what p will write.
Right(p, k, o, w) ==
    \A j \in o+1..Len(in[k]) : in[k][j].proc = p /\ ~in[k][j].ctrl => in[k][j].floor >= w

\* start_ot_watcher shows a right WMB of p (later ones may have hidden earlier ones);
\* what p publishes for a partition never falls.
Observe(p, k, o, w, i) ==
    /\ o \in 1..Len(in[k]) /\ in[k][o].proc = p
    /\ o >= HeadWMB(tl[p][k]).offset /\ w >= HeadWMB(tl[p][k]).watermark
    /\ i => in[k][o].ctrl
    /\ i /\ rd[k] = "empty" => "race" \in Hazards
    /\ Right(p, k, o, w)
    /\ promise' = [promise EXCEPT ![p] = IF w > @ THEN w ELSE @]
    /\ tl' = [tl EXCEPT ![p][k] = Put(@, [offset |-> o, watermark |-> w, idle |-> i])]
    /\ status' = [status EXCEPT ![p] = IF @ = "deleted" THEN @ ELSE "active"]
    /\ UNCHANGED <<in, last, readVars, workVars, pubVars, tickVars>>

\* start_refreshing_processors finds that p was silent for more than 5 s or 50 s, or was
\* heard of again; or the entry of p is deleted from the store.
Refresh(p) ==
    /\ p \in Known
    /\ \E s \in (IF Hazards \cap {"silent", "stale"} = {} THEN {} ELSE {"active", "inactive"})
                 \cup (IF "stale" \in Hazards THEN {"deleted"} ELSE {}) :
            status' = [status EXCEPT ![p] = s]
    /\ UNCHANGED <<upVars, tl, last, readVars, workVars, pubVars, tickVars>>

----------------------------------------------------------------------------
(* ISBWatermarkFetcher.                                                    *)

HeadOffset(p) == Max({HeadWMB(tl[p][k]).offset : k \in Parts})

\* Mutant: the least watermark is taken over the active processors only.
EpochOfActive(k, o) ==
    IF Active = {} THEN last[k] ELSE Min({GetEventTime(tl[p][k], o) : p \in Active})

\* The least watermark of the processors for the offset, as it is stored in
\* last_processed_wm.
Epoch(k, o) ==
    IF Known = {} THEN last[k] ELSE Min({GetEventTime(tl[p][k], o) : p \in Known})

\* get_watermark: the least of all partitions' last watermarks.
GetWatermark(wms) == Min({wms[j] : j \in Parts})

\* fetch_watermark: the least of the partitions' last watermarks; deleted processors
\* that are behind go.
FetchWatermark(k, o) ==
    LET gone == {p \in Known : status[p] = "deleted" /\ o > HeadOffset(p)}
    IN  /\ last' = [last EXCEPT ![k] = Epoch(k, o)]
        /\ status' = [p \in Procs |-> IF p \in gone THEN "absent" ELSE status[p]]
        /\ tl' = [p \in Procs |->
                    IF p \in gone THEN [j \in Parts |-> NewTimeline] ELSE tl[p]]
        /\ val' = [val EXCEPT ![k] = GetWatermark(last')]

\* fetch_head_idle_wmb: a head of least watermark when every active processor is idle
\* (which one of several depends on the order of the map).
HeadIdle(k) ==
    LET heads == {HeadWMB(tl[p][k]) : p \in Active}
    IN  IF heads = {} \/ \E h \in heads : ~h.idle THEN {NoWMB}
        ELSE {h \in heads : \A g \in heads : h.watermark <= g.watermark}

----------------------------------------------------------------------------
(* The reader of a partition.                                              *)

\* An empty batch: nothing to read, a throttled read or a failed pull.
FetchEmpty(k) ==
    /\ rd[k] = "fetch"
    /\ (unread[k] > Len(in[k]) /\ nacked[k] = {}) \/ "throttle" \in Hazards
    /\ rd' = [rd EXCEPT ![k] = "empty"]
    /\ UNCHANGED <<upVars, fetchVars, cur, val, unread, nacked, idle, workVars, pubVars, tickVars>>

FetchMessage(k, o) ==
    /\ rd[k] = "fetch"
    /\ \/ o = unread[k] /\ o <= Len(in[k])
       \/ o \in nacked[k]
    /\ rd' = [rd EXCEPT ![k] = "got"]
    /\ cur' = [cur EXCEPT ![k] = o]
    /\ unread' = [unread EXCEPT ![k] = IF o = @ THEN @ + 1 ELSE @]
    /\ nacked' = [nacked EXCEPT ![k] = @ \ {o}]
    /\ UNCHANGED <<upVars, fetchVars, val, idle, workVars, pubVars, tickVars>>

\* handle_idle_watermarks after an empty batch: the offset of the idle head is noted.
NoteIdle(k) ==
    /\ rd[k] = "empty"
    /\ tk = "off"
    /\ \E h \in HeadIdle(k) :
         /\ idle' = [idle EXCEPT ![k] = h.offset]
         /\ last' = [last EXCEPT ![k] = IF h = NoWMB THEN @ ELSE h.watermark]
    /\ rd' = [rd EXCEPT ![k] = "fetch"]
    /\ UNCHANGED <<upVars, status, tl, cur, val, unread, nacked, workVars, pubVars, tickVars>>

\* handle_idle_watermarks after a batch with messages.
NoteBusy(k) ==
    /\ rd[k] = "got"
    /\ idle' = [idle EXCEPT ![k] = None]
    /\ rd' = [rd EXCEPT ![k] = "enrich"]
    /\ UNCHANGED <<upVars, fetchVars, cur, val, unread, nacked, workVars, pubVars, tickVars>>

\* process_message_batch: a control message is acked.
SkipCtrl(k) ==
    /\ rd[k] = "enrich"
    /\ in[k][cur[k]].ctrl
    /\ rd' = [rd EXCEPT ![k] = "fetch"]
    /\ cur' = [cur EXCEPT ![k] = 0]
    /\ UNCHANGED <<upVars, fetchVars, val, unread, nacked, idle, workVars, pubVars, tickVars>>

\* ... a data message gets its watermark, under the lock,
Enrich(k) ==
    /\ rd[k] = "enrich"
    /\ ~in[k][cur[k]].ctrl
    /\ tk = "off"
    /\ FetchWatermark(k, cur[k])
    /\ rd' = [rd EXCEPT ![k] = "insert"]
    /\ UNCHANGED <<upVars, cur, unread, nacked, idle, workVars, pubVars, tickVars>>

\* ... and is tracked.
Track(k) ==
    /\ rd[k] = "insert"
    /\ trk' = [trk EXCEPT ![k][cur[k]] = val[k]]
    /\ wr' = [wr EXCEPT ![k][cur[k]] = 0]
    /\ rd' = [rd EXCEPT ![k] = "fetch"]
    /\ cur' = [cur EXCEPT ![k] = 0]
    /\ val' = [val EXCEPT ![k] = -1]
    /\ UNCHANGED <<upVars, fetchVars, unread, nacked, idle, pubVars, tickVars>>

----------------------------------------------------------------------------
(* Publishing.                                                             *)

InFlight(k) == {o \in InOffsets : trk[k][o] # Untracked}

\* Mutant: the watermark of the newest message.
LowestOfNewest ==
    LET S == {trk[k][Max(InFlight(k))] : k \in {j \in Parts : InFlight(j) # {}}}
    IN  IF S = {} THEN -1 ELSE Min(S)

\* lowest_watermark: that of the first message of each partition.
LowestWatermark ==
    LET S == {trk[k][Min(InFlight(k))] : k \in {j \in Parts : InFlight(j) # {}}}
    IN  IF S = {} THEN -1 ELSE Min(S)

Larger(a, b) == IF a > b THEN a ELSE b

\* Mutant: the incoming watermark replaces the last one.
UpdateLatest(o, w) == [offset |-> Larger(lp.offset, o), watermark |-> w]

\* LastPublishedState::update keeps the highest of both.
Update(o, w) == [offset |-> Larger(lp.offset, o), watermark |-> Larger(lp.watermark, w)]

\* publish_watermark: published unless the delay has not passed or the put fails.
PublishTo(o, w, i) ==
    /\ lp' = Update(o, w)
    /\ sent' \in {sent, [offset |-> lp'.offset, watermark |-> lp'.watermark, idle |-> i]}

\* A result of the message is stored in the output stream.
Write(k, o) ==
    /\ o \in InFlight(k)
    /\ wr[k][o] = 0
    /\ Len(out) < MaxOut
    /\ out' = Append(out, [floor |-> in[k][o].floor, ctrl |-> FALSE])
    /\ wr' = [wr EXCEPT ![k][o] = Len(out')]
    /\ UNCHANGED <<upVars, fetchVars, readVars, trk, lp, sent, idleOut, tickVars>>

\* publish_watermark and reset_idle, under the lock.
PublishWatermark(k, o) ==
    /\ wr[k][o] > 0
    /\ tk = "off"
    /\ PublishTo(wr[k][o], LowestWatermark, FALSE)
    /\ idleOut' = None
    /\ wr' = [wr EXCEPT ![k][o] = -1]
    /\ UNCHANGED <<upVars, fetchVars, readVars, trk, out, tickVars>>

Forget(k, o) ==
    /\ trk' = [trk EXCEPT ![k][o] = Untracked]
    /\ wr' = [wr EXCEPT ![k][o] = 0]

\* Acked, and out of the tracker: its result is published, or it was dropped.
Done(k, o) ==
    /\ o \in InFlight(k)
    /\ wr[k][o] <= 0
    /\ Forget(k, o)
    /\ UNCHANGED <<upVars, fetchVars, readVars, pubVars, tickVars>>

\* Nacked, and out of the tracker all the same; the broker delivers it again.
Nack(k, o) ==
    /\ "nack" \in Hazards
    /\ o \in InFlight(k)
    /\ wr[k][o] = 0
    /\ Forget(k, o)
    /\ nacked' = [nacked EXCEPT ![k] = @ \cup {o}]
    /\ UNCHANGED <<upVars, fetchVars, rd, cur, val, unread, idle, pubVars, tickVars>>

----------------------------------------------------------------------------
(* The idle ticker: publish_idle_watermark, under the lock throughout.     *)

TickMin ==
    /\ tk = "off"
    /\ tkwm' = LowestWatermark
    /\ tk' = IF tkwm' = -1 THEN "idle" ELSE "stream"
    /\ UNCHANGED <<upVars, fetchVars, readVars, workVars, pubVars, tkoff>>

\* Mutant: the noted offset is not compared with that of the head.
MismatchIgnored(k, h) == idle[k] = None \/ h = NoWMB

\* The partition is not idle, or not idle at the offset its reader has noted.
Mismatch(k, h) == idle[k] = None \/ h = NoWMB \/ h.offset # idle[k]

\* get_idle_watermark: nothing is known to be in flight, so the heads' watermark is
\* used if every partition is idle.
TickIdle ==
    /\ tk = "idle"
    /\ \E h \in [Parts -> UNION {HeadIdle(k) : k \in Parts}] :
         /\ \A k \in Parts : h[k] \in HeadIdle(k)
         /\ LET bad == {k \in Parts : Mismatch(k, h[k])}
                looked == {k \in Parts : (\A j \in bad : k <= j) /\ idle[k] # None}
            IN  /\ last' = [k \in Parts |->
                     IF k \in looked /\ h[k] # NoWMB THEN h[k].watermark ELSE last[k]]
                /\ tkwm' = IF bad # {} THEN -1 ELSE Min({h[k].watermark : k \in Parts})
    /\ tk' = IF tkwm' = -1 THEN "off" ELSE "stream"
    /\ UNCHANGED <<upVars, status, tl, readVars, workVars, pubVars, tkoff>>

TickEnd == tk' = "off" /\ tkwm' = -1 /\ tkoff' = None

\* The output stream is not idle, or no control message could be written to it.
TickSkip ==
    /\ tk = "stream"
    /\ TickEnd
    /\ UNCHANGED <<upVars, fetchVars, readVars, workVars, pubVars>>

\* fetch_idle_offset: the control message of the idle stream, written if there is none.
TickOffset ==
    /\ tk = "stream"
    /\ \/ idleOut # None /\ tkoff' = idleOut /\ out' = out
       \/ /\ idleOut = None
          /\ Len(out) < MaxOut
          /\ out' = Append(out, [floor |-> 0, ctrl |-> TRUE])
          /\ tkoff' = Len(out')
    /\ tk' = "publish"
    /\ UNCHANGED <<upVars, fetchVars, readVars, workVars, lp, sent, idleOut, tkwm>>

TickPublish ==
    /\ tk = "publish"
    /\ PublishTo(tkoff, tkwm, TRUE)
    /\ idleOut' = tkoff
    /\ TickEnd
    /\ UNCHANGED <<upVars, fetchVars, readVars, workVars, out>>

----------------------------------------------------------------------------

UpNext ==
    \E p \in Procs, k \in Parts :
        \/ \E f \in 0..MaxWm : UpWrite(p, k, f, FALSE)
        \/ UpWrite(p, k, MaxWm, TRUE)
        \/ \E o \in InOffsets, w \in 0..MaxWm, i \in BOOLEAN : Observe(p, k, o, w, i)

ReadNext(k) ==
    \/ FetchEmpty(k) \/ NoteIdle(k) \/ NoteBusy(k) \/ SkipCtrl(k) \/ Enrich(k) \/ Track(k)
    \/ \E o \in InOffsets : FetchMessage(k, o)

WorkNext(k) == \E o \in InOffsets : Write(k, o) \/ PublishWatermark(k, o) \/ Done(k, o)

TickNext == TickMin \/ TickIdle \/ TickSkip \/ TickOffset \/ TickPublish

Next ==
    \/ UpNext
    \/ \E p \in Procs : Refresh(p)
    \/ \E k \in Parts : ReadNext(k) \/ WorkNext(k) \/ \E o \in InOffsets : Nack(k, o)
    \/ TickNext

Spec == Init /\ [][Next]_vars

----------------------------------------------------------------------------
(* Properties.                                                             *)

TypeOK ==
    /\ \A k \in Parts : Len(in[k]) <= MaxIn /\ unread[k] \in 1..Len(in[k])+1
    /\ promise \in [Procs -> 0..MaxWm]
    /\ status \in [Procs -> {"absent", "active", "inactive", "deleted"}]
    /\ \A p \in Procs, k \in Parts : Len(tl[p][k]) = Capacity
    /\ last \in [Parts -> Wms]
    /\ rd \in [Parts -> {"fetch", "empty", "got", "enrich", "insert"}]
    /\ cur \in [Parts -> 0..MaxIn]
    /\ val \in [Parts -> Wms]
    /\ nacked \in [Parts -> SUBSET InOffsets]
    /\ idle \in [Parts -> 0..MaxIn]
    /\ trk \in [Parts -> [InOffsets -> -2..MaxWm]]
    /\ wr \in [Parts -> [InOffsets -> -1..MaxOut]]
    /\ Len(out) <= MaxOut
    /\ lp \in [offset : -1..MaxOut, watermark : Wms]
    /\ sent \in [offset : -1..MaxOut, watermark : Wms, idle : BOOLEAN]
    /\ idleOut \in 0..MaxOut /\ tkoff \in 0..MaxOut
    /\ tk \in {"off", "idle", "stream", "publish"}
    /\ tkwm \in Wms

\* The watermark a message of a known processor is given never exceeds its floor, so it is
\* not late by the watermark it carries itself, though processors are silent, come and go
\* and reads are throttled (fetch_watermark over the timelines).
WatermarkBelowFloor ==
    [][\A k \in Parts :
         rd[k] = "enrich" /\ rd'[k] = "insert" /\ in[k][cur[k]].proc \in Known
            => val'[k] <= in[k][cur[k]].floor]_vars

\* The pod's own WMBs are right: no message it has written, or will write, after the
\* offset of its last WMB is older than the WMB's watermark ("Watermarks never advance
\* past unprocessed data").
PublishedIsRight ==
    \A i \in 1..Len(out) : i > sent.offset /\ ~out[i].ctrl => out[i].floor >= sent.watermark

\* What the pod publishes for its output stream never falls, though the watermarks it
\* computes do ("guaranteed monotonically increasing" in wm_publisher.rs).
PublishedNeverFalls ==
    [][sent'.offset >= sent.offset /\ sent'.watermark >= sent.watermark]_sent

=============================================================================
