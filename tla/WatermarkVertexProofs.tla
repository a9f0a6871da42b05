----------------------- MODULE WatermarkVertexProofs -----------------------
(***************************************************************************)
(* Proofs about WatermarkVertex.  Under every hazard, for every number of  *)
(* processors and partitions: the watermark of a message does not exceed   *)
(* its floor, what the pod publishes never falls (GInv) and is vouched for *)
(* by some upstream processor (AllVouched).                                *)
(***************************************************************************)
EXTENDS WatermarkVertex, WellFoundedInduction, TLAPS

Msg == [proc : Procs, floor : 0..MaxWm, ctrl : BOOLEAN]
OutMsg == [floor : 0..MaxWm, ctrl : BOOLEAN]
Entry == [offset : -1..MaxIn, watermark : Wms, idle : BOOLEAN]
Timelines == {s \in Seq(Entry) : Len(s) = Capacity}
Stati == {"absent", "active", "inactive", "deleted"}
Places == {"fetch", "empty", "got", "enrich", "insert"}

(***************************************************************************)
(* The shapes of the variables, in the groups in which actions leave them  *)
(* unchanged.                                                              *)
(***************************************************************************)

UpTypes == in \in [Parts -> Seq(Msg)] /\ promise \in [Procs -> 0..MaxWm]
FetchTypes ==
    /\ status \in [Procs -> Stati] /\ tl \in [Procs -> [Parts -> Timelines]]
    /\ last \in [Parts -> Wms]
ReadTypes ==
    /\ rd \in [Parts -> Places] /\ cur \in [Parts -> 0..MaxIn] /\ val \in [Parts -> Wms]
    /\ unread \in [Parts -> Nat] /\ nacked \in [Parts -> SUBSET InOffsets] /\ idle \in [Parts -> 0..MaxIn]
WorkTypes ==
    /\ trk \in [Parts -> [InOffsets -> -2..MaxWm]] /\ wr \in [Parts -> [InOffsets -> -1..MaxOut]]
PubTypes ==
    /\ out \in Seq(OutMsg) /\ Len(out) <= MaxOut
    /\ lp \in [offset : -1..MaxOut, watermark : Wms]
    /\ sent \in [offset : -1..MaxOut, watermark : Wms, idle : BOOLEAN]
    /\ idleOut \in 0..MaxOut
TickTypes == tk \in {"off", "idle", "stream", "publish"} /\ tkwm \in Wms /\ tkoff \in 0..MaxOut

Types == UpTypes /\ FetchTypes /\ ReadTypes /\ WorkTypes /\ PubTypes /\ TickTypes

\* The entries of the timelines are right: no message of the processor after the offset is
\* below the watermark, and none will be.
Told ==
    \A p \in Procs, k \in Parts : \A i \in 1..Capacity :
        /\ tl[p][k][i].watermark <= promise[p]
        /\ tl[p][k][i].offset <= Len(in[k])
        /\ tl[p][k][i].idle => tl[p][k][i].offset >= 1
        /\ \A j \in 1..Len(in[k]) :
              j > tl[p][k][i].offset /\ in[k][j].proc = p /\ ~in[k][j].ctrl
                 => tl[p][k][i].watermark <= in[k][j].floor

\* What the reader and the workers hold has been written.
Busy(k) == rd[k] \in {"got", "enrich", "insert"}
Reach ==
    \A k \in Parts :
        /\ Len(in[k]) <= MaxIn /\ unread[k] \in 1..Len(in[k])+1
        /\ nacked[k] \cup InFlight(k) \subseteq 1..Len(in[k])
        /\ Busy(k) => cur[k] \in 1..Len(in[k])

\* What was sent is not ahead of LastPublishedState.
SentOld == sent.offset <= lp.offset /\ sent.watermark <= lp.watermark

GInv == Types /\ Told /\ Reach /\ SentOld

(***************************************************************************)
(* Minima.                                                                 *)
(***************************************************************************)

\* A non-empty set of natural numbers has a least one.
LEMMA LeastExists ==
    ASSUME NEW T, T \subseteq Nat, T # {}
    PROVE  \E i \in T : \A j \in T : i <= j
<1>1. PICK x \in T : \A y \in T : ~(<<y, x>> \in OpToRel(<, Nat))
  BY WFMin, NatLessThanWellFounded, Zenon
<1>2. \A y \in T : ~(y < x)
  BY <1>1 DEF OpToRel
<1>3. QED
  BY <1>2

\* Min is what its name says, for a set of integers that is bounded below.
LEMMA MinOf ==
    ASSUME NEW S, S \subseteq Int, S # {}, NEW b \in Int, \A x \in S : b <= x
    PROVE  Min(S) \in S /\ \A y \in S : Min(S) <= y
<1> DEFINE T == {x - b : x \in S}
<1>1. T \subseteq Nat /\ T # {}
  <2>1. \A x \in S : x - b \in Nat
    OBVIOUS
  <2>2. QED
    BY <2>1
<1>2. PICK t \in T : \A u \in T : t <= u
  BY <1>1, LeastExists
<1>3. PICK x \in S : t = x - b
  BY <1>2
<1>4. \A y \in S : x <= y
  <2> TAKE y \in S
  <2>1. y - b \in T
    OBVIOUS
  <2>2. x - b <= y - b
    BY <1>2, <1>3, <2>1
  <2>3. x \in Int /\ y \in Int
    OBVIOUS
  <2>4. QED
    BY <2>2, <2>3
<1>5. \E z \in S : \A y \in S : z =< y
  BY <1>4
<1>6. QED
  BY <1>5 DEF Min

\* Watermarks have a least one.
LEMMA MinWm ==
    ASSUME NEW S, S \subseteq Wms, S # {}
    PROVE  Min(S) \in Wms /\ Min(S) \in S /\ \A y \in S : Min(S) <= y
<1>1. Wms \subseteq Int /\ \A x \in Wms : -1 <= x
  BY VertexAssumption DEF Wms
<1>2. -1 \in Int /\ S \subseteq Int /\ \A x \in S : -1 <= x
  BY <1>1
<1>3. Min(S) \in S /\ \A y \in S : Min(S) <= y
  BY <1>2, MinOf
<1>4. QED
  BY <1>3

\* So have offsets.
LEMMA MinOffset ==
    ASSUME NEW S, S \subseteq InOffsets, S # {}
    PROVE  Min(S) \in S /\ \A y \in S : Min(S) <= y
<1>1. InOffsets \subseteq Int /\ \A x \in InOffsets : 1 <= x
  BY VertexAssumption DEF InOffsets
<1>2. 1 \in Int /\ S \subseteq Int /\ \A x \in S : 1 <= x
  BY <1>1
<1>3. QED
  BY <1>2, MinOf

(***************************************************************************)
(* Timelines.                                                              *)
(***************************************************************************)

\* The fields of an entry.
LEMMA EntryFields ==
    ASSUME NEW s \in Timelines, NEW i \in 1..Capacity
    PROVE  /\ s[i] \in Entry /\ s[i].offset \in -1..MaxIn /\ s[i].watermark \in Wms
           /\ s[i].offset \in Int /\ s[i].watermark \in Int /\ s[i].idle \in BOOLEAN
<1>1. s[i] \in Entry
  BY DEF Timelines
<1>2. s[i].offset \in -1..MaxIn /\ s[i].watermark \in Wms /\ s[i].idle \in BOOLEAN
  BY <1>1 DEF Entry
<1>3. QED
  BY <1>1, <1>2, VertexAssumption DEF Wms

\* put, position by position.
LEMMA PutCases ==
    ASSUME NEW s \in Timelines, NEW node \in Entry
    PROVE  /\ Put(s, node) \in Timelines
           /\ \/ /\ Advances(s, node) /\ Put(s, node)[1] = node
                 /\ \A i \in 2..Capacity : Put(s, node)[i] = s[i - 1]
              \/ /\ RaisesHead(s, node)
                 /\ Put(s, node)[1].offset = s[1].offset
                 /\ Put(s, node)[1].idle = s[1].idle
                 /\ Put(s, node)[1].watermark = node.watermark
                 /\ \A i \in 2..Capacity : Put(s, node)[i] = s[i]
              \/ ~Advances(s, node) /\ Put(s, node) = s
<1> USE CapacityAssumption
<1>0. s \in Seq(Entry) /\ Len(s) = Capacity /\ s[1] \in Entry
  BY DEF Timelines
<1>a. s[1].offset \in Int /\ node.offset \in Int
  BY <1>0, VertexAssumption DEF Entry
<1>1. CASE Advances(s, node)
  <2> DEFINE t == <<node>> \o s
  <2>1. t \in Seq(Entry) /\ Len(t) = Capacity + 1
    BY <1>0
  <2>2. t[1] = node /\ \A i \in 2..Capacity : t[i] = s[i - 1]
    BY <1>0
  <2>3. Put(s, node) = SubSeq(t, 1, Capacity)
    <3>0. ~RaisesHead(s, node)
      BY <1>a, <1>1 DEF Advances, RaisesHead
    <3>1. Put(s, node) = Trim(t)
      BY <1>1, <3>0 DEF Put, PushFront
    <3>2. Trim(t) = SubSeq(t, 1, Capacity)
      BY <2>1 DEF Trim
    <3>3. QED
      BY <3>1, <3>2
  <2> HIDE DEF t
  <2>4. /\ SubSeq(t, 1, Capacity) \in Seq(Entry)
        /\ Len(SubSeq(t, 1, Capacity)) = Capacity
        /\ \A i \in 1..Capacity : SubSeq(t, 1, Capacity)[i] = t[i]
    BY <2>1
  <2>5. Put(s, node) \in Timelines
    BY <2>3, <2>4 DEF Timelines
  <2>6. QED
    BY <1>1, <2>2, <2>3, <2>4, <2>5
<1>2. CASE ~Advances(s, node) /\ RaisesHead(s, node)
  <2> DEFINE t == [s EXCEPT ![1] = [@ EXCEPT !.watermark = node.watermark]]
  <2>1. t \in Seq(Entry) /\ Len(t) = Capacity
    <3>1. [s[1] EXCEPT !.watermark = node.watermark] \in Entry
      BY <1>0 DEF Entry
    <3>2. QED
      BY <1>0, <3>1
  <2>2. /\ t[1].offset = s[1].offset
        /\ t[1].idle = s[1].idle
        /\ t[1].watermark = node.watermark
        /\ \A i \in 2..Capacity : t[i] = s[i]
    BY <1>0 DEF Entry
  <2>3. Put(s, node) = t
    <3>1. Put(s, node) = Trim(t)
      BY <1>2 DEF Put
    <3>2. Trim(t) = t
      BY <2>1 DEF Trim
    <3>3. QED
      BY <3>1, <3>2
  <2> HIDE DEF t
  <2>4. Put(s, node) \in Timelines
    BY <2>1, <2>3 DEF Timelines
  <2>5. QED
    BY <1>2, <2>2, <2>3, <2>4
<1>3. CASE ~Advances(s, node) /\ ~RaisesHead(s, node)
  <2>1. Put(s, node) = Trim(s)
    BY <1>3 DEF Put
  <2>2. Trim(s) = s
    BY <1>0 DEF Trim
  <2>3. QED
    BY <1>3, <2>1, <2>2
<1>4. QED
  BY <1>1, <1>2, <1>3

\* put leaves a timeline of which every entry is an old one, the new one, or the head at
\* the same offset with the new watermark.
LEMMA PutEntries ==
    ASSUME NEW s \in Timelines, NEW node \in Entry
    PROVE  /\ Put(s, node) \in Timelines
           /\ \A i \in 1..Capacity :
                \/ \E j \in 1..Capacity : Put(s, node)[i] = s[j]
                \/ Put(s, node)[i] = node
                \/ /\ Put(s, node)[i].offset = s[1].offset
                   /\ Put(s, node)[i].idle = s[1].idle
                   /\ Put(s, node)[i].watermark = node.watermark
                   /\ s[1].offset = node.offset
<1>1. \A i \in 1..Capacity : i = 1 \/ (i \in 2..Capacity /\ i - 1 \in 1..Capacity)
  BY CapacityAssumption
<1>2. RaisesHead(s, node) => s[1].offset = node.offset
  BY DEF RaisesHead
<1>3. QED
  BY <1>1, <1>2, PutCases

\* The position get_event_time finds, and its watermark.
LEMMA EventTimeFound ==
    ASSUME NEW s \in Timelines, NEW o \in Int
    PROVE  /\ GetEventTime(s, o) \in Wms
           /\ \/ GetEventTime(s, o) = -1 /\ \A j \in 1..Capacity : s[j].offset >= o
              \/ \E i \in 1..Capacity :
                   /\ s[i].offset < o
                   /\ GetEventTime(s, o) = s[i].watermark
                   /\ \A j \in 1..Capacity : s[j].offset < o => i <= j
<1>0. Len(s) = Capacity /\ -1 \in Wms
  BY VertexAssumption DEF Timelines, Wms
<1>1. CASE Before(s, o) = {}
  <2>1. \A j \in 1..Capacity : ~(s[j].offset < o)
    BY <1>0, <1>1 DEF Before
  <2>2. \A j \in 1..Capacity : s[j].offset >= o
    BY <2>1, EntryFields
  <2>3. QED
    BY <1>0, <1>1, <2>2 DEF GetEventTime
<1>2. CASE Before(s, o) # {}
  <2>1. Before(s, o) \subseteq Nat
    BY <1>0, CapacityAssumption DEF Before
  <2>2. \E i \in Before(s, o) : \A j \in Before(s, o) : i <= j
    BY <1>2, <2>1, LeastExists
  <2> DEFINE f == CHOOSE i \in Before(s, o) : \A j \in Before(s, o) : i <= j
  <2>3. f \in Before(s, o) /\ \A j \in Before(s, o) : f <= j
    BY <2>2
  <2>4. GetEventTime(s, o) = s[f].watermark
    BY <1>2 DEF GetEventTime
  <2> HIDE DEF f
  <2>5. f \in 1..Capacity /\ s[f].offset < o /\ \A j \in 1..Capacity : s[j].offset < o => f <= j
    BY <1>0, <2>3 DEF Before
  <2>6. s[f].watermark \in Wms
    BY <2>5, EntryFields
  <2>7. QED
    BY <2>4, <2>5, <2>6
<1>3. QED
  BY <1>1, <1>2

(***************************************************************************)
(* What the operators of the fetcher and of the tracker return.            *)
(***************************************************************************)

\* An idle head is the head of an active processor.
LEMMA HeadIdleIs ==
    ASSUME Types, Told, NEW k \in Parts, NEW h \in HeadIdle(k)
    PROVE  /\ h.offset \in 0..MaxIn /\ h.watermark \in Wms
           /\ h = NoWMB \/ \E p \in Active : h = tl[p][k][1] /\ h.idle /\ h.offset >= 1
<1>1. CASE h = NoWMB
  BY <1>1, VertexAssumption DEF NoWMB, Wms
<1>2. CASE h # NoWMB
  <2>1. PICK p \in Active : h = tl[p][k][1] /\ h.idle
    BY <1>2 DEF HeadIdle, HeadWMB
  <2>2. p \in Procs /\ 1 \in 1..Capacity /\ tl[p][k] \in Timelines
    BY CapacityAssumption DEF Active, Types, FetchTypes
  <2>3. h.offset >= 1 /\ h.offset \in -1..MaxIn /\ h.watermark \in Wms
    BY <2>1, <2>2, EntryFields DEF Told
  <2>4. h.offset \in 0..MaxIn
    BY <2>3, VertexAssumption
  <2>5. QED
    BY <2>1, <2>3, <2>4
<1>3. QED
  BY <1>1, <1>2

\* The least watermark of the known processors for the offset.
LEMMA EpochIs ==
    ASSUME Types, NEW k \in Parts, NEW o \in Int
    PROVE  /\ Epoch(k, o) \in Wms
           /\ \A p \in Known : Epoch(k, o) <= GetEventTime(tl[p][k], o)
           /\ Known # {} => \E p \in Known : Epoch(k, o) = GetEventTime(tl[p][k], o)
<1>1. CASE Known = {}
  BY <1>1 DEF Epoch, Types, FetchTypes
<1>2. CASE Known # {}
  <2> DEFINE S == {GetEventTime(tl[p][k], o) : p \in Known}
  <2>1. \A p \in Known : GetEventTime(tl[p][k], o) \in Wms
    <3> TAKE p \in Known
    <3>1. tl[p][k] \in Timelines
      BY DEF Known, Types, FetchTypes
    <3>2. QED
      BY <3>1, EventTimeFound
  <2>2. S \subseteq Wms /\ S # {}
    BY <1>2, <2>1
  <2>3. Min(S) \in Wms /\ Min(S) \in S /\ \A y \in S : Min(S) <= y
    BY <2>2, MinWm
  <2>4. Epoch(k, o) = Min(S)
    BY <1>2 DEF Epoch
  <2> HIDE DEF S
  <2>5. /\ \A p \in Known : GetEventTime(tl[p][k], o) \in S
        /\ \A y \in S : \E p \in Known : y = GetEventTime(tl[p][k], o)
    BY DEF S
  <2>6. QED
    BY <2>3, <2>4, <2>5
<1>3. QED
  BY <1>1, <1>2

\* The least of the partitions' watermarks.
LEMMA GetWatermarkIs ==
    ASSUME NEW wms \in [Parts -> Wms]
    PROVE  /\ GetWatermark(wms) \in Wms /\ \A j \in Parts : GetWatermark(wms) <= wms[j]
           /\ \E j \in Parts : GetWatermark(wms) = wms[j]
<1> DEFINE S == {wms[j] : j \in Parts}
<1>1. S \subseteq Wms /\ S # {}
  BY VertexAssumption
<1>2. Min(S) \in Wms /\ Min(S) \in S /\ \A y \in S : Min(S) <= y
  BY <1>1, MinWm
<1>3. GetWatermark(wms) = Min(S)
  BY DEF GetWatermark
<1> HIDE DEF S
<1>4. (\A j \in Parts : wms[j] \in S) /\ \A y \in S : \E j \in Parts : y = wms[j]
  BY DEF S
<1>5. QED
  BY <1>2, <1>3, <1>4

\* The tracker's answer is the watermark of some tracked message, or -1.
LEMMA LowestIs ==
    ASSUME Types
    PROVE  /\ LowestWatermark \in Wms
           /\ \/ LowestWatermark = -1 /\ \A k \in Parts : InFlight(k) = {}
              \/ \E k \in Parts : \E o \in InFlight(k) :
                    /\ LowestWatermark = trk[k][o]
                    /\ \A m \in InFlight(k) : o <= m
<1> DEFINE K == {j \in Parts : InFlight(j) # {}}
           S == {trk[k][Min(InFlight(k))] : k \in K}
<1>1. \A k \in K : /\ Min(InFlight(k)) \in InFlight(k)
                   /\ \A m \in InFlight(k) : Min(InFlight(k)) <= m
                   /\ trk[k][Min(InFlight(k))] \in Wms
  <2> TAKE k \in K
  <2>1. InFlight(k) \subseteq InOffsets /\ InFlight(k) # {}
    BY DEF InFlight
  <2>2. Min(InFlight(k)) \in InFlight(k) /\ \A m \in InFlight(k) : Min(InFlight(k)) <= m
    BY <2>1, MinOffset
  <2>3. \A o \in InFlight(k) : trk[k][o] \in Wms
    <3> TAKE o \in InFlight(k)
    <3>1. trk[k][o] \in -2..MaxWm /\ trk[k][o] # -2
      BY DEF InFlight, Types, WorkTypes, Untracked
    <3>2. QED
      BY <3>1, VertexAssumption DEF Wms
  <2>4. QED
    BY <2>2, <2>3
<1>2. LowestWatermark = IF S = {} THEN -1 ELSE Min(S)
  BY DEF LowestWatermark
<1>3. S \subseteq Wms
  BY <1>1
<1>4. CASE S = {}
  BY <1>2, <1>4, VertexAssumption DEF Wms
<1>5. CASE S # {}
  <2>1. Min(S) \in Wms /\ Min(S) \in S
    BY <1>3, <1>5, MinWm
  <2>2. PICK k \in K : Min(S) = trk[k][Min(InFlight(k))]
    BY <2>1
  <2>3. QED
    BY <1>1, <1>2, <1>5, <2>1, <2>2
<1>6. QED
  BY <1>4, <1>5

(***************************************************************************)
(* The invariant under every hazard.                                       *)
(***************************************************************************)

\* The first entry of a warm pod.
LEMMA WarmIs ==
    /\ NewTimeline \in Timelines /\ \A i \in 1..Capacity : NewTimeline[i] = DefaultWMB
    /\ WarmTimeline \in Timelines
    /\ \A i \in 1..Capacity : /\ WarmTimeline[i].offset <= 0 /\ WarmTimeline[i].watermark <= 0
                              /\ ~WarmTimeline[i].idle
<1> DEFINE node == [offset |-> 0, watermark |-> 0, idle |-> FALSE]
<1>1. DefaultWMB \in Entry /\ node \in Entry
  BY VertexAssumption DEF DefaultWMB, Entry, Wms
<1>2. NewTimeline \in Timelines /\ \A i \in 1..Capacity : NewTimeline[i] = DefaultWMB
  BY <1>1, CapacityAssumption DEF NewTimeline, Timelines
<1>3. WarmTimeline = Put(NewTimeline, node)
  BY DEF WarmTimeline
<1> HIDE DEF node
<1>4. /\ WarmTimeline \in Timelines
      /\ \A i \in 1..Capacity :
           \/ \E j \in 1..Capacity : WarmTimeline[i] = NewTimeline[j]
           \/ WarmTimeline[i] = node
           \/ NewTimeline[1].offset = node.offset
  BY <1>1, <1>2, <1>3, PutEntries
<1>5. /\ DefaultWMB.offset = -1 /\ DefaultWMB.watermark = -1 /\ DefaultWMB.idle = FALSE
      /\ node.offset = 0 /\ node.watermark = 0 /\ node.idle = FALSE
  BY DEF DefaultWMB, node
<1>6. NewTimeline[1].offset = -1
  BY <1>2, <1>5, CapacityAssumption
<1>7. QED
  BY <1>2, <1>4, <1>5, <1>6

\* It holds at first.
LEMMA GInit == Init => GInv
<1> SUFFICES ASSUME Init PROVE GInv
  OBVIOUS
<1> USE VertexAssumption
<1>1. UpTypes
  <2>1. <<>> \in Seq(Msg)
    OBVIOUS
  <2>2. QED
    BY <2>1 DEF Init, UpTypes
<1>2. FetchTypes
  BY WarmIs DEF Init, FetchTypes, Stati, Wms
<1>3. ReadTypes
  BY DEF Init, ReadTypes, Places, Wms, InOffsets, None
<1>4. WorkTypes
  BY DEF Init, WorkTypes, Untracked
<1>5. PubTypes
  <2>1. <<>> \in Seq(OutMsg) /\ Len(<<>>) = 0
    OBVIOUS
  <2>2. QED
    BY <2>1 DEF Init, PubTypes, Wms, None
<1>6. TickTypes
  BY DEF Init, TickTypes, Wms, None
<1>7. Told
  <2>1. ASSUME NEW p \in Procs, NEW k \in Parts, NEW i \in 1..Capacity
        PROVE  /\ tl[p][k][i].watermark <= promise[p]
               /\ tl[p][k][i].offset <= Len(in[k])
               /\ ~tl[p][k][i].idle
               /\ 1..Len(in[k]) = {}
    <3>1. Len(in[k]) = 0 /\ promise[p] = 0 /\ tl[p][k] \in {NewTimeline, WarmTimeline}
      BY DEF Init
    <3>2. DefaultWMB.offset = -1 /\ DefaultWMB.watermark = -1 /\ DefaultWMB.idle = FALSE
      BY DEF DefaultWMB
    <3>3. QED
      BY <3>1, <3>2, WarmIs
  <2>2. QED
    BY <2>1, Zenon DEF Told
<1>8. Reach
  BY DEF Init, Reach, InFlight, Busy
<1>9. SentOld
  BY DEF Init, SentOld
<1>10. QED
  BY <1>1, <1>2, <1>3, <1>4, <1>5, <1>6, <1>7, <1>8, <1>9 DEF GInv, Types

\* What a write of upstream does to the partitions.
LEMMA InGrows ==
    ASSUME GInv, NEW p \in Procs, NEW k \in Parts, NEW f \in 0..MaxWm, NEW c \in BOOLEAN,
           UpWrite(p, k, f, c)
    PROVE  /\ in' \in [Parts -> Seq(Msg)]
           /\ \A q \in Parts :
                /\ Len(in'[q]) \in Nat /\ Len(in[q]) \in Nat
                /\ Len(in[q]) <= Len(in'[q]) /\ Len(in'[q]) <= MaxIn
                /\ \A i \in 1..Len(in[q]) : in'[q][i] = in[q][i]
                /\ \A i \in 1..Len(in'[q]) :
                      \/ i \in 1..Len(in[q])
                      \/ in'[q][i] = [proc |-> p, floor |-> f, ctrl |-> c]
<1> DEFINE m == [proc |-> p, floor |-> f, ctrl |-> c]
<1>1. m \in Msg
  BY DEF Msg
<1>2. in \in [Parts -> Seq(Msg)] /\ in' = [in EXCEPT ![k] = Append(in[k], m)] /\ Len(in[k]) < MaxIn
  BY DEF GInv, Types, UpTypes, UpWrite
<1> HIDE DEF m
<1>3. /\ Append(in[k], m) \in Seq(Msg) /\ Len(Append(in[k], m)) = Len(in[k]) + 1
      /\ \A i \in 1..Len(in[k]) : Append(in[k], m)[i] = in[k][i]
      /\ Append(in[k], m)[Len(in[k]) + 1] = m
  BY <1>1, <1>2
<1>4. in' \in [Parts -> Seq(Msg)]
  BY <1>2, <1>3
<1>5. \A q \in Parts : Len(in[q]) \in Nat /\ Len(in[q]) <= MaxIn
  BY <1>2 DEF GInv, Reach
<1>6. \A q \in Parts : q # k => in'[q] = in[q]
  BY <1>2
<1>7. in'[k] = Append(in[k], m)
  BY <1>2
<1>a. \A n \in Nat : \A i \in 1..(n + 1) : i \in 1..n \/ i = n + 1
  OBVIOUS
<1>8. \A q \in Parts :
        /\ Len(in'[q]) \in Nat /\ Len(in[q]) \in Nat
        /\ Len(in[q]) <= Len(in'[q]) /\ Len(in'[q]) <= MaxIn
        /\ \A i \in 1..Len(in[q]) : in'[q][i] = in[q][i]
        /\ \A i \in 1..Len(in'[q]) : i \in 1..Len(in[q]) \/ in'[q][i] = m
  <2> TAKE q \in Parts
  <2>1. CASE q # k
    BY <1>5, <1>6, <2>1
  <2>2. CASE q = k
    <3>1. Len(in[k]) + 1 <= MaxIn
      BY <1>2, <1>5, VertexAssumption
    <3>2. QED
      BY <1>3, <1>5, <1>7, <1>a, <2>2, <3>1
  <2>3. QED
    BY <2>1, <2>2
<1>9. QED
  BY <1>4, <1>8 DEF m

\* A message upstream writes is not below what it has promised, so Told stays true.
LEMMA GUpWrite ==
    ASSUME GInv, NEW p \in Procs, NEW k \in Parts, NEW f \in 0..MaxWm, NEW c \in BOOLEAN,
           UpWrite(p, k, f, c)
    PROVE  GInv'
<1> DEFINE m == [proc |-> p, floor |-> f, ctrl |-> c]
<1>0. promise[p] <= f
  BY DEF UpWrite, GInv, Types, UpTypes
<1>1. UNCHANGED <<promise, fetchVars, readVars, workVars, pubVars, tickVars>>
  BY DEF UpWrite
<1>2. /\ in' \in [Parts -> Seq(Msg)]
      /\ \A q \in Parts :
           /\ Len(in'[q]) \in Nat /\ Len(in[q]) \in Nat
           /\ Len(in[q]) <= Len(in'[q]) /\ Len(in'[q]) <= MaxIn
           /\ \A i \in 1..Len(in[q]) : in'[q][i] = in[q][i]
           /\ \A i \in 1..Len(in'[q]) : i \in 1..Len(in[q]) \/ in'[q][i] = m
  BY InGrows
<1>3. Types'
  BY <1>1, <1>2 DEF GInv, Types, UpTypes, FetchTypes, ReadTypes, WorkTypes, PubTypes, TickTypes,
       fetchVars, readVars, workVars, pubVars, tickVars
<1>4. Told'
  <2> SUFFICES ASSUME NEW r \in Procs, NEW q \in Parts, NEW i \in 1..Capacity
               PROVE  /\ tl[r][q][i].watermark <= promise[r]
                      /\ tl[r][q][i].offset <= Len(in'[q])
                      /\ tl[r][q][i].idle => tl[r][q][i].offset >= 1
                      /\ \A j \in 1..Len(in'[q]) :
                            j > tl[r][q][i].offset /\ in'[q][j].proc = r /\ ~in'[q][j].ctrl
                               => tl[r][q][i].watermark <= in'[q][j].floor
    BY <1>1, Zenon DEF Told, fetchVars
  <2>1. tl[r][q][i].watermark \in Int /\ tl[r][q][i].offset \in Int
    BY EntryFields DEF GInv, Types, FetchTypes
  <2>2. /\ tl[r][q][i].watermark <= promise[r]
        /\ tl[r][q][i].offset <= Len(in[q])
        /\ tl[r][q][i].idle => tl[r][q][i].offset >= 1
        /\ \A j \in 1..Len(in[q]) :
              j > tl[r][q][i].offset /\ in[q][j].proc = r /\ ~in[q][j].ctrl
                 => tl[r][q][i].watermark <= in[q][j].floor
    BY DEF GInv, Told
  <2>3. promise[r] \in Int /\ f \in Int
    BY VertexAssumption DEF GInv, Types, UpTypes
  <2>4. tl[r][q][i].offset <= Len(in'[q])
    BY <1>2, <2>1, <2>2
  <2>5. m.proc = p /\ m.floor = f
    OBVIOUS
  <2> HIDE DEF m
  <2>6. r = p => tl[r][q][i].watermark <= m.floor
    BY <1>0, <2>1, <2>2, <2>3, <2>5
  <2>7. QED
    BY <1>2, <2>2, <2>4, <2>5, <2>6
<1>5. Reach'
  <2> SUFFICES ASSUME NEW q \in Parts
               PROVE  /\ Len(in'[q]) <= MaxIn /\ unread[q] \in 1..Len(in'[q])+1
                      /\ nacked[q] \cup InFlight(q) \subseteq 1..Len(in'[q])
                      /\ Busy(q) => cur[q] \in 1..Len(in'[q])
    BY <1>1 DEF Reach, readVars, workVars, InFlight, Busy
  <2>1. /\ unread[q] \in 1..Len(in[q])+1
        /\ nacked[q] \cup InFlight(q) \subseteq 1..Len(in[q])
        /\ Busy(q) => cur[q] \in 1..Len(in[q])
    BY DEF GInv, Reach
  <2>2. 1..Len(in[q]) \subseteq 1..Len(in'[q]) /\ 1..Len(in[q])+1 \subseteq 1..Len(in'[q])+1
    BY <1>2
  <2>3. QED
    BY <1>2, <2>1, <2>2
<1>6. SentOld'
  BY <1>1 DEF GInv, SentOld, pubVars
<1>7. QED
  BY <1>3, <1>4, <1>5, <1>6 DEF GInv

\* An observed WMB is right, so the entries of the timeline stay right.
LEMMA GObserve ==
    ASSUME GInv, NEW p \in Procs, NEW k \in Parts, NEW o \in InOffsets, NEW w \in 0..MaxWm,
           NEW i \in BOOLEAN, Observe(p, k, o, w, i)
    PROVE  GInv'
<1> USE VertexAssumption
<1> DEFINE node == [offset |-> o, watermark |-> w, idle |-> i]
<1>0. o \in Int /\ w \in Int /\ o >= 1 /\ o \in 1..Len(in[k])
  BY DEF InOffsets, Observe
<1>1. node \in Entry /\ node.offset = o /\ node.watermark = w
  BY DEF Entry, Wms, InOffsets
<1>2. /\ tl' = [tl EXCEPT ![p][k] = Put(tl[p][k], node)]
      /\ promise' = [promise EXCEPT ![p] = IF w > promise[p] THEN w ELSE promise[p]]
      /\ status' = [status EXCEPT ![p] = IF status[p] = "deleted" THEN status[p] ELSE "active"]
      /\ UNCHANGED <<in, last, readVars, workVars, pubVars, tickVars>>
  BY DEF Observe
<1> HIDE DEF node
<1>3. /\ tl \in [Procs -> [Parts -> Timelines]] /\ promise \in [Procs -> 0..MaxWm]
      /\ in \in [Parts -> Seq(Msg)] /\ status \in [Procs -> Stati] /\ last \in [Parts -> Wms]
  BY DEF GInv, Types, UpTypes, FetchTypes
<1>4. /\ Put(tl[p][k], node) \in Timelines
      /\ \A e \in 1..Capacity :
           \/ \E j \in 1..Capacity : Put(tl[p][k], node)[e] = tl[p][k][j]
           \/ Put(tl[p][k], node)[e] = node
           \/ /\ Put(tl[p][k], node)[e].offset = tl[p][k][1].offset
              /\ Put(tl[p][k], node)[e].idle = tl[p][k][1].idle
              /\ Put(tl[p][k], node)[e].watermark = node.watermark
              /\ tl[p][k][1].offset = node.offset
  <2>1. tl[p][k] \in Timelines
    BY <1>3
  <2>2. QED
    BY <1>1, <2>1, PutEntries
<1>5. promise' \in [Procs -> 0..MaxWm] /\ promise'[p] >= w /\ \A q \in Procs : promise'[q] >= promise[q]
  BY <1>2, <1>3
<1>6. Types'
  <2>1. tl' \in [Procs -> [Parts -> Timelines]]
    BY <1>2, <1>3, <1>4
  <2>2. status' \in [Procs -> Stati]
    BY <1>2, <1>3 DEF Stati
  <2>3. UpTypes' /\ FetchTypes'
    BY <1>2, <1>3, <1>5, <2>1, <2>2 DEF UpTypes, FetchTypes
  <2>4. ReadTypes' /\ WorkTypes' /\ PubTypes' /\ TickTypes'
    BY <1>2 DEF GInv, Types, ReadTypes, WorkTypes, PubTypes, TickTypes, readVars, workVars, pubVars, tickVars
  <2>5. QED
    BY <2>3, <2>4 DEF Types
<1>7. Told'
  <2> SUFFICES ASSUME NEW q \in Procs, NEW r \in Parts, NEW e \in 1..Capacity
               PROVE  /\ tl'[q][r][e].watermark <= promise'[q]
                      /\ tl'[q][r][e].offset <= Len(in[r])
                      /\ tl'[q][r][e].idle => tl'[q][r][e].offset >= 1
                      /\ \A j \in 1..Len(in[r]) :
                            j > tl'[q][r][e].offset /\ in[r][j].proc = q /\ ~in[r][j].ctrl
                               => tl'[q][r][e].watermark <= in[r][j].floor
    BY <1>2, Zenon DEF Told
  <2>0. promise[q] \in Int /\ promise'[q] \in Int /\ promise[q] <= promise'[q]
    BY <1>3, <1>5
  <2>1. ASSUME NEW j \in 1..Capacity, tl'[q][r][e] = tl[q][r][j]
        PROVE  /\ tl'[q][r][e].watermark <= promise'[q]
               /\ tl'[q][r][e].offset <= Len(in[r])
               /\ tl'[q][r][e].idle => tl'[q][r][e].offset >= 1
               /\ \A l \in 1..Len(in[r]) :
                     l > tl'[q][r][e].offset /\ in[r][l].proc = q /\ ~in[r][l].ctrl
                        => tl'[q][r][e].watermark <= in[r][l].floor
    <3>1. tl[q][r][j].watermark \in Int
      BY <1>3, EntryFields
    <3>2. /\ tl[q][r][j].watermark <= promise[q]
          /\ tl[q][r][j].offset <= Len(in[r])
          /\ tl[q][r][j].idle => tl[q][r][j].offset >= 1
          /\ \A l \in 1..Len(in[r]) :
                l > tl[q][r][j].offset /\ in[r][l].proc = q /\ ~in[r][l].ctrl
                   => tl[q][r][j].watermark <= in[r][l].floor
      BY DEF GInv, Told
    <3>3. tl[q][r][j].watermark <= promise'[q]
      BY <2>0, <3>1, <3>2
    <3>4. QED
      BY <2>1, <3>2, <3>3
  <2>2. CASE q = p /\ r = k
    <3>1. tl'[q][r] = Put(tl[p][k], node)
      BY <1>2, <1>3, <2>2
    <3>2. ASSUME tl'[q][r][e].offset = o, tl'[q][r][e].watermark = w
          PROVE  /\ tl'[q][r][e].watermark <= promise'[q]
                 /\ tl'[q][r][e].offset <= Len(in[r])
                 /\ tl'[q][r][e].idle => tl'[q][r][e].offset >= 1
                 /\ \A l \in 1..Len(in[r]) :
                       l > tl'[q][r][e].offset /\ in[r][l].proc = q /\ ~in[r][l].ctrl
                          => tl'[q][r][e].watermark <= in[r][l].floor
      <4>1. Len(in[k]) \in Nat /\ \A l \in 1..Len(in[k]) : in[k][l].floor \in Int
        <5>1. Len(in[k]) \in Nat /\ \A l \in 1..Len(in[k]) : in[k][l] \in Msg
          BY <1>3
        <5>2. \A x \in Msg : x.floor \in Int
          BY DEF Msg
        <5>3. QED
          BY <5>1, <5>2
      <4>2. \A l \in o+1..Len(in[k]) : in[k][l].proc = p /\ ~in[k][l].ctrl => w <= in[k][l].floor
        <5>1. \A l \in o+1..Len(in[k]) : in[k][l].floor \in Int
          BY <1>0, <4>1
        <5>2. QED
          BY <1>0, <5>1 DEF Observe, Right
      <4>3. \A l \in 1..Len(in[k]) : l > o => l \in o+1..Len(in[k])
        BY <1>0, <4>1
      <4>4. o <= Len(in[k]) /\ w <= promise'[p]
        BY <1>0, <1>5, <2>0, <2>2, <4>1
      <4>5. QED
        BY <1>0, <2>2, <3>2, <4>2, <4>3, <4>4
    <3>3. CASE \E j \in 1..Capacity : tl'[q][r][e] = tl[q][r][j]
      BY <2>1, <3>3, Zenon
    <3>4. QED
      BY <1>1, <1>4, <2>2, <3>1, <3>2, <3>3
  <2>3. CASE ~(q = p /\ r = k)
    <3>1. tl'[q][r] = tl[q][r]
      BY <1>2, <1>3, <2>3
    <3>2. QED
      BY <2>1, <3>1
  <2>4. QED
    BY <2>2, <2>3
<1>8. Reach'
  BY <1>2 DEF GInv, Reach, readVars, workVars, InFlight, Busy
<1>9. SentOld'
  BY <1>2 DEF GInv, SentOld, pubVars
<1>10. QED
  BY <1>6, <1>7, <1>8, <1>9 DEF GInv

\* Told is about the partitions, the promises and the timelines.
LEMMA ToldKept ==
    ASSUME Told, UNCHANGED <<in, promise, tl>>
    PROVE  Told'
BY Zenon DEF Told

\* Reach is about the partitions, what the readers hold and what is tracked.
LEMMA ReachKept ==
    ASSUME Reach, UNCHANGED <<in, readVars, trk>>
    PROVE  Reach'
BY DEF Reach, readVars, InFlight, Busy

\* The manager changes the status of a processor and nothing else.
LEMMA GRefresh ==
    ASSUME GInv, NEW p \in Procs, Refresh(p)
    PROVE  GInv'
<1>1. UNCHANGED <<upVars, tl, last, readVars, workVars, pubVars, tickVars>>
  BY DEF Refresh
<1>2. status' \in [Procs -> Stati]
  BY DEF Refresh, GInv, Types, FetchTypes, Stati
<1>3. Types'
  BY <1>1, <1>2 DEF GInv, Types, UpTypes, FetchTypes, ReadTypes, WorkTypes, PubTypes, TickTypes,
       upVars, readVars, workVars, pubVars, tickVars
<1>4. Told' /\ Reach'
  BY <1>1, ToldKept, ReachKept DEF GInv, upVars, workVars
<1>5. SentOld'
  BY <1>1 DEF GInv, SentOld, pubVars
<1>6. QED
  BY <1>3, <1>4, <1>5 DEF GInv

\* The reader's actions apart from the fetch of a watermark.
LEMMA GRead ==
    ASSUME GInv, NEW k \in Parts,
           \/ FetchEmpty(k) \/ NoteBusy(k) \/ SkipCtrl(k)
           \/ \E o \in InOffsets : FetchMessage(k, o)
    PROVE  GInv'
<1> USE VertexAssumption
<1>0. UNCHANGED <<upVars, fetchVars, workVars, pubVars, tickVars>>
  BY DEF FetchEmpty, NoteBusy, SkipCtrl, FetchMessage
<1>1. UpTypes' /\ FetchTypes' /\ WorkTypes' /\ PubTypes' /\ TickTypes' /\ Told' /\ SentOld'
  BY <1>0, ToldKept DEF GInv, Types, UpTypes, FetchTypes, WorkTypes, PubTypes, TickTypes, SentOld,
       upVars, fetchVars, workVars, pubVars, tickVars
<1>2. ReadTypes /\ Reach /\ in \in [Parts -> Seq(Msg)]
  BY DEF GInv, Types, UpTypes
<1>3. /\ in' = in /\ trk' = trk
      /\ \A q \in Parts : Len(in[q]) \in Nat
  BY <1>0, <1>2 DEF upVars, workVars
<1>4. CASE FetchEmpty(k)
  <2>1. ReadTypes'
    BY <1>2, <1>4 DEF FetchEmpty, ReadTypes, Places
  <2>2. UNCHANGED <<unread, nacked>> /\ \A q \in Parts : Busy(q)' => Busy(q) /\ cur'[q] = cur[q]
    BY <1>2, <1>4 DEF FetchEmpty, ReadTypes, Places, Busy
  <2>3. Reach'
    BY <1>2, <1>3, <2>2 DEF Reach, InFlight
  <2>4. QED
    BY <1>1, <2>1, <2>3 DEF GInv, Types
<1>5. CASE NoteBusy(k)
  <2>1. ReadTypes'
    BY <1>2, <1>5 DEF NoteBusy, ReadTypes, Places, None
  <2>2. UNCHANGED <<unread, nacked>> /\ \A q \in Parts : Busy(q)' => Busy(q) /\ cur'[q] = cur[q]
    BY <1>2, <1>5 DEF NoteBusy, ReadTypes, Places, Busy
  <2>3. Reach'
    BY <1>2, <1>3, <2>2 DEF Reach, InFlight
  <2>4. QED
    BY <1>1, <2>1, <2>3 DEF GInv, Types
<1>6. CASE SkipCtrl(k)
  <2>1. ReadTypes'
    BY <1>2, <1>6 DEF SkipCtrl, ReadTypes, Places
  <2>2. UNCHANGED <<unread, nacked>> /\ \A q \in Parts : Busy(q)' => Busy(q) /\ cur'[q] = cur[q]
    BY <1>2, <1>6 DEF SkipCtrl, ReadTypes, Places, Busy
  <2>3. Reach'
    BY <1>2, <1>3, <2>2 DEF Reach, InFlight
  <2>4. QED
    BY <1>1, <2>1, <2>3 DEF GInv, Types
<1>7. ASSUME NEW o \in InOffsets, FetchMessage(k, o)
      PROVE  GInv'
  <2>1. o \in 1..Len(in[k])
    BY <1>2, <1>3, <1>7 DEF FetchMessage, Reach, InOffsets
  <2>2. o \in 0..MaxIn
    BY DEF InOffsets
  <2>3. ReadTypes'
    BY <1>2, <1>7, <2>2 DEF FetchMessage, ReadTypes, Places
  <2>4. Reach'
    <3> SUFFICES ASSUME NEW q \in Parts
                 PROVE  /\ unread'[q] \in 1..Len(in[q])+1
                        /\ nacked'[q] \subseteq nacked[q]
                        /\ Busy(q)' => cur'[q] \in 1..Len(in[q])
      BY <1>2, <1>3 DEF Reach, InFlight
    <3>1. CASE q = k
      BY <1>2, <1>3, <1>7, <2>1, <3>1 DEF FetchMessage, ReadTypes, Reach, Busy
    <3>2. CASE q # k
      BY <1>2, <1>3, <1>7, <3>2 DEF FetchMessage, ReadTypes, Reach, Busy
    <3>3. QED
      BY <3>1, <3>2
  <2>5. QED
    BY <1>1, <2>3, <2>4 DEF GInv, Types
<1>8. QED
  BY <1>4, <1>5, <1>6, <1>7

\* A noted offset is that of a head, hence in the range of offsets.
LEMMA GNoteIdle ==
    ASSUME GInv, NEW k \in Parts, NoteIdle(k)
    PROVE  GInv'
<1>0. UNCHANGED <<upVars, status, tl, cur, val, unread, nacked, workVars, pubVars, tickVars>>
  BY DEF NoteIdle
<1>1. PICK h \in HeadIdle(k) : /\ idle' = [idle EXCEPT ![k] = h.offset]
                               /\ last' = [last EXCEPT ![k] = IF h = NoWMB THEN @ ELSE h.watermark]
  BY DEF NoteIdle
<1>2. h.offset \in 0..MaxIn /\ h.watermark \in Wms
  BY HeadIdleIs DEF GInv
<1>3. rd[k] = "empty" /\ rd' = [rd EXCEPT ![k] = "fetch"]
  BY DEF NoteIdle
<1>4. Types'
  BY <1>0, <1>1, <1>2, <1>3 DEF GInv, Types, UpTypes, FetchTypes, ReadTypes, WorkTypes, PubTypes, TickTypes,
       upVars, workVars, pubVars, tickVars, Places
<1>5. Told' /\ SentOld'
  BY <1>0, ToldKept DEF GInv, upVars, SentOld, pubVars
<1>6. Reach'
  BY <1>0, <1>3 DEF GInv, Types, ReadTypes, Reach, upVars, workVars, Busy, InFlight
<1>7. QED
  BY <1>4, <1>5, <1>6 DEF GInv

\* fetch_watermark: processors may go; what it returns is in order.
LEMMA GEnrich ==
    ASSUME GInv, NEW k \in Parts, Enrich(k)
    PROVE  /\ GInv'
           /\ val'[k] <= Epoch(k, cur[k])
           /\ last'[k] = Epoch(k, cur[k]) /\ val'[k] = GetWatermark(last') /\ last' \in [Parts -> Wms]
<1> USE VertexAssumption
<1>0. UNCHANGED <<upVars, cur, unread, nacked, idle, workVars, pubVars, tickVars>>
  BY DEF Enrich
<1>1. rd[k] = "enrich" /\ rd' = [rd EXCEPT ![k] = "insert"]
  BY DEF Enrich
<1> DEFINE gone == {p \in Known : status[p] = "deleted" /\ cur[k] > HeadOffset(p)}
<1>2. /\ last' = [last EXCEPT ![k] = Epoch(k, cur[k])]
      /\ status' = [p \in Procs |-> IF p \in gone THEN "absent" ELSE status[p]]
      /\ tl' = [p \in Procs |-> IF p \in gone THEN [j \in Parts |-> NewTimeline] ELSE tl[p]]
      /\ val' = [val EXCEPT ![k] = GetWatermark(last')]
  BY DEF Enrich, FetchWatermark
<1> HIDE DEF gone
<1>3. ReadTypes /\ FetchTypes /\ UpTypes /\ Reach /\ Told /\ Types
  BY DEF GInv, Types
<1>4. cur[k] \in Int
  BY <1>3 DEF ReadTypes
<1>5. Epoch(k, cur[k]) \in Wms
  BY <1>3, <1>4, EpochIs
<1>6. last' \in [Parts -> Wms] /\ last'[k] = Epoch(k, cur[k])
  BY <1>2, <1>3, <1>5 DEF FetchTypes
<1>7. GetWatermark(last') \in Wms /\ GetWatermark(last') <= last'[k]
  BY <1>6, GetWatermarkIs
<1>8. val' \in [Parts -> Wms] /\ val'[k] = GetWatermark(last')
  BY <1>2, <1>3, <1>7 DEF ReadTypes
<1>9. FetchTypes'
  BY <1>2, <1>3, <1>6, WarmIs DEF FetchTypes, Stati
<1>10. ReadTypes'
  BY <1>0, <1>1, <1>3, <1>8 DEF ReadTypes, Places
<1>11. Types'
  BY <1>0, <1>9, <1>10 DEF GInv, Types, UpTypes, WorkTypes, PubTypes, TickTypes,
       upVars, workVars, pubVars, tickVars
<1>12. Told'
  <2> SUFFICES ASSUME NEW q \in Procs, NEW r \in Parts, NEW e \in 1..Capacity
               PROVE  /\ tl'[q][r][e].watermark <= promise[q]
                      /\ tl'[q][r][e].offset <= Len(in[r])
                      /\ tl'[q][r][e].idle => tl'[q][r][e].offset >= 1
                      /\ \A j \in 1..Len(in[r]) :
                            j > tl'[q][r][e].offset /\ in[r][j].proc = q /\ ~in[r][j].ctrl
                               => tl'[q][r][e].watermark <= in[r][j].floor
    BY <1>0, Zenon DEF Told, upVars
  <2>1. CASE q \in gone
    <3>1. tl'[q][r][e] = DefaultWMB
      BY <1>2, <2>1, WarmIs
    <3>2. DefaultWMB.offset = -1 /\ DefaultWMB.watermark = -1 /\ DefaultWMB.idle = FALSE
      BY DEF DefaultWMB
    <3>3. in[r] \in Seq(Msg) /\ promise[q] \in 0..MaxWm
      BY <1>3 DEF UpTypes
    <3>4. \A j \in 1..Len(in[r]) : in[r][j].floor \in 0..MaxWm
      <4>1. \A j \in 1..Len(in[r]) : in[r][j] \in Msg
        BY <3>3
      <4>2. \A x \in Msg : x.floor \in 0..MaxWm
        BY DEF Msg
      <4>3. QED
        BY <4>1, <4>2
    <3>5. Len(in[r]) \in Nat
      BY <3>3
    <3>6. \A x \in 0..MaxWm : -1 <= x
      OBVIOUS
    <3>7. QED
      BY <3>1, <3>2, <3>3, <3>4, <3>5, <3>6
  <2>2. CASE q \notin gone
    <3>1. tl'[q][r][e] = tl[q][r][e]
      BY <1>2, <2>2
    <3>2. QED
      BY <1>3, <3>1 DEF Told
  <2>3. QED
    BY <2>1, <2>2
<1>13. Reach'
  BY <1>0, <1>1, <1>3 DEF ReadTypes, Reach, upVars, workVars, Busy, InFlight
<1>14. SentOld'
  BY <1>0 DEF GInv, SentOld, pubVars
<1>15. QED
  BY <1>6, <1>7, <1>8, <1>11, <1>12, <1>13, <1>14 DEF GInv

\* The tracked message is one the reader held.
LEMMA GTrack ==
    ASSUME GInv, NEW k \in Parts, Track(k)
    PROVE  GInv'
<1> USE VertexAssumption
<1>0. UNCHANGED <<upVars, fetchVars, unread, nacked, idle, pubVars, tickVars>>
  BY DEF Track
<1>1. /\ rd[k] = "insert" /\ rd' = [rd EXCEPT ![k] = "fetch"]
      /\ trk' = [trk EXCEPT ![k][cur[k]] = val[k]] /\ wr' = [wr EXCEPT ![k][cur[k]] = 0]
      /\ cur' = [cur EXCEPT ![k] = 0] /\ val' = [val EXCEPT ![k] = -1]
  BY DEF Track
<1>2. ReadTypes /\ WorkTypes /\ UpTypes /\ Reach
  BY DEF GInv, Types
<1>3. ReadTypes'
  BY <1>0, <1>1, <1>2 DEF ReadTypes, Places, Wms
<1>4. WorkTypes'
  <2>1. val[k] \in -2..MaxWm
    BY <1>2 DEF ReadTypes, Wms
  <2>2. trk' \in [Parts -> [InOffsets -> -2..MaxWm]]
    BY <1>1, <1>2, <2>1 DEF WorkTypes
  <2>3. 0 \in -1..MaxOut
    OBVIOUS
  <2>4. wr' \in [Parts -> [InOffsets -> -1..MaxOut]]
    BY <1>1, <1>2, <2>3 DEF WorkTypes
  <2>5. QED
    BY <2>2, <2>4 DEF WorkTypes
<1>5. Types'
  BY <1>0, <1>3, <1>4 DEF GInv, Types, UpTypes, FetchTypes, PubTypes, TickTypes,
       upVars, fetchVars, pubVars, tickVars
<1>6. cur[k] \in 1..Len(in[k])
  BY <1>1, <1>2 DEF Reach, Busy
<1>7. \A q \in Parts : InFlight(q)' \subseteq 1..Len(in[q])
  <2> TAKE q \in Parts
  <2>1. \A o \in InOffsets : trk'[q][o] = trk[q][o] \/ (q = k /\ o = cur[k])
    BY <1>1, <1>2 DEF WorkTypes
  <2>2. InFlight(q) \subseteq 1..Len(in[q])
    BY <1>2 DEF Reach
  <2>3. QED
    BY <1>6, <2>1, <2>2 DEF InFlight
<1>8. Reach'
  BY <1>0, <1>1, <1>2, <1>7 DEF ReadTypes, Reach, upVars, Busy
<1>9. Told' /\ SentOld'
  BY <1>0, ToldKept DEF GInv, upVars, fetchVars, SentOld, pubVars
<1>10. QED
  BY <1>5, <1>8, <1>9 DEF GInv

\* publish_watermark: what is sent is what LastPublishedState has become, or what it was.
LEMMA PublishToIs ==
    ASSUME PubTypes, SentOld, NEW o \in -1..MaxOut, NEW w \in Wms, NEW i \in BOOLEAN,
           PublishTo(o, w, i)
    PROVE  /\ lp' \in [offset : -1..MaxOut, watermark : Wms]
           /\ sent' \in [offset : -1..MaxOut, watermark : Wms, idle : BOOLEAN]
           /\ lp'.offset = Larger(lp.offset, o) /\ lp'.watermark = Larger(lp.watermark, w)
           /\ \/ sent' = sent
              \/ sent'.offset = lp'.offset /\ sent'.watermark = lp'.watermark
           /\ sent'.offset <= lp'.offset /\ sent'.watermark <= lp'.watermark
           /\ sent'.offset >= sent.offset /\ sent'.watermark >= sent.watermark
<1> USE VertexAssumption
<1>1. /\ lp.offset \in -1..MaxOut /\ lp.watermark \in Wms
      /\ sent.offset \in -1..MaxOut /\ sent.watermark \in Wms
  BY DEF PubTypes
<1>2. Larger(lp.offset, o) \in -1..MaxOut /\ Larger(lp.watermark, w) \in Wms
  BY <1>1 DEF Larger
<1>3. lp' = [offset |-> Larger(lp.offset, o), watermark |-> Larger(lp.watermark, w)]
  BY DEF PublishTo, Update
<1>4. lp' \in [offset : -1..MaxOut, watermark : Wms]
  BY <1>2, <1>3
<1>5. lp'.offset = Larger(lp.offset, o) /\ lp'.watermark = Larger(lp.watermark, w)
  BY <1>3
<1>6. /\ Larger(lp.offset, o) >= lp.offset /\ Larger(lp.watermark, w) >= lp.watermark
      /\ Larger(lp.offset, o) >= sent.offset /\ Larger(lp.watermark, w) >= sent.watermark
  BY <1>1 DEF Larger, SentOld, Wms
<1>7. \/ sent' = sent
      \/ sent' = [offset |-> lp'.offset, watermark |-> lp'.watermark, idle |-> i]
  BY DEF PublishTo
<1>8. CASE sent' = sent
  BY <1>1, <1>4, <1>5, <1>6, <1>8 DEF PubTypes, Wms
<1>9. CASE sent' = [offset |-> lp'.offset, watermark |-> lp'.watermark, idle |-> i]
  <2>1. sent'.offset = lp'.offset /\ sent'.watermark = lp'.watermark
    BY <1>9
  <2>2. sent' \in [offset : -1..MaxOut, watermark : Wms, idle : BOOLEAN]
    BY <1>2, <1>5, <1>9
  <2>3. QED
    BY <1>1, <1>2, <1>4, <1>5, <1>6, <2>1, <2>2 DEF Wms
<1>10. QED
  BY <1>7, <1>8, <1>9

\* The result is at the end of the output stream and has the floor of its message.
LEMMA GWrite ==
    ASSUME GInv, NEW k \in Parts, NEW o \in InOffsets, Write(k, o)
    PROVE  /\ GInv'
           /\ Len(out') = Len(out) + 1 /\ out'[Len(out) + 1] = [floor |-> in[k][o].floor, ctrl |-> FALSE]
           /\ \A j \in 1..Len(out) : out'[j] = out[j]
<1> USE VertexAssumption
<1>0. UNCHANGED <<upVars, fetchVars, readVars, trk, lp, sent, idleOut, tickVars>>
  BY DEF Write
<1>1. UpTypes /\ WorkTypes /\ PubTypes /\ Reach
  BY DEF GInv, Types
<1>2. in[k] \in Seq(Msg) /\ o \in 1..Len(in[k])
  BY <1>1 DEF UpTypes, Reach, Write
<1>3. in[k][o].floor \in 0..MaxWm
  <2>1. in[k][o] \in Msg
    BY <1>2
  <2>2. QED
    BY <2>1 DEF Msg
<1> DEFINE m == [floor |-> in[k][o].floor, ctrl |-> FALSE]
<1>4. m \in OutMsg
  BY <1>3 DEF OutMsg
<1>5. out' = Append(out, m) /\ Len(out) < MaxOut /\ wr' = [wr EXCEPT ![k][o] = Len(out')]
  BY DEF Write
<1> HIDE DEF m
<1>6. /\ out' \in Seq(OutMsg) /\ Len(out') = Len(out) + 1 /\ Len(out) \in Nat
      /\ out'[Len(out) + 1] = m /\ \A j \in 1..Len(out) : out'[j] = out[j]
  BY <1>1, <1>4, <1>5 DEF PubTypes
<1>7. Len(out') <= MaxOut /\ Len(out') \in -1..MaxOut
  BY <1>5, <1>6
<1>8. WorkTypes'
  BY <1>0, <1>1, <1>5, <1>7 DEF WorkTypes
<1>9. Types'
  BY <1>0, <1>6, <1>7, <1>8 DEF GInv, Types, UpTypes, FetchTypes, ReadTypes, PubTypes, TickTypes,
       upVars, fetchVars, readVars, tickVars
<1>10. Told' /\ Reach' /\ SentOld'
  BY <1>0, ToldKept, ReachKept DEF GInv, upVars, fetchVars, SentOld
<1>11. QED
  BY <1>6, <1>9, <1>10 DEF GInv, m

\* A published watermark does not fall behind the one sent before.
LEMMA GPublish ==
    ASSUME GInv, NEW k \in Parts, NEW o \in InOffsets, PublishWatermark(k, o)
    PROVE  GInv' /\ sent'.offset >= sent.offset /\ sent'.watermark >= sent.watermark
<1> USE VertexAssumption
<1>0. UNCHANGED <<upVars, fetchVars, readVars, trk, out, tickVars>>
  BY DEF PublishWatermark
<1>1. WorkTypes /\ PubTypes /\ SentOld /\ Types
  BY DEF GInv, Types
<1>2. /\ wr[k][o] \in -1..MaxOut /\ LowestWatermark \in Wms
      /\ PublishTo(wr[k][o], LowestWatermark, FALSE)
  BY <1>1, LowestIs DEF PublishWatermark, WorkTypes
<1>3. /\ lp' \in [offset : -1..MaxOut, watermark : Wms]
      /\ sent' \in [offset : -1..MaxOut, watermark : Wms, idle : BOOLEAN]
      /\ sent'.offset <= lp'.offset /\ sent'.watermark <= lp'.watermark
      /\ sent'.offset >= sent.offset /\ sent'.watermark >= sent.watermark
  BY <1>1, <1>2, PublishToIs
<1>4. PubTypes'
  BY <1>0, <1>1, <1>3 DEF PubTypes, PublishWatermark, None
<1>5. -1 \in -1..MaxOut /\ wr' = [wr EXCEPT ![k][o] = -1]
  BY DEF PublishWatermark
<1>6. WorkTypes'
  BY <1>0, <1>1, <1>5 DEF WorkTypes
<1>7. Types'
  BY <1>0, <1>4, <1>6 DEF GInv, Types, UpTypes, FetchTypes, ReadTypes, TickTypes,
       upVars, fetchVars, readVars, tickVars
<1>8. Told' /\ Reach'
  BY <1>0, ToldKept, ReachKept DEF GInv, upVars, fetchVars
<1>9. QED
  BY <1>3, <1>7, <1>8 DEF GInv, SentOld

\* The message leaves the tracker, acked or nacked.
LEMMA GForget ==
    ASSUME GInv, NEW k \in Parts, NEW o \in InOffsets, Done(k, o) \/ Nack(k, o)
    PROVE  GInv'
<1> USE VertexAssumption
<1>0. UNCHANGED <<upVars, fetchVars, rd, cur, val, unread, idle, pubVars, tickVars>>
  BY DEF Done, Nack, readVars
<1>1. UpTypes /\ ReadTypes /\ WorkTypes /\ Reach
  BY DEF GInv, Types
<1>2. /\ trk' = [trk EXCEPT ![k][o] = Untracked] /\ wr' = [wr EXCEPT ![k][o] = 0] /\ o \in InFlight(k)
      /\ nacked' = nacked \/ nacked' = [nacked EXCEPT ![k] = nacked[k] \cup {o}]
  BY DEF Done, Nack, Forget, readVars
<1>3. 0 \in -1..MaxOut /\ Untracked \in -2..MaxWm
  BY DEF Untracked
<1>4. trk' \in [Parts -> [InOffsets -> -2..MaxWm]]
  BY <1>1, <1>2, <1>3 DEF WorkTypes
<1>5. wr' \in [Parts -> [InOffsets -> -1..MaxOut]]
  BY <1>1, <1>2, <1>3 DEF WorkTypes
<1>6. nacked' \in [Parts -> SUBSET InOffsets]
  BY <1>1, <1>2 DEF ReadTypes
<1>7. Types'
  BY <1>0, <1>4, <1>5, <1>6 DEF GInv, Types, UpTypes, FetchTypes, ReadTypes, WorkTypes, PubTypes, TickTypes,
       upVars, fetchVars, pubVars, tickVars
<1>8. \A q \in Parts : nacked'[q] \cup InFlight(q)' \subseteq 1..Len(in[q])
  <2> TAKE q \in Parts
  <2>1. InFlight(q)' \subseteq InFlight(q)
    BY <1>1, <1>2 DEF InFlight, WorkTypes
  <2>2. nacked'[q] \subseteq nacked[q] \cup InFlight(q)
    BY <1>1, <1>2 DEF ReadTypes
  <2>3. nacked[q] \cup InFlight(q) \subseteq 1..Len(in[q])
    BY <1>1 DEF Reach
  <2>4. QED
    BY <2>1, <2>2, <2>3
<1>9. Reach'
  BY <1>0, <1>1, <1>8 DEF Reach, upVars, Busy
<1>10. Told' /\ SentOld'
  BY <1>0, ToldKept DEF GInv, upVars, fetchVars, SentOld, pubVars
<1>11. QED
  BY <1>7, <1>9, <1>10 DEF GInv

\* The ticker computes a watermark: the tracker's, or that of the idle heads.
LEMMA GTickMin ==
    ASSUME GInv, TickMin
    PROVE  GInv'
<1>0. UNCHANGED <<upVars, fetchVars, readVars, workVars, pubVars, tkoff>>
  BY DEF TickMin
<1>1. LowestWatermark \in Wms
  BY LowestIs DEF GInv
<1>2. tkwm' \in Wms /\ tk' \in {"idle", "stream"}
  BY <1>1 DEF TickMin
<1>3. Types'
  BY <1>0, <1>2 DEF GInv, Types, UpTypes, FetchTypes, ReadTypes, WorkTypes, PubTypes, TickTypes,
       upVars, fetchVars, readVars, workVars, pubVars
<1>4. Told' /\ Reach' /\ SentOld'
  BY <1>0, ToldKept, ReachKept DEF GInv, upVars, fetchVars, workVars, SentOld, pubVars
<1>5. QED
  BY <1>3, <1>4 DEF GInv

\* What get_idle_watermark finds: an idle head for each partition, and their least watermark
\* if all partitions match.
LEMMA TickIdleIs ==
    ASSUME GInv, TickIdle
    PROVE  \E h \in [Parts -> UNION {HeadIdle(k) : k \in Parts}] :
             /\ \A k \in Parts : h[k] \in HeadIdle(k) /\ h[k].watermark \in Wms
             /\ \A k \in Parts : last'[k] \in {last[k], h[k].watermark}
             /\ last' \in [Parts -> Wms] /\ tkwm' \in Wms
             /\ \/ tkwm' = -1
                \/ \A k \in Parts : ~Mismatch(k, h[k]) /\ tkwm' <= h[k].watermark
<1> USE VertexAssumption
<1> DEFINE bad(h) == {k \in Parts : Mismatch(k, h[k])}
           looked(h) == {k \in Parts : (\A j \in bad(h) : k <= j) /\ idle[k] # None}
<1>1. PICK h \in [Parts -> UNION {HeadIdle(k) : k \in Parts}] :
        /\ \A k \in Parts : h[k] \in HeadIdle(k)
        /\ last' = [k \in Parts |-> IF k \in looked(h) /\ h[k] # NoWMB THEN h[k].watermark ELSE last[k]]
        /\ tkwm' = IF bad(h) # {} THEN -1 ELSE Min({h[k].watermark : k \in Parts})
  BY Zenon DEF TickIdle
<1>2. \A k \in Parts : h[k].watermark \in Wms
  BY <1>1, HeadIdleIs DEF GInv
<1>3. last \in [Parts -> Wms]
  BY DEF GInv, Types, FetchTypes
<1> HIDE DEF looked
<1>4. (\A k \in Parts : last'[k] \in {last[k], h[k].watermark}) /\ last' \in [Parts -> Wms]
  BY <1>1, <1>2, <1>3
<1>5. CASE bad(h) # {}
  BY <1>1, <1>2, <1>4, <1>5 DEF Wms
<1>6. CASE bad(h) = {}
  <2> DEFINE S == {h[k].watermark : k \in Parts}
  <2>1. S \subseteq Wms /\ S # {}
    BY <1>2
  <2>2. tkwm' = Min(S)
    BY <1>1, <1>6
  <2>3. Min(S) \in Wms /\ \A y \in S : Min(S) <= y
    BY <2>1, MinWm
  <2> HIDE DEF S
  <2>4. \A k \in Parts : h[k].watermark \in S
    BY DEF S
  <2>5. \A k \in Parts : ~Mismatch(k, h[k])
    BY <1>6
  <2> HIDE DEF bad
  <2>6. QED
    BY <1>1, <1>2, <1>4, <2>2, <2>3, <2>4, <2>5
<1>7. QED
  BY <1>5, <1>6

\* The ticker stores what get_idle_watermark found.
LEMMA GTickIdle ==
    ASSUME GInv, TickIdle
    PROVE  GInv'
<1>0. UNCHANGED <<upVars, status, tl, readVars, workVars, pubVars, tkoff>>
  BY DEF TickIdle
<1>1. last' \in [Parts -> Wms] /\ tkwm' \in Wms
  BY TickIdleIs
<1>2. tk' \in {"off", "stream"}
  BY DEF TickIdle
<1>3. Types'
  BY <1>0, <1>1, <1>2 DEF GInv, Types, UpTypes, FetchTypes, ReadTypes, WorkTypes, PubTypes, TickTypes,
       upVars, readVars, workVars, pubVars
<1>4. Told' /\ Reach' /\ SentOld'
  BY <1>0, ToldKept, ReachKept DEF GInv, upVars, workVars, SentOld, pubVars
<1>5. QED
  BY <1>3, <1>4 DEF GInv

\* The ticker gives up.
LEMMA GTickSkip ==
    ASSUME GInv, TickSkip
    PROVE  GInv'
<1> USE VertexAssumption
<1>0. UNCHANGED <<upVars, fetchVars, readVars, workVars, pubVars>>
  BY DEF TickSkip
<1>1. TickTypes'
  BY DEF TickSkip, TickEnd, TickTypes, Wms, None
<1>2. Types'
  BY <1>0, <1>1 DEF GInv, Types, UpTypes, FetchTypes, ReadTypes, WorkTypes, PubTypes,
       upVars, fetchVars, readVars, workVars, pubVars
<1>3. Told' /\ Reach' /\ SentOld'
  BY <1>0, ToldKept, ReachKept DEF GInv, upVars, fetchVars, workVars, SentOld, pubVars
<1>4. QED
  BY <1>2, <1>3 DEF GInv

\* The control message of the idle stream is at the end of the stream.
LEMMA GTickOffset ==
    ASSUME GInv, TickOffset
    PROVE  /\ GInv'
           /\ Len(out') \in {Len(out), Len(out) + 1}
           /\ \A j \in 1..Len(out) : out'[j] = out[j]
           /\ \A j \in 1..Len(out') : j \in 1..Len(out) \/ out'[j].ctrl
<1> USE VertexAssumption
<1>0. UNCHANGED <<upVars, fetchVars, readVars, workVars, lp, sent, idleOut, tkwm>>
  BY DEF TickOffset
<1>1. PubTypes /\ TickTypes /\ Len(out) \in Nat
  BY DEF GInv, Types, PubTypes
<1> DEFINE m == [floor |-> 0, ctrl |-> TRUE]
<1>2. /\ out' \in Seq(OutMsg) /\ Len(out') <= MaxOut /\ tkoff' \in 0..MaxOut
      /\ Len(out') \in {Len(out), Len(out) + 1}
      /\ \A j \in 1..Len(out) : out'[j] = out[j]
      /\ \A j \in 1..Len(out') : j \in 1..Len(out) \/ out'[j].ctrl
  <2>1. CASE idleOut # None /\ tkoff' = idleOut /\ out' = out
    BY <1>1, <2>1 DEF PubTypes
  <2>2. CASE Len(out) < MaxOut /\ out' = Append(out, m) /\ tkoff' = Len(out')
    <3>1. m \in OutMsg /\ m.ctrl
      BY DEF OutMsg
    <3> HIDE DEF m
    <3>2. /\ out' \in Seq(OutMsg) /\ Len(out') = Len(out) + 1
          /\ out'[Len(out) + 1] = m /\ \A j \in 1..Len(out) : out'[j] = out[j]
      BY <1>1, <2>2, <3>1 DEF PubTypes
    <3>3. Len(out') <= MaxOut /\ Len(out') \in 0..MaxOut
      BY <1>1, <2>2, <3>2
    <3>4. \A n \in Nat : \A i \in 1..(n + 1) : i \in 1..n \/ i = n + 1
      OBVIOUS
    <3>5. QED
      BY <1>1, <2>2, <3>1, <3>2, <3>3, <3>4
  <2>3. QED
    BY <2>1, <2>2 DEF TickOffset
<1>3. PubTypes' /\ TickTypes'
  BY <1>0, <1>1, <1>2 DEF PubTypes, TickTypes, TickOffset
<1>4. Types'
  BY <1>0, <1>3 DEF GInv, Types, UpTypes, FetchTypes, ReadTypes, WorkTypes,
       upVars, fetchVars, readVars, workVars
<1>5. Told' /\ Reach' /\ SentOld'
  BY <1>0, ToldKept, ReachKept DEF GInv, upVars, fetchVars, workVars, SentOld
<1>6. QED
  BY <1>2, <1>4, <1>5 DEF GInv

\* A published idle watermark does not fall behind the one sent before.
LEMMA GTickPublish ==
    ASSUME GInv, TickPublish
    PROVE  GInv' /\ sent'.offset >= sent.offset /\ sent'.watermark >= sent.watermark
<1> USE VertexAssumption
<1>0. UNCHANGED <<upVars, fetchVars, readVars, workVars, out>>
  BY DEF TickPublish
<1>1. PubTypes /\ TickTypes /\ SentOld
  BY DEF GInv, Types
<1>a. tkoff \in -1..MaxOut /\ tkwm \in Wms
  BY <1>1 DEF TickTypes
<1>b. PublishTo(tkoff, tkwm, TRUE)
  BY DEF TickPublish
<1>2. tkoff \in -1..MaxOut /\ tkwm \in Wms /\ PublishTo(tkoff, tkwm, TRUE)
  BY <1>a, <1>b
<1>3. /\ lp' \in [offset : -1..MaxOut, watermark : Wms]
      /\ sent' \in [offset : -1..MaxOut, watermark : Wms, idle : BOOLEAN]
      /\ sent'.offset <= lp'.offset /\ sent'.watermark <= lp'.watermark
      /\ sent'.offset >= sent.offset /\ sent'.watermark >= sent.watermark
  BY <1>1, <1>2, PublishToIs
<1>4. PubTypes'
  BY <1>0, <1>1, <1>3 DEF PubTypes, TickTypes, TickPublish
<1>5. TickTypes'
  BY DEF TickPublish, TickEnd, TickTypes, Wms, None
<1>6. Types'
  BY <1>0, <1>4, <1>5 DEF GInv, Types, UpTypes, FetchTypes, ReadTypes, WorkTypes,
       upVars, fetchVars, readVars, workVars
<1>7. Told' /\ Reach'
  BY <1>0, ToldKept, ReachKept DEF GInv, upVars, fetchVars, workVars
<1>8. QED
  BY <1>3, <1>6, <1>7 DEF GInv, SentOld

\* Every step keeps the invariant.
LEMMA GStep ==
    ASSUME GInv, Next
    PROVE  GInv'
<1> USE VertexAssumption
<1>1. ASSUME NEW p \in Procs, NEW k \in Parts,
             \/ \E f \in 0..MaxWm : UpWrite(p, k, f, FALSE)
             \/ UpWrite(p, k, MaxWm, TRUE)
             \/ \E o \in InOffsets, w \in 0..MaxWm, i \in BOOLEAN : Observe(p, k, o, w, i)
      PROVE  GInv'
  <2>1. MaxWm \in 0..MaxWm /\ TRUE \in BOOLEAN /\ FALSE \in BOOLEAN
    OBVIOUS
  <2>2. QED
    BY <1>1, <2>1, GUpWrite, GObserve
<1>2. ASSUME NEW k \in Parts, ReadNext(k)
      PROVE  GInv'
  BY <1>2, GRead, GNoteIdle, GEnrich, GTrack DEF ReadNext
<1>3. ASSUME NEW k \in Parts, WorkNext(k) \/ \E o \in InOffsets : Nack(k, o)
      PROVE  GInv'
  BY <1>3, GWrite, GPublish, GForget DEF WorkNext
<1>4. CASE TickNext
  BY <1>4, GTickMin, GTickIdle, GTickSkip, GTickOffset, GTickPublish DEF TickNext
<1>5. QED
  BY <1>1, <1>2, <1>3, <1>4, GRefresh DEF Next, UpNext

\* Stuttering keeps it.
LEMMA GStutter == GInv /\ UNCHANGED vars => GInv'
<1> SUFFICES ASSUME GInv, UNCHANGED vars PROVE GInv'
  OBVIOUS
<1>1. UNCHANGED <<upVars, fetchVars, readVars, workVars, pubVars, tickVars>>
  BY DEF vars
<1>2. Types'
  BY <1>1 DEF GInv, Types, UpTypes, FetchTypes, ReadTypes, WorkTypes, PubTypes, TickTypes,
       upVars, fetchVars, readVars, workVars, pubVars, tickVars
<1>3. Told' /\ Reach' /\ SentOld'
  BY <1>1, ToldKept, ReachKept DEF GInv, upVars, fetchVars, workVars, SentOld, pubVars
<1>4. QED
  BY <1>2, <1>3 DEF GInv

\* The timelines of the processors are right, what is held was written, and what was sent is
\* not ahead of LastPublishedState: whatever the hazards, the processors and the partitions.
THEOREM InvariantHolds == Spec => []GInv
<1>1. Init => GInv
  BY GInit
<1>2. GInv /\ [Next]_vars => GInv'
  BY GStep, GStutter
<1>3. QED
  BY <1>1, <1>2, PTL DEF Spec

\* The shape of the state (type correctness), whatever the hazards.
THEOREM TypesHold == Spec => []TypeOK
<1>1. GInv => TypeOK
  <2> SUFFICES ASSUME GInv PROVE TypeOK
    OBVIOUS
  <2>1. \A p \in Procs, k \in Parts : Len(tl[p][k]) = Capacity
    BY DEF GInv, Types, FetchTypes, Timelines
  <2>2. \A k \in Parts : Len(in[k]) <= MaxIn /\ unread[k] \in 1..Len(in[k])+1
    BY DEF GInv, Reach
  <2>3. QED
    BY <2>1, <2>2 DEF GInv, Types, UpTypes, FetchTypes, ReadTypes, WorkTypes, PubTypes, TickTypes,
         TypeOK, Stati, Places
<1>2. QED
  BY <1>1, InvariantHolds, PTL

\* Only the fetch of a watermark takes a reader from "enrich" to "insert".
LEMMA EnrichOnly ==
    ASSUME Types, Next, NEW k \in Parts, rd[k] = "enrich", rd'[k] = "insert"
    PROVE  Enrich(k)
<1>0. rd \in [Parts -> Places]
  BY DEF Types, ReadTypes
<1>1. rd' # rd
  OBVIOUS
<1>2. ~UpNext /\ ~(\E p \in Procs : Refresh(p)) /\ ~TickNext
  <2>1. \A p, k1, f, c : UpWrite(p, k1, f, c) => rd' = rd
    BY DEF UpWrite, readVars
  <2>2. \A p, k1, o, w, i : Observe(p, k1, o, w, i) => rd' = rd
    BY DEF Observe, readVars
  <2>3. \A p : Refresh(p) => rd' = rd
    BY DEF Refresh, readVars
  <2>4. TickMin \/ TickIdle \/ TickSkip \/ TickOffset \/ TickPublish => rd' = rd
    BY DEF TickMin, TickIdle, TickSkip, TickOffset, TickPublish, readVars
  <2>5. QED
    BY <1>1, <2>1, <2>2, <2>3, <2>4, Zenon DEF UpNext, TickNext
<1>3. ~(\E q \in Parts : WorkNext(q) \/ \E o \in InOffsets : Nack(q, o))
  BY <1>1 DEF WorkNext, Write, PublishWatermark, Done, Nack, readVars
<1>4. PICK q \in Parts : ReadNext(q)
  BY <1>2, <1>3 DEF Next
<1>5. ~FetchEmpty(q) /\ ~NoteIdle(q) /\ ~NoteBusy(q) /\ ~SkipCtrl(q) /\ ~Track(q)
      /\ ~\E o \in InOffsets : FetchMessage(q, o)
  BY <1>0 DEF FetchEmpty, NoteIdle, NoteBusy, SkipCtrl, Track, FetchMessage
<1>6. Enrich(q)
  BY <1>4, <1>5 DEF ReadNext
<1>7. q = k
  BY <1>0, <1>6 DEF Enrich
<1>8. QED
  BY <1>6, <1>7

\* For every set of processors, partitions and hazards: a message of a known processor is not
\* given a watermark above its floor (fetch_watermark, get_event_time).
THEOREM WatermarksBelowFloor == Spec => WatermarkBelowFloor
<1>1. ASSUME GInv, Next, NEW k \in Parts, rd[k] = "enrich", rd'[k] = "insert",
             in[k][cur[k]].proc \in Known
      PROVE  val'[k] <= in[k][cur[k]].floor
  <2> USE VertexAssumption
  <2> DEFINE o == cur[k]
             p == in[k][o].proc
             w == GetEventTime(tl[p][k], o)
  <2>1. Enrich(k) /\ Types /\ Told /\ Reach
    BY <1>1, EnrichOnly DEF GInv
  <2>2. o \in 1..Len(in[k]) /\ o \in Int /\ ~in[k][o].ctrl /\ in[k] \in Seq(Msg)
    BY <1>1, <2>1 DEF Reach, Busy, Types, UpTypes, Enrich
  <2>3. in[k][o].floor \in 0..MaxWm
    <3>1. in[k][o] \in Msg
      BY <2>2
    <3>2. QED
      BY <3>1 DEF Msg
  <2>4. p \in Known /\ p \in Procs /\ tl[p][k] \in Timelines
    BY <1>1, <2>1 DEF Known, Types, FetchTypes
  <2> HIDE DEF o
  <2>5. w <= in[k][o].floor /\ w \in Wms
    <3> HIDE DEF p
    <3>1. CASE w = -1
      BY <2>3, <3>1 DEF Wms
    <3>2. ASSUME NEW i \in 1..Capacity, tl[p][k][i].offset < o, w = tl[p][k][i].watermark
          PROVE  w <= in[k][o].floor /\ w \in Wms
      <4>1. tl[p][k][i].offset \in Int /\ w \in Wms
        BY <2>4, <3>2, EntryFields
      <4>2. o > tl[p][k][i].offset
        BY <2>2, <3>2, <4>1
      <4>3. QED
        BY <2>1, <2>2, <2>4, <3>2, <4>1, <4>2 DEF Told, p
    <3>3. QED
      BY <2>2, <2>4, <3>1, <3>2, EventTimeFound
  <2>6. val'[k] <= Epoch(k, o) /\ Epoch(k, o) \in Wms /\ Epoch(k, o) <= w
    BY <1>1, <2>1, <2>2, <2>4, GEnrich, EpochIs DEF o
  <2>7. val'[k] \in Wms
    BY <1>1, <2>1, GEnrich DEF GInv, Types, ReadTypes
  <2> HIDE DEF w
  <2>8. QED
    BY <2>3, <2>5, <2>6, <2>7 DEF Wms, o
<1>2. ASSUME GInv, [Next]_vars
      PROVE  [\A k \in Parts :
                rd[k] = "enrich" /\ rd'[k] = "insert" /\ in[k][cur[k]].proc \in Known
                   => val'[k] <= in[k][cur[k]].floor]_vars
  BY <1>1, <1>2
<1>3. QED
  BY <1>2, InvariantHolds, PTL DEF Spec, WatermarkBelowFloor

\* For every set of processors, partitions and hazards: what the pod publishes never falls
\* (LastPublishedState, publish_watermark).
THEOREM PublishedMonotone == Spec => PublishedNeverFalls
<1>1. ASSUME GInv, Next, sent' # sent
      PROVE  sent'.offset >= sent.offset /\ sent'.watermark >= sent.watermark
  <2>1. ~UpNext /\ ~(\E p \in Procs : Refresh(p))
    <3>1. \A p, k, f, c : UpWrite(p, k, f, c) => sent' = sent
      BY DEF UpWrite, pubVars
    <3>2. \A p, k, o, w, i : Observe(p, k, o, w, i) => sent' = sent
      BY DEF Observe, pubVars
    <3>3. \A p : Refresh(p) => sent' = sent
      BY DEF Refresh, pubVars
    <3>4. QED
      BY <1>1, <3>1, <3>2, <3>3, Zenon DEF UpNext
  <2>2. ~(\E k \in Parts : ReadNext(k) \/ \E o \in InOffsets : Nack(k, o))
    BY <1>1 DEF ReadNext, FetchEmpty, NoteIdle, NoteBusy, SkipCtrl, Enrich, Track, FetchMessage, Nack, pubVars
  <2>3. CASE TickNext
    <3>1. TickPublish
      BY <1>1, <2>3 DEF TickNext, TickMin, TickIdle, TickSkip, TickOffset, pubVars
    <3>2. QED
      BY <1>1, <3>1, GTickPublish
  <2>4. ASSUME NEW k \in Parts, WorkNext(k)
        PROVE  sent'.offset >= sent.offset /\ sent'.watermark >= sent.watermark
    <3>1. PICK o \in InOffsets : PublishWatermark(k, o)
      BY <1>1, <2>4 DEF WorkNext, Write, Done, pubVars
    <3>2. QED
      BY <1>1, <3>1, GPublish
  <2>5. QED
    BY <1>1, <2>1, <2>2, <2>3, <2>4 DEF Next
<1>2. ASSUME GInv, [Next]_vars
      PROVE  [sent'.offset >= sent.offset /\ sent'.watermark >= sent.watermark]_sent
  BY <1>1, <1>2 DEF vars, pubVars
<1>3. QED
  BY <1>2, InvariantHolds, PTL DEF Spec, PublishedNeverFalls

(***************************************************************************)
(* Every watermark on its way through the pod was promised upstream.       *)
(***************************************************************************)

\* Some processor has promised that it writes nothing older.
Vouched(w) == \E p \in Procs : w <= promise[p]

\* The watermarks the fetcher, the readers, the tracker, the ticker and the publisher hold.
FetchVouched == \A k \in Parts : Vouched(last[k])
ReadVouched == \A k \in Parts : Vouched(val[k])
WorkVouched == \A k \in Parts : \A o \in InOffsets : Vouched(trk[k][o])
PubVouched == Vouched(lp.watermark) /\ Vouched(sent.watermark)
TickVouched == Vouched(tkwm)
AllVouched == FetchVouched /\ ReadVouched /\ WorkVouched /\ PubVouched /\ TickVouched

\* No watermark is vouched for always; promises are kept; of two watermarks the larger is one
\* of them.
LEMMA VouchedFacts ==
    ASSUME UpTypes
    PROVE  /\ Vouched(-1) /\ Vouched(Untracked)
           /\ UNCHANGED promise => \A w : Vouched(w) => Vouched(w)'
           /\ \A v, w : Vouched(v) /\ Vouched(w) => Vouched(Larger(v, w))
<1>1. \A p \in Procs : -1 <= promise[p] /\ Untracked <= promise[p]
  BY VertexAssumption DEF UpTypes, Untracked
<1>2. QED
  BY <1>1, VertexAssumption DEF Vouched, Larger

\* Every entry of a timeline is vouched for by its processor, and so is what is looked up in it.
LEMMA TimelineVouched ==
    ASSUME Types, Told, NEW k \in Parts
    PROVE  /\ \A h \in HeadIdle(k) : Vouched(h.watermark)
           /\ \A p \in Procs : \A o \in Int : Vouched(GetEventTime(tl[p][k], o))
<1>0. UpTypes /\ tl \in [Procs -> [Parts -> Timelines]] /\ 1 \in 1..Capacity /\ Vouched(-1)
  BY VouchedFacts, CapacityAssumption DEF Types, FetchTypes
<1>1. \A p \in Procs : \A i \in 1..Capacity : Vouched(tl[p][k][i].watermark)
  BY DEF Told, Vouched
<1>2. ASSUME NEW h \in HeadIdle(k) PROVE Vouched(h.watermark)
  <2>1. CASE h = NoWMB
    BY <1>0, <2>1 DEF NoWMB
  <2>2. CASE h # NoWMB
    <3>1. PICK p \in Active : h = tl[p][k][1]
      BY <2>2, HeadIdleIs
    <3>2. QED
      BY <1>0, <1>1, <3>1 DEF Active
  <2>3. QED
    BY <2>1, <2>2
<1>3. ASSUME NEW p \in Procs, NEW o \in Int PROVE Vouched(GetEventTime(tl[p][k], o))
  <2>1. tl[p][k] \in Timelines
    BY <1>0
  <2>2. QED
    BY <1>0, <1>1, <2>1, EventTimeFound
<1>4. QED
  BY <1>2, <1>3

\* lowest_watermark is that of a tracked message, or none.
LEMMA LowestVouched ==
    ASSUME Types, WorkVouched
    PROVE  Vouched(LowestWatermark)
<1>1. Vouched(-1)
  BY VouchedFacts DEF Types
<1>2. \A k \in Parts : InFlight(k) \subseteq InOffsets
  BY DEF InFlight
<1>3. QED
  BY <1>1, <1>2, LowestIs DEF WorkVouched

\* Upstream's promises only grow.
LEMMA VouchedUp ==
    ASSUME GInv, AllVouched, UpNext
    PROVE  AllVouched'
<1>1. /\ UNCHANGED <<last, readVars, workVars, pubVars, tickVars>>
      /\ \A p \in Procs : promise[p] \in Int /\ promise'[p] \in Int /\ promise[p] <= promise'[p]
  <2>1. promise \in [Procs -> 0..MaxWm]
    BY DEF GInv, Types, UpTypes
  <2>2. ASSUME NEW p \in Procs, NEW k \in Parts, NEW f, NEW c, UpWrite(p, k, f, c)
        PROVE  UNCHANGED <<promise, last, readVars, workVars, pubVars, tickVars>>
    BY <2>2 DEF UpWrite, fetchVars
  <2>3. ASSUME NEW p \in Procs, NEW k \in Parts, NEW o \in InOffsets, NEW w \in 0..MaxWm,
               NEW i \in BOOLEAN, Observe(p, k, o, w, i)
        PROVE  /\ UNCHANGED <<last, readVars, workVars, pubVars, tickVars>>
               /\ promise' = [promise EXCEPT ![p] = IF w > @ THEN w ELSE @]
    BY <2>3 DEF Observe
  <2>4. CASE \E p \in Procs, k \in Parts, f \in 0..MaxWm, c \in BOOLEAN : UpWrite(p, k, f, c)
    <3>1. UNCHANGED <<promise, last, readVars, workVars, pubVars, tickVars>>
      BY <2>2, <2>4
    <3>2. QED
      BY <2>1, <3>1, VertexAssumption
  <2>5. CASE \E p \in Procs, k \in Parts, o \in InOffsets, w \in 0..MaxWm, i \in BOOLEAN : Observe(p, k, o, w, i)
    <3>1. PICK p \in Procs, k \in Parts, o \in InOffsets, w \in 0..MaxWm, i \in BOOLEAN : Observe(p, k, o, w, i)
      BY <2>5
    <3>2. /\ UNCHANGED <<last, readVars, workVars, pubVars, tickVars>>
          /\ promise' = [promise EXCEPT ![p] = IF w > @ THEN w ELSE @]
      BY <2>3, <3>1
    <3>3. w \in Int /\ \A q \in Procs : promise[q] \in Int
      BY <2>1, VertexAssumption
    <3>4. \A q \in Procs : promise'[q] \in Int /\ promise[q] <= promise'[q]
      BY <2>1, <3>2, <3>3
    <3>5. QED
      BY <3>2, <3>3, <3>4
  <2>6. MaxWm \in 0..MaxWm
    BY VertexAssumption
  <2>7. QED
    BY <2>4, <2>5, <2>6 DEF UpNext
<1>2. \A w \in Int : Vouched(w) => Vouched(w)'
  BY <1>1 DEF Vouched
<1>3. /\ \A k \in Parts : last[k] \in Int /\ val[k] \in Int
      /\ \A k \in Parts : \A o \in InOffsets : trk[k][o] \in Int
      /\ lp.watermark \in Int /\ sent.watermark \in Int /\ tkwm \in Int
  BY VertexAssumption DEF GInv, Types, FetchTypes, ReadTypes, WorkTypes, PubTypes, TickTypes, Wms
<1>4. QED
  BY <1>1, <1>2, <1>3 DEF AllVouched, FetchVouched, ReadVouched, WorkVouched, PubVouched, TickVouched,
       readVars, workVars, pubVars, tickVars, Vouched

\* A reader's watermarks are found in timelines, those it tracks are the ones it has found.
LEMMA VouchedRead ==
    ASSUME GInv, AllVouched, NEW k \in Parts, ReadNext(k)
    PROVE  AllVouched'
<1> USE DEF Vouched
<1>0. /\ Types /\ Told /\ UNCHANGED <<promise, pubVars, tickVars>> /\ Vouched(-1)
      /\ last \in [Parts -> Wms] /\ val \in [Parts -> Wms] /\ trk \in [Parts -> [InOffsets -> -2..MaxWm]]
  <2>1. Types /\ Told /\ Vouched(-1)
    BY VouchedFacts DEF GInv, Types
  <2>2. UNCHANGED <<promise, pubVars, tickVars>>
    BY DEF ReadNext, FetchEmpty, NoteIdle, NoteBusy, SkipCtrl, Enrich, Track, FetchMessage, upVars
  <2>3. QED
    BY <2>1, <2>2 DEF Types, FetchTypes, ReadTypes, WorkTypes
<1>1. PubVouched' /\ TickVouched'
  BY <1>0 DEF AllVouched, PubVouched, TickVouched, pubVars, tickVars
<1>2. CASE NoteIdle(k)
  <2>1. PICK h \in HeadIdle(k) : last' = [last EXCEPT ![k] = IF h = NoWMB THEN @ ELSE h.watermark]
    BY <1>2 DEF NoteIdle
  <2>2. Vouched(h.watermark)
    BY <1>0, TimelineVouched
  <2>3. FetchVouched'
    BY <1>0, <2>1, <2>2 DEF AllVouched, FetchVouched
  <2>4. UNCHANGED <<val, trk>>
    BY <1>2 DEF NoteIdle, workVars
  <2>5. QED
    BY <1>0, <1>1, <2>3, <2>4 DEF AllVouched, ReadVouched, WorkVouched
<1>3. CASE Enrich(k)
  <2>1. /\ last' = [last EXCEPT ![k] = Epoch(k, cur[k])] /\ val' = [val EXCEPT ![k] = GetWatermark(last')]
        /\ UNCHANGED trk /\ last' \in [Parts -> Wms]
    BY <1>3, GEnrich DEF Enrich, FetchWatermark, workVars
  <2>2. Vouched(Epoch(k, cur[k]))
    <3>1. cur[k] \in Int
      BY VertexAssumption DEF GInv, Types, ReadTypes
    <3>2. CASE Known = {}
      BY <3>2 DEF Epoch, AllVouched, FetchVouched
    <3>3. CASE Known # {}
      <4>1. PICK p \in Known : Epoch(k, cur[k]) = GetEventTime(tl[p][k], cur[k])
        BY <1>0, <3>1, <3>3, EpochIs
      <4>2. QED
        BY <1>0, <3>1, <4>1, TimelineVouched DEF Known
    <3>4. QED
      BY <3>2, <3>3
  <2>3. FetchVouched'
    BY <1>0, <2>1, <2>2 DEF AllVouched, FetchVouched
  <2>4. ReadVouched'
    <3>1. PICK j \in Parts : GetWatermark(last') = last'[j]
      BY <2>1, GetWatermarkIs
    <3>2. QED
      BY <1>0, <2>1, <2>3, <3>1 DEF AllVouched, FetchVouched, ReadVouched
  <2>5. QED
    BY <1>0, <1>1, <2>1, <2>3, <2>4 DEF AllVouched, WorkVouched
<1>4. CASE Track(k)
  <2>1. /\ trk' = [trk EXCEPT ![k][cur[k]] = val[k]] /\ val' = [val EXCEPT ![k] = -1] /\ UNCHANGED last
    BY <1>4 DEF Track, fetchVars
  <2>2. ReadVouched' /\ FetchVouched'
    BY <1>0, <2>1 DEF AllVouched, ReadVouched, FetchVouched
  <2>3. WorkVouched'
    BY <1>0, <2>1 DEF AllVouched, ReadVouched, WorkVouched
  <2>4. QED
    BY <1>1, <2>2, <2>3 DEF AllVouched
<1>5. CASE ~NoteIdle(k) /\ ~Enrich(k) /\ ~Track(k)
  <2>1. UNCHANGED <<last, val, trk>>
    BY <1>5 DEF ReadNext, FetchEmpty, NoteBusy, SkipCtrl, FetchMessage, fetchVars, workVars
  <2>2. QED
    BY <1>0, <1>1, <2>1 DEF AllVouched, FetchVouched, ReadVouched, WorkVouched
<1>6. QED
  BY <1>2, <1>3, <1>4, <1>5

\* The publisher is given the watermark of a tracked message or of the ticker.
LEMMA VouchedPublish ==
    ASSUME GInv, AllVouched, UNCHANGED promise, NEW o \in -1..MaxOut, NEW w \in Wms, NEW i \in BOOLEAN,
           PublishTo(o, w, i), Vouched(w)
    PROVE  PubVouched'
<1>1. /\ lp'.watermark = Larger(lp.watermark, w)
      /\ sent' = sent \/ sent'.watermark = lp'.watermark
  BY PublishToIs DEF GInv, Types
<1>2. Vouched(Larger(lp.watermark, w)) /\ Vouched(sent.watermark)
  BY VouchedFacts DEF GInv, Types, AllVouched, PubVouched
<1>3. QED
  BY <1>1, <1>2 DEF PubVouched, Vouched

\* So is what the workers publish; a message that leaves the tracker leaves no watermark.
LEMMA VouchedWork ==
    ASSUME GInv, AllVouched, NEW k \in Parts, NEW o \in InOffsets,
           Write(k, o) \/ PublishWatermark(k, o) \/ Done(k, o) \/ Nack(k, o)
    PROVE  AllVouched'
<1> USE DEF Vouched
<1>0. /\ Types /\ UNCHANGED <<promise, last, val, tickVars>> /\ Vouched(Untracked)
      /\ trk \in [Parts -> [InOffsets -> -2..MaxWm]]
  <2>1. Types /\ Vouched(Untracked)
    BY VouchedFacts DEF GInv, Types
  <2>2. UNCHANGED <<promise, last, val, tickVars>>
    BY DEF Write, PublishWatermark, Done, Nack, upVars, fetchVars, readVars
  <2>3. QED
    BY <2>1, <2>2 DEF Types, WorkTypes
<1>1. FetchVouched' /\ ReadVouched' /\ TickVouched'
  BY <1>0 DEF AllVouched, FetchVouched, ReadVouched, TickVouched, tickVars
<1>2. WorkVouched'
  <2>1. CASE Write(k, o) \/ PublishWatermark(k, o)
    BY <1>0, <2>1 DEF AllVouched, WorkVouched, Write, PublishWatermark
  <2>2. CASE Done(k, o) \/ Nack(k, o)
    <3>1. trk' = [trk EXCEPT ![k][o] = Untracked]
      BY <2>2 DEF Done, Nack, Forget
    <3>2. QED
      BY <1>0, <3>1 DEF AllVouched, WorkVouched
  <2>3. QED
    BY <2>1, <2>2
<1>3. PubVouched'
  <2>1. CASE PublishWatermark(k, o)
    <3>1. PublishTo(wr[k][o], LowestWatermark, FALSE) /\ wr[k][o] \in -1..MaxOut
      BY <1>0, <2>1 DEF PublishWatermark, Types, WorkTypes
    <3>2. LowestWatermark \in Wms /\ Vouched(LowestWatermark)
      BY <1>0, LowestIs, LowestVouched DEF AllVouched
    <3>3. QED
      BY <1>0, <3>1, <3>2, VouchedPublish
  <2>2. CASE Write(k, o) \/ Done(k, o) \/ Nack(k, o)
    BY <1>0, <2>2 DEF Write, Done, Nack, pubVars, AllVouched, PubVouched
  <2>3. QED
    BY <2>1, <2>2
<1>4. QED
  BY <1>1, <1>2, <1>3 DEF AllVouched

\* The ticker computes its watermark from tracked messages or idle heads.
LEMMA VouchedTick ==
    ASSUME GInv, AllVouched, TickNext
    PROVE  AllVouched'
<1> USE DEF Vouched
<1>0. /\ Types /\ Told /\ UNCHANGED <<promise, val, trk>> /\ Vouched(-1)
  <2>1. Types /\ Told /\ Vouched(-1)
    BY VouchedFacts DEF GInv, Types
  <2>2. UNCHANGED <<promise, val, trk>>
    BY DEF TickNext, TickMin, TickIdle, TickSkip, TickOffset, TickPublish, upVars, readVars, workVars
  <2>3. QED
    BY <2>1, <2>2
<1>1. ReadVouched' /\ WorkVouched'
  BY <1>0 DEF AllVouched, ReadVouched, WorkVouched
<1>2. CASE TickIdle
  <2>1. PICK h \in [Parts -> UNION {HeadIdle(k) : k \in Parts}] :
          /\ \A k \in Parts : h[k] \in HeadIdle(k) /\ h[k].watermark \in Wms
          /\ \A k \in Parts : last'[k] \in {last[k], h[k].watermark}
          /\ tkwm' \in Wms
          /\ tkwm' = -1 \/ \A k \in Parts : tkwm' <= h[k].watermark
    BY <1>2, TickIdleIs
  <2>2. \A k \in Parts : Vouched(h[k].watermark)
    BY <1>0, <2>1, TimelineVouched
  <2>3. FetchVouched'
    BY <1>0, <2>1, <2>2 DEF AllVouched, FetchVouched
  <2>4. TickVouched'
    <3>1. CASE tkwm' = -1
      BY <1>0, <3>1 DEF TickVouched
    <3>2. CASE \A k \in Parts : tkwm' <= h[k].watermark
      <4>1. PICK k \in Parts : TRUE
        BY VertexAssumption
      <4>2. PICK p \in Procs : h[k].watermark <= promise[p]
        BY <2>2
      <4>3. promise[p] \in Int /\ h[k].watermark \in Int /\ tkwm' \in Int
        <5>1. promise \in [Procs -> 0..MaxWm] /\ h[k].watermark \in Wms /\ tkwm' \in Wms
          BY <1>0, <2>1 DEF Types, UpTypes
        <5>2. QED
          BY <5>1, VertexAssumption DEF Wms
      <4>4. QED
        BY <1>0, <3>2, <4>2, <4>3 DEF TickVouched
    <3>3. QED
      BY <2>1, <3>1, <3>2
  <2>5. PubVouched'
    BY <1>0, <1>2 DEF TickIdle, pubVars, AllVouched, PubVouched
  <2>6. QED
    BY <1>1, <2>3, <2>4, <2>5 DEF AllVouched
<1>3. CASE ~TickIdle
  <2>1. FetchVouched'
    BY <1>0, <1>3 DEF TickNext, TickMin, TickSkip, TickOffset, TickPublish, fetchVars, AllVouched, FetchVouched
  <2>2. TickVouched'
    <3>1. CASE TickMin
      BY <1>0, <3>1, LowestVouched DEF TickMin, AllVouched, TickVouched
    <3>2. CASE ~TickMin
      BY <1>0, <1>3, <3>2 DEF TickNext, TickSkip, TickOffset, TickPublish, TickEnd, AllVouched, TickVouched
    <3>3. QED
      BY <3>1, <3>2
  <2>3. PubVouched'
    <3>1. CASE TickPublish
      <4>1. PublishTo(tkoff, tkwm, TRUE)
        BY <3>1 DEF TickPublish
      <4>2. tkwm \in Wms /\ tkoff \in 0..MaxOut
        BY <1>0 DEF Types, TickTypes
      <4>3. tkoff \in -1..MaxOut
        BY <4>2, VertexAssumption
      <4>4. QED
        BY <1>0, <4>1, <4>2, <4>3, VouchedPublish DEF AllVouched, TickVouched
    <3>2. CASE ~TickPublish
      BY <1>0, <1>3, <3>2 DEF TickNext, TickMin, TickSkip, TickOffset, pubVars, AllVouched, PubVouched
    <3>3. QED
      BY <3>1, <3>2
  <2>4. QED
    BY <1>1, <2>1, <2>2, <2>3 DEF AllVouched
<1>4. QED
  BY <1>2, <1>3

\* For every set of processors, partitions and hazards: the pod publishes no watermark that is
\* ahead of every upstream processor, though processors are unknown, silent, forgotten and heard
\* of again, idle or behind, entries are pushed out of timelines, reads are throttled and messages
\* come twice (fetch_watermark, get_idle_watermark, lowest_watermark, publish_watermark).
THEOREM PublishedPromised == Spec => [](\E p \in Procs : sent.watermark <= promise[p])
<1>1. Init => AllVouched
  <2> SUFFICES ASSUME Init PROVE AllVouched
    OBVIOUS
  <2>1. \A p \in Procs : promise[p] = 0
    BY DEF Init
  <2>2. Vouched(-1) /\ Vouched(0) /\ Vouched(Untracked)
    BY <2>1, VertexAssumption DEF Vouched, Untracked
  <2>3. QED
    BY <2>2 DEF Init, AllVouched, FetchVouched, ReadVouched, WorkVouched, PubVouched, TickVouched
<1>2. GInv /\ AllVouched /\ [Next]_vars => AllVouched'
  <2> SUFFICES ASSUME GInv, AllVouched, [Next]_vars PROVE AllVouched'
    OBVIOUS
  <2>1. CASE UNCHANGED vars \/ \E p \in Procs : Refresh(p)
    BY <2>1 DEF vars, upVars, fetchVars, readVars, workVars, pubVars, tickVars, Refresh, AllVouched,
         FetchVouched, ReadVouched, WorkVouched, PubVouched, TickVouched, Vouched
  <2>2. CASE \E k \in Parts : WorkNext(k) \/ \E o \in InOffsets : Nack(k, o)
    BY <2>2, VouchedWork DEF WorkNext
  <2>3. QED
    BY <2>1, <2>2, VouchedUp, VouchedRead, VouchedTick DEF Next
<1>3. AllVouched => \E p \in Procs : sent.watermark <= promise[p]
  BY DEF AllVouched, PubVouched, Vouched
<1>4. QED
  BY <1>1, <1>2, <1>3, InvariantHolds, PTL DEF Spec

=============================================================================
