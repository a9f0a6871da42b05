--------------------------- MODULE OffsetTimeline ---------------------------
(***************************************************************************)
(* The offset timeline of one upstream processor and one partition         *)
(* (watermark/processor/timeline.rs): a queue of watermark entries (WMBs)  *)
(* of fixed length, newest first, from which the watermark of a message is *)
(* looked up by its offset.                                                *)
(***************************************************************************)
EXTENDS Integers, Sequences

CONSTANT Capacity   \* the fixed length of the timeline

ASSUME CapacityAssumption == Capacity \in Nat \ {0}

\* WMB::default()
DefaultWMB == [offset |-> -1, watermark |-> -1, idle |-> FALSE]

\* OffsetTimeline::new
NewTimeline == [i \in 1..Capacity |-> DefaultWMB]

PushFront(tl, node) == <<node>> \o tl

\* The oldest entry goes when the queue is longer than its capacity.
Trim(tl) == IF Len(tl) > Capacity THEN SubSeq(tl, 1, Len(tl) - 1) ELSE tl

\* Mutant: the watermark is not compared.
AdvancesByOffset(tl, node) ==
    node.offset > tl[1].offset

\* A WMB that does not lower the watermark and has a larger offset than the head.
Advances(tl, node) ==
    /\ node.watermark >= tl[1].watermark
    /\ node.offset > tl[1].offset

\* A higher watermark for the offset of the head: the control message of an idle stream.
RaisesHead(tl, node) ==
    /\ node.watermark > tl[1].watermark
    /\ node.offset = tl[1].offset

\* put: any other WMB is ignored.  A raised head keeps its idle flag.
Put(tl, node) ==
    Trim(CASE Advances(tl, node) -> PushFront(tl, node)
           [] RaisesHead(tl, node) -> [tl EXCEPT ![1] = [@ EXCEPT !.watermark = node.watermark]]
           [] OTHER -> tl)

\* Mutant: the entry at the offset itself counts.
BeforeOrAt(tl, o) == {i \in 1..Len(tl) : tl[i].offset <= o}

\* The entries with a smaller offset than o.
Before(tl, o) == {i \in 1..Len(tl) : tl[i].offset < o}

\* get_event_time: the first entry from the front with a smaller offset.
GetEventTime(tl, o) ==
    IF Before(tl, o) = {} THEN -1
    ELSE tl[CHOOSE i \in Before(tl, o) : \A j \in Before(tl, o) : i <= j].watermark

HeadWMB(tl) == tl[1]
=============================================================================
