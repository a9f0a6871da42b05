------------------------------ MODULE Timeline ------------------------------
(***************************************************************************)
(* One offset timeline over its life: WMBs are put in any order, the order *)
(* in which the watch of the key-value store shows them, and the timeline  *)
(* is asked for the watermark of any offset at any time.                   *)
(***************************************************************************)
EXTENDS OffsetTimeline

CONSTANTS
    Offsets,      \* the offsets of the partition
    Watermarks    \* the watermarks that are published

ASSUME TimelineAssumption == Offsets \subseteq Nat /\ Watermarks \subseteq Nat

VARIABLES
    tl,     \* the timeline
    puts    \* history: <<offset, watermark>> of the WMBs put so far

vars == <<tl, puts>>

WMB == [offset : Offsets, watermark : Watermarks, idle : BOOLEAN]
Entry == [offset : Int, watermark : Int, idle : BOOLEAN]

\* The timeline always has its full length, so its front is never missing
\* ("timeline should never be empty").
TypeOK ==
    /\ tl \in Seq(Entry)
    /\ Len(tl) = Capacity
    /\ puts \subseteq Offsets \X Watermarks

Init == tl = NewTimeline /\ puts = {}

Next ==
    \E node \in WMB :
        /\ tl' = Put(tl, node)
        /\ puts' = puts \cup {<<node.offset, node.watermark>>}

Spec == Init /\ [][Next]_vars

----------------------------------------------------------------------------

\* From the front to the back offsets fall strictly and watermarks never rise (only
\* the default entries repeat), whatever order the WMBs come in: the lookup from the
\* front depends on it.
Sorted ==
    \A i, j \in 1..Len(tl) : i < j =>
        /\ tl[i].watermark >= tl[j].watermark
        /\ tl[i].offset > tl[j].offset \/ (tl[i].offset = -1 /\ tl[j].offset = -1)

\* The watermark given for an offset is one that was published for a smaller offset
\* (or unknown): no entry is ever given to offsets it was not published for.
AnswerWasPublished ==
    \A o \in Offsets :
        \/ GetEventTime(tl, o) = -1
        \/ \E p \in puts : p[1] < o /\ p[2] = GetEventTime(tl, o)

\* The watermark given for an offset never falls, except to unknown when the entry has
\* left the timeline ("offset jumping out of the timeline").
AnswersNeverFall ==
    [][\A o \in Offsets :
         \/ GetEventTime(tl', o) >= GetEventTime(tl, o)
         \/ GetEventTime(tl', o) = -1]_vars

\* The offset and the watermark of the head never fall.
HeadNeverFalls ==
    [][/\ HeadWMB(tl').offset >= HeadWMB(tl).offset
       /\ HeadWMB(tl').watermark >= HeadWMB(tl).watermark]_vars
=============================================================================
