----------------------------- MODULE MCTimeline -----------------------------
(* Model-checking instance of Timeline.                                    *)
EXTENDS Timeline, TLC

MCOffsets == 1..4
MCWatermarks == 0..2
=============================================================================
