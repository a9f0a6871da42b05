---------------------------- MODULE MCMapVertex ----------------------------
(* Model-checking instance of MapVertex: every message is mapped to Forks  *)
(* results, all of which go to every stream.  What the writer does with    *)
(* other tags is in the instance of ISBWriter.                             *)
EXTENDS MapVertex

CONSTANT Forks

MCFanout == [o \in Data |-> Forks]
MCRoute(m) == Streams
MCTag(m) == "forward"
=============================================================================
