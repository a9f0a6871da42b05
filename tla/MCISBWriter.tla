---------------------------- MODULE MCISBWriter ----------------------------
(* Model-checking instances of ISBWriter.  a goes to both streams, b to the *)
(* second one only, x is dropped and n nacked by its tag.                   *)
EXTENDS ISBWriter, TLC

CONSTANTS a, b, x, n

MCRoutes == [m \in Msgs |-> CASE m = b -> {2} \cap Streams
                              [] OTHER -> Streams]
MCTag == [m \in Msgs |-> CASE m = x -> "drop" [] m = n -> "nack" [] OTHER -> "forward"]

=============================================================================
