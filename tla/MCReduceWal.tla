----------------------------- MODULE MCReduceWal -----------------------------
(* Model-checking instances of ReduceWal.                                  *)
EXTENDS ReduceWal

\* One key, and event times that need not rise: messages 1 and 3 are older than 2.
MCKey == [m \in Msgs |-> CHOOSE k \in Keys : TRUE]
MCEt == [m \in Msgs |-> IF m = 2 THEN 1 ELSE 0]
=============================================================================
