------------------------- MODULE MCWatermarkVertex -------------------------
(* Model-checking instances of WatermarkVertex.                            *)
EXTENDS WatermarkVertex, TLC

\* Processors are interchangeable identities.
SymProcs == Permutations(Procs)
=============================================================================
