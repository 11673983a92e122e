-------------------------- MODULE MCMediaPipeline --------------------------
(* MediaPipeline on small instances.                                       *)
EXTENDS MediaPipeline, TLC

NoFaults == {}
Symmetry == Permutations(Photos) \cup Permutations(Handlers) \cup Permutations(Processes)
=============================================================================
