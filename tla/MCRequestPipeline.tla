-------------------------- MODULE MCRequestPipeline --------------------------
(* Instances of RequestPipeline for TLC. *)
EXTENDS RequestPipeline, TLC

Symmetry == Permutations(Requests) \cup Permutations(DteIds)
              \cup Permutations(Workers) \cup Permutations(Pollers)
=============================================================================
