--------------------------- MODULE MCPipelineRaces ---------------------------
(* RequestPipeline for TLC with every fault: leases that expire while their     *)
(* worker still runs, intake snapshots that are written back late, and lookups, *)
(* preparations, writes and processes that fail.                                *)
EXTENDS RequestStatus, TLC

Symmetry == Permutations(Requests) \cup Permutations(DteIds)
              \cup Permutations(Workers) \cup Permutations(Pollers)
===============================================================================
