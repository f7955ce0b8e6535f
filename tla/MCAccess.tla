------------------------------- MODULE MCAccess -------------------------------
(* Instances of Access for TLC. *)
EXTENDS Access, TLC

Symmetry == Permutations(Creds) \cup Permutations(Messages) \cup Permutations(Handlers)
===============================================================================
