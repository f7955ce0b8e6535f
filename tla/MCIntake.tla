------------------------------- MODULE MCIntake -------------------------------
(* Instances of Intake for TLC. *)
EXTENDS Intake, TLC

CONSTANTS b1, b2, b3, r1

\* Two bodies share a reference, one has none.
MCRefOf == b1 :> r1 @@ b2 :> r1 @@ b3 :> NoRef

MCSlots == {"dte", "rcof"}

\* Client calls and daily runs never meet: their keys differ and a daily request
\* has no reference.  One of the two kinds is looked at in a behaviour.
Apart ==
  \/ \A c \in Clients : input[c] = NoInput
  \/ day = 1 /\ \A x \in Runners : call[x] = IdleCall

Symmetry == Permutations(Clients) \cup Permutations(Keys)
===============================================================================
