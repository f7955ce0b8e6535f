-------------------------------- MODULE MCRcof --------------------------------
(* Instances of Rcof for TLC. *)
EXTENDS Rcof, TLC

CONSTANTS daily, manual

MCRequests == {daily, manual}
\* The daily request may retry, the client's gets one attempt.
MCMaxAttempts == [r \in {daily, manual} |-> IF r = daily THEN 2 ELSE 1]
===============================================================================
