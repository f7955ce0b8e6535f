--------------------------- MODULE RequestLifecycle ---------------------------
(***************************************************************************)
(* What the API promises about one integration request, whatever runs      *)
(* behind it: the public state only moves forward, a resolved request      *)
(* never moves again, and each state a client may act on is announced by a *)
(* webhook event exactly when it is entered.                               *)
(***************************************************************************)
EXTENDS Sequences

CONSTANT Requests

VARIABLES
  state,      \* the public state of each request
  announced   \* the states of its webhook events, in order

vars == <<state, announced>>

\* The forward part of ALLOWED_TRANSITIONS: once submitted, only the SII
\* decides, and failed is left to manual reconciliation.
Forward ==
  { <<"processing", "submitted">>, <<"processing", "failed">>,
    <<"submitted", "observed">>, <<"submitted", "accepted">>,
    <<"submitted", "rejected">>, <<"observed", "accepted">>,
    <<"observed", "rejected">> }

Init ==
  /\ state = [r \in Requests |-> "none"]
  /\ announced = [r \in Requests |-> <<>>]

\* The 202 answer.
Receive(r) ==
  /\ state[r] = "none"
  /\ state' = [state EXCEPT ![r] = "queued"]
  /\ UNCHANGED announced

\* A processor claims a batch, new requests and retried ones; queued and
\* processing are not announced.
TakeBatch(S) ==
  /\ S # {} /\ \A r \in S : state[r] \in {"queued", "processing"}
  /\ state' = [r \in Requests |-> IF r \in S THEN "processing" ELSE state[r]]
  /\ UNCHANGED announced

\* A notifiable state is entered and announced in one step.
Announce(r, new) ==
  /\ <<state[r], new>> \in Forward
  /\ state' = [state EXCEPT ![r] = new]
  /\ announced' = [announced EXCEPT ![r] = Append(@, new)]

Next ==
  \/ \E r \in Requests : Receive(r)
  \/ \E S \in SUBSET Requests : TakeBatch(S)
  \/ \E r \in Requests, new \in {"submitted", "failed", "observed", "accepted", "rejected"} :
       Announce(r, new)

Spec == Init /\ [][Next]_vars
===============================================================================
