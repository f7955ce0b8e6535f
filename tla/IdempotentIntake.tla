--------------------------- MODULE IdempotentIntake ---------------------------
(***************************************************************************)
(* What the request intake promises its clients, in two atomic actions: a  *)
(* request is taken when neither its key nor its reference is used, and a  *)
(* call is answered by what has been taken.                                *)
(*                                                                         *)
(* The rules are the comment over IntegrationRequestService: the same key  *)
(* with the same body is the original answer, with another body a 409      *)
(* IDEMPOTENCY_CONFLICT; a reference used with another key is a 409        *)
(* EXTERNAL_REFERENCE_CONFLICT.                                            *)
(***************************************************************************)
CONSTANTS
  Clients,     \* calls of clients
  Inputs,      \* what a call can carry: [slot, key, body, ref]
  NoRef,       \* a body without externalReference
  NoInput      \* a call that did not arrive yet

VARIABLES
  rows,    \* the inputs that were taken, one per request
  input,   \* per client call, what it carries
  answer   \* per client call, what it was told

vars == <<rows, input, answer>>

SameKey(a, b) == a.slot = b.slot /\ a.key = b.key
SameRef(a, b) == a.ref # NoRef /\ a.ref = b.ref

Init ==
  /\ rows = {}
  /\ input = [c \in Clients |-> NoInput]
  /\ answer = [c \in Clients |-> "none"]

Call(c) ==
  /\ input[c] = NoInput
  /\ \E i \in Inputs : input' = [input EXCEPT ![c] = i]
  /\ UNCHANGED <<rows, answer>>

Take ==
  /\ \E i \in Inputs : /\ rows' = rows \cup {i}
                       /\ \A j \in rows : ~SameKey(i, j) /\ ~SameRef(i, j)
  /\ UNCHANGED <<input, answer>>

\* The answers the taken requests justify.
Justified(i) ==
  {a \in {"accepted", "key_conflict", "ref_conflict"} : \E j \in rows :
     \/ a = "accepted" /\ i = j
     \/ a = "key_conflict" /\ SameKey(i, j) /\ i.body # j.body
     \/ a = "ref_conflict" /\ SameRef(i, j) /\ ~SameKey(i, j)}

Reply(c) ==
  /\ input[c] # NoInput /\ answer[c] = "none"
  /\ \E a \in Justified(input[c]) : answer' = [answer EXCEPT ![c] = a]
  /\ UNCHANGED <<rows, input>>

Next ==
  \/ Take
  \/ \E c \in Clients : Call(c) \/ Reply(c)

Spec == Init /\ [][Next]_vars
===============================================================================
