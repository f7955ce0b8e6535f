---------------------------- MODULE WebhookOutbox ----------------------------
(***************************************************************************)
(* Webhook events of one tenant and their deliveries: endpoints register   *)
(* and leave, a state transition creates an event with a delivery per      *)
(* subscriber, and deliverers claim, post, record and retry.               *)
(*                                                                         *)
(* Code: application/integrations/integration-webhook.service.ts.  A       *)
(* deliverer is one running deliverDue (worker tick, cron tick, cron       *)
(* endpoint for webhooks); one step is one transaction or one POST.        *)
(***************************************************************************)
EXTENDS Naturals, FiniteSets

CONSTANTS
  Events,       \* ids of integration_webhook_events
  Endpoints,    \* ids of integration_webhook_endpoints
  Deliveries,   \* ids of integration_webhook_deliveries
  Deliverers,   \* concurrent deliverDue calls
  Types,        \* event types
  None,         \* the null reference
  MaxAttempts,  \* DELIVERY_BACKOFF_MS.length (6 in the code)
  BatchSize,    \* deliverDue's limit (10, or 20 from the webhook cron)
  MaxFailures   \* bound on crashes, database errors and overrun leases

ASSUME NoneAssumption ==
  None \notin Events \cup Endpoints \cup Deliveries \cup Types
ASSUME LimitsAssumption ==
  MaxAttempts \in Nat \ {0} /\ BatchSize \in Nat \ {0} /\ MaxFailures \in Nat

VARIABLES
  endpoint,   \* integration_webhook_endpoints
  event,      \* per event its type, None before it is created
  delivery,   \* integration_webhook_deliveries
  todo,       \* per deliverer, claimed deliveries with the attempt it read
  run,        \* per deliverer, the delivery it attempts
  redo,       \* the manual redelivery in progress
  tries,      \* history: per delivery, POSTs attempted
  got,        \* history: deliveries some POST of which reached the client
  late,       \* history: deliveries whose lease ran out under a live holder
  failures    \* crashes, database errors and overrun leases so far

vars == <<endpoint, event, delivery, todo, run, redo, tries, got, late, failures>>
-----------------------------------------------------------------------------
\* readable: the master key still decrypts the endpoint's secret.
Endpoint == [active: BOOLEAN, readable: BOOLEAN, types: SUBSET Types]
NoEndpoint == [active |-> FALSE, readable |-> FALSE, types |-> {}]

Status == {"none", "pending", "delivering", "delivered", "failed", "dead"}
Settled == {"delivered", "failed", "dead"}

\* due abbreviates next_attempt_at <= now().
Delivery == [status: Status, event: Events \cup {None},
             endpoint: Endpoints \cup {None}, attempt: Nat, due: BOOLEAN]
NoDelivery == [status |-> "none", event |-> None, endpoint |-> None,
               attempt |-> 0, due |-> FALSE]

\* attempt is delivery.attempt as the claim returned it, ok a 2xx answer.
Run == [pc: {"idle", "read", "fail", "post", "record", "catch"},
        id: Deliveries \cup {None}, attempt: Nat, ok: BOOLEAN]
IdleRun == [pc |-> "idle", id |-> None, attempt |-> 0, ok |-> FALSE]

Redo == [event: Events \cup {None}, left: SUBSET Endpoints]
NoRedo == [event |-> None, left |-> {}]

Init ==
  /\ endpoint = [e \in Endpoints |-> NoEndpoint]
  /\ event = [v \in Events |-> None]
  /\ delivery = [d \in Deliveries |-> NoDelivery]
  /\ todo = [x \in Deliverers |-> {}]
  /\ run = [x \in Deliverers |-> IdleRun]
  /\ redo = NoRedo
  /\ tries = [d \in Deliveries |-> 0]
  /\ got = {}
  /\ late = {}
  /\ failures = 0
-----------------------------------------------------------------------------
(* Endpoints and events *)

registerEndpoint(e, types) ==
  /\ endpoint[e].types = {} /\ types # {}
  /\ endpoint' = [endpoint EXCEPT ![e] =
       [active |-> TRUE, readable |-> TRUE, types |-> types]]
  /\ UNCHANGED <<event, delivery, todo, run, redo, tries, got, late, failures>>

deactivateEndpoint(e) ==
  /\ endpoint[e].active
  /\ endpoint' = [endpoint EXCEPT ![e].active = FALSE]
  /\ UNCHANGED <<event, delivery, todo, run, redo, tries, got, late, failures>>

\* SII_MASTER_KEY is changed, or the stored secret damaged.
SecretLost(e) ==
  /\ endpoint[e].readable
  /\ endpoint' = [endpoint EXCEPT ![e].readable = FALSE]
  /\ UNCHANGED <<event, delivery, todo, run, redo, tries, got, late, failures>>

Active == {e \in Endpoints : endpoint[e].active}
Subscribers(type) == {e \in Active : type \in endpoint[e].types}
Unused == {d \in Deliveries : delivery[d].status = "none"}

NewDelivery(v, e) ==
  [status |-> "pending", event |-> v, endpoint |-> e, attempt |-> 0, due |-> TRUE]

\* emitEvent, in the transaction of the state transition: an event if anybody
\* listens at all, and one delivery per subscriber of its type.  place gives
\* each delivery row its endpoint.
emitEvent(v, type, place) ==
  /\ event[v] = None /\ Active # {}
  /\ event' = [event EXCEPT ![v] = type]
  /\ delivery' = [d \in Deliveries |->
       IF d \in DOMAIN place THEN NewDelivery(v, place[d]) ELSE delivery[d]]
  /\ UNCHANGED <<endpoint, todo, run, redo, tries, got, late, failures>>

\* The ways to give new rows to a set of endpoints, one row each.
Placements(S) ==
  UNION {{f \in [D -> S] : \A e \in S : \E d \in D : f[d] = e} :
           D \in {D \in SUBSET Unused : Cardinality(D) = Cardinality(S)}}

\* redeliver: reads the event and its subscribers, then creates the deliveries
\* one by one; it may be cut short.
redeliver(v) ==
  /\ event[v] # None /\ redo = NoRedo
  /\ Subscribers(event[v]) # {}
  /\ redo' = [event |-> v, left |-> Subscribers(event[v])]
  /\ UNCHANGED <<endpoint, event, delivery, todo, run, tries, got, late, failures>>

RedeliverOne(e, d) ==
  /\ e \in redo.left /\ d \in Unused
  /\ delivery' = [delivery EXCEPT ![d] = NewDelivery(redo.event, e)]
  /\ redo' = IF redo.left = {e} THEN NoRedo ELSE [redo EXCEPT !.left = @ \ {e}]
  /\ UNCHANGED <<endpoint, event, todo, run, tries, got, late, failures>>

RedeliverFails ==
  /\ failures < MaxFailures
  /\ redo # NoRedo
  /\ redo' = NoRedo
  /\ failures' = failures + 1
  /\ UNCHANGED <<endpoint, event, delivery, todo, run, tries, got, late>>
-----------------------------------------------------------------------------
(* Delivering *)

Held(x) == {c[1] : c \in todo[x]} \cup ({run[x].id} \ {None})

\* Mutant: a delivery its deliverer lost is not claimed again.
DuePending(d) ==
  /\ delivery[d].status = "pending"
  /\ delivery[d].due /\ delivery[d].attempt < MaxAttempts

Due(d) ==
  /\ delivery[d].status \in {"pending", "delivering"}
  /\ delivery[d].due /\ delivery[d].attempt < MaxAttempts

\* Mutant: the claim leaves next_attempt_at alone.
claimNoLease(x, S) ==
  /\ run[x].pc = "idle" /\ todo[x] = {}
  /\ S # {} /\ Cardinality(S) <= BatchSize /\ \A d \in S : Due(d)
  /\ todo' = [todo EXCEPT ![x] = {<<d, delivery[d].attempt>> : d \in S}]
  /\ delivery' = [d \in Deliveries |->
       IF d \in S THEN [delivery[d] EXCEPT !.status = "delivering"] ELSE delivery[d]]
  /\ UNCHANGED <<endpoint, event, run, redo, tries, got, late, failures>>

claimDueDeliveries(x, S) ==
  /\ run[x].pc = "idle" /\ todo[x] = {}
  /\ S # {} /\ Cardinality(S) <= BatchSize /\ \A d \in S : Due(d)
  /\ todo' = [todo EXCEPT ![x] = {<<d, delivery[d].attempt>> : d \in S}]
  /\ delivery' = [d \in Deliveries |->
       IF d \in S THEN [delivery[d] EXCEPT !.status = "delivering", !.due = FALSE]
                  ELSE delivery[d]]
  /\ UNCHANGED <<endpoint, event, run, redo, tries, got, late, failures>>

\* Time passes next_attempt_at: a retry's backoff, or the lease of a claim whose
\* holder is gone.
LeaseExpires(d) ==
  /\ delivery[d].status \in {"pending", "delivering"} /\ ~delivery[d].due
  /\ \A x \in Deliverers : d \notin Held(x)
  /\ delivery' = [delivery EXCEPT ![d].due = TRUE]
  /\ UNCHANGED <<endpoint, event, todo, run, redo, tries, got, late, failures>>

\* The 10 minutes pass while the holder is still at work on its batch, or the
\* backoff of a retry passes while an earlier holder is.
LeaseOverrun(d) ==
  /\ failures < MaxFailures
  /\ delivery[d].status \in {"pending", "delivering"} /\ ~delivery[d].due
  /\ \E x \in Deliverers : d \in Held(x)
  /\ delivery' = [delivery EXCEPT ![d].due = TRUE]
  /\ late' = late \cup {d}
  /\ failures' = failures + 1
  /\ UNCHANGED <<endpoint, event, todo, run, redo, tries, got>>

Goto(x, step) == run' = [run EXCEPT ![x].pc = step]
Finish(x) == run' = [run EXCEPT ![x] = IdleRun]

\* deliverClaimed comes to the next delivery of its batch.
Take(x, c) ==
  /\ run[x].pc = "idle" /\ c \in todo[x]
  /\ todo' = [todo EXCEPT ![x] = @ \ {c}]
  /\ run' = [run EXCEPT ![x] = [IdleRun EXCEPT !.pc = "read", !.id = c[1], !.attempt = c[2]]]
  /\ UNCHANGED <<endpoint, event, delivery, redo, tries, got, late, failures>>

\* attemptDelivery reads the endpoint, whose secret it decrypts outside the try.
ReadEndpoint(x) ==
  LET e == delivery[run[x].id].endpoint IN
  /\ run[x].pc = "read"
  /\ \/ ~endpoint[e].active /\ Goto(x, "fail")
     \/ endpoint[e].active /\ endpoint[e].readable /\ Goto(x, "post")
     \/ endpoint[e].active /\ ~endpoint[e].readable /\ Goto(x, "catch")
  /\ UNCHANGED <<endpoint, event, delivery, todo, redo, tries, got, late, failures>>

\* The endpoint was inactive.
MarkFailed(x) ==
  /\ run[x].pc = "fail"
  /\ delivery' = [delivery EXCEPT ![run[x].id].status = "failed"]
  /\ Finish(x)
  /\ UNCHANGED <<endpoint, event, todo, redo, tries, got, late, failures>>

\* One POST: it reaches the client or not (a refused URL, a lost connection, a
\* timeout), and a 2xx answer comes back or not.
Post(x) ==
  /\ run[x].pc = "post"
  /\ tries' = [tries EXCEPT ![run[x].id] = @ + 1]
  /\ \/ /\ got' = got \cup {run[x].id}
        /\ \E ok \in BOOLEAN : run' = [run EXCEPT ![x].pc = "record", ![x].ok = ok]
     \/ /\ UNCHANGED got
        /\ run' = [run EXCEPT ![x].pc = "record", ![x].ok = FALSE]
  /\ UNCHANGED <<endpoint, event, delivery, todo, redo, late, failures>>

\* Mutants: one attempt too few, one too many.
ExhaustedEarly(attempt) == attempt + 1 >= MaxAttempts
ExhaustedLate(attempt) == attempt > MaxAttempts

Exhausted(attempt) == attempt >= MaxAttempts

\* The outcome is written from the attempt the claim returned.  A delivered row
\* keeps its next_attempt_at.
Record(x) ==
  LET d == run[x].id  attempt == run[x].attempt + 1 IN
  /\ run[x].pc = "record"
  /\ delivery' = [delivery EXCEPT ![d] =
       IF run[x].ok
         THEN [@ EXCEPT !.attempt = attempt, !.status = "delivered"]
         ELSE [@ EXCEPT !.attempt = attempt, !.due = FALSE,
                        !.status = IF Exhausted(attempt) THEN "dead" ELSE "pending"]]
  /\ Finish(x)
  /\ UNCHANGED <<endpoint, event, todo, redo, tries, got, late, failures>>

\* A read or a write of attemptDelivery fails.
Breaks(x) ==
  /\ failures < MaxFailures
  /\ run[x].pc \in {"read", "fail", "record"}
  /\ Goto(x, "catch")
  /\ failures' = failures + 1
  /\ UNCHANGED <<endpoint, event, delivery, todo, redo, tries, got, late>>

\* The catch of deliverClaimed: pending again, the attempt not counted.
Catch(x) ==
  /\ run[x].pc = "catch"
  /\ delivery' = [delivery EXCEPT ![run[x].id] = [@ EXCEPT !.status = "pending", !.due = FALSE]]
  /\ Finish(x)
  /\ UNCHANGED <<endpoint, event, todo, redo, tries, got, late, failures>>

\* The process dies, or the catch's own update fails and is swallowed.
Crash(x) ==
  /\ failures < MaxFailures
  /\ \/ /\ run[x] # IdleRun \/ todo[x] # {}
        /\ todo' = [todo EXCEPT ![x] = {}]
     \/ /\ run[x].pc = "catch"
        /\ UNCHANGED todo
  /\ Finish(x)
  /\ failures' = failures + 1
  /\ UNCHANGED <<endpoint, event, delivery, redo, tries, got, late>>

DelivererStep(x) ==
  \/ \E c \in todo[x] : Take(x, c)
  \/ ReadEndpoint(x) \/ MarkFailed(x) \/ Post(x) \/ Record(x) \/ Catch(x)

Next ==
  \/ \E e \in Endpoints : \/ deactivateEndpoint(e) \/ SecretLost(e)
                          \/ \E types \in SUBSET Types : registerEndpoint(e, types)
                          \/ \E d \in Deliveries : RedeliverOne(e, d)
  \/ \E v \in Events : \/ redeliver(v)
                       \/ \E type \in Types : \E place \in Placements(Subscribers(type)) :
                            emitEvent(v, type, place)
  \/ RedeliverFails
  \/ \E d \in Deliveries : LeaseExpires(d) \/ LeaseOverrun(d)
  \/ \E x \in Deliverers : \/ \E S \in SUBSET Deliveries : claimDueDeliveries(x, S)
                           \/ DelivererStep(x) \/ Breaks(x) \/ Crash(x)

Spec == Init /\ [][Next]_vars

\* A running call goes on, the clock reaches next_attempt_at, and ticks claim
\* in the order of next_attempt_at, so no due delivery is passed over for ever.
Fairness ==
  /\ \A x \in Deliverers : WF_vars(DelivererStep(x))
  /\ \A d \in Deliveries :
       /\ WF_vars(LeaseExpires(d))
       /\ SF_vars(\E x \in Deliverers, S \in SUBSET Deliveries :
                    d \in S /\ claimDueDeliveries(x, S))

FairSpec == Spec /\ Fairness
-----------------------------------------------------------------------------
(* Properties *)

\* Types of the endpoint, event and delivery rows and of what each deliverDue
\* remembers.
TypeOK ==
  /\ endpoint \in [Endpoints -> Endpoint]
  /\ event \in [Events -> Types \cup {None}]
  /\ delivery \in [Deliveries -> Delivery]
  /\ todo \in [Deliverers -> SUBSET (Deliveries \X Nat)]
  /\ run \in [Deliverers -> Run]
  /\ redo \in Redo
  /\ tries \in [Deliveries -> Nat]
  /\ got \in SUBSET Deliveries
  /\ late \in SUBSET Deliveries
  /\ failures \in 0..MaxFailures

\* attemptDelivery gives a delivery up as dead only after the whole backoff
\* table: however claims, crashes and late results interleave, a POST of it was
\* attempted MaxAttempts times.
DeadWasTried ==
  \A d \in Deliveries : delivery[d].status = "dead" => tries[d] >= MaxAttempts

\* A delivery that attemptDelivery records as delivered reached the client,
\* whichever of several deliverers wrote the record.
DeliveredWasReceived ==
  \A d \in Deliveries : delivery[d].status = "delivered" => d \in got

\* What the history of deliveries tells an administrator happened.
OutcomesAreReal == DeadWasTried /\ DeliveredWasReceived

\* A delivery still open can be claimed again: claimDueDeliveries passes over
\* rows whose attempts are used up, so an open row with none left would be
\* stranded.  (A record that comes after the lease ran out may do just that.)
NeverStranded ==
  \A d \in Deliveries \ late :
    delivery[d].status \in {"pending", "delivering"} => delivery[d].attempt < MaxAttempts

\* "Entregas con reintentos acotados": every POST beyond the backoff table is
\* owed to a crash or a database error between the POST and its record; a lease
\* that runs out costs at most the whole table once more.
BoundedPosts ==
  \A d \in Deliveries :
    tries[d] <= IF d \in late THEN MaxAttempts * (1 + failures) ELSE MaxAttempts + failures

\* A delivery that was delivered, failed or given up is not reopened by another
\* deliverDue's record, as long as its lease never ran out under its holder.
SettledStays ==
  [][\A d \in Deliveries \ late :
       delivery[d].status \in Settled => delivery'[d].status = delivery[d].status]_vars

\* Every delivery is eventually delivered, failed or dead, also when deliverers
\* crash between the POST and its record, unless its endpoint's secret cannot be
\* read or its lease ran out under its holder.
ReadableDeliveryEnds ==
  \A d \in Deliveries :
    delivery[d].status = "pending" ~>
      \/ delivery[d].status \in Settled \/ d \in late
      \/ \E e \in Endpoints : e = delivery[d].endpoint /\ ~endpoint[e].readable
=============================================================================
