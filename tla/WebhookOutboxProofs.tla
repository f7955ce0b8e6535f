------------------------- MODULE WebhookOutboxProofs -------------------------
(***************************************************************************)
(* Properties of WebhookOutbox for any number of endpoints, events,        *)
(* deliveries and deliverers, and any bounds.                              *)
(***************************************************************************)
EXTENDS WebhookOutbox, FiniteSetTheorems, TLAPS

\* What a deliverer remembers never runs ahead of the POSTs made, and a 2xx
\* answer comes from a client that was reached.
RunOK(x) ==
  /\ \A c \in todo[x] : c[2] <= tries[c[1]]
  /\ run[x].pc # "idle" =>
       /\ run[x].id \in Deliveries
       /\ run[x].attempt <= tries[run[x].id]
       /\ run[x].pc = "record" => run[x].attempt < tries[run[x].id]
       /\ run[x].pc = "record" /\ run[x].ok => run[x].id \in got

\* The same for what the row says.
DeliveryOK(d) ==
  /\ delivery[d].attempt <= tries[d]
  /\ delivery[d].status = "dead" => tries[d] >= MaxAttempts
  /\ delivery[d].status = "delivered" => d \in got

\* The inductive invariant, whatever the faults.
CountInv ==
  /\ TypeOK
  /\ \A x \in Deliverers : RunOK(x)
  /\ \A d \in Deliveries : DeliveryOK(d)
-----------------------------------------------------------------------------
\* The initial state satisfies the invariant.
LEMMA InitCount == Init => CountInv
  <1> SUFFICES ASSUME Init PROVE CountInv
    OBVIOUS
  <1>1. TypeOK
    BY LimitsAssumption DEF Init, TypeOK, Endpoint, NoEndpoint, Delivery, NoDelivery, Status,
       Run, IdleRun, Redo, NoRedo
  <1> QED
    BY <1>1 DEF Init, CountInv, RunOK, DeliveryOK, NoDelivery, IdleRun

\* Steps that touch neither deliverers nor history only add fresh rows, or
\* change none.
LEMMA OutsideCount ==
  ASSUME CountInv,
         \/ \E e \in Endpoints : \/ deactivateEndpoint(e) \/ SecretLost(e)
                                 \/ \E types \in SUBSET Types : registerEndpoint(e, types)
                                 \/ \E d \in Deliveries : RedeliverOne(e, d)
         \/ \E v \in Events : \/ redeliver(v)
                              \/ \E type \in Types :
                                   \E place \in Placements(Subscribers(type)) :
                                     emitEvent(v, type, place)
         \/ RedeliverFails
         \/ \E d \in Deliveries : LeaseExpires(d) \/ LeaseOverrun(d)
  PROVE  CountInv'
  <1> USE DEF CountInv
  <1>1. /\ UNCHANGED <<todo, run, tries, got>>
        /\ \A x \in Deliverers : RunOK(x)'
    <2>1. UNCHANGED <<todo, run, tries, got>>
      BY DEF deactivateEndpoint, SecretLost, registerEndpoint, RedeliverOne, redeliver,
         emitEvent, RedeliverFails, LeaseExpires, LeaseOverrun
    <2> QED
      BY <2>1 DEF RunOK
  <1>2. ASSUME NEW e \in Endpoints,
               \/ deactivateEndpoint(e) \/ SecretLost(e)
               \/ \E types \in SUBSET Types : registerEndpoint(e, types)
        PROVE  CountInv'
    <2>1. UNCHANGED <<event, delivery, redo, late, failures>>
      BY <1>2 DEF deactivateEndpoint, SecretLost, registerEndpoint
    <2>2. \E new \in Endpoint : endpoint' = [endpoint EXCEPT ![e] = new]
      <3>1. CASE deactivateEndpoint(e) \/ SecretLost(e)
        <4>1. /\ [endpoint[e] EXCEPT !.active = FALSE] \in Endpoint
              /\ [endpoint[e] EXCEPT !.readable = FALSE] \in Endpoint
          BY DEF TypeOK, Endpoint
        <4> QED
          BY <3>1, <4>1 DEF deactivateEndpoint, SecretLost
      <3>2. ASSUME NEW types \in SUBSET Types, registerEndpoint(e, types)
            PROVE  \E new \in Endpoint : endpoint' = [endpoint EXCEPT ![e] = new]
        <4>1. [active |-> TRUE, readable |-> TRUE, types |-> types] \in Endpoint
          BY DEF Endpoint
        <4> QED
          BY <3>2, <4>1 DEF registerEndpoint
      <3> QED
        BY <1>2, <3>1, <3>2
    <2>3. endpoint' \in [Endpoints -> Endpoint]
      BY <2>2 DEF TypeOK
    <2> QED
      BY <1>1, <2>1, <2>3 DEF TypeOK, DeliveryOK
  <1>3. ASSUME NEW e \in Endpoints, NEW d \in Deliveries, RedeliverOne(e, d)
        PROVE  CountInv'
    <2>1. UNCHANGED <<endpoint, event, late, failures>>
      BY <1>3 DEF RedeliverOne
    <2>2. redo' \in Redo
      BY <1>3 DEF RedeliverOne, TypeOK, Redo, NoRedo
    <2>3. NewDelivery(redo.event, e) \in Delivery
      BY DEF NewDelivery, Delivery, Status, TypeOK, Redo
    <2>4. delivery' = [delivery EXCEPT ![d] = NewDelivery(redo.event, e)]
      BY <1>3 DEF RedeliverOne
    <2>5. delivery' \in [Deliveries -> Delivery]
      BY <2>3, <2>4 DEF TypeOK
    <2>6. ASSUME NEW f \in Deliveries PROVE DeliveryOK(f)'
      BY <1>1, <2>4 DEF DeliveryOK, NewDelivery, TypeOK
    <2> QED
      BY <1>1, <2>1, <2>2, <2>5, <2>6 DEF TypeOK
  <1>4. ASSUME NEW v \in Events, redeliver(v) PROVE CountInv'
    <2>1. UNCHANGED <<endpoint, event, delivery, late, failures>>
      BY <1>4 DEF redeliver
    <2>2. redo' \in Redo
      BY <1>4 DEF redeliver, Redo, Subscribers, Active
    <2> QED
      BY <1>1, <2>1, <2>2 DEF TypeOK, DeliveryOK
  <1>5. ASSUME NEW v \in Events, NEW type \in Types,
               NEW place \in Placements(Subscribers(type)), emitEvent(v, type, place)
        PROVE  CountInv'
    <2>1. UNCHANGED <<endpoint, redo, late, failures>>
      BY <1>5 DEF emitEvent
    <2>2. event' \in [Events -> Types \cup {None}]
      BY <1>5 DEF emitEvent, TypeOK
    <2>3. \A d \in DOMAIN place : place[d] \in Endpoints
      <3>1. PICK D : place \in [D -> Subscribers(type)]
        BY DEF Placements
      <3>2. \A e \in Subscribers(type) : e \in Endpoints
        BY DEF Subscribers, Active
      <3> QED
        BY <3>1, <3>2
    <2>4. ASSUME NEW d \in Deliveries
          PROVE  delivery'[d] = delivery[d]
                   \/ \E e \in Endpoints : delivery'[d] = NewDelivery(v, e)
      BY <1>5, <2>3 DEF emitEvent
    <2>5. \A e \in Endpoints : NewDelivery(v, e) \in Delivery
      BY DEF NewDelivery, Delivery, Status
    <2>6. delivery' = [d \in Deliveries |-> delivery'[d]]
      BY <1>5 DEF emitEvent
    <2>7. \A d \in Deliveries : delivery'[d] \in Delivery
      BY <2>4, <2>5 DEF TypeOK
    <2>8. delivery' \in [Deliveries -> Delivery]
      BY <2>6, <2>7
    <2>9. ASSUME NEW d \in Deliveries PROVE DeliveryOK(d)'
      <3>1. CASE delivery'[d] = delivery[d]
        BY <1>1, <3>1 DEF DeliveryOK
      <3>2. ASSUME NEW e \in Endpoints, delivery'[d] = NewDelivery(v, e) PROVE DeliveryOK(d)'
        BY <1>1, <3>2 DEF DeliveryOK, NewDelivery, TypeOK
      <3> QED
        BY <2>4, <3>1, <3>2
    <2> QED
      BY <1>1, <2>1, <2>2, <2>8, <2>9 DEF TypeOK
  <1>6. ASSUME RedeliverFails PROVE CountInv'
    <2>1. UNCHANGED <<endpoint, event, delivery, late>> /\ redo' = NoRedo /\ failures' = failures + 1
          /\ failures < MaxFailures
      BY <1>6 DEF RedeliverFails
    <2>2. redo' \in Redo /\ failures' \in 0..MaxFailures
      BY <2>1, LimitsAssumption DEF TypeOK, Redo, NoRedo
    <2> QED
      BY <1>1, <2>1, <2>2 DEF TypeOK, DeliveryOK
  <1>7. ASSUME NEW d \in Deliveries, LeaseExpires(d) \/ LeaseOverrun(d) PROVE CountInv'
    <2>1. /\ UNCHANGED <<endpoint, event, redo>>
          /\ delivery' = [delivery EXCEPT ![d].due = TRUE]
          /\ late' \in SUBSET Deliveries /\ failures' \in 0..MaxFailures
      BY <1>7, LimitsAssumption DEF LeaseExpires, LeaseOverrun, TypeOK
    <2>2. delivery' \in [Deliveries -> Delivery]
      BY <2>1 DEF TypeOK, Delivery
    <2>3. ASSUME NEW f \in Deliveries PROVE DeliveryOK(f)'
      BY <1>1, <2>1 DEF DeliveryOK, TypeOK, Delivery
    <2> QED
      BY <1>1, <2>1, <2>2, <2>3 DEF TypeOK
  <1> QED
    BY <1>2, <1>3, <1>4, <1>5, <1>6, <1>7

\* Claiming and taking a delivery copies its attempt.
LEMMA ClaimCount ==
  ASSUME CountInv, NEW x \in Deliverers,
         \/ \E S \in SUBSET Deliveries : claimDueDeliveries(x, S)
         \/ \E c \in todo[x] : Take(x, c)
  PROVE  CountInv'
  <1> USE DEF CountInv
  <1>1. ASSUME NEW S \in SUBSET Deliveries, claimDueDeliveries(x, S) PROVE CountInv'
    <2>1. /\ UNCHANGED <<endpoint, event, run, redo, tries, got, late, failures>>
          /\ todo' = [todo EXCEPT ![x] = {<<d, delivery[d].attempt>> : d \in S}]
          /\ delivery' = [d \in Deliveries |->
               IF d \in S THEN [delivery[d] EXCEPT !.status = "delivering", !.due = FALSE]
                          ELSE delivery[d]]
      BY <1>1 DEF claimDueDeliveries
    <2>2. \A d \in Deliveries : delivery'[d] \in Delivery
      BY <2>1 DEF TypeOK, Delivery, Status
    <2>3. delivery' \in [Deliveries -> Delivery]
      BY <2>1, <2>2
    <2>4. {<<d, delivery[d].attempt>> : d \in S} \in SUBSET (Deliveries \X Nat)
      BY DEF TypeOK, Delivery
    <2>5. todo' \in [Deliverers -> SUBSET (Deliveries \X Nat)]
      BY <2>1, <2>4 DEF TypeOK
    <2>6. ASSUME NEW d \in Deliveries PROVE DeliveryOK(d)'
      BY <2>1 DEF DeliveryOK, TypeOK, Delivery
    <2>7. ASSUME NEW y \in Deliverers PROVE RunOK(y)'
      <3>1. ASSUME NEW c \in todo'[y] PROVE c[2] <= tries[c[1]]
        <4>1. CASE y = x
          <5>1. PICK d \in S : c = <<d, delivery[d].attempt>>
            BY <2>1, <3>1, <4>1 DEF TypeOK
          <5> QED
            BY <5>1 DEF DeliveryOK
        <4>2. CASE y # x
          BY <2>1, <3>1, <4>2 DEF RunOK, TypeOK
        <4> QED
          BY <4>1, <4>2
      <3> QED
        BY <2>1, <3>1 DEF RunOK
    <2> QED
      BY <2>1, <2>3, <2>5, <2>6, <2>7 DEF TypeOK
  <1>2. ASSUME NEW c \in todo[x], Take(x, c) PROVE CountInv'
    <2>1. /\ UNCHANGED <<endpoint, event, delivery, redo, tries, got, late, failures>>
          /\ todo' = [todo EXCEPT ![x] = @ \ {c}]
          /\ run' = [run EXCEPT ![x] =
               [IdleRun EXCEPT !.pc = "read", !.id = c[1], !.attempt = c[2]]]
      BY <1>2 DEF Take
    <2>2. c[1] \in Deliveries /\ c[2] \in Nat /\ c[2] <= tries[c[1]]
      BY DEF TypeOK, RunOK
    <2>3. todo' \in [Deliverers -> SUBSET (Deliveries \X Nat)] /\ run' \in [Deliverers -> Run]
      BY <2>1, <2>2 DEF TypeOK, Run, IdleRun
    <2>4. ASSUME NEW y \in Deliverers PROVE RunOK(y)'
      BY <2>1, <2>2 DEF RunOK, TypeOK, IdleRun
    <2> QED
      BY <2>1, <2>3, <2>4 DEF TypeOK, DeliveryOK
  <1> QED
    BY <1>1, <1>2

\* The steps of an attempt: only Post adds to the history, only the others
\* write the row.
LEMMA AttemptCount ==
  ASSUME CountInv, NEW x \in Deliverers,
         \/ ReadEndpoint(x) \/ MarkFailed(x) \/ Post(x) \/ Record(x) \/ Catch(x)
         \/ Breaks(x) \/ Crash(x)
  PROVE  CountInv'
  <1> USE DEF CountInv
  <1>1. IdleRun \in Run
    BY DEF IdleRun, Run
  <1>2. CASE ReadEndpoint(x) \/ Breaks(x)
    <2>1. PICK step \in {"fail", "post", "catch"} : run' = [run EXCEPT ![x].pc = step]
      BY <1>2 DEF ReadEndpoint, Breaks, Goto
    <2>2. /\ UNCHANGED <<endpoint, event, delivery, todo, redo, tries, got, late>>
          /\ failures' \in 0..MaxFailures
          /\ run[x].pc # "idle"
      <3>1. /\ UNCHANGED <<endpoint, event, delivery, todo, redo, tries, got, late>>
            /\ run[x].pc # "idle"
            /\ failures' = failures \/ (failures < MaxFailures /\ failures' = failures + 1)
        BY <1>2 DEF ReadEndpoint, Breaks
      <3>2. failures \in 0..MaxFailures
        BY DEF TypeOK
      <3> HIDE DEF CountInv
      <3> QED
        BY <3>1, <3>2, LimitsAssumption
    <2>3. run' \in [Deliverers -> Run]
      <3>1. run \in [Deliverers -> Run]
        BY DEF TypeOK
      <3>2. [run[x] EXCEPT !.pc = step] \in Run
        BY <3>1 DEF Run
      <3> QED
        BY <2>1, <3>1, <3>2
    <2>4. ASSUME NEW y \in Deliverers PROVE RunOK(y)'
      BY <2>1, <2>2 DEF RunOK, TypeOK, Run
    <2> QED
      BY <2>2, <2>3, <2>4 DEF TypeOK, DeliveryOK
  <1>3. CASE MarkFailed(x) \/ Catch(x)
    <2>1. /\ UNCHANGED <<endpoint, event, todo, redo, tries, got, late, failures>>
          /\ run' = [run EXCEPT ![x] = IdleRun]
          /\ run[x].pc # "idle"
      BY <1>3 DEF MarkFailed, Catch, Finish
    <2>2. run[x].id \in Deliveries
      BY <2>1 DEF RunOK
    <2>3. \E new \in Delivery : /\ delivery' = [delivery EXCEPT ![run[x].id] = new]
                                /\ new.attempt = delivery[run[x].id].attempt
                                /\ new.status \in {"failed", "pending"}
      <3> DEFINE old == delivery[run[x].id]
      <3>1. /\ [old EXCEPT !.status = "failed"] \in Delivery
            /\ [old EXCEPT !.status = "pending", !.due = FALSE] \in Delivery
            /\ [old EXCEPT !.status = "failed"].attempt = old.attempt
            /\ [old EXCEPT !.status = "failed"].status = "failed"
            /\ [old EXCEPT !.status = "pending", !.due = FALSE].attempt = old.attempt
            /\ [old EXCEPT !.status = "pending", !.due = FALSE].status = "pending"
        <4>1. old \in Delivery
          BY <2>2 DEF TypeOK
        <4> HIDE DEF old, CountInv
        <4> QED
          BY <4>1 DEF Delivery, Status
      <3> QED
        BY <1>3, <3>1 DEF MarkFailed, Catch
    <2>4. delivery' \in [Deliveries -> Delivery] /\ run' \in [Deliverers -> Run]
      BY <1>1, <2>1, <2>3 DEF TypeOK
    <2>5. ASSUME NEW d \in Deliveries PROVE DeliveryOK(d)'
      BY <2>1, <2>3 DEF DeliveryOK, TypeOK
    <2>6. ASSUME NEW y \in Deliverers PROVE RunOK(y)'
      BY <2>1 DEF RunOK, TypeOK, IdleRun
    <2> QED
      BY <2>1, <2>4, <2>5, <2>6 DEF TypeOK
  <1>4. CASE Post(x)
    <2>1. /\ UNCHANGED <<endpoint, event, delivery, todo, redo, late, failures>>
          /\ run[x].pc = "post"
          /\ tries' = [tries EXCEPT ![run[x].id] = @ + 1]
      BY <1>4 DEF Post
    <2>2. PICK ok \in BOOLEAN :
            /\ run' = [run EXCEPT ![x].pc = "record", ![x].ok = ok]
            /\ ok => run[x].id \in got'
            /\ got \subseteq got' /\ got' \subseteq got \cup {run[x].id}
      BY <1>4 DEF Post
    <2>3. run[x].id \in Deliveries /\ run[x].attempt <= tries[run[x].id]
      BY <2>1 DEF RunOK
    <2>4. tries' \in [Deliveries -> Nat] /\ \A d \in Deliveries : tries[d] <= tries'[d]
      BY <2>1, <2>3 DEF TypeOK
    <2>5. run' \in [Deliverers -> Run] /\ got' \in SUBSET Deliveries
      <3>1. run \in [Deliverers -> Run] /\ got \in SUBSET Deliveries
        BY DEF TypeOK
      <3>2. [run[x] EXCEPT !.pc = "record", !.ok = ok] \in Run
        BY <3>1 DEF Run
      <3> QED
        BY <2>2, <2>3, <3>1, <3>2
    <2>6. run[x].attempt < tries'[run[x].id]
      BY <2>1, <2>3 DEF TypeOK, Run
    <2>7. ASSUME NEW d \in Deliveries PROVE DeliveryOK(d)'
      BY <2>1, <2>2, <2>4, LimitsAssumption DEF DeliveryOK, TypeOK, Delivery
    <2>8. ASSUME NEW y \in Deliverers PROVE RunOK(y)'
      <3>1. \A c \in todo'[y] : c[2] <= tries'[c[1]]
        <4>1. \A c \in todo[y] : c[1] \in Deliveries /\ c[2] \in Nat /\ c[2] <= tries[c[1]]
          BY DEF TypeOK, RunOK
        <4> QED
          BY <2>1, <2>4, <4>1 DEF TypeOK
      <3>2. CASE y = x
        <4>1. /\ run'[y].pc = "record" /\ run'[y].ok = ok
              /\ run'[y].id = run[x].id /\ run'[y].attempt = run[x].attempt
          BY <2>2, <3>2 DEF TypeOK, Run
        <4>2. run[x].attempt \in Nat /\ tries'[run[x].id] \in Nat
          BY <2>3, <2>4 DEF TypeOK, Run
        <4> QED
          BY <2>2, <2>3, <2>6, <3>1, <4>1, <4>2 DEF RunOK
      <3>3. CASE y # x
        <4>1. run'[y] = run[y] /\ run[y].attempt \in Nat
          BY <2>2, <3>3 DEF TypeOK, Run
        <4>2. run[y].pc # "idle" => tries[run[y].id] \in Nat /\ tries'[run[y].id] \in Nat
                                    /\ tries[run[y].id] <= tries'[run[y].id]
          BY <2>4 DEF RunOK, TypeOK
        <4>3. RunOK(y)
          OBVIOUS
        <4>4. ASSUME run[y].pc # "idle"
              PROVE  /\ run[y].id \in Deliveries
                     /\ run[y].attempt <= tries'[run[y].id]
                     /\ run[y].pc = "record" => run[y].attempt < tries'[run[y].id]
          BY <4>1, <4>2, <4>3, <4>4 DEF RunOK
        <4>5. run[y].pc = "record" /\ run[y].ok => run[y].id \in got'
          BY <2>2, <4>3 DEF RunOK
        <4> QED
          BY <3>1, <4>1, <4>4, <4>5 DEF RunOK
      <3> QED
        BY <3>2, <3>3
    <2> QED
      BY <2>1, <2>4, <2>5, <2>7, <2>8 DEF TypeOK
  <1>5. CASE Record(x)
    <2> DEFINE d == run[x].id  old == delivery[d]  attempt == run[x].attempt + 1
               new == IF run[x].ok
                        THEN [old EXCEPT !.attempt = attempt, !.status = "delivered"]
                        ELSE [old EXCEPT !.attempt = attempt, !.due = FALSE,
                               !.status = IF Exhausted(attempt) THEN "dead" ELSE "pending"]
    <2>1. /\ UNCHANGED <<endpoint, event, todo, redo, tries, got, late, failures>>
          /\ run' = [run EXCEPT ![x] = IdleRun]
          /\ run[x].pc = "record"
          /\ delivery' = [delivery EXCEPT ![d] = new]
      BY <1>5 DEF Record, Finish
    <2>2. /\ d \in Deliveries /\ old \in Delivery
          /\ attempt \in Nat /\ attempt <= tries[d] /\ tries[d] \in Nat
          /\ run[x].ok => d \in got
      BY <2>1 DEF RunOK, TypeOK, Run
    <2>3. /\ new \in Delivery /\ new.attempt = attempt
          /\ new.status = "delivered" => run[x].ok
          /\ new.status = "dead" => attempt >= MaxAttempts
      BY <2>2 DEF Delivery, Status, Exhausted
    <2> HIDE DEF new, attempt
    <2>4. delivery' \in [Deliveries -> Delivery] /\ run' \in [Deliverers -> Run]
      BY <1>1, <2>1, <2>2, <2>3 DEF TypeOK
    <2>5. ASSUME NEW f \in Deliveries PROVE DeliveryOK(f)'
      BY <2>1, <2>2, <2>3, LimitsAssumption DEF DeliveryOK, TypeOK
    <2>6. ASSUME NEW y \in Deliverers PROVE RunOK(y)'
      BY <2>1 DEF RunOK, TypeOK, IdleRun
    <2> QED
      BY <2>1, <2>4, <2>5, <2>6 DEF TypeOK
  <1>6. CASE Crash(x)
    <2>1. /\ UNCHANGED <<endpoint, event, delivery, redo, tries, got, late>>
          /\ run' = [run EXCEPT ![x] = IdleRun]
          /\ failures' \in 0..MaxFailures
          /\ todo' = [todo EXCEPT ![x] = {}] \/ UNCHANGED todo
      BY <1>6, LimitsAssumption DEF Crash, Finish, TypeOK
    <2>2. run' \in [Deliverers -> Run] /\ todo' \in [Deliverers -> SUBSET (Deliveries \X Nat)]
      BY <1>1, <2>1 DEF TypeOK
    <2>3. ASSUME NEW y \in Deliverers PROVE RunOK(y)'
      BY <2>1 DEF RunOK, TypeOK, IdleRun
    <2> QED
      BY <2>1, <2>2, <2>3 DEF TypeOK, DeliveryOK
  <1> QED
    BY <1>2, <1>3, <1>4, <1>5, <1>6

\* Every step preserves the invariant.
LEMMA NextCount == CountInv /\ [Next]_vars => CountInv'
  <1> SUFFICES ASSUME CountInv, [Next]_vars PROVE CountInv'
    OBVIOUS
  <1>1. CASE UNCHANGED vars
    BY <1>1 DEF vars, CountInv, TypeOK, RunOK, DeliveryOK
  <1>2. CASE Next
    BY <1>2, OutsideCount, ClaimCount, AttemptCount DEF Next, DelivererStep
  <1> QED
    BY <1>1, <1>2

\* Whatever deliverDue calls overlap, crash or come late, what they write never
\* counts more attempts than POSTs.
THEOREM AttemptsAreReal == Spec => []CountInv
  BY InitCount, NextCount, PTL DEF Spec

\* Type correctness of endpoints, events, deliveries and deliverers.
THEOREM TypeCorrect == Spec => []TypeOK
  BY AttemptsAreReal, PTL DEF CountInv

\* A delivery attemptDelivery declares dead was attempted MaxAttempts times,
\* even if leases ran out and records came late.
THEOREM DeadIsTried == Spec => []DeadWasTried
  <1>1. CountInv => DeadWasTried
    BY DEF CountInv, DeliveryOK, DeadWasTried
  <1> QED
    BY AttemptsAreReal, <1>1, PTL

\* A delivery recorded as delivered reached the client, under every fault.
THEOREM DeliveredIsReceived == Spec => []DeliveredWasReceived
  <1>1. CountInv => DeliveredWasReceived
    BY DEF CountInv, DeliveryOK, DeliveredWasReceived
  <1> QED
    BY AttemptsAreReal, <1>1, PTL

\* What the history of deliveries tells, dead or delivered, did happen.
THEOREM OutcomesReal == Spec => []OutcomesAreReal
  BY DeadIsTried, DeliveredIsReceived, PTL DEF OutcomesAreReal
-----------------------------------------------------------------------------
(* Claims: who holds a delivery, and how many POSTs can still come of it *)

Open == {"pending", "delivering"}

\* The deliverers that hold a delivery, those that have posted it and not recorded
\* the outcome yet, and the attempt numbers that deliverers remember of it.
Holders(d) == {x \in Deliverers : d \in Held(x)}
Posted(d) == {x \in Deliverers : run[x].pc = "record" /\ run[x].id = d}
Copies(x) == todo[x] \cup (IF run[x].pc = "idle" THEN {} ELSE {<<run[x].id, run[x].attempt>>})
Known(d) == {n \in Nat : \E x \in Deliverers : <<d, n>> \in Copies(x)}

\* A deliverer holds each delivery once.
HolderOK(x) ==
  /\ run[x].pc = "idle" => run[x] = IdleRun
  /\ \A c, e \in todo[x] : c[1] = e[1] => c = e
  /\ run[x].pc # "idle" => \A c \in todo[x] : c[1] # run[x].id

\* A row of integration_webhook_deliveries (its status, due and attempt), held by
\* h deliverers of which p have posted, which remember the attempts in known,
\* after tries POSTs and fails failures.
\*
\* While its lease never ran out under a holder, a delivery has one holder at
\* most, whose copy is the row, and a POST beyond the counted attempts is owed to
\* a failure.
Exclusive(status, due, attempt, h, p, known, posts, fails) ==
  /\ h <= 1
  /\ h = 1 => status = "delivering" /\ ~due /\ known \subseteq {attempt}
  /\ status \in Open => attempt < MaxAttempts
  /\ posts <= attempt + fails + p

\* Afterwards each holder, and a claim that the lease lets through, may start the
\* backoff table again from the attempt it remembers; every failure has paid for
\* one table.
Free(status, due, h, fails) ==
  1 + fails - h - (IF due /\ status \in Open THEN 1 ELSE 0)
Shared(status, due, attempt, h, p, known, posts, fails) ==
  /\ h = 0 => posts + (IF status \in Open THEN MaxAttempts - attempt ELSE 0)
                <= MaxAttempts * (1 + fails)
  /\ h > 0 => \A n \in known \cup {attempt} :
                posts <= n + p + MaxAttempts * Free(status, due, h, fails)

Row(status, due, attempt, h, p, known, posts, fails, d, lates) ==
  /\ status \in Status /\ due \in BOOLEAN
  /\ h \in Nat /\ p \in Nat /\ p <= h /\ posts \in Nat /\ fails \in Nat
  /\ attempt \in 0..MaxAttempts
  /\ known \subseteq 0..(MaxAttempts - 1)
  /\ h = 0 => known = {}
  /\ status = "none" => posts = 0 /\ d \notin lates /\ h = 0
  /\ d \notin lates => Exclusive(status, due, attempt, h, p, known, posts, fails)
  /\ d \in lates => Shared(status, due, attempt, h, p, known, posts, fails)

RowOK(d) ==
  /\ IsFiniteSet(Holders(d))
  /\ Row(delivery[d].status, delivery[d].due, delivery[d].attempt,
         Cardinality(Holders(d)), Cardinality(Posted(d)), Known(d),
         tries[d], failures, d, late)

\* The inductive invariant of the claims, with CountInv.
ClaimInv ==
  /\ \A x \in Deliverers : HolderOK(x)
  /\ \A d \in Deliveries : RowOK(d)
-----------------------------------------------------------------------------
(* What the steps do to one row *)

\* Backoff tables.
LEMMA Tables ==
  /\ MaxAttempts \in Nat /\ MaxAttempts >= 1
  /\ \A i \in Int : MaxAttempts * i \in Int
  /\ \A i \in Int : MaxAttempts * (i + 1) = MaxAttempts * i + MaxAttempts
  /\ \A i \in Nat : i <= MaxAttempts * i
  <1>1. MaxAttempts \in Nat /\ MaxAttempts >= 1
    BY LimitsAssumption
  <1> QED
    BY <1>1, SMT

\* The row is created.
LEMMA RowNew ==
  ASSUME NEW due, NEW attempt, NEW h, NEW p, NEW known, NEW posts, NEW fails, NEW d, NEW lates,
         NEW now \in BOOLEAN,
         Row("none", due, attempt, h, p, known, posts, fails, d, lates)
  PROVE  Row("pending", now, 0, h, p, known, posts, fails, d, lates)
  <1>1. posts = 0 /\ d \notin lates /\ h = 0 /\ known = {}
    BY DEF Row
  <1>2. Exclusive("pending", now, 0, h, p, known, posts, fails)
    BY <1>1, Tables DEF Row, Exclusive, Open
  <1>3. d \in lates => Shared("pending", now, 0, h, p, known, posts, fails)
    BY <1>1
  <1>4. h \in Nat /\ p \in Nat /\ p <= h /\ fails \in Nat
    BY DEF Row
  <1> QED
    BY <1>1, <1>2, <1>3, <1>4, Tables DEF Row, Status

\* Somebody else fails.
LEMMA RowFails ==
  ASSUME NEW status, NEW due, NEW attempt, NEW h, NEW p, NEW known, NEW posts, NEW fails,
         NEW d, NEW lates, Row(status, due, attempt, h, p, known, posts, fails, d, lates)
  PROVE  Row(status, due, attempt, h, p, known, posts, fails + 1, d, lates)
  <1> DEFINE g == Free(status, due, h, fails)
  <1>1. g \in Int /\ Free(status, due, h, fails + 1) = g + 1
    BY DEF Row, Free
  <1>2. MaxAttempts * (g + 1) = MaxAttempts * g + MaxAttempts /\ MaxAttempts * g \in Int
    BY <1>1, Tables
  <1>3. /\ MaxAttempts * (1 + (fails + 1)) = MaxAttempts * (1 + fails) + MaxAttempts
        /\ MaxAttempts * (1 + fails) \in Int
    BY Tables DEF Row
  <1> HIDE DEF g
  <1>4. d \in lates => Shared(status, due, attempt, h, p, known, posts, fails + 1)
    <2>1. ASSUME d \in lates, h > 0, NEW n \in known \cup {attempt}
          PROVE  posts <= n + p + MaxAttempts * Free(status, due, h, fails + 1)
      <3>1. posts <= n + p + MaxAttempts * g
        BY <2>1 DEF Row, Shared, g
      <3> QED
        BY <2>1, <3>1, <1>1, <1>2, Tables DEF Row
    <2>2. ASSUME d \in lates, h = 0
          PROVE  posts + (IF status \in Open THEN MaxAttempts - attempt ELSE 0)
                   <= MaxAttempts * (1 + (fails + 1))
      BY <2>2, <1>3, Tables DEF Row, Shared
    <2> QED
      BY <2>1, <2>2 DEF Shared
  <1> QED
    BY <1>4 DEF Row, Exclusive

\* next_attempt_at passes and nobody holds the row.
LEMMA RowDue ==
  ASSUME NEW status, NEW due, NEW attempt, NEW h, NEW p, NEW known, NEW posts, NEW fails,
         NEW d, NEW lates, Row(status, due, attempt, h, p, known, posts, fails, d, lates), h = 0
  PROVE  Row(status, TRUE, attempt, h, p, known, posts, fails, d, lates)
  <1>1. d \in lates => Shared(status, TRUE, attempt, h, p, known, posts, fails)
    BY DEF Row, Shared
  <1>2. d \notin lates => Exclusive(status, TRUE, attempt, h, p, known, posts, fails)
    BY DEF Row, Exclusive
  <1> QED
    BY <1>1, <1>2 DEF Row

\* It passes while somebody does: from now on the row is late.
LEMMA RowOverrun ==
  ASSUME NEW status \in Open, NEW attempt, NEW h, NEW p, NEW known, NEW posts, NEW fails,
         NEW d, NEW lates, Row(status, FALSE, attempt, h, p, known, posts, fails, d, lates), h > 0,
         NEW lates2, d \in lates2
  PROVE  Row(status, TRUE, attempt, h, p, known, posts, fails + 1, d, lates2)
  <1> DEFINE g == Free(status, FALSE, h, fails)
  <1>1. g \in Int /\ Free(status, TRUE, h, fails + 1) = g
    BY DEF Row, Free
  <1> HIDE DEF g
  <1>2. ASSUME NEW n \in known \cup {attempt} PROVE posts <= n + p + MaxAttempts * g
    <2>1. CASE d \in lates
      BY <1>2, <2>1 DEF Row, Shared, g
    <2>2. CASE d \notin lates
      <3>1. Exclusive(status, FALSE, attempt, h, p, known, posts, fails)
        BY <2>2 DEF Row
      <3>2. n = attempt /\ h = 1 /\ posts <= attempt + fails + p
        BY <1>2, <3>1 DEF Exclusive, Row
      <3>3. g = fails
        BY <3>2 DEF g, Free, Row
      <3>4. fails <= MaxAttempts * fails /\ MaxAttempts * fails \in Int
        BY Tables DEF Row
      <3> QED
        BY <3>2, <3>3, <3>4 DEF Row
    <2> QED
      BY <2>1, <2>2 DEF Row
  <1>3. Shared(status, TRUE, attempt, h, p, known, posts, fails + 1)
    <2>1. h \in Nat /\ h # 0
      BY DEF Row
    <2> QED
      BY <1>1, <1>2, <2>1 DEF Shared
  <1>4. /\ h \in Nat /\ p \in Nat /\ p <= h /\ posts \in Nat /\ fails \in Nat
        /\ attempt \in 0..MaxAttempts /\ known \subseteq 0..(MaxAttempts - 1)
        /\ status \in Status /\ status # "none" /\ h # 0
    BY DEF Row, Open
  <1>5. d \notin lates2 => Exclusive(status, TRUE, attempt, h, p, known, posts, fails + 1)
    BY Zenon
  <1>6. d \in lates2 => Shared(status, TRUE, attempt, h, p, known, posts, fails + 1)
    BY <1>3, Zenon
  <1>7. status = "none" => posts = 0 /\ d \notin lates2 /\ h = 0
    BY <1>4, Zenon
  <1>8. fails + 1 \in Nat
    BY <1>4
  <1> QED
    BY <1>4, <1>5, <1>6, <1>7, <1>8 DEF Row

\* claimDueDeliveries: one holder more, which remembers the row's attempt.
LEMMA RowClaimed ==
  ASSUME NEW status \in Open, NEW attempt, NEW h, NEW p, NEW known, NEW posts, NEW fails,
         NEW d, NEW lates, NEW know2, Row(status, TRUE, attempt, h, p, known, posts, fails, d, lates),
         attempt < MaxAttempts, know2 \subseteq known \cup {attempt}
  PROVE  Row("delivering", FALSE, attempt, h + 1, p, know2, posts, fails, d, lates)
  <1> DEFINE g == Free(status, TRUE, h, fails)
  <1>1. g \in Int /\ Free("delivering", FALSE, h + 1, fails) = g
    BY DEF Row, Free, Open
  <1>2. know2 \subseteq 0..(MaxAttempts - 1)
    BY Tables DEF Row
  <1>3. d \in lates => Shared("delivering", FALSE, attempt, h + 1, p, know2, posts, fails)
    <2> SUFFICES ASSUME d \in lates, NEW n \in know2 \cup {attempt}
                 PROVE  posts <= n + p + MaxAttempts * g
      <3>1. h + 1 # 0
        BY DEF Row
      <3> HIDE DEF g
      <3> QED
        BY <1>1, <3>1 DEF Shared
    <2>1. CASE h = 0
      <3>1. g = fails /\ n = attempt
        BY <2>1 DEF Free, Row
      <3>2. posts + MaxAttempts - attempt <= MaxAttempts * (1 + fails)
        BY <2>1, Tables DEF Row, Shared
      <3>3. MaxAttempts * (fails + 1) = MaxAttempts * fails + MaxAttempts /\ MaxAttempts * fails \in Int
        BY Tables DEF Row
      <3>4. 1 + fails = fails + 1
        BY DEF Row
      <3>5. posts + MaxAttempts - attempt <= MaxAttempts * fails + MaxAttempts
        BY <3>2, <3>3, <3>4
      <3> HIDE DEF g
      <3> QED
        BY <3>1, <3>3, <3>5, Tables DEF Row
    <2>2. CASE h # 0
      <3>1. h > 0 /\ n \in known \cup {attempt}
        BY <2>2 DEF Row
      <3> QED
        BY <3>1 DEF Row, Shared
    <2> QED
      BY <2>1, <2>2
  <1>4. d \notin lates => Exclusive("delivering", FALSE, attempt, h + 1, p, know2, posts, fails)
    <2> SUFFICES ASSUME d \notin lates
                 PROVE  Exclusive("delivering", FALSE, attempt, h + 1, p, know2, posts, fails)
      OBVIOUS
    <2>1. h = 0 /\ known = {} /\ posts <= attempt + fails + p
      BY DEF Row, Exclusive
    <2> QED
      BY <2>1 DEF Exclusive
  <1>5. /\ h \in Nat /\ p \in Nat /\ p <= h /\ posts \in Nat /\ fails \in Nat
        /\ attempt \in 0..MaxAttempts
    BY DEF Row
  <1>6. h + 1 \in Nat /\ p <= h + 1 /\ h + 1 # 0
    BY <1>5
  <1> QED
    BY <1>2, <1>3, <1>4, <1>5, <1>6 DEF Row, Status

\* A holder posts.
LEMMA RowPosted ==
  ASSUME NEW status, NEW due, NEW attempt, NEW h, NEW p, NEW known, NEW posts, NEW fails,
         NEW d, NEW lates, Row(status, due, attempt, h, p, known, posts, fails, d, lates), p < h
  PROVE  Row(status, due, attempt, h, p + 1, known, posts + 1, fails, d, lates)
  <1> DEFINE g == MaxAttempts * Free(status, due, h, fails)
  <1>1. g \in Int
    BY Tables DEF Row, Free
  <1> HIDE DEF g
  <1>2. d \in lates => Shared(status, due, attempt, h, p + 1, known, posts + 1, fails)
    <2>1. ASSUME d \in lates, NEW n \in known \cup {attempt}
          PROVE  posts + 1 <= n + (p + 1) + g
      <3>1. posts <= n + p + g
        BY <2>1 DEF Row, Shared, g
      <3> QED
        BY <1>1, <2>1, <3>1 DEF Row
    <2> QED
      BY <2>1 DEF Row, Shared, g
  <1>3. d \notin lates => Exclusive(status, due, attempt, h, p + 1, known, posts + 1, fails)
    BY DEF Row, Exclusive
  <1> QED
    BY <1>2, <1>3 DEF Row, Open

\* A database error after the POST: the outcome is lost.
LEMMA RowBroken ==
  ASSUME NEW status, NEW due, NEW attempt, NEW h, NEW p, NEW known, NEW posts, NEW fails,
         NEW d, NEW lates, Row(status, due, attempt, h, p, known, posts, fails, d, lates), p > 0
  PROVE  Row(status, due, attempt, h, p - 1, known, posts, fails + 1, d, lates)
  <1> DEFINE g == Free(status, due, h, fails)
  <1>1. g \in Int /\ Free(status, due, h, fails + 1) = g + 1
    BY DEF Row, Free
  <1>2. MaxAttempts * (g + 1) = MaxAttempts * g + MaxAttempts /\ MaxAttempts * g \in Int
    BY <1>1, Tables
  <1> HIDE DEF g
  <1>3. d \in lates => Shared(status, due, attempt, h, p - 1, known, posts, fails + 1)
    <2>1. ASSUME d \in lates, NEW n \in known \cup {attempt}
          PROVE  posts <= n + (p - 1) + MaxAttempts * Free(status, due, h, fails + 1)
      <3>1. posts <= n + p + MaxAttempts * g
        BY <2>1 DEF Row, Shared, g
      <3> QED
        BY <2>1, <3>1, <1>1, <1>2, Tables DEF Row
    <2> QED
      BY <2>1 DEF Row, Shared
  <1>4. d \notin lates => Exclusive(status, due, attempt, h, p - 1, known, posts, fails + 1)
    BY DEF Row, Exclusive
  <1> QED
    BY <1>3, <1>4 DEF Row

\* A process dies that held the row, having posted (q = 1) or not.
LEMMA RowDropped ==
  ASSUME NEW status, NEW due, NEW attempt, NEW h, NEW p, NEW known, NEW posts, NEW fails,
         NEW d, NEW lates, NEW know2, NEW q \in {0, 1},
         Row(status, due, attempt, h, p, known, posts, fails, d, lates),
         h > 0, q <= p, p - q < h, know2 \subseteq known, h = 1 => know2 = {}
  PROVE  Row(status, due, attempt, h - 1, p - q, know2, posts, fails + 1, d, lates)
  <1> DEFINE g == Free(status, due, h, fails)
  <1>1. g \in Int /\ Free(status, due, h - 1, fails + 1) = (g + 1) + 1
    BY DEF Row, Free
  <1>2. g <= fails + 1 - h
    BY DEF Row, Free
  <1> HIDE DEF g
  <1>3. /\ MaxAttempts * ((g + 1) + 1) = MaxAttempts * g + MaxAttempts + MaxAttempts
        /\ MaxAttempts * g \in Int
    <2>1. g + 1 \in Int /\ g \in Int
      BY <1>1
    <2>2. MaxAttempts * ((g + 1) + 1) = MaxAttempts * (g + 1) + MaxAttempts
      BY <2>1, Tables
    <2> QED
      BY <2>1, <2>2, Tables
  <1>4. d \in lates => Shared(status, due, attempt, h - 1, p - q, know2, posts, fails + 1)
    <2> SUFFICES ASSUME d \in lates
                 PROVE  Shared(status, due, attempt, h - 1, p - q, know2, posts, fails + 1)
      OBVIOUS
    <2>1. ASSUME NEW n \in known \cup {attempt} PROVE posts <= n + p + MaxAttempts * g
      BY <2>1 DEF Row, Shared, g
    <2>2. ASSUME NEW n \in know2 \cup {attempt}
          PROVE  posts <= n + (p - q) + MaxAttempts * Free(status, due, h - 1, fails + 1)
      BY <2>1, <2>2, <1>1, <1>3, Tables DEF Row
    <2>3. ASSUME h = 1
          PROVE  posts + (IF status \in Open THEN MaxAttempts - attempt ELSE 0)
                   <= MaxAttempts * (1 + (fails + 1))
      <3>1. MaxAttempts * g <= MaxAttempts * fails /\ MaxAttempts * fails \in Int
        BY <1>1, <1>2, <2>3, Tables DEF Row
      <3>2. MaxAttempts * (1 + (fails + 1)) = MaxAttempts * fails + MaxAttempts + MaxAttempts
        BY Tables DEF Row
      <3>3. posts <= attempt + p + MaxAttempts * g
        BY <2>1
      <3> QED
        BY <1>3, <2>3, <3>1, <3>2, <3>3, Tables DEF Row
    <2> QED
      BY <2>2, <2>3 DEF Shared, Row
  <1>5. d \notin lates => Exclusive(status, due, attempt, h - 1, p - q, know2, posts, fails + 1)
    BY DEF Row, Exclusive
  <1> QED
    BY <1>4, <1>5 DEF Row

\* One of the holders, which remembers n, leaves.
Fewer(h, p, known, h2, p2, know2, n) ==
  /\ h2 = h - 1 /\ h2 \in Nat /\ p2 \in Nat /\ p2 <= h2 /\ (p2 = p \/ p2 = p - 1)
  /\ n \in known /\ know2 \subseteq known /\ (h2 = 0 => know2 = {})

\* It has written the row so that no claim is due: with the attempt the row said
\* or, after a POST (p2 = p - 1), one more than it remembered.
Outcome(attempt, p, status2, due2, attempt2, p2, n) ==
  /\ status2 \in Status /\ due2 \in BOOLEAN
  /\ status2 # "none" /\ (status2 \in Open => due2 = FALSE)
  /\ p2 = p - 1 => attempt2 = n + 1 /\ (status2 \in Open => attempt2 < MaxAttempts)
  /\ p2 = p => attempt2 = attempt

\* An attempt is done with the row.
LEMMA RowLeft ==
  ASSUME NEW status, NEW due, NEW attempt, NEW h, NEW p, NEW known, NEW posts, NEW fails,
         NEW d, NEW lates, NEW status2, NEW due2, NEW attempt2, NEW h2, NEW p2, NEW know2, NEW n,
         Row(status, due, attempt, h, p, known, posts, fails, d, lates),
         Fewer(h, p, known, h2, p2, know2, n), Outcome(attempt, p, status2, due2, attempt2, p2, n)
  PROVE  Row(status2, due2, attempt2, h2, p2, know2, posts, fails, d, lates)
  <1> USE DEF Fewer, Outcome
  <1> DEFINE g == Free(status, due, h, fails)  g2 == Free(status2, due2, h2, fails)
  <1>1. g \in Int /\ g2 \in Int /\ g2 >= g + 1 /\ g <= 1 + fails - h
    BY DEF Row, Free
  <1> HIDE DEF g, g2
  <1>2. /\ MaxAttempts * g2 >= MaxAttempts * g + MaxAttempts
        /\ MaxAttempts * g \in Int /\ MaxAttempts * g2 \in Int
    <2>1. MaxAttempts * (g + 1) = MaxAttempts * g + MaxAttempts
      BY <1>1, Tables
    <2>2. MaxAttempts * (g + 1) <= MaxAttempts * g2
      BY <1>1, Tables
    <2> QED
      BY <1>1, <2>1, <2>2, Tables
  <1>3. /\ attempt2 \in 0..MaxAttempts /\ n \in 0..(MaxAttempts - 1)
        /\ h2 \in Nat /\ p2 \in Nat /\ p2 <= h2
        /\ posts \in Nat /\ fails \in Nat
        /\ know2 \subseteq 0..(MaxAttempts - 1) /\ h2 = 0 => know2 = {}
    BY Tables DEF Row
  <1>4. d \in lates => Shared(status2, due2, attempt2, h2, p2, know2, posts, fails)
    <2> SUFFICES ASSUME d \in lates
                 PROVE  Shared(status2, due2, attempt2, h2, p2, know2, posts, fails)
      OBVIOUS
    <2>1. ASSUME NEW m \in known \cup {attempt} PROVE posts <= m + p + MaxAttempts * g
      BY <2>1 DEF Row, Shared, g
    <2>2. ASSUME NEW m \in know2 \cup {attempt2}
          PROVE  posts <= m + p2 + MaxAttempts * g2
      BY <1>1, <1>2, <2>1, <2>2, Tables DEF Row
    <2>3. ASSUME h = 1
          PROVE  posts + (IF status2 \in Open THEN MaxAttempts - attempt2 ELSE 0)
                   <= MaxAttempts * (1 + fails)
      <3>1. MaxAttempts * g <= MaxAttempts * fails /\ MaxAttempts * fails \in Int
        BY <1>1, <2>3, Tables DEF Row
      <3>2. MaxAttempts * (1 + fails) = MaxAttempts * fails + MaxAttempts
        BY Tables DEF Row
      <3>3. posts <= n + p + MaxAttempts * g /\ posts <= attempt + p + MaxAttempts * g
        BY <2>1
      <3> QED
        BY <1>2, <1>3, <2>3, <3>1, <3>2, <3>3, Tables DEF Row
    <2> QED
      BY <1>3, <2>2, <2>3 DEF Shared, g2
  <1>5. d \notin lates => Exclusive(status2, due2, attempt2, h2, p2, know2, posts, fails)
    <2> SUFFICES ASSUME d \notin lates
                 PROVE  Exclusive(status2, due2, attempt2, h2, p2, know2, posts, fails)
      OBVIOUS
    <2>1. /\ h = 1 /\ h2 = 0 /\ p2 = 0 /\ n = attempt /\ attempt < MaxAttempts
          /\ posts <= attempt + fails + p
      BY DEF Row, Exclusive, Open
    <2> QED
      BY <1>3, <2>1 DEF Exclusive
  <1> QED
    BY <1>3, <1>4, <1>5 DEF Row

\* What the row's invariant says of the POSTs.
LEMMA RowBounds ==
  ASSUME NEW status, NEW due, NEW attempt, NEW h, NEW p, NEW known, NEW posts, NEW fails,
         NEW d, NEW lates, Row(status, due, attempt, h, p, known, posts, fails, d, lates),
         h > 0 => known # {}
  PROVE  /\ d \in lates => posts <= MaxAttempts * (1 + fails)
         /\ d \notin lates => posts <= MaxAttempts + fails
  <1>1. CASE d \in lates
    <2>1. CASE h = 0
      BY <1>1, <2>1, Tables DEF Row, Shared
    <2>2. CASE h # 0
      <3>1. PICK n : n \in known
        BY <2>2 DEF Row
      <3> DEFINE g == Free(status, due, h, fails)
      <3>2. g \in Int /\ g <= 1 + fails - h /\ h - 1 \in Nat
        BY <2>2 DEF Row, Free
      <3>3. posts <= n + p + MaxAttempts * g
        BY <1>1, <2>2, <3>1 DEF Row, Shared
      <3> HIDE DEF g
      <3>4. MaxAttempts * g <= MaxAttempts * (1 + fails - h)
        BY <3>2, Tables DEF Row
      <3>5. MaxAttempts * (1 + fails - h) = MaxAttempts * (1 + fails) - MaxAttempts * h
        BY Tables DEF Row
      <3>6. MaxAttempts * h = MaxAttempts * (h - 1) + MaxAttempts /\ h - 1 <= MaxAttempts * (h - 1)
        BY <3>2, Tables DEF Row
      <3>7. n \in Int /\ n <= MaxAttempts - 1 /\ p <= h /\ p \in Nat /\ posts \in Nat /\ h \in Nat
        BY <3>1, Tables DEF Row
      <3>8. MaxAttempts * (1 + fails) \in Int /\ MaxAttempts * (h - 1) \in Int /\ MaxAttempts * g \in Int
        BY <3>2, Tables DEF Row
      <3> QED
        BY <1>1, <3>2, <3>3, <3>4, <3>5, <3>6, <3>7, <3>8, Tables
    <2> QED
      BY <2>1, <2>2
  <1>2. CASE d \notin lates
    BY <1>2, Tables DEF Row, Exclusive, Open
  <1> QED
    BY <1>1, <1>2
-----------------------------------------------------------------------------
(* Who holds a delivery, before and after a step *)

\* A deliverer with a copy of a delivery holds it, and so does one behind its POST.
LEMMA CopiesHeld ==
  ASSUME CountInv, NEW x \in Deliverers
  PROVE  /\ \A d, n : <<d, n>> \in Copies(x) => d \in Held(x) /\ d \in Deliveries /\ n \in Nat
         /\ HolderOK(x) => \A d \in Held(x) : \E n \in Nat : <<d, n>> \in Copies(x)
         /\ run[x].pc # "idle" => run[x].id \in Held(x) /\ <<run[x].id, run[x].attempt>> \in Copies(x)
  <1>1. /\ \A c \in todo[x] : c \in Deliveries \X Nat
        /\ run[x] \in Run
        /\ run[x].pc # "idle" => run[x].id \in Deliveries
    BY DEF CountInv, TypeOK, RunOK
  <1>2. run[x].attempt \in Nat
    BY <1>1 DEF Run
  <1>3. ASSUME NEW d, NEW n, <<d, n>> \in Copies(x)
        PROVE  d \in Held(x) /\ d \in Deliveries /\ n \in Nat
    <2>1. CASE <<d, n>> \in todo[x]
      BY <1>1, <2>1 DEF Held
    <2>2. CASE run[x].pc # "idle" /\ d = run[x].id /\ n = run[x].attempt
      BY <1>1, <1>2, <2>2, NoneAssumption DEF Held
    <2> QED
      BY <1>3, <2>1, <2>2 DEF Copies
  <1>4. run[x].pc # "idle" =>
          run[x].id \in Held(x) /\ <<run[x].id, run[x].attempt>> \in Copies(x)
    BY <1>1, NoneAssumption DEF Held, Copies
  <1>5. ASSUME NEW d \in Held(x), HolderOK(x) PROVE \E n \in Nat : <<d, n>> \in Copies(x)
    <2>1. CASE \E c \in todo[x] : d = c[1]
      <3>1. PICK c \in todo[x] : d = c[1]
        BY <2>1
      <3>2. c = <<d, c[2]>> /\ c[2] \in Nat
        BY <1>1, <3>1
      <3> QED
        BY <3>2 DEF Copies
    <2>2. CASE d = run[x].id /\ d # None
      BY <1>2, <1>4, <1>5, <2>2 DEF HolderOK, IdleRun
    <2> QED
      BY <1>5, <2>1, <2>2 DEF Held
  <1> QED
    BY <1>3, <1>4, <1>5

\* A step in which only the deliverer x moves.
Alone(x) == \A y \in Deliverers \ {x} : todo'[y] = todo[y] /\ run'[y] = run[y]

\* Only x joins or leaves those that hold a delivery, and those that posted it.
LEMMA AloneViews ==
  ASSUME NEW x \in Deliverers, Alone(x), NEW d
  PROVE  /\ Holders(d)' = IF d \in Held(x)' THEN Holders(d) \cup {x} ELSE Holders(d) \ {x}
         /\ Posted(d)' = IF run'[x].pc = "record" /\ run'[x].id = d
                           THEN Posted(d) \cup {x} ELSE Posted(d) \ {x}
         /\ \A n \in Known(d)' : n \in Known(d) \/ <<d, n>> \in Copies(x)'
         /\ (\A n \in Nat : <<d, n>> \in Copies(x)' <=> <<d, n>> \in Copies(x))
              => Known(d)' = Known(d)
  <1>1. \A y \in Deliverers \ {x} : Held(y)' = Held(y) /\ Copies(y)' = Copies(y)
    BY DEF Alone, Held, Copies
  <1>2. Holders(d)' = IF d \in Held(x)' THEN Holders(d) \cup {x} ELSE Holders(d) \ {x}
    BY <1>1 DEF Holders
  <1>3. Posted(d)' = IF run'[x].pc = "record" /\ run'[x].id = d
                       THEN Posted(d) \cup {x} ELSE Posted(d) \ {x}
    BY DEF Posted, Alone
  <1>4. \A n \in Known(d)' : n \in Known(d) \/ <<d, n>> \in Copies(x)'
    BY <1>1 DEF Known
  <1>5. ASSUME \A n \in Nat : <<d, n>> \in Copies(x)' <=> <<d, n>> \in Copies(x)
        PROVE  Known(d)' = Known(d)
    BY <1>1, <1>5 DEF Known
  <1> QED
    BY <1>2, <1>3, <1>4, <1>5

\* x keeps what it had to do with d.
Keeps(x, d) ==
  /\ d \in Held(x)' <=> d \in Held(x)
  /\ \A n \in Nat : <<d, n>> \in Copies(x)' <=> <<d, n>> \in Copies(x)
  /\ (run'[x].pc = "record" /\ run'[x].id = d) <=> (run[x].pc = "record" /\ run[x].id = d)

\* ... so that all views of d stay.
LEMMA KeptViews ==
  ASSUME NEW x \in Deliverers, Alone(x), NEW d, Keeps(x, d)
  PROVE  Holders(d)' = Holders(d) /\ Posted(d)' = Posted(d) /\ Known(d)' = Known(d)
  <1>1. Holders(d)' = Holders(d)
    BY AloneViews DEF Keeps, Holders
  <1>2. Posted(d)' = Posted(d)
    BY AloneViews DEF Keeps, Posted
  <1>3. Known(d)' = Known(d)
    BY AloneViews DEF Keeps
  <1> QED
    BY <1>1, <1>2, <1>3

\* An unwritten row with the same views, after a failure or none.
LEMMA RowStays ==
  ASSUME NEW d \in Deliveries, RowOK(d),
         Holders(d)' = Holders(d), Posted(d)' = Posted(d), Known(d)' = Known(d),
         delivery'[d] = delivery[d], tries'[d] = tries[d],
         failures' \in {failures, failures + 1}, d \in late' <=> d \in late
  PROVE  RowOK(d)'
  <1>1. /\ IsFiniteSet(Holders(d))
        /\ Row(delivery[d].status, delivery[d].due, delivery[d].attempt,
               Cardinality(Holders(d)), Cardinality(Posted(d)), Known(d),
               tries[d], failures, d, late)
    BY DEF RowOK
  <1>2. Row(delivery[d].status, delivery[d].due, delivery[d].attempt,
            Cardinality(Holders(d)), Cardinality(Posted(d)), Known(d),
            tries[d], failures + 1, d, late)
    BY <1>1, RowFails
  <1>3. ASSUME NEW f, Row(delivery[d].status, delivery[d].due, delivery[d].attempt,
                          Cardinality(Holders(d)), Cardinality(Posted(d)), Known(d),
                          tries[d], f, d, late)
        PROVE  Row(delivery[d].status, delivery[d].due, delivery[d].attempt,
                   Cardinality(Holders(d)), Cardinality(Posted(d)), Known(d),
                   tries[d], f, d, late')
    BY <1>3 DEF Row
  <1>4. Row(delivery'[d].status, delivery'[d].due, delivery'[d].attempt,
            Cardinality(Holders(d)'), Cardinality(Posted(d)'), Known(d)',
            tries'[d], failures', d, late')
    BY <1>1, <1>2, <1>3
  <1> QED
    BY <1>1, <1>4 DEF RowOK

\* Sizes of the sets of holders.
LEMMA Sizes ==
  ASSUME CountInv, NEW d \in Deliveries, IsFiniteSet(Holders(d))
  PROVE  /\ Posted(d) \subseteq Holders(d) /\ IsFiniteSet(Posted(d))
         /\ Cardinality(Holders(d)) \in Nat /\ Cardinality(Posted(d)) \in Nat
         /\ Cardinality(Posted(d)) <= Cardinality(Holders(d))
         /\ Holders(d) = {} <=> Cardinality(Holders(d)) = 0
         /\ Posted(d) = {} <=> Cardinality(Posted(d)) = 0
  <1>1. Posted(d) \subseteq Holders(d)
    BY CopiesHeld DEF Posted, Holders
  <1>2. IsFiniteSet(Posted(d)) /\ Cardinality(Posted(d)) <= Cardinality(Holders(d))
    BY <1>1, FS_Subset
  <1> QED
    BY <1>1, <1>2, FS_CardinalityType, FS_EmptySet

\* x lets go of d.
LetsGo(x, d) ==
  /\ d \in Held(x) /\ d \notin Held(x)'
  /\ \A n \in Nat : <<d, n>> \notin Copies(x)'
  /\ ~(run'[x].pc = "record" /\ run'[x].id = d)

\* What letting go does to the views.
LEMMA LetGoViews ==
  ASSUME CountInv, CountInv', NEW x \in Deliverers, Alone(x), NEW d \in Deliveries,
         LetsGo(x, d), IsFiniteSet(Holders(d)),
         NEW q, q = IF x \in Posted(d) THEN 1 ELSE 0
  PROVE  /\ IsFiniteSet(Holders(d)')
         /\ Cardinality(Holders(d)) > 0 /\ Cardinality(Holders(d)) \in Nat
         /\ Cardinality(Posted(d)) \in Nat
         /\ Cardinality(Holders(d)') = Cardinality(Holders(d)) - 1
         /\ Cardinality(Posted(d)') = Cardinality(Posted(d)) - q
         /\ q <= Cardinality(Posted(d))
         /\ Cardinality(Posted(d)) - q < Cardinality(Holders(d))
         /\ Known(d)' \subseteq Known(d)
         /\ Cardinality(Holders(d)) = 1 => Known(d)' = {}
  <1>1. x \in Holders(d) /\ Holders(d)' = Holders(d) \ {x} /\ Posted(d)' = Posted(d) \ {x}
    BY AloneViews DEF LetsGo, Holders
  <1>2. /\ Posted(d) \subseteq Holders(d) /\ IsFiniteSet(Posted(d))
        /\ Cardinality(Holders(d)) \in Nat /\ Cardinality(Posted(d)) \in Nat
        /\ Cardinality(Posted(d)) <= Cardinality(Holders(d))
        /\ Holders(d) = {} <=> Cardinality(Holders(d)) = 0
        /\ Posted(d) = {} <=> Cardinality(Posted(d)) = 0
    BY Sizes
  <1>3. /\ IsFiniteSet(Holders(d)')
        /\ Cardinality(Holders(d)') = Cardinality(Holders(d)) - 1
        /\ Cardinality(Posted(d)') = Cardinality(Posted(d)) - q
    <2>1. /\ IsFiniteSet(Holders(d) \ {x})
          /\ Cardinality(Holders(d) \ {x}) = Cardinality(Holders(d)) - 1
      BY <1>1, FS_RemoveElement
    <2>2. Cardinality(Posted(d) \ {x}) =
            IF x \in Posted(d) THEN Cardinality(Posted(d)) - 1 ELSE Cardinality(Posted(d))
      BY <1>2, FS_RemoveElement
    <2> QED
      BY <1>1, <1>2, <2>1, <2>2
  <1>4. Cardinality(Posted(d)') <= Cardinality(Holders(d)') /\ Posted(d)' \subseteq Holders(d)'
    <2>1. Posted(d)' \in SUBSET Holders(d)'
      BY <1>1, <1>2
    <2> QED
      BY <1>3, <2>1, FS_Subset
  <1>5. q <= Cardinality(Posted(d)) /\ Cardinality(Holders(d)) > 0
    BY <1>1, <1>2
  <1>6. Known(d)' \subseteq Known(d)
    BY AloneViews DEF LetsGo, Known
  <1>7. ASSUME Cardinality(Holders(d)) = 1 PROVE Known(d)' = {}
    <2> SUFFICES ASSUME NEW n \in Known(d)' PROVE FALSE
      OBVIOUS
    <2>1. PICK y \in Deliverers : <<d, n>> \in Copies(y)'
      BY DEF Known
    <2>2. y # x
      BY <2>1 DEF LetsGo, Known
    <2>3. <<d, n>> \in Copies(y)
      BY <2>1, <2>2 DEF Alone, Copies
    <2>4. y \in Holders(d)
      BY <2>3, CopiesHeld DEF Holders
    <2>5. y \in Holders(d)'
      BY <1>1, <2>2, <2>4
    <2>6. Cardinality(Holders(d)') = 0
      BY <1>3, <1>7
    <2>7. Holders(d)' = {}
      BY <1>3, <2>6, FS_EmptySet
    <2> QED
      BY <2>5, <2>7
  <1> QED
    BY <1>2, <1>3, <1>4, <1>5, <1>6, <1>7
-----------------------------------------------------------------------------
(* The claims, step by step *)

\* Initially nobody holds anything.
LEMMA InitClaim == Init => ClaimInv
  <1> SUFFICES ASSUME Init PROVE ClaimInv
    OBVIOUS
  <1>1. ASSUME NEW d \in Deliveries PROVE RowOK(d)
    <2>1. Holders(d) = {} /\ Posted(d) = {} /\ Known(d) = {}
      BY <1>1, NoneAssumption DEF Init, Holders, Held, Posted, Known, Copies, IdleRun
    <2>2. /\ IsFiniteSet(Holders(d))
          /\ Cardinality(Holders(d)) = 0 /\ Cardinality(Posted(d)) = 0
      BY <2>1, FS_EmptySet
    <2>3. /\ delivery[d].attempt = 0 /\ delivery[d].status = "none" /\ delivery[d].due = FALSE
          /\ tries[d] = 0 /\ d \notin late /\ failures = 0
      BY <1>1 DEF Init, NoDelivery
    <2>4. Exclusive(delivery[d].status, delivery[d].due, 0, 0, 0, {}, 0, 0)
      BY <2>3, Tables DEF Exclusive, Open
    <2>5. delivery[d].status \in Status /\ delivery[d].due \in BOOLEAN /\ d \notin late
      BY <2>3 DEF Status
    <2>6. 0 \in 0..MaxAttempts /\ 0 \in Nat /\ 0 <= 0 /\ {} \subseteq 0..(MaxAttempts - 1)
      BY Tables
    <2>7. Row(delivery[d].status, delivery[d].due, 0, 0, 0, {}, 0, 0, d, late)
      BY <2>4, <2>5, <2>6, Zenon DEF Row
    <2> QED
      BY <2>1, <2>2, <2>3, <2>7 DEF RowOK
  <1> QED
    BY <1>1 DEF ClaimInv, HolderOK, Init, IdleRun

\* Steps outside the deliverers create rows, pass time, or leave the rows alone.
LEMMA OutsideClaim ==
  ASSUME CountInv, CountInv', ClaimInv,
         \/ \E e \in Endpoints : \/ deactivateEndpoint(e) \/ SecretLost(e)
                                 \/ \E types \in SUBSET Types : registerEndpoint(e, types)
                                 \/ \E d \in Deliveries : RedeliverOne(e, d)
         \/ \E v \in Events : \/ redeliver(v)
                              \/ \E type \in Types :
                                   \E place \in Placements(Subscribers(type)) :
                                     emitEvent(v, type, place)
         \/ RedeliverFails
         \/ \E d \in Deliveries : LeaseExpires(d) \/ LeaseOverrun(d)
         \/ UNCHANGED vars
  PROVE  ClaimInv'
  <1>1. UNCHANGED <<todo, run, tries>>
    BY DEF deactivateEndpoint, SecretLost, registerEndpoint, RedeliverOne, redeliver,
       emitEvent, RedeliverFails, LeaseExpires, LeaseOverrun, vars
  <1>2. \A x \in Deliverers : HolderOK(x)'
    BY <1>1 DEF ClaimInv, HolderOK
  <1>3. ASSUME NEW d PROVE Holders(d)' = Holders(d) /\ Posted(d)' = Posted(d) /\ Known(d)' = Known(d)
    BY <1>1 DEF Holders, Held, Posted, Known, Copies
  <1>4. ASSUME NEW d \in Deliveries, delivery'[d] = delivery[d],
               failures' \in {failures, failures + 1}, d \in late' <=> d \in late
        PROVE  RowOK(d)'
    BY <1>1, <1>3, <1>4, RowStays DEF ClaimInv
  <1>5. ASSUME NEW d \in Deliveries, delivery[d].status = "none", NEW v, NEW e,
               delivery'[d] = NewDelivery(v, e), UNCHANGED <<failures, late>>
        PROVE  RowOK(d)'
    <2>1. /\ IsFiniteSet(Holders(d))
          /\ Row("none", delivery[d].due, delivery[d].attempt,
                 Cardinality(Holders(d)), Cardinality(Posted(d)), Known(d),
                 tries[d], failures, d, late)
      BY <1>5 DEF ClaimInv, RowOK
    <2>2. Row("pending", TRUE, 0, Cardinality(Holders(d)), Cardinality(Posted(d)), Known(d),
              tries[d], failures, d, late)
      BY <2>1, RowNew
    <2>3. /\ delivery'[d].status = "pending" /\ delivery'[d].due = TRUE /\ delivery'[d].attempt = 0
          /\ tries'[d] = tries[d] /\ failures' = failures /\ late' = late
      BY <1>1, <1>5 DEF NewDelivery
    <2> QED
      BY <1>3, <2>1, <2>2, <2>3 DEF RowOK
  <1>6. ASSUME NEW d \in Deliveries, LeaseExpires(d) \/ LeaseOverrun(d) PROVE ClaimInv'
    <2>1. /\ delivery' = [delivery EXCEPT ![d].due = TRUE]
          /\ delivery[d].status \in Open /\ ~delivery[d].due
          /\ failures' \in {failures, failures + 1} /\ late' \in {late, late \cup {d}}
      BY <1>6 DEF LeaseExpires, LeaseOverrun, Open
    <2>2. ASSUME NEW e \in Deliveries, e # d PROVE RowOK(e)'
      BY <1>4, <2>1, <2>2 DEF CountInv, TypeOK
    <2>3. /\ delivery'[d].status = delivery[d].status /\ delivery'[d].due = TRUE
          /\ delivery'[d].attempt = delivery[d].attempt /\ tries'[d] = tries[d]
          /\ delivery[d].due = FALSE
      BY <1>1, <2>1 DEF CountInv, TypeOK, Delivery
    <2>4. /\ IsFiniteSet(Holders(d))
          /\ Row(delivery[d].status, FALSE, delivery[d].attempt,
                 Cardinality(Holders(d)), Cardinality(Posted(d)), Known(d),
                 tries[d], failures, d, late)
      BY <2>3 DEF ClaimInv, RowOK
    <2>5. CASE LeaseExpires(d)
      <3>1. Holders(d) = {} /\ late' = late /\ failures' = failures
        BY <2>5 DEF LeaseExpires, Holders
      <3>2. Cardinality(Holders(d)) = 0
        BY <3>1, FS_EmptySet
      <3>3. Row(delivery[d].status, TRUE, delivery[d].attempt,
                Cardinality(Holders(d)), Cardinality(Posted(d)), Known(d),
                tries[d], failures, d, late)
        BY <2>4, <3>2, RowDue
      <3>4. RowOK(d)'
        BY <1>3, <2>3, <2>4, <3>1, <3>3 DEF RowOK
      <3> QED
        BY <1>2, <2>2, <3>4 DEF ClaimInv
    <2>6. CASE LeaseOverrun(d)
      <3>1. Holders(d) # {} /\ d \in late' /\ failures' = failures + 1
        BY <2>6 DEF LeaseOverrun, Holders
      <3>2. Cardinality(Holders(d)) > 0
        BY <2>4, <3>1, FS_EmptySet, FS_CardinalityType
      <3>3. Row(delivery[d].status, TRUE, delivery[d].attempt,
                Cardinality(Holders(d)), Cardinality(Posted(d)), Known(d),
                tries[d], failures + 1, d, late')
        BY <2>1, <2>4, <3>1, <3>2, RowOverrun
      <3>4. RowOK(d)'
        BY <1>3, <2>3, <2>4, <3>1, <3>3 DEF RowOK
      <3> QED
        BY <1>2, <2>2, <3>4 DEF ClaimInv
    <2> QED
      BY <1>6, <2>5, <2>6
  <1>7. ASSUME NEW e \in Endpoints, NEW d \in Deliveries, RedeliverOne(e, d) PROVE ClaimInv'
    <2>1. /\ delivery' = [delivery EXCEPT ![d] = NewDelivery(redo.event, e)]
          /\ delivery[d].status = "none" /\ UNCHANGED <<failures, late>>
      BY <1>7 DEF RedeliverOne, Unused
    <2>2. RowOK(d)'
      BY <1>5, <2>1 DEF CountInv, TypeOK
    <2>3. ASSUME NEW f \in Deliveries, f # d PROVE RowOK(f)'
      BY <1>4, <2>1, <2>3 DEF CountInv, TypeOK
    <2> QED
      BY <1>2, <2>2, <2>3 DEF ClaimInv
  <1>8. ASSUME NEW v \in Events, NEW type \in Types,
               NEW place \in Placements(Subscribers(type)), emitEvent(v, type, place)
        PROVE  ClaimInv'
    <2>1. DOMAIN place \subseteq Unused
      BY DEF Placements
    <2>2. UNCHANGED <<failures, late>>
      BY <1>8 DEF emitEvent
    <2>3. ASSUME NEW d \in Deliveries PROVE RowOK(d)'
      <3>1. CASE d \in DOMAIN place
        <4>1. delivery'[d] = NewDelivery(v, place[d]) /\ delivery[d].status = "none"
          BY <1>8, <2>1, <3>1 DEF emitEvent, Unused
        <4> QED
          BY <1>5, <2>2, <4>1
      <3>2. CASE d \notin DOMAIN place
        <4>1. delivery'[d] = delivery[d]
          BY <1>8, <3>2 DEF emitEvent
        <4> QED
          BY <1>4, <2>2, <4>1
      <3> QED
        BY <3>1, <3>2
    <2> QED
      BY <1>2, <2>3 DEF ClaimInv
  <1>9. ASSUME UNCHANGED <<delivery, late>>, failures' \in {failures, failures + 1} PROVE ClaimInv'
    BY <1>2, <1>4, <1>9 DEF ClaimInv
  <1>10. CASE RedeliverFails \/ UNCHANGED vars
    BY <1>9, <1>10 DEF RedeliverFails, vars
  <1>11. ASSUME NEW e \in Endpoints,
                \/ deactivateEndpoint(e) \/ SecretLost(e)
                \/ \E types \in SUBSET Types : registerEndpoint(e, types)
         PROVE  ClaimInv'
    BY <1>9, <1>11 DEF deactivateEndpoint, SecretLost, registerEndpoint
  <1>12. ASSUME NEW v \in Events, redeliver(v) PROVE ClaimInv'
    BY <1>9, <1>12 DEF redeliver
  <1> QED
    BY <1>6, <1>7, <1>8, <1>10, <1>11, <1>12

\* claimDueDeliveries hands x rows it did not hold, and Take keeps what x holds.
LEMMA TakeClaim ==
  ASSUME CountInv, CountInv', ClaimInv, NEW x \in Deliverers,
         \/ \E S \in SUBSET Deliveries : claimDueDeliveries(x, S)
         \/ \E c \in todo[x] : Take(x, c)
  PROVE  ClaimInv'
  <1> USE DEF ClaimInv
  <1>1. ASSUME NEW S \in SUBSET Deliveries, claimDueDeliveries(x, S) PROVE ClaimInv'
    <2>1. /\ UNCHANGED <<run, tries, late, failures>> /\ run[x] = IdleRun /\ todo[x] = {}
          /\ todo' = [todo EXCEPT ![x] = {<<d, delivery[d].attempt>> : d \in S}]
          /\ delivery' = [d \in Deliveries |->
               IF d \in S THEN [delivery[d] EXCEPT !.status = "delivering", !.due = FALSE]
                          ELSE delivery[d]]
          /\ \A d \in S : Due(d)
      BY <1>1 DEF claimDueDeliveries, HolderOK
    <2>2. Alone(x)
      BY <2>1 DEF Alone, CountInv, TypeOK
    <2>3. todo'[x] = {<<d, delivery[d].attempt>> : d \in S} /\ run'[x] = IdleRun
      BY <2>1 DEF CountInv, TypeOK
    <2>4. /\ Held(x) = {} /\ Held(x)' = S /\ Copies(x) = {}
          /\ Copies(x)' = {<<d, delivery[d].attempt>> : d \in S}
      <3>1. Held(x) = {} /\ Copies(x) = {}
        <4>1. run[x] = IdleRun /\ todo[x] = {}
          BY <2>1
        <4>2. run[x].pc = "idle" /\ run[x].id = None /\ \A c : c \notin todo[x]
          BY <4>1 DEF IdleRun
        <4>3. ASSUME NEW d \in Held(x) PROVE FALSE
          BY <4>2, <4>3 DEF Held
        <4> QED
          BY <4>1, <4>2, <4>3 DEF Copies
      <3>2. Copies(x)' = {<<d, delivery[d].attempt>> : d \in S}
        BY <2>3 DEF Copies, IdleRun
      <3>3. {c[1] : c \in todo'[x]} = S
        <4>1. ASSUME NEW d \in S PROVE \E c \in todo'[x] : c[1] = d
          <5>1. <<d, delivery[d].attempt>> \in todo'[x] /\ <<d, delivery[d].attempt>>[1] = d
            BY <2>3
          <5> QED
            BY <5>1
        <4>2. \A c \in todo'[x] : c[1] \in S
          BY <2>3
        <4> QED
          BY <4>1, <4>2
      <3> QED
        BY <2>3, <3>1, <3>2, <3>3 DEF Held, IdleRun
    <2>5. \A y \in Deliverers : HolderOK(y)'
      <3>1. \A c, e \in todo'[x] : c[1] = e[1] => c = e
        BY <2>3
      <3>2. HolderOK(x)'
        BY <2>3, <3>1 DEF HolderOK, IdleRun
      <3> QED
        BY <2>2, <3>2 DEF HolderOK, Alone
    <2>6. ASSUME NEW d \in Deliveries, d \notin S PROVE RowOK(d)'
      <3>1. Keeps(x, d)
        BY <2>1, <2>3, <2>4, <2>6 DEF Keeps
      <3> QED
        BY <2>1, <2>2, <2>6, <3>1, KeptViews, RowStays
    <2>7. ASSUME NEW d \in S PROVE RowOK(d)'
      <3>1. /\ delivery[d].status \in Open /\ delivery[d].due = TRUE
            /\ delivery[d].attempt < MaxAttempts
        <4>1. Due(d) /\ delivery[d] \in Delivery
          BY <2>1 DEF CountInv, TypeOK
        <4> HIDE DEF ClaimInv
        <4> QED
          BY <4>1 DEF Due, Open, Delivery
      <3>2. /\ Holders(d)' = Holders(d) \cup {x} /\ Posted(d)' = Posted(d)
            /\ Known(d)' \subseteq Known(d) \cup {delivery[d].attempt} /\ x \notin Holders(d)
        <4>1. Holders(d)' = Holders(d) \cup {x} /\ x \notin Holders(d)
          BY <2>2, <2>4, AloneViews DEF Holders
        <4>2. Posted(d)' = Posted(d)
          BY <2>1 DEF Posted
        <4>3. ASSUME NEW n \in Known(d)' PROVE n \in Known(d) \cup {delivery[d].attempt}
          <5>1. n \in Known(d) \/ <<d, n>> \in Copies(x)'
            BY <2>2, <4>3, AloneViews
          <5>2. <<d, n>> \in Copies(x)' => n = delivery[d].attempt
            BY <2>4
          <5> QED
            BY <5>1, <5>2
        <4> QED
          BY <4>1, <4>2, <4>3
      <3>3. /\ IsFiniteSet(Holders(d))
            /\ Row(delivery[d].status, TRUE, delivery[d].attempt,
                   Cardinality(Holders(d)), Cardinality(Posted(d)), Known(d),
                   tries[d], failures, d, late)
        BY <3>1 DEF RowOK
      <3>4. Row("delivering", FALSE, delivery[d].attempt,
                Cardinality(Holders(d)) + 1, Cardinality(Posted(d)), Known(d)',
                tries[d], failures, d, late)
        BY <3>1, <3>2, <3>3, RowClaimed
      <3>5. IsFiniteSet(Holders(d)') /\ Cardinality(Holders(d)') = Cardinality(Holders(d)) + 1
        BY <3>2, <3>3, FS_AddElement
      <3>6. /\ delivery'[d].status = "delivering" /\ delivery'[d].due = FALSE
            /\ delivery'[d].attempt = delivery[d].attempt
        <4>1. delivery[d] \in Delivery
          BY DEF CountInv, TypeOK
        <4>2. delivery'[d] = [delivery[d] EXCEPT !.status = "delivering", !.due = FALSE]
          BY <2>1
        <4> HIDE DEF ClaimInv
        <4> QED
          BY <4>1, <4>2 DEF Delivery
      <3> QED
        BY <2>1, <3>2, <3>4, <3>5, <3>6 DEF RowOK
    <2> QED
      BY <2>5, <2>6, <2>7
  <1>2. ASSUME NEW c \in todo[x], Take(x, c) PROVE ClaimInv'
    <2>1. /\ UNCHANGED <<delivery, tries, late, failures>> /\ run[x] = IdleRun
          /\ todo' = [todo EXCEPT ![x] = @ \ {c}]
          /\ run' = [run EXCEPT ![x] =
               [IdleRun EXCEPT !.pc = "read", !.id = c[1], !.attempt = c[2]]]
      BY <1>2 DEF Take, HolderOK
    <2>2. Alone(x)
      BY <2>1 DEF Alone, CountInv, TypeOK
    <2>3. /\ todo'[x] = todo[x] \ {c}
          /\ run'[x].pc = "read" /\ run'[x].id = c[1] /\ run'[x].attempt = c[2]
      BY <2>1 DEF CountInv, TypeOK, IdleRun
    <2>4. c[1] \in Deliveries /\ c[1] # None /\ c = <<c[1], c[2]>>
      BY NoneAssumption DEF CountInv, TypeOK
    <2>5. Held(x)' = Held(x) /\ Copies(x)' = Copies(x)
      BY <2>1, <2>3, <2>4 DEF Held, Copies, IdleRun
    <2>6. \A y \in Deliverers : HolderOK(y)'
      <3>1. HolderOK(x)'
        BY <2>3, <2>4 DEF HolderOK
      <3> QED
        BY <2>2, <3>1 DEF HolderOK, Alone
    <2>7. ASSUME NEW d \in Deliveries PROVE RowOK(d)'
      <3>1. Keeps(x, d)
        BY <2>1, <2>3, <2>5 DEF Keeps, IdleRun
      <3> QED
        BY <2>1, <2>2, <3>1, KeptViews, RowStays
    <2> QED
      BY <2>6, <2>7
  <1> QED
    BY <1>1, <1>2

\* The steps of an attempt up to its outcome keep its delivery.
LEMMA StepClaim ==
  ASSUME CountInv, CountInv', ClaimInv, NEW x \in Deliverers,
         ReadEndpoint(x) \/ Post(x) \/ Breaks(x)
  PROVE  ClaimInv'
  <1> USE DEF ClaimInv
  <1>1. /\ UNCHANGED <<delivery, todo, late>> /\ run[x].pc # "idle"
        /\ failures' \in {failures, failures + 1}
        /\ Post(x) => failures' = failures
    BY DEF ReadEndpoint, Post, Breaks
  <1>2. PICK d \in Deliveries : d = run[x].id
    BY <1>1 DEF CountInv, RunOK
  <1>3. PICK step \in {"fail", "post", "catch", "record"} :
          /\ \/ run' = [run EXCEPT ![x].pc = step]
             \/ \E ok \in BOOLEAN : run' = [run EXCEPT ![x].pc = step, ![x].ok = ok]
          /\ step = "record" <=> Post(x)
    <2>1. CASE ReadEndpoint(x)
      BY <2>1 DEF ReadEndpoint, Goto, Post
    <2>2. CASE Breaks(x)
      BY <2>2 DEF Breaks, Goto, Post
    <2>3. CASE Post(x)
      BY <2>3 DEF Post
    <2> QED
      BY <2>1, <2>2, <2>3
  <1>4. Alone(x)
    BY <1>1, <1>3 DEF Alone, CountInv, TypeOK
  <1>5. /\ run'[x].pc = step /\ run'[x].id = d /\ run'[x].attempt = run[x].attempt
        /\ todo'[x] = todo[x]
    <2>1. run[x] \in Run
      BY DEF CountInv, TypeOK
    <2> QED
      BY <1>1, <1>2, <1>3, <2>1 DEF CountInv, TypeOK, Run
  <1>6. Held(x)' = Held(x) /\ Copies(x)' = Copies(x)
    BY <1>1, <1>2, <1>5 DEF Held, Copies
  <1>7. \A y \in Deliverers : HolderOK(y)'
    <2>1. HolderOK(x)'
      BY <1>1, <1>2, <1>5 DEF HolderOK
    <2> QED
      BY <1>4, <2>1 DEF HolderOK, Alone
  <1>8. \A e \in Deliveries : e # d => tries'[e] = tries[e]
    BY <1>2 DEF ReadEndpoint, Post, Breaks, CountInv, TypeOK
  <1>9. ASSUME NEW e \in Deliveries, e # d PROVE RowOK(e)'
    <2>1. Keeps(x, e)
      BY <1>5, <1>6, <1>2, <1>9 DEF Keeps
    <2> QED
      BY <1>1, <1>4, <1>8, <1>9, <2>1, KeptViews, RowStays
  <1>10. RowOK(d)'
    <2>1. /\ Holders(d)' = Holders(d) /\ Known(d)' = Known(d)
          /\ IsFiniteSet(Holders(d)) /\ x \in Holders(d)
      <3>1. x \in Holders(d)
        BY <1>1, <1>2, CopiesHeld DEF Holders
      <3>2. Holders(d)' = Holders(d)
        BY <1>4, <1>6, <3>1, AloneViews DEF Holders
      <3>3. Known(d)' = Known(d)
        BY <1>4, <1>6, AloneViews
      <3> QED
        BY <1>2, <3>1, <3>2, <3>3 DEF RowOK
    <2>2. /\ Row(delivery[d].status, delivery[d].due, delivery[d].attempt,
                 Cardinality(Holders(d)), Cardinality(Posted(d)), Known(d),
                 tries[d], failures, d, late)
          /\ IsFiniteSet(Posted(d)) /\ Posted(d) \subseteq Holders(d)
          /\ Cardinality(Posted(d)) \in Nat
      BY <1>2, <2>1, Sizes DEF RowOK
    <2>3. CASE Post(x)
      <3>1. /\ Posted(d)' = Posted(d) \cup {x} /\ x \notin Posted(d)
            /\ tries'[d] = tries[d] + 1 /\ failures' = failures
        <4>1. x \notin Posted(d) /\ tries'[d] = tries[d] + 1
          BY <1>2, <2>3 DEF Post, Posted, CountInv, TypeOK
        <4> QED
          BY <1>1, <1>3, <1>4, <1>5, <2>3, <4>1, AloneViews
      <3>2. Cardinality(Posted(d)') = Cardinality(Posted(d)) + 1
        BY <2>2, <3>1, FS_AddElement
      <3>3. Cardinality(Posted(d)) < Cardinality(Holders(d))
        <4>1. Posted(d)' \in SUBSET Holders(d)
          BY <2>1, <2>2, <3>1
        <4>2. Cardinality(Posted(d)') <= Cardinality(Holders(d))
          BY <2>1, <4>1, FS_Subset
        <4> QED
          BY <2>1, <2>2, <3>2, <4>2, FS_CardinalityType
      <3>4. Row(delivery[d].status, delivery[d].due, delivery[d].attempt,
                Cardinality(Holders(d)), Cardinality(Posted(d)) + 1, Known(d),
                tries[d] + 1, failures, d, late)
        BY <2>2, <3>3, RowPosted
      <3> QED
        BY <1>1, <2>1, <3>1, <3>2, <3>4 DEF RowOK
    <2>4. CASE ~Post(x) /\ run[x].pc # "record"
      <3>1. Keeps(x, d) /\ tries'[d] = tries[d]
        BY <1>3, <1>5, <1>6, <1>2, <2>4 DEF Keeps, ReadEndpoint, Breaks
      <3> QED
        BY <1>1, <1>4, <1>2, <3>1, KeptViews, RowStays
    <2>5. CASE run[x].pc = "record"
      <3>1. step # "record" /\ tries'[d] = tries[d] /\ failures' = failures + 1
        BY <1>3, <2>5 DEF ReadEndpoint, Post, Breaks
      <3>2. Posted(d)' = Posted(d) \ {x} /\ x \in Posted(d)
        BY <1>4, <1>5, <1>2, <2>5, <3>1, AloneViews DEF Posted
      <3>3. /\ Cardinality(Posted(d)') = Cardinality(Posted(d)) - 1
            /\ Cardinality(Posted(d)) > 0
        BY <2>2, <3>2, FS_RemoveElement, FS_EmptySet
      <3>4. Row(delivery[d].status, delivery[d].due, delivery[d].attempt,
                Cardinality(Holders(d)), Cardinality(Posted(d)) - 1, Known(d),
                tries[d], failures + 1, d, late)
        BY <2>2, <3>3, RowBroken
      <3> QED
        BY <1>1, <2>1, <3>1, <3>3, <3>4 DEF RowOK
    <2> QED
      BY <2>3, <2>4, <2>5 DEF Post
  <1> QED
    BY <1>7, <1>9, <1>10

\* An attempt ends, in one of its outcomes or in a crash: x lets go of its
\* delivery, and of its whole batch when the process dies.
LEMMA EndClaim ==
  ASSUME CountInv, CountInv', ClaimInv, NEW x \in Deliverers,
         MarkFailed(x) \/ Record(x) \/ Catch(x) \/ Crash(x)
  PROVE  ClaimInv'
  <1> USE DEF ClaimInv
  <1>1. /\ UNCHANGED <<tries, late>> /\ run'[x] = IdleRun
        /\ todo'[x] \in {todo[x], {}}
        /\ todo'[x] = {} \/ run[x].pc # "idle"
        /\ Alone(x)
    BY DEF MarkFailed, Record, Catch, Crash, Finish, Alone, CountInv, TypeOK
  <1>2. \A y \in Deliverers : HolderOK(y)'
    <2>1. HolderOK(x)'
      BY <1>1 DEF HolderOK, IdleRun
    <2> QED
      BY <1>1, <2>1 DEF HolderOK, Alone
  <1>3. Held(x)' = {c[1] : c \in todo'[x]} /\ Copies(x)' = todo'[x]
    BY <1>1 DEF Held, Copies, IdleRun
  <1>4. \A c \in todo[x] : c \in Deliveries \X Nat /\ c[1] \in Held(x)
    BY DEF CountInv, TypeOK, Held
  <1>5. ASSUME NEW d \in Deliveries PROVE Keeps(x, d) \/ LetsGo(x, d)
    <2>1. ~(run'[x].pc = "record" /\ run'[x].id = d)
      BY <1>1 DEF IdleRun
    <2>2. CASE todo'[x] = {}
      <3>1. d \notin Held(x)' /\ \A n \in Nat : <<d, n>> \notin Copies(x)'
        BY <1>3, <2>2
      <3>2. d \notin Held(x) => Keeps(x, d)
        <4>1. \A n \in Nat : <<d, n>> \in Copies(x) => d \in Held(x)
          BY CopiesHeld
        <4>2. run[x].pc = "record" /\ run[x].id = d => d \in Held(x)
          BY CopiesHeld
        <4> QED
          BY <2>1, <3>1, <4>1, <4>2 DEF Keeps
      <3> QED
        BY <2>1, <3>1, <3>2 DEF LetsGo
    <2>3. CASE todo'[x] = todo[x] /\ run[x].pc # "idle" /\ d = run[x].id
      <3>1. \A c \in todo[x] : c[1] # d
        BY <2>3 DEF HolderOK
      <3>2. d \notin Held(x)' /\ \A n \in Nat : <<d, n>> \notin Copies(x)'
        <4>1. \A n \in Nat : <<d, n>>[1] = d
          OBVIOUS
        <4> QED
          BY <1>3, <2>3, <3>1, <4>1
      <3>3. d \in Held(x)
        BY <2>3, CopiesHeld
      <3> QED
        BY <2>1, <3>2, <3>3 DEF LetsGo
    <2>4. CASE todo'[x] = todo[x] /\ run[x].pc # "idle" /\ d # run[x].id
      <3>1. d \in Held(x)' <=> d \in Held(x)
        BY <1>3, <2>4 DEF Held
      <3>2. \A n \in Nat : <<d, n>> \in Copies(x)' <=> <<d, n>> \in Copies(x)
        BY <1>3, <2>4 DEF Copies
      <3> QED
        BY <2>1, <2>4, <3>1, <3>2 DEF Keeps
    <2> QED
      BY <1>1, <2>2, <2>3, <2>4
  <1>6. CASE Crash(x)
    <2>1. delivery' = delivery /\ failures' = failures + 1
      BY <1>6 DEF Crash
    <2>2. ASSUME NEW d \in Deliveries PROVE RowOK(d)'
      <3>1. CASE Keeps(x, d)
        BY <1>1, <2>1, <3>1, KeptViews, RowStays
      <3>2. CASE LetsGo(x, d)
        <4>1. PICK q \in {0, 1} : q = IF x \in Posted(d) THEN 1 ELSE 0
          OBVIOUS
        <4>2. /\ IsFiniteSet(Holders(d))
              /\ Row(delivery[d].status, delivery[d].due, delivery[d].attempt,
                     Cardinality(Holders(d)), Cardinality(Posted(d)), Known(d),
                     tries[d], failures, d, late)
          BY DEF RowOK
        <4>3. /\ IsFiniteSet(Holders(d)')
              /\ Cardinality(Holders(d)) > 0
              /\ Cardinality(Holders(d)') = Cardinality(Holders(d)) - 1
              /\ Cardinality(Posted(d)') = Cardinality(Posted(d)) - q
              /\ q <= Cardinality(Posted(d))
              /\ Cardinality(Posted(d)) - q < Cardinality(Holders(d))
              /\ Known(d)' \subseteq Known(d)
              /\ Cardinality(Holders(d)) = 1 => Known(d)' = {}
          BY <1>1, <3>2, <4>1, <4>2, LetGoViews
        <4>4. Row(delivery[d].status, delivery[d].due, delivery[d].attempt,
                  Cardinality(Holders(d)) - 1, Cardinality(Posted(d)) - q, Known(d)',
                  tries[d], failures + 1, d, late)
          BY <4>2, <4>3, RowDropped
        <4> QED
          BY <1>1, <2>1, <4>3, <4>4 DEF RowOK
      <3> QED
        BY <1>5, <3>1, <3>2
    <2> QED
      BY <1>2, <2>2
  <1>7. CASE MarkFailed(x) \/ Record(x) \/ Catch(x)
    <2>1. PICK d \in Deliveries : d = run[x].id
      BY <1>7 DEF MarkFailed, Record, Catch, CountInv, RunOK
    <2>2. PICK new \in Delivery :
            /\ delivery' = [delivery EXCEPT ![d] = new]
            /\ new.status # "none" /\ (new.status \in Open => ~new.due)
            /\ \/ /\ run[x].pc = "record" /\ new.attempt = run[x].attempt + 1
                  /\ new.status \in Open => new.attempt < MaxAttempts
               \/ run[x].pc # "record" /\ new.attempt = delivery[d].attempt
      <3> DEFINE old == delivery[d]
      <3>1. old \in Delivery /\ run[x].attempt + 1 \in Nat
        BY DEF CountInv, TypeOK, Run
      <3>2. CASE MarkFailed(x)
        <4> DEFINE new == [old EXCEPT !.status = "failed"]
        <4>1. new \in Delivery /\ new.status = "failed" /\ new.attempt = old.attempt
          BY <3>1 DEF Delivery, Status
        <4> QED
          BY <2>1, <3>2, <4>1 DEF MarkFailed, Open
      <3>3. CASE Catch(x)
        <4> DEFINE new == [old EXCEPT !.status = "pending", !.due = FALSE]
        <4>1. new \in Delivery /\ new.status = "pending" /\ ~new.due /\ new.attempt = old.attempt
          BY <3>1 DEF Delivery, Status
        <4> QED
          BY <2>1, <3>3, <4>1 DEF Catch, Open
      <3>4. CASE Record(x)
        <4> DEFINE attempt == run[x].attempt + 1
                   new == IF run[x].ok
                            THEN [old EXCEPT !.attempt = attempt, !.status = "delivered"]
                            ELSE [old EXCEPT !.attempt = attempt, !.due = FALSE,
                                   !.status = IF Exhausted(attempt) THEN "dead" ELSE "pending"]
        <4>1. delivery' = [delivery EXCEPT ![d] = new] /\ run[x].pc = "record"
          BY <2>1, <3>4 DEF Record
        <4>2. /\ new \in Delivery /\ new.attempt = attempt /\ new.status # "none"
              /\ new.status \in Open => ~new.due /\ new.attempt < MaxAttempts
          <5>1. CASE run[x].ok
            BY <3>1, <5>1 DEF Delivery, Status, Open
          <5>2. CASE ~run[x].ok /\ Exhausted(attempt)
            BY <3>1, <5>2 DEF Delivery, Status, Open
          <5>3. CASE ~run[x].ok /\ ~Exhausted(attempt)
            <6>1. attempt < MaxAttempts
              BY <3>1, <5>3, LimitsAssumption DEF Exhausted
            <6> QED
              BY <3>1, <5>3, <6>1 DEF Delivery, Status, Open
          <5> QED
            BY <5>1, <5>2, <5>3
        <4> HIDE DEF new
        <4> QED
          BY <4>1, <4>2
      <3> QED
        BY <1>7, <3>2, <3>3, <3>4
    <2>3. failures' = failures /\ run[x].pc # "idle" /\ todo'[x] = todo[x]
      BY <1>7 DEF MarkFailed, Record, Catch
    <2>4. ASSUME NEW e \in Deliveries, e # d PROVE RowOK(e)'
      <3>1. Keeps(x, e)
        <4>1. e \in Held(x)' <=> e \in Held(x)
          BY <1>3, <2>1, <2>3, <2>4 DEF Held
        <4>2. ~LetsGo(x, e)
          BY <2>4, <4>1 DEF LetsGo
        <4> QED
          BY <1>5, <2>4, <4>2
      <3>2. delivery'[e] = delivery[e]
        BY <2>2, <2>4 DEF CountInv, TypeOK
      <3> QED
        BY <1>1, <2>3, <2>4, <3>1, <3>2, KeptViews, RowStays
    <2>5. LetsGo(x, d)
      <3>1. d \in Held(x)
        BY <2>1, <2>3, CopiesHeld
      <3>2. \A c \in todo[x] : c[1] # d
        BY <2>1, <2>3 DEF HolderOK
      <3>3. d \notin Held(x)'
        BY <1>3, <2>3, <3>2
      <3> QED
        BY <1>5, <3>1, <3>3 DEF Keeps
    <2>6. PICK q \in {0, 1} : /\ q = IF x \in Posted(d) THEN 1 ELSE 0
                              /\ q = 1 <=> run[x].pc = "record"
      BY <2>1 DEF Posted
    <2>7. /\ IsFiniteSet(Holders(d))
          /\ Row(delivery[d].status, delivery[d].due, delivery[d].attempt,
                 Cardinality(Holders(d)), Cardinality(Posted(d)), Known(d),
                 tries[d], failures, d, late)
      BY DEF RowOK
    <2>8. /\ IsFiniteSet(Holders(d)')
          /\ Cardinality(Holders(d)) > 0
          /\ Cardinality(Holders(d)') = Cardinality(Holders(d)) - 1
          /\ Cardinality(Posted(d)') = Cardinality(Posted(d)) - q
          /\ q <= Cardinality(Posted(d))
          /\ Cardinality(Posted(d)) - q < Cardinality(Holders(d))
          /\ Known(d)' \subseteq Known(d)
          /\ Cardinality(Holders(d)) = 1 => Known(d)' = {}
      BY <1>1, <2>5, <2>6, <2>7, LetGoViews
    <2>9. run[x].attempt \in Known(d)
      BY <2>1, <2>3, CopiesHeld DEF Known
    <2>10. new.status \in Status /\ new.due \in BOOLEAN
      BY DEF Delivery
    <2>11. Row(new.status, new.due, new.attempt,
               Cardinality(Holders(d)'), Cardinality(Posted(d)'), Known(d)',
               tries[d], failures, d, late)
      <3>1. /\ Cardinality(Holders(d)) \in Nat /\ Cardinality(Posted(d)) \in Nat
        BY <2>7 DEF Row
      <3>2. Fewer(Cardinality(Holders(d)), Cardinality(Posted(d)), Known(d),
                  Cardinality(Holders(d)'), Cardinality(Posted(d)'), Known(d)', run[x].attempt)
        BY <2>6, <2>8, <2>9, <3>1 DEF Fewer
      <3>3. /\ Cardinality(Posted(d)') = Cardinality(Posted(d)) - 1 => run[x].pc = "record"
            /\ Cardinality(Posted(d)') = Cardinality(Posted(d)) => run[x].pc # "record"
        BY <2>6, <2>8, <3>1
      <3>4. new.status \in Open => new.due = FALSE
        BY <2>2, <2>10
      <3>5. Outcome(delivery[d].attempt, Cardinality(Posted(d)), new.status, new.due, new.attempt,
                    Cardinality(Posted(d)'), run[x].attempt)
        BY <2>2, <2>10, <3>3, <3>4 DEF Outcome
      <3> QED
        BY <2>7, <3>2, <3>5, RowLeft
    <2>12. RowOK(d)'
      <3>1. delivery'[d] = new
        BY <2>2 DEF CountInv, TypeOK
      <3> QED
        BY <1>1, <2>3, <2>8, <2>11, <3>1 DEF RowOK
    <2> QED
      BY <1>2, <2>4, <2>12
  <1> QED
    BY <1>6, <1>7

\* Every step preserves the invariant.
LEMMA NextClaim == CountInv /\ CountInv' /\ ClaimInv /\ [Next]_vars => ClaimInv'
  BY OutsideClaim, TakeClaim, StepClaim, EndClaim DEF Next, DelivererStep

\* However deliverDue calls overlap, crash and come late, a delivery has one
\* holder at most until its lease runs out, and then each failure has paid for the
\* POSTs its holders can still make.
THEOREM ClaimsAreCounted == Spec => [](CountInv /\ ClaimInv)
  <1>1. Init => CountInv /\ ClaimInv
    BY InitCount, InitClaim
  <1>2. CountInv /\ ClaimInv /\ [Next]_vars => CountInv' /\ ClaimInv'
    BY NextCount, NextClaim
  <1> QED
    BY <1>1, <1>2, PTL DEF Spec

\* claimDueDeliveries can claim every open delivery again unless its lease ran
\* out under its holder.
THEOREM NothingStranded == Spec => []NeverStranded
  <1>1. ClaimInv => NeverStranded
    BY DEF ClaimInv, RowOK, Row, Exclusive, NeverStranded, Open
  <1> QED
    BY ClaimsAreCounted, <1>1, PTL

\* The retries are bounded: each POST beyond the backoff table is owed to a
\* failure, each further table to a lease that ran out or a failure.
THEOREM PostsAreBounded == Spec => []BoundedPosts
  <1>1. ASSUME CountInv, ClaimInv, NEW d \in Deliveries
        PROVE  tries[d] <= IF d \in late THEN MaxAttempts * (1 + failures)
                                         ELSE MaxAttempts + failures
    <2>1. /\ IsFiniteSet(Holders(d))
          /\ Row(delivery[d].status, delivery[d].due, delivery[d].attempt,
                 Cardinality(Holders(d)), Cardinality(Posted(d)), Known(d),
                 tries[d], failures, d, late)
      BY <1>1 DEF ClaimInv, RowOK
    <2>2. ASSUME Cardinality(Holders(d)) > 0 PROVE Known(d) # {}
      <3>1. PICK x \in Deliverers : d \in Held(x)
        BY <2>2, FS_EmptySet DEF Holders
      <3>2. PICK n \in Nat : <<d, n>> \in Copies(x)
        BY <1>1, <3>1, CopiesHeld DEF ClaimInv
      <3> QED
        BY <3>2 DEF Known
    <2>3. /\ d \in late => tries[d] <= MaxAttempts * (1 + failures)
          /\ d \notin late => tries[d] <= MaxAttempts + failures
      BY <2>1, <2>2, RowBounds
    <2> QED
      BY <2>3
  <1>2. CountInv /\ ClaimInv => BoundedPosts
    BY <1>1 DEF BoundedPosts
  <1> QED
    BY ClaimsAreCounted, <1>2, PTL

\* A held delivery is being delivered, as long as its lease did not run out.
LEMMA HeldIsDelivering ==
  ASSUME CountInv, ClaimInv, NEW x \in Deliverers, run[x].pc # "idle", run[x].id \notin late
  PROVE  run[x].id \in Deliveries /\ delivery[run[x].id].status = "delivering"
  <1>1. PICK d \in Deliveries : d = run[x].id
    BY DEF CountInv, RunOK
  <1>2. x \in Holders(d)
    BY <1>1, CopiesHeld DEF Holders
  <1>3. IsFiniteSet(Holders(d)) /\ Cardinality(Holders(d)) # 0
    BY <1>2, FS_EmptySet DEF ClaimInv, RowOK
  <1> QED
    BY <1>1, <1>3 DEF ClaimInv, RowOK, Row, Exclusive

\* A delivery that has ended is not reopened, unless its lease ran out.
THEOREM EndedStays == Spec => SettledStays
  <1>1. ASSUME CountInv, ClaimInv, [Next]_vars, NEW d \in Deliveries \ late,
               delivery[d].status \in Settled
        PROVE  delivery'[d].status = delivery[d].status
    <2> USE <1>1
    <2>1. delivery[d].status \notin {"none", "pending", "delivering"}
      BY DEF Settled
    <2>2. ASSUME NEW x \in Deliverers, MarkFailed(x) \/ Record(x) \/ Catch(x)
          PROVE  delivery'[d] = delivery[d]
      <3>1. run[x].pc # "idle"
        BY <2>2 DEF MarkFailed, Record, Catch
      <3>2. run[x].id # d
        BY <2>1, <3>1, HeldIsDelivering
      <3> QED
        BY <2>2, <3>2 DEF MarkFailed, Record, Catch, CountInv, TypeOK
    <2>3. ASSUME NEW x \in Deliverers,
                 \/ \E c \in todo[x] : Take(x, c)
                 \/ ReadEndpoint(x) \/ Post(x) \/ Breaks(x) \/ Crash(x)
          PROVE  delivery'[d] = delivery[d]
      BY <2>3 DEF Take, ReadEndpoint, Post, Breaks, Crash
    <2>4. ASSUME NEW x \in Deliverers, NEW S \in SUBSET Deliveries, claimDueDeliveries(x, S)
          PROVE  delivery'[d] = delivery[d]
      BY <2>1, <2>4 DEF claimDueDeliveries, Due
    <2>5. ASSUME NEW e \in Deliveries, LeaseExpires(e) \/ LeaseOverrun(e)
          PROVE  delivery'[d] = delivery[d]
      BY <2>1, <2>5 DEF LeaseExpires, LeaseOverrun, CountInv, TypeOK
    <2>6. ASSUME NEW e \in Endpoints, NEW f \in Deliveries, RedeliverOne(e, f)
          PROVE  delivery'[d] = delivery[d]
      BY <2>1, <2>6 DEF RedeliverOne, Unused, CountInv, TypeOK
    <2>7. ASSUME NEW v \in Events, NEW type \in Types,
                 NEW place \in Placements(Subscribers(type)), emitEvent(v, type, place)
          PROVE  delivery'[d] = delivery[d]
      <3>1. DOMAIN place \subseteq Unused
        BY DEF Placements
      <3> QED
        BY <2>1, <2>7, <3>1 DEF emitEvent, Unused
    <2>8. ASSUME NEW e \in Endpoints,
                 \/ deactivateEndpoint(e) \/ SecretLost(e)
                 \/ \E types \in SUBSET Types : registerEndpoint(e, types)
          PROVE  delivery'[d] = delivery[d]
      BY <2>8 DEF deactivateEndpoint, SecretLost, registerEndpoint
    <2>9. ASSUME RedeliverFails \/ UNCHANGED vars \/ \E v \in Events : redeliver(v)
          PROVE  delivery'[d] = delivery[d]
      BY <2>9 DEF RedeliverFails, vars, redeliver
    <2>10. delivery'[d] = delivery[d]
      BY <2>2, <2>3, <2>4, <2>5, <2>6, <2>7, <2>8, <2>9 DEF Next, DelivererStep
    <2> QED
      BY <2>10
  <1>2. CountInv /\ ClaimInv /\ [Next]_vars =>
          [\A d \in Deliveries \ late :
             delivery[d].status \in Settled => delivery'[d].status = delivery[d].status]_vars
    BY <1>1
  <1> QED
    BY ClaimsAreCounted, <1>2, PTL DEF Spec, SettledStays
=============================================================================
