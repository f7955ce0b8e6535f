-------------------------------- MODULE Intake --------------------------------
(***************************************************************************)
(* How a request of one tenant enters the durable queue: the idempotent    *)
(* enqueue that client calls and the daily RCOF share, and the worker and  *)
(* cron runs that enqueue the daily RCOF.                                  *)
(*                                                                         *)
(* Code: enqueue of integration-request.service.ts, enqueueAndKick of      *)
(* integration-controller.helper.ts, the POST handlers, rcofDaily of the   *)
(* orchestrator, run of integration-worker.service.ts, the unique indexes  *)
(* of integration_requests.                                                *)
(*                                                                         *)
(* Callers interleave at every query.  An error is a failed query or a     *)
(* process that dies: the caller of an API call learns nothing.            *)
(***************************************************************************)
EXTENDS Naturals

CONSTANTS
  Clients,       \* API calls
  Worker, Cron,  \* the worker's loop and the cron endpoint, its fallback
  Slots,         \* kind and resourceKey of a request: where its key is unique
  Keys, Bodies,  \* Idempotency-Key, raw body of client calls
  NoRef, RefOf,  \* externalReference of each body
  NoInput,
  MaxDay,        \* bound on the days
  MaxErrors      \* bound on errors and restarts

ASSUME IntakeAssumption ==
  /\ MaxDay \in Nat \ {0} /\ MaxErrors \in Nat
  /\ Worker \notin Clients /\ Cron \notin Clients \cup {Worker}
  /\ Keys \cap (1..MaxDay) = {}  \* no client uses a key "rcof-daily:<date>:1"

VARIABLES
  rows,      \* integration_requests, what identifies each of them
  input,     \* per client call, what it carries
  answer,    \* per client call, what it was told
  call,      \* per caller, its step in enqueue
  day,       \* today
  receipts,  \* past days with receipts (types 39 and 41) that are not drafts
  lastRcofDate,  \* in the worker's memory
  skipped,   \* history: days whose daily request an error kept from the queue
  errors     \* errors and restarts so far

vars == <<rows, input, answer, call, day, receipts, lastRcofDate, skipped, errors>>
-----------------------------------------------------------------------------
(* Data *)

Runners == {Worker, Cron}
Callers == Clients \cup Runners
Days == 1..MaxDay

ClientInputs == {[slot |-> s, key |-> k, body |-> b, ref |-> RefOf[b]] :
                   s \in Slots, k \in Keys, b \in Bodies}

\* rcofDaily's deterministic key and payload; the date stands for both.
DailyInput(d) == [slot |-> "rcof", key |-> d, body |-> d, ref |-> NoRef]
Inputs == ClientInputs \cup {DailyInput(d) : d \in Days}

ASSUME InputAssumption == NoInput \notin Inputs

\* date is the day a runner works on, today the day it started in.
Call == [pc: {"idle", "receipts", "lookup", "ref", "create", "raced", "racedRef",
              "snapshot", "done"},
         in: Inputs \cup {NoInput}, today: 0..MaxDay]
IdleCall == [pc |-> "idle", in |-> NoInput, today |-> 0]

\* The two unique indexes.
SameKey(a, b) == a.slot = b.slot /\ a.key = b.key
SameRef(a, b) == a.ref # NoRef /\ a.ref = b.ref

ByKey(i) == {j \in rows : SameKey(i, j)}
ByRef(i) == {j \in rows : SameRef(i, j)}

Init ==
  /\ rows = {}
  /\ input = [c \in Clients |-> NoInput]
  /\ answer = [c \in Clients |-> "none"]
  /\ call = [x \in Callers |-> IdleCall]
  /\ day = 1
  /\ receipts = {}
  /\ lastRcofDate = 0
  /\ skipped = {}
  /\ errors = 0
-----------------------------------------------------------------------------
(* enqueue *)

Goto(x, step) == call' = [call EXCEPT ![x].pc = step]

\* A client is told the verdict.  A runner is done with its one tenant, whatever
\* the verdict, and the worker remembers the day it started in.
Done(x, verdict) ==
  IF x \in Clients
    THEN /\ Goto(x, "done")
         /\ answer' = [answer EXCEPT ![x] = verdict]
         /\ UNCHANGED <<lastRcofDate>>
    ELSE /\ call' = [call EXCEPT ![x] = IdleCall]
         /\ lastRcofDate' = IF x = Worker THEN call[x].today ELSE lastRcofDate
         /\ UNCHANGED answer

\* The row found by its key: the same body is a replay.
Replay(i) == IF i \in rows THEN "accepted" ELSE "key_conflict"

\* POST /dtes, /dtes/:id/credit-notes, /dtes/:id/debit-notes or /rcof.
Arrive(c) ==
  /\ input[c] = NoInput
  /\ \E i \in ClientInputs :
       /\ input' = [input EXCEPT ![c] = i]
       /\ call' = [call EXCEPT ![c] = [pc |-> "lookup", in |-> i, today |-> 0]]
  /\ UNCHANGED <<rows, answer, day, receipts, lastRcofDate, skipped, errors>>

\* The first query: a row with this key is the answer.
Lookup(x) ==
  LET i == call[x].in IN
  /\ call[x].pc = "lookup"
  /\ IF ByKey(i) # {}
       THEN Done(x, Replay(i))
       ELSE /\ Goto(x, IF i.ref = NoRef THEN "create" ELSE "ref")
            /\ UNCHANGED <<answer, lastRcofDate>>
  /\ UNCHANGED <<rows, input, day, receipts, skipped, errors>>

\* The reference is compared by key alone, not by slot.
LookupRef(x) ==
  LET i == call[x].in IN
  /\ call[x].pc = "ref"
  /\ IF \E j \in ByRef(i) : j.key # i.key
       THEN Done(x, "ref_conflict")
       ELSE Goto(x, "create") /\ UNCHANGED <<answer, lastRcofDate>>
  /\ UNCHANGED <<rows, input, day, receipts, skipped, errors>>

Unique(i) == ByKey(i) = {} /\ ByRef(i) = {}

\* A client's call goes on with storeResponseSnapshot.
Create(x) ==
  LET i == call[x].in IN
  /\ call[x].pc = "create"
  /\ IF Unique(i)
       THEN /\ rows' = rows \cup {i}
            /\ IF x \in Clients
                 THEN Goto(x, "snapshot") /\ UNCHANGED <<answer, lastRcofDate>>
                 ELSE Done(x, "accepted")
       ELSE Goto(x, "raced") /\ UNCHANGED <<rows, answer, lastRcofDate>>
  /\ UNCHANGED <<input, day, receipts, skipped, errors>>

\* Mutant: a unique violation is always answered as a replay.
RacedAccepts(x) ==
  /\ call[x].pc = "raced"
  /\ Done(x, "accepted")
  /\ UNCHANGED <<rows, input, day, receipts, skipped, errors>>

\* The insert was refused: the winner is looked up by key, then by reference.
Raced(x) ==
  LET i == call[x].in IN
  /\ call[x].pc = "raced"
  /\ IF ByKey(i) # {}
       THEN Done(x, Replay(i))
       ELSE Goto(x, "racedRef") /\ UNCHANGED <<answer, lastRcofDate>>
  /\ UNCHANGED <<rows, input, day, receipts, skipped, errors>>

\* Without a winner the error is thrown again.
RacedRef(x) ==
  LET i == call[x].in IN
  /\ call[x].pc = "racedRef"
  /\ Done(x, IF ByRef(i) # {} THEN "ref_conflict" ELSE "error")
  /\ UNCHANGED <<rows, input, day, receipts, skipped, errors>>

\* storeResponseSnapshot, and the 202 is sent.
StoreSnapshot(x) ==
  /\ call[x].pc = "snapshot"
  /\ Done(x, "accepted")
  /\ UNCHANGED <<rows, input, day, receipts, skipped, errors>>
-----------------------------------------------------------------------------
(* The daily RCOF *)

\* A day passes, with receipts or without.  The worker runs every minute: it
\* has done its work of today by then.
NextDay ==
  /\ day < MaxDay /\ lastRcofDate = day
  /\ day' = day + 1
  /\ \E r \in SUBSET {day} : receipts' = receipts \cup r
  /\ UNCHANGED <<rows, input, answer, call, lastRcofDate, skipped, errors>>

\* The worker, once per day after RCOF_DAILY_HOUR; the cron endpoint, any time.
StartDaily(x) ==
  /\ call[x].pc = "idle" /\ day > 0
  /\ x = Worker => lastRcofDate # day
  /\ call' = [call EXCEPT ![x] = [pc |-> "receipts", in |-> NoInput, today |-> day]]
  /\ UNCHANGED <<rows, input, answer, day, receipts, lastRcofDate, skipped, errors>>

\* hasBoletas of yesterday.
CheckReceipts(x) ==
  LET date == call[x].today - 1 IN
  /\ call[x].pc = "receipts"
  /\ IF date \in receipts
       THEN /\ call' = [call EXCEPT ![x].pc = "lookup", ![x].in = DailyInput(date)]
            /\ UNCHANGED <<answer, lastRcofDate>>
       ELSE Done(x, "none")
  /\ UNCHANGED <<rows, input, day, receipts, skipped, errors>>
-----------------------------------------------------------------------------
(* Errors *)

\* A client's call fails; its row may exist.
CallFails(c) ==
  /\ call[c].pc \notin {"idle", "done"} /\ errors < MaxErrors
  /\ Goto(c, "done")
  /\ errors' = errors + 1
  /\ UNCHANGED <<rows, input, answer, day, receipts, lastRcofDate, skipped>>

\* rcofDaily keeps the error of a tenant for its log and returns as if it were done.
TenantFails(x) ==
  /\ call[x].pc # "idle" /\ errors < MaxErrors
  /\ Done(x, "error")
  /\ skipped' = skipped \cup ({call[x].today - 1} \cap receipts)
  /\ errors' = errors + 1
  /\ UNCHANGED <<rows, input, day, receipts>>

\* Mutant: the worker's finally remembers the day.
RunFailsDone(x) ==
  /\ call[x].pc = "receipts" /\ errors < MaxErrors
  /\ Done(x, "error")
  /\ errors' = errors + 1
  /\ UNCHANGED <<rows, input, day, receipts, skipped>>

\* The list of tenants cannot be read, or tick failed: the worker's run ends.
RunFails(x) ==
  /\ call[x].pc = "receipts" /\ errors < MaxErrors
  /\ call' = [call EXCEPT ![x] = IdleCall]
  /\ errors' = errors + 1
  /\ UNCHANGED <<rows, input, answer, day, receipts, lastRcofDate, skipped>>

\* The worker dies and forgets which day it has done.
Restart ==
  /\ errors < MaxErrors
  /\ call' = [call EXCEPT ![Worker] = IdleCall]
  /\ lastRcofDate' = 0
  /\ errors' = errors + 1
  /\ UNCHANGED <<rows, input, answer, day, receipts, skipped>>
-----------------------------------------------------------------------------
Step(x) ==
  \/ Lookup(x) \/ LookupRef(x) \/ Create(x) \/ Raced(x) \/ RacedRef(x) \/ StoreSnapshot(x)

Next ==
  \/ \E x \in Callers : Step(x)
  \/ \E c \in Clients : Arrive(c) \/ CallFails(c)
  \/ \E x \in Runners : StartDaily(x) \/ CheckReceipts(x) \/ TenantFails(x) \/ RunFails(x)
  \/ NextDay \/ Restart

Spec == Init /\ [][Next]_vars
-----------------------------------------------------------------------------
(* Properties *)

\* Types of the requests, calls and runs.
TypeOK ==
  /\ rows \subseteq Inputs
  /\ input \in [Clients -> ClientInputs \cup {NoInput}]
  /\ answer \in [Clients -> {"none", "accepted", "key_conflict", "ref_conflict"}]
  /\ call \in [Callers -> Call]
  /\ day \in 1..MaxDay
  /\ receipts \subseteq 1..(day - 1)
  /\ lastRcofDate \in 0..day
  /\ skipped \subseteq receipts
  /\ errors \in 0..MaxErrors

\* "Concurrent identical calls can both pass the initial read. Resolve the winner
\* from the unique index so retries keep the same 202 result": whatever the
\* interleaving, a call and its repetition are both accepted or both refused.
RetriesAgree ==
  \A c, d \in Clients :
    input[c] = input[d] /\ answer[c] = "accepted" => answer[d] \in {"none", "accepted"}

\* The RCOF of a day with receipts is in the queue once the worker has done its
\* run of the next day, restarts and cron runs in between included; the one
\* exception is a day whose run met an error that rcofDaily swallowed.
DayIsReported ==
  \A d \in receipts :
    d < day - 1 \/ lastRcofDate = day => DailyInput(d) \in rows \/ d \in skipped

\* The idempotency rules over IntegrationRequestService, for calls in any
\* interleaving: every answer is justified by the requests taken so far, and no
\* unique violation reaches a client.
Abstract == INSTANCE IdempotentIntake
IdempotentSpec == Abstract!Spec
===============================================================================
