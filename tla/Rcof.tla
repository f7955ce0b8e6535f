--------------------------------- MODULE Rcof ---------------------------------
(***************************************************************************)
(* The daily report of receipts (RCOF) of one tenant, date and sequence:   *)
(* the requests that ask for it, the one rcof_submissions row the unique   *)
(* index allows them, its transmission and the polling of its verdict.     *)
(*                                                                         *)
(* Code: generate-rcof.use-case.ts, processRcof and pollRcofSubmitted of   *)
(* integration-processor.service.ts, rcofDaily of the orchestrator and the *)
(* worker loop that calls it.                                              *)
(*                                                                         *)
(* Unlike a DTE (RequestPipeline), an RCOF has no transmission fence, and  *)
(* the daily request and a client's request for the same day share the     *)
(* row.  The claim of a request is exclusive here (RequestPipeline looks   *)
(* at leases that run out).  The repository's update() is a read and a     *)
(* later write of the whole merged row: two steps of a job.                *)
(***************************************************************************)
EXTENDS Naturals, Sequences

CONSTANTS
  Requests,    \* requests of kind rcof for this date and sequence
  Pollers,     \* concurrent pollRcofSubmitted calls
  NoReq,       \* the null reference
  MaxAttempts, \* integration_requests.max_attempts of each (default 5)
  MaxUploads,  \* fetchWithRetry's maxAttempts (3 in the code)
  MaxFailures  \* bound on failed uploads, crashes and database errors

ASSUME RcofAssumption ==
  /\ NoReq \notin Requests
  /\ MaxAttempts \in [Requests -> Nat \ {0}]
  /\ MaxUploads \in Nat \ {0}
  /\ MaxFailures \in Nat

VARIABLES
  req,      \* integration_requests, a row per request
  rcof,     \* the rcof_submissions row of the date and sequence
  sii,      \* the verdict of each envelope the SII received
  job,      \* per request, what the processDue call that holds it remembers
  poll,     \* per poller, the request it polls and what it remembers
  outbox,   \* per request, the states announced by webhook events
  sessions, \* history: per request, how many transmissions started uploading
  failures  \* failed uploads, crashes and database errors so far

vars == <<req, rcof, sii, job, poll, outbox, sessions, failures>>
-----------------------------------------------------------------------------
(* Data *)

Resolved == {"accepted", "observed", "rejected"}
Reported == {"submitted"} \cup Resolved

Allowed ==
  { <<"processing", "submitted">>, <<"processing", "failed">>,
    <<"submitted", "failed">>, <<"failed", "processing">> }
  \cup ({"submitted"} \X Resolved)
  \cup ({"observed"} \X {"accepted", "rejected"})

\* linked abbreviates rcof_id, due is next_attempt_at <= now().
Request == [state: {"none", "queued", "processing", "failed"} \cup Reported,
            linked: BOOLEAN, attempts: Nat, due: BOOLEAN]
NoRequest == [state |-> "none", linked |-> FALSE, attempts |-> 0, due |-> FALSE]

\* track numbers the envelopes the SII received, 0 is null.
Row == [status: {"none", "failed"} \cup Reported, track: Nat]
NoRow == [status |-> "none", track |-> 0]

Verdicts == {"PROCESANDO", "ACEPTADO", "REPARO", "RECHAZADO"}

Steps == {"idle", "find", "create", "upload", "save", "saving", "fail", "failing",
          "link", "submit", "resolve", "reject", "retry"}

\* fresh is the row as claimed; copy is the rcof row as findOne or update
\* returned it; track is the uploaded envelope's.
Job == [pc: Steps, fresh: Request, copy: Row, track: Nat]
IdleJob == [pc |-> "idle", fresh |-> NoRequest, copy |-> NoRow, track |-> 0]

\* seen is the rcof row pollStatus was given or returns; old is the row its
\* update read.
Poll == [pc: {"idle", "read", "ask", "write", "writing", "apply"},
         req: Requests \cup {NoReq}, copy: Request, seen: Row, old: Row,
         mapped: {"none"} \cup Resolved]
IdlePoll == [pc |-> "idle", req |-> NoReq, copy |-> NoRequest, seen |-> NoRow,
             old |-> NoRow, mapped |-> "none"]

Init ==
  /\ req = [r \in Requests |-> NoRequest]
  /\ rcof = NoRow
  /\ sii = <<>>
  /\ job = [r \in Requests |-> IdleJob]
  /\ poll = [p \in Pollers |-> IdlePoll]
  /\ outbox = [r \in Requests |-> <<>>]
  /\ sessions = [r \in Requests |-> 0]
  /\ failures = 0
-----------------------------------------------------------------------------
(* Requests enter the queue *)

\* POST /rcof or rcofDaily; the module Intake shows how a request gets here.
Enqueue(r) ==
  /\ req[r].state = "none"
  /\ req' = [req EXCEPT ![r] = [NoRequest EXCEPT !.state = "queued", !.due = TRUE]]
  /\ UNCHANGED <<rcof, sii, job, poll, outbox, sessions, failures>>
-----------------------------------------------------------------------------
(* The public state (integration-state.service.ts) *)

MayApply(r, new) == req[r].state = new \/ <<req[r].state, new>> \in Allowed

ApplyState(r, c, new) ==
  IF <<req[r].state, new>> \in Allowed
    THEN /\ req' = [req EXCEPT ![r] = [c EXCEPT !.state = new]]
         /\ outbox' = [outbox EXCEPT ![r] = Append(@, new)]
    ELSE UNCHANGED <<req, outbox>>

ScheduleRetry(r, c) ==
  LET tried == [c EXCEPT !.attempts = @ + 1] IN
  IF tried.attempts >= MaxAttempts[r]
    THEN ApplyState(r, tried, "failed")
    ELSE /\ req' = [req EXCEPT ![r] = [tried EXCEPT !.due = FALSE]]
         /\ UNCHANGED outbox
-----------------------------------------------------------------------------
(* processRcof *)

Goto(r, step) == job' = [job EXCEPT ![r].pc = step]
Finish(r) == job' = [job EXCEPT ![r] = IdleJob]

\* Mutant: an abandoned claim is never taken again.
ClaimQueued(r) ==
  LET claimed == [req[r] EXCEPT !.state = "processing", !.due = FALSE] IN
  /\ job[r].pc = "idle" /\ req[r].state = "queued"
  /\ req' = [req EXCEPT ![r] = claimed]
  /\ job' = [job EXCEPT ![r] = [IdleJob EXCEPT !.pc = "find", !.fresh = claimed]]
  /\ UNCHANGED <<rcof, sii, poll, outbox, sessions, failures>>

\* claimDue; processRcof goes on with the claimed copy, it does not read again.
Claim(r) ==
  LET claimed == [req[r] EXCEPT !.state = "processing", !.due = FALSE] IN
  /\ job[r].pc = "idle"
  /\ req[r].state = "queued" \/ (req[r].state = "processing" /\ req[r].due)
  /\ req' = [req EXCEPT ![r] = claimed]
  /\ job' = [job EXCEPT ![r] = [IdleJob EXCEPT !.pc = "find", !.fresh = claimed]]
  /\ UNCHANGED <<rcof, sii, poll, outbox, sessions, failures>>

\* The backoff of a retry or the lease of a claim nobody holds any more.
Wake(r) ==
  /\ req[r].state = "processing" /\ ~req[r].due
  /\ job[r].pc = "idle"
  /\ req' = [req EXCEPT ![r].due = TRUE]
  /\ UNCHANGED <<rcof, sii, job, poll, outbox, sessions, failures>>

\* execute: a row with a TrackID or a verdict is the answer, another row is
\* transmitted again, and without a row the day's receipts are consolidated and
\* signed.  No receipts, or no signature, is a 422.
Find(r) ==
  /\ job[r].pc = "find"
  /\ \/ /\ rcof.track # 0 \/ rcof.status \in Resolved
        /\ job' = [job EXCEPT ![r].pc = "link", ![r].copy = rcof]
     \/ /\ rcof.status # "none" /\ rcof.track = 0 /\ rcof.status \notin Resolved
        /\ Goto(r, "upload")
     \/ /\ rcof.status = "none"
        /\ Goto(r, "create") \/ Goto(r, "reject")
  /\ UNCHANGED <<req, rcof, sii, poll, outbox, sessions, failures>>

\* The row is persisted before it is sent; the unique index refuses a second.
Create(r) ==
  /\ job[r].pc = "create"
  /\ IF rcof.status = "none"
       THEN rcof' = [status |-> "submitted", track |-> 0] /\ Goto(r, "upload")
       ELSE Goto(r, "retry") /\ UNCHANGED rcof
  /\ UNCHANGED <<req, sii, poll, outbox, sessions, failures>>

\* n more envelopes at the SII.
Received(n) == sii' = sii \o [k \in 1..n |-> "PROCESANDO"]

\* sendRcof: up to MaxUploads POSTs, the next one when an answer is lost; the
\* SII may have received each of them.  The last one is answered with a TrackID.
Upload(r) ==
  /\ job[r].pc = "upload"
  /\ sessions' = [sessions EXCEPT ![r] = @ + 1]
  /\ \E n \in 1..MaxUploads :
       Received(n) /\ job' = [job EXCEPT ![r].pc = "save", ![r].track = Len(sii) + n]
  /\ UNCHANGED <<req, rcof, poll, outbox, failures>>

\* The token is refused, every answer is lost, or one of them is an error.
UploadFails(r) ==
  /\ job[r].pc = "upload" /\ failures < MaxFailures
  /\ sessions' = [sessions EXCEPT ![r] = @ + 1]
  /\ \E n \in 0..MaxUploads : Received(n)
  /\ Goto(r, "fail")
  /\ failures' = failures + 1
  /\ UNCHANGED <<req, rcof, poll, outbox>>

\* update() reads the row ...
ReadRow(r) ==
  /\ job[r].pc \in {"save", "fail"}
  /\ job' = [job EXCEPT ![r].pc = IF @ = "save" THEN "saving" ELSE "failing",
                        ![r].copy = rcof]
  /\ UNCHANGED <<req, rcof, sii, poll, outbox, sessions, failures>>

\* Mutant: the TrackID is not stored.
SavedNoTrack(r) == [job[r].copy EXCEPT !.status = "submitted"]

\* ... and writes it back merged with the TrackID ...
Saved(r) == [job[r].copy EXCEPT !.track = job[r].track, !.status = "submitted"]
Save(r) ==
  /\ job[r].pc = "saving"
  /\ rcof' = Saved(r)
  /\ job' = [job EXCEPT ![r].pc = "link", ![r].copy = Saved(r)]
  /\ UNCHANGED <<req, sii, poll, outbox, sessions, failures>>

\* ... or fails, possibly after the commit: the catch marks the row failed.
SaveFails(r) ==
  /\ job[r].pc = "saving" /\ failures < MaxFailures
  /\ rcof' = Saved(r) \/ UNCHANGED rcof
  /\ Goto(r, "fail")
  /\ failures' = failures + 1
  /\ UNCHANGED <<req, sii, poll, outbox, sessions>>

\* The catch of transmit: whatever the row says meanwhile, it is failed.
MarkFailed(r) ==
  /\ job[r].pc = "failing"
  /\ rcof' = [job[r].copy EXCEPT !.status = "failed"]
  /\ Goto(r, "retry")
  /\ UNCHANGED <<req, sii, poll, outbox, sessions, failures>>

\* rcof_id is stored; a row without TrackID counts as a failed attempt.
Link(r) ==
  /\ job[r].pc = "link"
  /\ req' = [req EXCEPT ![r].linked = TRUE]
  /\ Goto(r, IF job[r].copy.track = 0 THEN "retry" ELSE "submit")
  /\ UNCHANGED <<rcof, sii, poll, outbox, sessions, failures>>

WithRcof(r) == [job[r].fresh EXCEPT !.linked = TRUE]

\* A refused transition is a 422 too, and ends in the same catch.
Submit(r) ==
  /\ job[r].pc = "submit"
  /\ ApplyState(r, WithRcof(r), "submitted")
  /\ IF ~MayApply(r, "submitted") THEN Goto(r, "reject")
     ELSE IF job[r].copy.status \in Resolved THEN Goto(r, "resolve")
     ELSE Finish(r)
  /\ UNCHANGED <<rcof, sii, poll, sessions, failures>>

\* The verdict another request's polling already stored.
Resolve(r) ==
  LET new == job[r].copy.status IN
  /\ job[r].pc = "resolve"
  /\ ApplyState(r, [WithRcof(r) EXCEPT !.state = "submitted"], new)
  /\ IF MayApply(r, new) THEN Finish(r) ELSE Goto(r, "reject")
  /\ UNCHANGED <<rcof, sii, poll, sessions, failures>>

\* The catch of processRcof: a 422 is final ...
Reject(r) ==
  /\ job[r].pc = "reject"
  /\ ApplyState(r, job[r].fresh, "failed")
  /\ Finish(r)
  /\ UNCHANGED <<rcof, sii, poll, sessions, failures>>

\* ... any other error is retried, from the claimed copy.
Retry(r) ==
  /\ job[r].pc = "retry"
  /\ ScheduleRetry(r, job[r].fresh)
  /\ Finish(r)
  /\ UNCHANGED <<rcof, sii, poll, sessions, failures>>

\* A database error: in transmit's try, in processRcof's, or in a catch.
StepFails(r) ==
  /\ failures < MaxFailures
  /\ \/ job[r].pc = "save" /\ Goto(r, "fail")
     \/ /\ job[r].pc \in {"find", "create", "fail", "failing", "link", "submit", "resolve"}
        /\ Goto(r, "retry")
     \/ job[r].pc \in {"reject", "retry"} /\ Finish(r)
  /\ failures' = failures + 1
  /\ UNCHANGED <<req, rcof, sii, poll, outbox, sessions>>

\* The process dies; the claimed row stays in processing.
Crash(r) ==
  /\ failures < MaxFailures
  /\ job[r].pc # "idle"
  /\ Finish(r)
  /\ failures' = failures + 1
  /\ UNCHANGED <<req, rcof, sii, poll, outbox, sessions>>
-----------------------------------------------------------------------------
(* pollRcofSubmitted *)

\* An envelope whose TrackID reached nobody's memory cannot be asked for: what
\* the SII makes of it is left out.
Tracked(k) == k = rcof.track \/ \E p \in Pollers : poll[p].seen.track = k

\* External: the SII processes a received envelope.
SiiDecides(k, v) ==
  /\ k \in DOMAIN sii /\ Tracked(k)
  /\ <<sii[k], v>> \in ({"PROCESANDO"} \X {"ACEPTADO", "REPARO", "RECHAZADO"})
                         \cup ({"REPARO"} \X {"ACEPTADO", "RECHAZADO"})
  /\ sii' = [sii EXCEPT ![k] = v]
  /\ UNCHANGED <<req, rcof, job, poll, outbox, sessions, failures>>

PollEnds(p) == poll' = [poll EXCEPT ![p] = IdlePoll]

\* requestsByTenant, addRequest: only requests with an rcof_id are polled.
PollStart(p, r) ==
  /\ poll[p].pc = "idle"
  /\ req[r].state \in {"submitted", "observed"} /\ req[r].linked
  /\ poll' = [poll EXCEPT ![p] = [IdlePoll EXCEPT !.pc = "read", !.req = r, !.copy = req[r]]]
  /\ UNCHANGED <<req, rcof, sii, job, outbox, sessions, failures>>

\* Mutant: only stored verdicts are recovered, the SII is never asked.
PollReadStored(p) ==
  /\ poll[p].pc = "read"
  /\ IF rcof.status \in Resolved
       THEN poll' = [poll EXCEPT ![p].seen = rcof, ![p].pc = "apply"]
       ELSE PollEnds(p)
  /\ UNCHANGED <<req, rcof, sii, job, outbox, sessions, failures>>

\* A stored verdict is recovered without asking; submitted and observed rows
\* are asked for, if they have a TrackID; a failed row is ignored.
PollRead(p) ==
  /\ poll[p].pc = "read"
  /\ \/ /\ rcof.status \in Reported
        /\ poll' = [poll EXCEPT ![p].seen = rcof,
             ![p].pc = IF rcof.status \in {"submitted", "observed"} /\ rcof.track # 0
                         THEN "ask" ELSE "apply"]
     \/ rcof.status = "failed" /\ PollEnds(p)
  /\ UNCHANGED <<req, rcof, sii, job, outbox, sessions, failures>>

\* The status a verdict means for the row.
mapped ==
  [v \in {"ACEPTADO", "REPARO", "RECHAZADO"} |->
     CASE v = "ACEPTADO" -> "accepted" [] v = "REPARO" -> "observed"
       [] v = "RECHAZADO" -> "rejected"]

\* pollStatus asks the SII; an unchanged status is not written.
PollAsk(p) ==
  LET answer == sii[poll[p].seen.track] IN
  /\ poll[p].pc = "ask"
  /\ IF answer = "PROCESANDO" \/ mapped[answer] = poll[p].seen.status
       THEN poll' = [poll EXCEPT ![p].pc = "apply"]
       ELSE poll' = [poll EXCEPT ![p].pc = "write", ![p].mapped = mapped[answer]]
  /\ UNCHANGED <<req, rcof, sii, job, outbox, sessions, failures>>

\* update(): the read ...
PollReadRow(p) ==
  /\ poll[p].pc = "write"
  /\ poll' = [poll EXCEPT ![p].pc = "writing", ![p].old = rcof]
  /\ UNCHANGED <<req, rcof, sii, job, outbox, sessions, failures>>

\* ... and the write.
PollWrite(p) ==
  LET new == [poll[p].old EXCEPT !.status = poll[p].mapped] IN
  /\ poll[p].pc = "writing"
  /\ rcof' = new
  /\ poll' = [poll EXCEPT ![p].pc = "apply", ![p].seen = new]
  /\ UNCHANGED <<req, sii, job, outbox, sessions, failures>>

\* An error inside pollStatus: it returns the row it was given.
PollAskFails(p) ==
  /\ failures < MaxFailures
  /\ poll[p].pc \in {"ask", "write", "writing"}
  /\ poll' = [poll EXCEPT ![p].pc = "apply"]
  /\ failures' = failures + 1
  /\ UNCHANGED <<req, rcof, sii, job, outbox, sessions>>

\* Mutant: a submitted row counts as accepted.
PollApplyOptimistic(p) ==
  /\ poll[p].pc = "apply"
  /\ ApplyState(poll[p].req, poll[p].copy,
                IF poll[p].seen.status \in Resolved THEN poll[p].seen.status ELSE "accepted")
  /\ PollEnds(p)
  /\ UNCHANGED <<rcof, sii, job, sessions, failures>>

\* A resolved row sets the public state, on the copy listed at the start.
PollApply(p) ==
  /\ poll[p].pc = "apply"
  /\ IF poll[p].seen.status \in Resolved
       THEN ApplyState(poll[p].req, poll[p].copy, poll[p].seen.status)
       ELSE UNCHANGED <<req, outbox>>
  /\ PollEnds(p)
  /\ UNCHANGED <<rcof, sii, job, sessions, failures>>

\* A crash, or an error that pollRcofSubmitted logs and swallows.
PollFails(p) ==
  /\ failures < MaxFailures
  /\ poll[p].pc # "idle"
  /\ PollEnds(p)
  /\ failures' = failures + 1
  /\ UNCHANGED <<req, rcof, sii, job, outbox, sessions>>
-----------------------------------------------------------------------------
WorkerStep(r) ==
  \/ Find(r) \/ Create(r) \/ Upload(r) \/ ReadRow(r) \/ Save(r) \/ MarkFailed(r)
  \/ Link(r) \/ Submit(r) \/ Resolve(r) \/ Reject(r) \/ Retry(r)

PollStep(p) ==
  PollRead(p) \/ PollAsk(p) \/ PollReadRow(p) \/ PollWrite(p) \/ PollApply(p)

Next ==
  \/ \E r \in Requests : \/ Enqueue(r) \/ Wake(r) \/ Claim(r)
                         \/ WorkerStep(r) \/ UploadFails(r) \/ SaveFails(r) \/ StepFails(r) \/ Crash(r)
  \/ \E p \in Pollers : \/ \E r \in Requests : PollStart(p, r)
                        \/ PollStep(p) \/ PollAskFails(p) \/ PollFails(p)
  \/ \E k \in DOMAIN sii, v \in Verdicts : SiiDecides(k, v)

Spec == Init /\ [][Next]_vars

\* As in RequestPipeline: a running call goes on, the clock moves, ticks keep
\* claiming and polling every request, and the SII ends its processing.
Fairness ==
  /\ \A p \in Pollers : WF_vars(PollStep(p))
  /\ \A r \in Requests :
       /\ WF_vars(WorkerStep(r)) /\ WF_vars(Wake(r)) /\ WF_vars(Claim(r))
       /\ SF_vars(\E p \in Pollers : PollStart(p, r))
  /\ WF_vars(/\ rcof.track # 0 /\ sii[rcof.track] = "PROCESANDO"
             /\ \E v \in Verdicts : SiiDecides(rcof.track, v))

FairSpec == Spec /\ Fairness
-----------------------------------------------------------------------------
(* Properties *)

\* Types of the rows and of what each worker and poller remembers.
TypeOK ==
  /\ req \in [Requests -> Request]
  /\ rcof \in Row
  /\ sii \in Seq(Verdicts)
  /\ job \in [Requests -> Job]
  /\ poll \in [Pollers -> Poll]
  /\ outbox \in [Requests -> Seq(Reported \cup {"failed"})]
  /\ sessions \in [Requests -> Nat]
  /\ failures \in 0..MaxFailures

\* "Persistir ANTES de transmitir", read from the other end: a request that
\* processRcof or the poller reports as sent or resolved belongs to an RCOF the
\* SII holds, even when update() loses the TrackID of another transmission.
ReportedWasReceived ==
  \A r \in Requests : req[r].state \in Reported =>
    /\ req[r].linked
    /\ Len(sii) > 0 /\ rcof.status # "none"

\* A verdict announced to a client is one the SII gave to an envelope of this
\* date and sequence, whichever of two transmissions' TrackIDs the row keeps.
AnnouncedIsTrue ==
  \A r \in Requests : \A i \in DOMAIN outbox[r] : \A v \in DOMAIN mapped :
    outbox[r][i] = mapped[v] =>
      \E k \in DOMAIN sii : sii[k] = v \/ (v = "REPARO" /\ sii[k] # "PROCESANDO")

\* transmit() has no fence, but the TrackID that it stores and execute() looks
\* for is one: each transmission of a request after its first is paid for by a
\* failed upload, a database error or a crash, none comes from a retry alone.
BoundedTransmissions == \A r \in Requests : sessions[r] <= 1 + failures

\* Every enqueued RCOF request is eventually submitted or failed.
EveryRcofSettles ==
  \A r \in Requests :
    req[r].state = "queued" ~> req[r].state \in Reported \cup {"failed"}

\* The one way a request stays submitted for ever: another transmission of the
\* same row failed late and marked it failed, and pollRcofSubmitted ignores
\* failed rows.
OnlyFailedMarkStrands ==
  \A r \in Requests :
    <>[](req[r].state = "submitted") => <>[](rcof.status = "failed")

\* What the status and the webhooks say about an RCOF is backed by the SII.
ReportsAreTrue == ReportedWasReceived /\ AnnouncedIsTrue
===============================================================================
