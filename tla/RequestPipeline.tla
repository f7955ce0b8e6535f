--------------------------- MODULE RequestPipeline ---------------------------
(***************************************************************************)
(* The durable queue of integration requests and the processors that drive *)
(* a request to one prepared tax document (DTE), one fenced transmission   *)
(* to the tax authority (SII) and the public state the client reads.       *)
(*                                                                         *)
(* Code: application/integrations/integration-{queue.claimer, processor,   *)
(* state}.service.ts, application/dte/{emit-dte,query-dte-status}.use-case *)
(* and framework/sii/sii-soap.client.ts.                                   *)
(*                                                                         *)
(* A worker is one running processDue (the worker loop's tick, the cron    *)
(* endpoint's tick, the call started after each 202); a poller is one      *)
(* running pollSubmitted.  Any number of them run at the same time, in     *)
(* different processes, and share only PostgreSQL.  One step is one        *)
(* database transaction or one call to the SII, so everything a processor  *)
(* remembers between two steps may be stale when it is used.               *)
(***************************************************************************)
EXTENDS Naturals, FiniteSets, Sequences

CONSTANTS
  Requests,     \* ids of integration_requests rows
  DteIds,       \* ids of dte_documents rows; each stands for one folio
  Workers,      \* concurrent processDue calls
  Pollers,      \* concurrent pollSubmitted calls
  NoReq, NoDte, \* the null references
  MaxAttempts,  \* integration_requests.max_attempts (5 in the code)
  MaxUploads,   \* fetchWithRetry's maxAttempts (3 in the code)
  BatchSize,    \* rows one claim may take (5 per tick, 1 after a 202)
  MaxFailures,  \* bound on crashes and database errors in a behaviour
  Faults        \* which faults of FaultKinds the environment shows

\* "prepare":  the preparing transaction may fail and roll back
\* "lookup":   the document's read after the preparing commit may fail
\* "lease":    the 600 s claim may run out while its holder still works
\* "snapshot": steps of a processor may fall between the read and the write of
\*             the update that stores the 202 answer
FaultKinds == {"prepare", "lookup", "lease", "snapshot"}

ASSUME NullsAssumption == NoReq \notin Requests /\ NoDte \notin DteIds
ASSUME BoundsAssumption ==
  /\ MaxAttempts \in Nat \ {0}
  /\ MaxUploads \in Nat \ {0}
  /\ BatchSize \in Nat \ {0}
  /\ MaxFailures \in Nat
ASSUME FaultsAssumption == Faults \subseteq FaultKinds

VARIABLES
  row,       \* integration_requests, a row per request
  dte,       \* dte_documents
  sii,       \* per document, the verdict of each envelope the SII received
  job,       \* per worker, the request it works on and what it remembers
  todo,      \* per worker, claimed requests of its batch not yet started
  poll,      \* per poller, the request it polls and what it remembers
  snap,      \* per request, the storeResponseSnapshot that follows enqueue
  outbox,    \* per request, the states announced by webhook events
  sessions,  \* history: per request, how many times emit.transmit uploaded
  failures   \* crashes and database errors so far

vars == <<row, dte, sii, job, todo, poll, snap, outbox, sessions, failures>>
-----------------------------------------------------------------------------
(* Data *)

States == {"none", "queued", "processing", "submitted", "accepted",
           "observed", "rejected", "failed"}

\* ALLOWED_TRANSITIONS without "cancelled", which no code path requests.
Allowed ==
  { <<"queued", "processing">>, <<"processing", "submitted">>,
    <<"processing", "failed">>, <<"submitted", "accepted">>,
    <<"submitted", "observed">>, <<"submitted", "rejected">>,
    <<"submitted", "failed">>, <<"observed", "accepted">>,
    <<"observed", "rejected">>, <<"failed", "processing">> }

Notifiable == {"submitted", "accepted", "observed", "rejected", "failed"}

Verdicts == {"PROCESANDO", "REPARO", "ACEPTADO", "RECHAZADO"}
Final == {"REPARO", "ACEPTADO", "RECHAZADO"}
DteStatus == {"none", "FIRMADO", "ENVIADO", "BORRADOR"} \cup Final

\* Mutant: an observed document counts as accepted.
mapReparoAccepted ==
  [s \in DteStatus \ {"none"} |->
     CASE s \in {"BORRADOR", "FIRMADO"} -> "processing" [] s = "ENVIADO" -> "submitted"
       [] s \in {"ACEPTADO", "REPARO"} -> "accepted"    [] s = "RECHAZADO" -> "rejected"]

\* The public state that a document's status means.
mapDteStatusToPublic ==
  [s \in DteStatus \ {"none"} |->
     CASE s \in {"BORRADOR", "FIRMADO"} -> "processing" [] s = "ENVIADO" -> "submitted"
       [] s = "ACEPTADO" -> "accepted" [] s = "REPARO" -> "observed"
       [] s = "RECHAZADO" -> "rejected"]

\* due abbreviates next_attempt_at <= now().
Row == [state: States, dteId: DteIds \cup {NoDte}, started: BOOLEAN,
        attempts: Nat, due: BOOLEAN]
NoRow == [state |-> "none", dteId |-> NoDte, started |-> FALSE,
          attempts |-> 0, due |-> FALSE]
NewRow == [NoRow EXCEPT !.state = "queued", !.due = TRUE]

\* trackId numbers the envelopes of the document the SII received, 0 is null.
\* submissions holds the trackIds with a sii_submissions row.  owner is a
\* history field: the request whose prepare created the document.
Dte == [status: DteStatus, trackId: Nat, submissions: SUBSET Nat,
        owner: Requests \cup {NoReq}]
NoDoc == [status |-> "none", trackId |-> 0, submissions |-> {},
          owner |-> NoReq]

Steps == {"idle", "prepare", "retry", "existing", "resume", "finalize", "mark",
          "read", "upload", "persist", "revert", "submit", "quarantine"}

Writes == {"dte", "submission", "audit"}

\* fresh is the row copy that process() and its callees pass around; track is
\* savedDte.trackId; tries counts the POSTs of fetchWithRetry; pending holds
\* the writes of emit.transmit's forkJoin that have not landed; seen is the
\* resolved status transmitOrFinalize read.
Job == [pc: Steps, req: Requests \cup {NoReq}, fresh: Row, track: Nat,
        tries: Nat, pending: SUBSET Writes, seen: DteStatus]
IdleJob == [pc |-> "idle", req |-> NoReq, fresh |-> NoRow, track |-> 0,
            tries |-> 0, pending |-> {}, seen |-> "none"]

Poll == [pc: {"idle", "read", "ask", "find", "write", "apply"},
         req: Requests \cup {NoReq}, copy: Row, track: Nat,
         answer: Verdicts, seen: DteStatus]
IdlePoll == [pc |-> "idle", req |-> NoReq, copy |-> NoRow, track |-> 0,
             answer |-> "PROCESANDO", seen |-> "none"]

Snap == [pc: {"todo", "read", "done"}, copy: Row]
NewSnap == [pc |-> "todo", copy |-> NoRow]

Init ==
  /\ row = [r \in Requests |-> NoRow]
  /\ dte = [d \in DteIds |-> NoDoc]
  /\ sii = [d \in DteIds |-> <<>>]
  /\ job = [w \in Workers |-> IdleJob]
  /\ todo = [w \in Workers |-> {}]
  /\ poll = [p \in Pollers |-> IdlePoll]
  /\ snap = [r \in Requests |-> NewSnap]
  /\ outbox = [r \in Requests |-> <<>>]
  /\ sessions = [r \in Requests |-> 0]
  /\ failures = 0
-----------------------------------------------------------------------------
(* Writing the public state *)

\* applyState: one transaction that locks the row.  State and history are the
\* locked row's, every other column is the caller's copy c.
MayApply(r, new) == row[r].state = new \/ <<row[r].state, new>> \in Allowed

\* Mutants: the transition is checked against the caller's copy; the outbox
\* is written after the commit, or not at all.
ApplyStateOfCopy(r, c, new) ==
  IF <<c.state, new>> \in Allowed
    THEN /\ row' = [row EXCEPT ![r] = [c EXCEPT !.state = new]]
         /\ outbox' = [outbox EXCEPT ![r] = Append(@, new)]
    ELSE UNCHANGED <<row, outbox>>
ApplyStateMayNotAnnounce(r, c, new) ==
  IF <<row[r].state, new>> \in Allowed
    THEN /\ row' = [row EXCEPT ![r] = [c EXCEPT !.state = new]]
         /\ \/ outbox' = [outbox EXCEPT ![r] = Append(@, new)]
            \/ UNCHANGED outbox
    ELSE UNCHANGED <<row, outbox>>

ApplyState(r, c, new) ==
  IF <<row[r].state, new>> \in Allowed
    THEN /\ row' = [row EXCEPT ![r] = [c EXCEPT !.state = new]]
         /\ outbox' = IF new \in Notifiable
                        THEN [outbox EXCEPT ![r] = Append(@, new)] ELSE outbox
    ELSE UNCHANGED <<row, outbox>>   \* same state: no-op; otherwise it throws

\* scheduleRetry: writes the caller's whole copy, without lock or re-read.
ScheduleRetry(r, c) ==
  LET tried == [c EXCEPT !.attempts = @ + 1] IN
  IF tried.attempts >= MaxAttempts
    THEN ApplyState(r, tried, "failed")
    ELSE /\ row' = [row EXCEPT ![r] = [tried EXCEPT !.due = FALSE]]
         /\ UNCHANGED outbox
-----------------------------------------------------------------------------
(* Entering and claiming *)

\* enqueue: the row is inserted in state queued.
Enqueue(r) ==
  /\ row[r].state = "none"
  /\ row' = [row EXCEPT ![r] = NewRow]
  /\ UNCHANGED <<dte, sii, job, todo, poll, snap, outbox, sessions, failures>>

\* storeResponseSnapshot reads the row and writes it back with the snapshot.
\* When nothing falls in between, the columns modelled here do not change.
SnapshotRead(r) ==
  /\ "snapshot" \in Faults
  /\ row[r].state # "none" /\ snap[r].pc = "todo"
  /\ snap' = [snap EXCEPT ![r] = [pc |-> "read", copy |-> row[r]]]
  /\ UNCHANGED <<row, dte, sii, job, todo, poll, outbox, sessions, failures>>

SnapshotWrite(r) ==
  /\ snap[r].pc = "read"
  /\ row' = [row EXCEPT ![r] = snap[r].copy]
  /\ snap' = [snap EXCEPT ![r] = [pc |-> "done", copy |-> NoRow]]
  /\ UNCHANGED <<dte, sii, job, todo, poll, outbox, sessions, failures>>

Held(w) == todo[w] \cup ({job[w].req} \ {NoReq})

\* Mutants: an abandoned claim is never due again; a failed request is due.
DueOnlyQueued(r) == row[r].state = "queued"
DueFailed(r) ==
  row[r].state \in {"queued", "failed"} \/ (row[r].state = "processing" /\ row[r].due)

Due(r) == row[r].state = "queued" \/ (row[r].state = "processing" /\ row[r].due)

\* claimDue: due rows, at most BatchSize, skipping the ones other transactions
\* have locked.  It does not append to the history nor announce the state.
Claim(w, S) ==
  /\ job[w].pc = "idle" /\ todo[w] = {}
  /\ S # {} /\ Cardinality(S) <= BatchSize /\ \A r \in S : Due(r)
  /\ todo' = [todo EXCEPT ![w] = S]
  /\ row' = [r \in Requests |->
               IF r \in S THEN [row[r] EXCEPT !.state = "processing",
                                              !.due = FALSE]
                          ELSE row[r]]
  /\ UNCHANGED <<dte, sii, job, poll, snap, outbox, sessions, failures>>

\* Time passes next_attempt_at: a claim's lease or a retry's backoff.
LeaseExpires(r) ==
  /\ row[r].state = "processing" /\ ~row[r].due
  /\ "lease" \in Faults \/ \A w \in Workers : r \notin Held(w)
  /\ row' = [row EXCEPT ![r].due = TRUE]
  /\ UNCHANGED <<dte, sii, job, todo, poll, snap, outbox, sessions, failures>>
-----------------------------------------------------------------------------
(* Processing one request *)

Goto(w, step) == job' = [job EXCEPT ![w].pc = step]
Finish(w) == job' = [job EXCEPT ![w] = IdleJob]

\* process: reads the row; whatever its state, it goes on from its dteId.
Load(w, r) ==
  /\ job[w].pc = "idle" /\ r \in todo[w]
  /\ todo' = [todo EXCEPT ![w] = @ \ {r}]
  /\ job' = [job EXCEPT ![w] =
       [IdleJob EXCEPT !.pc = IF row[r].dteId = NoDte THEN "prepare" ELSE "existing",
                       !.req = r, !.fresh = row[r]]]
  /\ UNCHANGED <<row, dte, sii, poll, snap, outbox, sessions, failures>>

\* prepareAndLink under the row lock: reserve a folio, create the document and
\* link it, unless the locked row already has one; then read the document.
Prepare(w) ==
  LET r == job[w].req IN
  /\ job[w].pc = "prepare"
  /\ \/ /\ row[r].dteId = NoDte
        /\ \E d \in DteIds :
             /\ dte[d].status = "none"
             /\ dte' = [dte EXCEPT ![d] = [NoDoc EXCEPT !.status = "FIRMADO", !.owner = r]]
             /\ row' = [row EXCEPT ![r].dteId = d]
     \/ /\ row[r].dteId # NoDte
        /\ UNCHANGED <<row, dte>>
  /\ \/ job' = [job EXCEPT ![w].pc = "mark", ![w].fresh = row'[r]]
     \/ /\ "lookup" \in Faults   \* the catch keeps the copy read before
        /\ Goto(w, "retry")
  /\ UNCHANGED <<sii, todo, poll, snap, outbox, sessions, failures>>

\* Mutant: without the shared transaction the document survives the failure.
PrepareFailsUnlinked(w) ==
  /\ job[w].pc = "prepare"
  /\ \E d \in DteIds :
       /\ dte[d].status = "none"
       /\ dte' = [dte EXCEPT ![d] = [NoDoc EXCEPT !.status = "FIRMADO", !.owner = job[w].req]]
  /\ Goto(w, "retry")
  /\ UNCHANGED <<row, sii, todo, poll, snap, outbox, sessions, failures>>

\* The preparing transaction fails (no folio left, database error): roll back.
PrepareFails(w) ==
  /\ job[w].pc = "prepare"
  /\ \/ "prepare" \in Faults
     \/ /\ row[job[w].req].dteId = NoDte
        /\ \A d \in DteIds : dte[d].status # "none"
  /\ Goto(w, "retry")
  /\ UNCHANGED <<row, dte, sii, todo, poll, snap, outbox, sessions, failures>>

\* handleProcessingError
Retry(w) ==
  /\ job[w].pc = "retry"
  /\ ScheduleRetry(job[w].req, job[w].fresh)
  /\ Finish(w)
  /\ UNCHANGED <<dte, sii, todo, poll, snap, sessions, failures>>

\* transmitOrFinalize reads the document: resolved, sent, or still to send.
Existing(w) ==
  LET c == job[w].fresh  doc == dte[c.dteId] IN
  /\ job[w].pc = "existing"
  /\ \/ /\ doc.status \in Final
        /\ job' = [job EXCEPT ![w].pc = IF c.state = "processing" THEN "resume" ELSE "finalize",
                              ![w].seen = doc.status]
     \/ /\ doc.status \notin Final
        /\ Goto(w, IF doc.trackId # 0 THEN "submit" ELSE "mark")
  /\ UNCHANGED <<row, dte, sii, todo, poll, snap, outbox, sessions, failures>>

\* A resolved document of a request in process: first submitted, then the rest.
Resume(w) ==
  LET r == job[w].req  c == job[w].fresh IN
  /\ job[w].pc = "resume"
  /\ ApplyState(r, c, "submitted")
  /\ IF MayApply(r, "submitted")
       THEN job' = [job EXCEPT ![w].pc = "finalize",
                               ![w].fresh = [c EXCEPT !.state = "submitted"]]
       ELSE Finish(w)
  /\ UNCHANGED <<dte, sii, todo, poll, snap, sessions, failures>>

\* The applyState that ends each path, on the worker's copy.
Settle(w, step, new) ==
  /\ job[w].pc = step
  /\ ApplyState(job[w].req, job[w].fresh, new)
  /\ Finish(w)
  /\ UNCHANGED <<dte, sii, todo, poll, snap, sessions, failures>>

Finalize(w) == \E s \in Final : job[w].seen = s /\ Settle(w, "finalize", mapDteStatusToPublic[s])
Submit(w) == Settle(w, "submit", "submitted")
\* Mutant: an ambiguous upload is reported as submitted.
QuarantineSubmits(w) == Settle(w, "quarantine", "submitted")
Quarantine(w) == Settle(w, "quarantine", "failed")

\* Mutants: the marker is not checked; it is set on the copy only.
MarkUnchecked(w) ==
  /\ job[w].pc = "mark"
  /\ row' = [row EXCEPT ![job[w].req].started = TRUE]
  /\ job' = [job EXCEPT ![w].pc = "read", ![w].fresh.started = TRUE]
  /\ UNCHANGED <<dte, sii, todo, poll, snap, outbox, sessions, failures>>
MarkInMemory(w) ==
  /\ job[w].pc = "mark"
  /\ IF job[w].fresh.started \/ row[job[w].req].started
       THEN Goto(w, "quarantine")
       ELSE job' = [job EXCEPT ![w].pc = "read", ![w].fresh.started = TRUE]
  /\ UNCHANGED <<row, dte, sii, todo, poll, snap, outbox, sessions, failures>>

\* transmit: the fence.  A copy or a locked row that already carries
\* transmission_started_at is quarantined, otherwise both are marked.
Mark(w) ==
  LET r == job[w].req IN
  /\ job[w].pc = "mark"
  /\ IF job[w].fresh.started \/ row[r].started
       THEN Goto(w, "quarantine") /\ UNCHANGED row
       ELSE /\ row' = [row EXCEPT ![r].started = TRUE]
            /\ job' = [job EXCEPT ![w].pc = "read",
                                  ![w].fresh = [@ EXCEPT !.started = TRUE]]
  /\ UNCHANGED <<dte, sii, todo, poll, snap, outbox, sessions, failures>>

\* emit.transmit up to the token: it reads the document, and a missing
\* profile, an expired certificate or a refused token ends in quarantine.
ReadDte(w) ==
  /\ job[w].pc = "read"
  /\ \/ job' = [job EXCEPT ![w].pc = "upload", ![w].track = dte[job[w].fresh.dteId].trackId]
     \/ Goto(w, "quarantine")
  /\ UNCHANGED <<row, dte, sii, todo, poll, snap, outbox, sessions, failures>>

\* One POST of the envelope (fetchWithRetry): the SII receives it or not, and
\* independently its answer arrives with a TrackID, arrives as an error, or is
\* lost; only a lost answer is tried again.
Upload(w) ==
  LET r == job[w].req  d == job[w].fresh.dteId IN
  /\ job[w].pc = "upload"
  /\ sessions' = [sessions EXCEPT ![r] = @ + (IF job[w].tries = 0 THEN 1 ELSE 0)]
  /\ \/ /\ sii' = [sii EXCEPT ![d] = Append(@, "PROCESANDO")]
        /\ job' = [job EXCEPT ![w].pc = "persist", ![w].track = Len(sii[d]) + 1,
                              ![w].pending = Writes]
     \/ /\ \/ sii' = [sii EXCEPT ![d] = Append(@, "PROCESANDO")]
           \/ UNCHANGED sii
        /\ \/ Goto(w, "revert")
           \/ /\ job[w].tries + 1 < MaxUploads
              /\ job' = [job EXCEPT ![w].tries = @ + 1]
  /\ UNCHANGED <<row, dte, todo, poll, snap, outbox, failures>>

\* What each write of forkJoin does to the document and its submissions.
Wrote(doc, track, write) ==
  CASE write = "dte" -> [doc EXCEPT !.status = "ENVIADO", !.trackId = track]
    [] write = "submission" -> [doc EXCEPT !.submissions = @ \cup {track}]
    [] write = "audit" -> doc

\* One of the three parallel writes lands; the last one completes forkJoin.
Persist(w, write) ==
  LET rest == job[w].pending \ {write} IN
  /\ job[w].pc = "persist" /\ write \in job[w].pending
  /\ dte' = [dte EXCEPT ![job[w].fresh.dteId] = Wrote(@, job[w].track, write)]
  /\ job' = [job EXCEPT ![w].pending = rest,
                        ![w].pc = IF rest = {} THEN "submit" ELSE "persist"]
  /\ UNCHANGED <<row, sii, todo, poll, snap, outbox, sessions, failures>>

PersistFails(w, write) ==
  /\ job[w].pc = "persist" /\ write \in job[w].pending
  /\ job' = [job EXCEPT ![w].pending = @ \ {write}, ![w].pc = "revert"]
  /\ UNCHANGED <<row, dte, sii, todo, poll, snap, outbox, sessions, failures>>

\* The catchError of emit.transmit writes savedDte back as BORRADOR, with the
\* TrackID if there is one.  Writes of forkJoin still in flight may land
\* before, after (the save took ENVIADO along) or not at all.
Revert(w) ==
  LET d == job[w].fresh.dteId
      back == [dte[d] EXCEPT !.status = "BORRADOR", !.trackId = job[w].track]
  IN
  /\ job[w].pc = "revert"
  /\ \/ \E late \in SUBSET job[w].pending :
          dte' = [dte EXCEPT ![d] =
            [back EXCEPT !.status = IF "dte" \in late THEN "ENVIADO" ELSE @,
                         !.submissions = IF "submission" \in late
                                           THEN @ \cup {job[w].track} ELSE @]]
     \/ UNCHANGED dte   \* the write back fails too
  /\ Goto(w, "quarantine")
  /\ UNCHANGED <<row, sii, todo, poll, snap, outbox, sessions, failures>>

\* The process dies: its batch is forgotten, the rows stay claimed.
Crash(w) ==
  /\ failures < MaxFailures
  /\ job[w] # IdleJob \/ todo[w] # {}
  /\ job' = [job EXCEPT ![w] = IdleJob]
  /\ todo' = [todo EXCEPT ![w] = {}]
  /\ failures' = failures + 1
  /\ UNCHANGED <<row, dte, sii, poll, snap, outbox, sessions>>

\* A database error outside the try blocks: processDue logs it and goes on
\* with the next request of the batch.
Abandon(w) ==
  /\ failures < MaxFailures
  /\ job[w].pc \in {"prepare", "existing", "resume", "finalize", "mark", "retry",
                    "submit", "quarantine"}
  /\ Finish(w)
  /\ failures' = failures + 1
  /\ UNCHANGED <<row, dte, sii, todo, poll, snap, outbox, sessions>>
-----------------------------------------------------------------------------
(* Polling the SII *)

\* External: the SII processes a received envelope; an observed one may still
\* be accepted or rejected, the other two verdicts are final.
SiiDecides(d, k, v) ==
  /\ k \in 1..Len(sii[d])
  /\ <<sii[d][k], v>> \in ({"PROCESANDO"} \X Final)
                            \cup ({"REPARO"} \X {"ACEPTADO", "RECHAZADO"})
  /\ sii' = [sii EXCEPT ![d][k] = v]
  /\ UNCHANGED <<row, dte, job, todo, poll, snap, outbox, sessions, failures>>

PollGoto(p, step) == poll' = [poll EXCEPT ![p].pc = step]
PollEnds(p) == poll' = [poll EXCEPT ![p] = IdlePoll]

\* pollSubmitted lists the requests to poll and keeps their rows ...
PollStart(p, r) ==
  /\ poll[p].pc = "idle"
  /\ row[r].state \in {"submitted", "observed"} /\ row[r].dteId # NoDte
  /\ poll' = [poll EXCEPT ![p] = [IdlePoll EXCEPT !.pc = "read", !.req = r, !.copy = row[r]]]
  /\ UNCHANGED <<row, dte, sii, job, todo, snap, outbox, sessions, failures>>

\* ... and, when it comes to one, reads its document's TrackID.
PollRead(p) ==
  LET track == dte[poll[p].copy.dteId].trackId IN
  /\ poll[p].pc = "read"
  /\ IF track # 0 THEN poll' = [poll EXCEPT ![p].pc = "ask", ![p].track = track]
                  ELSE PollEnds(p)
  /\ UNCHANGED <<row, dte, sii, job, todo, snap, outbox, sessions, failures>>

\* QueryDteStatus: needs the sii_submissions row, then asks the SII.
PollAsk(p) ==
  LET d == poll[p].copy.dteId IN
  /\ poll[p].pc = "ask"
  /\ IF poll[p].track \in dte[d].submissions
       THEN poll' = [poll EXCEPT ![p].pc = "find", ![p].answer = sii[d][poll[p].track]]
       ELSE PollEnds(p)
  /\ UNCHANGED <<row, dte, sii, job, todo, snap, outbox, sessions, failures>>

\* It finds the document by TrackID ...
PollFind(p) ==
  LET doc == dte[poll[p].copy.dteId] IN
  /\ poll[p].pc = "find"
  /\ IF doc.trackId = poll[p].track
       THEN poll' = [poll EXCEPT ![p].pc = "write", ![p].seen = doc.status]
       ELSE PollGoto(p, "apply")
  /\ UNCHANGED <<row, dte, sii, job, todo, snap, outbox, sessions, failures>>

\* Mutant: REPARO is not stored.
PollWriteNoReparo(p) ==
  /\ poll[p].pc = "write"
  /\ dte' = [dte EXCEPT ![poll[p].copy.dteId] =
       [@ EXCEPT !.status = IF poll[p].answer \in {"ACEPTADO", "RECHAZADO"}
                              THEN poll[p].answer ELSE poll[p].seen,
                 !.trackId = poll[p].track]]
  /\ PollGoto(p, "apply")
  /\ UNCHANGED <<row, sii, job, todo, snap, outbox, sessions, failures>>

\* ... and writes it back: the answer if it is a resolution, otherwise the
\* status as it was read.
PollWrite(p) ==
  /\ poll[p].pc = "write"
  /\ dte' = [dte EXCEPT ![poll[p].copy.dteId] =
       [@ EXCEPT !.status = IF poll[p].answer \in Final THEN poll[p].answer
                                                        ELSE poll[p].seen,
                 !.trackId = poll[p].track]]
  /\ PollGoto(p, "apply")
  /\ UNCHANGED <<row, sii, job, todo, snap, outbox, sessions, failures>>

\* Mutant: a document without a verdict yet is reported as accepted.
PollApplyOptimistic(p) ==
  LET status == dte[poll[p].copy.dteId].status IN
  /\ poll[p].pc = "apply"
  /\ ApplyState(poll[p].req, poll[p].copy,
       IF status \in Final THEN mapDteStatusToPublic[status] ELSE "accepted")
  /\ PollEnds(p)
  /\ UNCHANGED <<dte, sii, job, todo, snap, sessions, failures>>

\* The document is read again; a resolved one sets the public state.
PollApply(p) ==
  LET status == dte[poll[p].copy.dteId].status IN
  /\ poll[p].pc = "apply"
  /\ IF status \in Final
       THEN ApplyState(poll[p].req, poll[p].copy, mapDteStatusToPublic[status])
       ELSE UNCHANGED <<row, outbox>>
  /\ PollEnds(p)
  /\ UNCHANGED <<dte, sii, job, todo, snap, sessions, failures>>

\* A crash, or an error that pollSubmitted logs and swallows.
PollFails(p) ==
  /\ failures < MaxFailures
  /\ poll[p].pc # "idle"
  /\ PollEnds(p)
  /\ failures' = failures + 1
  /\ UNCHANGED <<row, dte, sii, job, todo, snap, outbox, sessions>>
-----------------------------------------------------------------------------
WorkerStep(w) ==
  \/ \E r \in Requests : Load(w, r)
  \/ Prepare(w) \/ PrepareFails(w) \/ Retry(w)
  \/ Existing(w) \/ Resume(w) \/ Finalize(w) \/ Submit(w) \/ Quarantine(w)
  \/ Mark(w) \/ ReadDte(w) \/ Upload(w) \/ Revert(w)
  \/ \E write \in Writes : Persist(w, write) \/ PersistFails(w, write)

PollStep(p) ==
  PollRead(p) \/ PollAsk(p) \/ PollFind(p) \/ PollWrite(p) \/ PollApply(p)

Next ==
  \/ \E r \in Requests : \/ Enqueue(r) \/ SnapshotRead(r) \/ SnapshotWrite(r)
                         \/ LeaseExpires(r)
  \/ \E w \in Workers : \/ \E S \in SUBSET Requests : Claim(w, S)
                        \/ WorkerStep(w) \/ Crash(w) \/ Abandon(w)
  \/ \E p \in Pollers : \/ \E r \in Requests : PollStart(p, r)
                        \/ PollStep(p) \/ PollFails(p)
  \/ \E d \in DteIds, v \in Final : \E k \in 1..Len(sii[d]) : SiiDecides(d, k, v)

Spec == Init /\ [][Next]_vars

\* What the deployment's scheduling gives: a running call goes on, the clock
\* reaches next_attempt_at, ticks keep claiming and polling oldest first (each
\* request leaves the due set after bounded attempts, so none is passed over
\* for ever), and the SII ends its processing.
Fairness ==
  /\ \A w \in Workers : WF_vars(WorkerStep(w))
  /\ \A p \in Pollers : WF_vars(PollStep(p))
  /\ \A r \in Requests :
       /\ WF_vars(LeaseExpires(r))
       /\ SF_vars(\E w \in Workers, S \in SUBSET Requests : r \in S /\ Claim(w, S))
       /\ SF_vars(\E p \in Pollers : PollStart(p, r))
  /\ \A d \in DteIds, k \in 1..MaxUploads :
       WF_vars(/\ k \in DOMAIN sii[d] /\ sii[d][k] = "PROCESANDO"
               /\ \E v \in Final : SiiDecides(d, k, v))

FairSpec == Spec /\ Fairness
-----------------------------------------------------------------------------
(* Properties *)

\* Types of the rows, the documents, the SII's envelopes and what each worker,
\* poller and 202 handler remembers.
TypeOK ==
  /\ row \in [Requests -> Row]
  /\ dte \in [DteIds -> Dte]
  /\ sii \in [DteIds -> Seq(Verdicts)]
  /\ job \in [Workers -> Job]
  /\ todo \in [Workers -> SUBSET Requests]
  /\ poll \in [Pollers -> Poll]
  /\ snap \in [Requests -> Snap]
  /\ outbox \in [Requests -> Seq(Notifiable)]
  /\ sessions \in [Requests -> Nat]
  /\ failures \in 0..MaxFailures

Prepared == {d \in DteIds : dte[d].status # "none"}

\* "El DTE se crea UNA sola vez por solicitud": however often process() retries
\* a request, and whoever retries it, prepare never gives it a second document
\* (and folio).
OneDtePerRequest ==
  \A d, e \in Prepared : dte[d].owner = dte[e].owner => d = e

\* transmission_started_at is durable: once the SII holds an envelope of a
\* document, whatever applyState, scheduleRetry and the snapshot write to the
\* request's row afterwards, it still links the document and carries the marker.
FenceDurable ==
  \A d \in Prepared : Len(sii[d]) > 0 =>
    LET r == dte[d].owner IN row[r].dteId = d /\ row[r].started

\* The fence of transmit(): over all retries, crashes and re-claims, the
\* envelope of a request is handed to emit.transmit's upload at most once.
OneTransmission == \A r \in Requests : sessions[r] <= 1

Reported == {"submitted", "observed", "accepted", "rejected"}

\* A request that applyState reports as submitted or resolved has a document
\* whose TrackID the SII issued, whichever writes of emit.transmit's forkJoin
\* were lost.
ReportedWasReceived ==
  \A r \in Requests : row[r].state \in Reported =>
    /\ row[r].dteId \in Prepared
    /\ dte[row[r].dteId].trackId \in 1..Len(sii[row[r].dteId])

\* With any number of pollSubmitted calls writing the document and the request
\* back from their own copies, the final public state is the SII's verdict for
\* the document's TrackID.
VerdictFaithful ==
  \A r \in Requests :
    LET d == row[r].dteId IN
    /\ row[r].state = "accepted" => sii[d][dte[d].trackId] = "ACEPTADO"
    /\ row[r].state = "rejected" => sii[d][dte[d].trackId] = "RECHAZADO"

\* Even when claims overlap, a verdict that dispatchForRequest announces to the
\* client is one the SII gave to a document of that request.
AnnouncedIsTrue ==
  \A r \in Requests : \A i \in DOMAIN outbox[r] : \A v \in Final :
    outbox[r][i] = mapDteStatusToPublic[v] =>
      \E d \in Prepared : /\ dte[d].owner = r
                          /\ \E k \in DOMAIN sii[d] :
                               sii[d][k] = v \/ (v = "REPARO" /\ sii[d][k] # "PROCESANDO")

\* "Persisting the outbox must succeed or the state transition rolls back": no
\* notifiable state a client can read is missing from the webhook events, also
\* when whole rows are written back from old copies.
EveryStateAnnounced ==
  \A r \in Requests : row[r].state \in Notifiable =>
    \E i \in DOMAIN outbox[r] : outbox[r][i] = row[r].state

\* applyState takes the state from the locked row, "preventing duplicate
\* transition events": no state is announced twice to the client.
NoDuplicateEvents ==
  \A r \in Requests : \A i, j \in DOMAIN outbox[r] :
    outbox[r][i] = outbox[r][j] => i = j

Lifecycle == INSTANCE RequestLifecycle
               WITH state <- [r \in Requests |-> row[r].state], announced <- outbox

\* Claims, retries, crashes and polls together implement the lifecycle the API
\* promises: the state moves forward only, and is announced as it is entered.
ImplementsLifecycle == Lifecycle!Spec

\* Claimed, dropped by a crash, claimed again, retried with backoff: every
\* enqueued request is eventually submitted or reported as failed.
EveryRequestSettles ==
  \A r \in Requests :
    row[r].state = "queued" ~> row[r].state \in Reported \cup {"failed"}

\* pollSubmitted eventually resolves a submitted request whose sii_submissions
\* row emit.transmit managed to create.
EveryVerdictArrives ==
  \A r \in Requests :
    (/\ row[r].state = "submitted"
     /\ dte[row[r].dteId].trackId \in dte[row[r].dteId].submissions)
      ~> row[r].state \in Reported \ {"submitted"}
=============================================================================
