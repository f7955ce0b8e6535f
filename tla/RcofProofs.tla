------------------------------ MODULE RcofProofs ------------------------------
(***************************************************************************)
(* Properties of Rcof for any number of requests and pollers, and any      *)
(* bounds: what is reported is the SII's, and a retry alone never          *)
(* transmits again.                                                        *)
(***************************************************************************)
EXTENDS Rcof, SequenceTheorems, TLAPS

\* S is what the SII made of its envelopes, s a status a verdict stands for:
\* one envelope got that verdict, or was observed before it got another.
Given(S, s) ==
  \E k \in 1..Len(S), v \in DOMAIN mapped :
    /\ mapped[v] = s
    /\ S[k] = v \/ (v = "REPARO" /\ S[k] # "PROCESANDO")

\* A copy of the rcof row, however old: a TrackID the SII issued, and a verdict
\* only if the SII gave it.
Known(c, S) ==
  /\ c.track <= Len(S)
  /\ c.status = "none" => c.track = 0
  /\ c.status \in Resolved => Given(S, c.status)

\* What the job j of a request in state s knows; c is the rcof row.  The claim
\* is exclusive, so until it submits the request stays in process.
JobOK(j, s, c, S) ==
  /\ j.pc # "idle" => j.fresh.state = "processing"
  /\ j.pc \in {"find", "create", "upload", "save", "saving", "fail", "failing", "link", "submit"}
       => s = "processing"
  /\ j.pc = "resolve" => s \in Reported /\ j.copy.status \in Resolved
  /\ j.pc = "reject" => s \in {"processing"} \cup Resolved
  /\ j.pc \in {"upload", "save", "saving", "fail", "failing", "link", "submit", "resolve"}
       => c.status # "none"
  /\ j.pc \in {"saving", "failing", "link", "submit", "resolve"}
       => Known(j.copy, S) /\ j.copy.status # "none"
  /\ j.pc \in {"save", "saving"} => 0 < j.track /\ j.track <= Len(S)
  /\ j.pc \in {"submit", "resolve"} => 0 < Len(S)

\* What a poller knows.
PollOK(q, c, S) ==
  /\ q.pc # "idle" => q.req \in Requests /\ q.copy.linked /\ c.status # "none"
  /\ q.pc \in {"ask", "write", "writing", "apply"} => Known(q.seen, S)
  /\ q.pc = "ask" => 0 < q.seen.track
  /\ q.pc \in {"write", "writing"} => q.mapped \in Resolved /\ Given(S, q.mapped)
  /\ q.pc = "writing" => Known(q.old, S) /\ q.old.status # "none"

\* What the client is told of a request m, by its state and by its events.
RequestOK(m, events, c, S) ==
  /\ m.state \in Reported => m.linked /\ 0 < Len(S) /\ c.status # "none"
  /\ \A i \in 1..Len(events) : events[i] \in Resolved => Given(S, events[i])

\* A transmission of the request succeeded and nothing went wrong since.
Sent(j, s) ==
  \/ j.pc \in {"save", "saving", "submit", "resolve"}
  \/ j.pc = "link" /\ j.copy.track # 0
  \/ j.pc \in {"idle", "reject"} /\ s \in Reported

\* What n transmissions of a request have cost.
Paid(n, f, j, s) == n <= f \/ (n <= f + 1 /\ Sent(j, s))

\* The inductive invariant.
ReportInv ==
  /\ Known(rcof, sii)
  /\ \A r \in Requests : /\ JobOK(job[r], req[r].state, rcof, sii)
                         /\ RequestOK(req[r], outbox[r], rcof, sii)
                         /\ Paid(sessions[r], failures, job[r], req[r].state)
  /\ \A p \in Pollers : PollOK(poll[p], rcof, sii)

\* What the SII may do to its envelopes.
Later(S, T) ==
  /\ Len(S) <= Len(T)
  /\ \A k \in 1..Len(S) : \/ S[k] = "PROCESANDO"
                          \/ T[k] = S[k]
                          \/ S[k] = "REPARO" /\ T[k] # "PROCESANDO"
-----------------------------------------------------------------------------
(* Lemmas about these predicates *)

LEMMA MappedVerdicts ==
  /\ DOMAIN mapped = {"ACEPTADO", "REPARO", "RECHAZADO"}
  /\ \A v \in DOMAIN mapped : mapped[v] \in Resolved
  /\ \A u, v \in DOMAIN mapped : mapped[u] = mapped[v] => u = v
  BY DEF mapped, Resolved

\* A verdict stays given, whatever envelopes follow and whatever the SII decides.
LEMMA GivenStays ==
  ASSUME NEW S \in Seq(Verdicts), NEW T \in Seq(Verdicts), Later(S, T),
         NEW s, Given(S, s)
  PROVE  Given(T, s)
  <1>1. PICK k \in 1..Len(S), v \in DOMAIN mapped :
          mapped[v] = s /\ (S[k] = v \/ (v = "REPARO" /\ S[k] # "PROCESANDO"))
    BY DEF Given
  <1>2. k \in 1..Len(T)
    BY DEF Later
  <1>3. T[k] = v \/ (v = "REPARO" /\ T[k] # "PROCESANDO")
    BY <1>1, MappedVerdicts DEF Later
  <1> QED
    BY <1>1, <1>2, <1>3 DEF Given

LEMMA KnownStays ==
  ASSUME NEW S \in Seq(Verdicts), NEW T \in Seq(Verdicts), Later(S, T),
         NEW c \in Row, Known(c, S)
  PROVE  Known(c, T)
  <1>1. c.track \in Nat /\ Len(S) \in Nat /\ Len(T) \in Nat
    BY DEF Row
  <1>2. c.track <= Len(T)
    BY <1>1 DEF Known, Later
  <1>3. c.status \in Resolved => Given(T, c.status)
    BY GivenStays DEF Known
  <1> QED
    BY <1>2, <1>3 DEF Known

\* What another actor's step may do to the state of a request: a poller reports
\* a verdict, or the state is not one a job relies on.
Moved(s, t) ==
  t = s \/ (s \in Reported /\ t \in Resolved) \/ s \notin {"processing"} \cup Reported

LEMMA JobStays ==
  ASSUME NEW S \in Seq(Verdicts), NEW T \in Seq(Verdicts), Later(S, T),
         NEW j \in Job, NEW s, NEW t, NEW c \in Row, NEW d \in Row,
         JobOK(j, s, c, S), Moved(s, t), c.status # "none" => d.status # "none"
  PROVE  JobOK(j, t, d, T)
  <1>1. j.track \in Nat /\ j.copy \in Row /\ Len(S) \in Nat /\ Len(T) \in Nat /\ Len(S) <= Len(T)
    BY DEF Job, Later
  <1>2. Known(j.copy, S) => Known(j.copy, T)
    BY <1>1, KnownStays
  <1>3. s \notin {"processing"} \cup Reported =>
          j.pc \notin {"find", "create", "upload", "save", "saving", "fail", "failing", "link",
                       "submit", "resolve", "reject"}
    BY DEF JobOK, Reported
  <1>4. "processing" \notin Reported /\ Resolved \subseteq Reported
    BY DEF Reported, Resolved
  <1>5. /\ j.pc \in {"find", "create", "upload", "save", "saving", "fail", "failing", "link",
                     "submit"} => t = "processing"
        /\ j.pc = "resolve" => t \in Reported /\ j.copy.status \in Resolved
        /\ j.pc = "reject" => t \in {"processing"} \cup Resolved
    BY <1>3, <1>4 DEF JobOK, Moved
  <1>6. /\ j.pc \in {"save", "saving"} => 0 < j.track /\ j.track <= Len(T)
        /\ j.pc \in {"submit", "resolve"} => 0 < Len(T)
    BY <1>1 DEF JobOK
  <1> QED
    BY <1>2, <1>5, <1>6 DEF JobOK

LEMMA PollStays ==
  ASSUME NEW S \in Seq(Verdicts), NEW T \in Seq(Verdicts), Later(S, T),
         NEW q \in Poll, NEW c \in Row, NEW d \in Row,
         PollOK(q, c, S), c.status # "none" => d.status # "none"
  PROVE  PollOK(q, d, T)
  <1>1. q.seen \in Row /\ q.old \in Row
    BY DEF Poll
  <1>2. Known(q.seen, S) => Known(q.seen, T)
    BY <1>1, KnownStays
  <1>3. Known(q.old, S) => Known(q.old, T)
    BY <1>1, KnownStays
  <1>4. Given(S, q.mapped) => Given(T, q.mapped)
    BY GivenStays
  <1> QED
    BY <1>2, <1>3, <1>4 DEF PollOK

LEMMA RequestStays ==
  ASSUME NEW S \in Seq(Verdicts), NEW T \in Seq(Verdicts), Later(S, T),
         NEW m, NEW events, NEW c \in Row, NEW d \in Row,
         RequestOK(m, events, c, S), c.status # "none" => d.status # "none"
  PROVE  RequestOK(m, events, d, T)
  <1>1. Len(S) \in Nat /\ Len(T) \in Nat /\ Len(S) <= Len(T)
    BY DEF Later
  <1>2. \A i \in 1..Len(events) : events[i] \in Resolved => Given(T, events[i])
    BY GivenStays DEF RequestOK
  <1> QED
    BY <1>1, <1>2 DEF RequestOK

\* Nothing happens to the envelopes.
LEMMA SameLater == \A S \in Seq(Verdicts) : Later(S, S)
  BY DEF Later

\* An upload adds envelopes.
LEMMA ReceivedLater ==
  ASSUME TypeOK, NEW n \in Nat, Received(n)
  PROVE  sii' \in Seq(Verdicts) /\ Len(sii') = Len(sii) + n /\ Later(sii, sii')
  <1> DEFINE more == [k \in 1..n |-> "PROCESANDO"]
  <1>1. sii \in Seq(Verdicts) /\ sii' = sii \o more
    BY DEF TypeOK, Received
  <1>2. more \in Seq(Verdicts) /\ Len(more) = n
    BY DEF Verdicts
  <1> HIDE DEF more
  <1>3. /\ sii' \in Seq(Verdicts) /\ Len(sii') = Len(sii) + n
        /\ \A k \in 1..Len(sii) : sii'[k] = sii[k]
    <2>1. /\ sii \o more \in Seq(Verdicts) /\ Len(sii \o more) = Len(sii) + Len(more)
          /\ \A k \in 1..(Len(sii) + Len(more)) :
               (sii \o more)[k] = IF k <= Len(sii) THEN sii[k] ELSE more[k - Len(sii)]
      BY <1>1, <1>2, ConcatProperties
    <2>2. Len(sii) \in Nat /\ \A k \in 1..Len(sii) : k \in 1..(Len(sii) + n)
      BY <1>1
    <2> QED
      BY <1>1, <1>2, <2>1, <2>2
  <1>4. Len(sii) \in Nat
    BY <1>1
  <1> QED
    BY <1>3, <1>4 DEF Later

\* A decision of the SII.
LEMMA DecidesLater ==
  ASSUME TypeOK, NEW k \in DOMAIN sii, NEW v \in Verdicts, SiiDecides(k, v)
  PROVE  sii' \in Seq(Verdicts) /\ Later(sii, sii')
  <1>1. /\ sii \in Seq(Verdicts) /\ sii' = [sii EXCEPT ![k] = v] /\ k \in 1..Len(sii)
        /\ sii[k] = "PROCESANDO" \/ (sii[k] = "REPARO" /\ v # "PROCESANDO")
    BY DEF TypeOK, SiiDecides
  <1>2. sii' \in Seq(Verdicts) /\ Len(sii') = Len(sii)
    BY <1>1
  <1>3. \A i \in 1..Len(sii) : sii'[i] = IF i = k THEN v ELSE sii[i]
    BY <1>1
  <1>4. Len(sii) \in Nat
    BY <1>1
  <1> QED
    BY <1>1, <1>2, <1>3, <1>4 DEF Later
-----------------------------------------------------------------------------
(* Frames: what a step has to show *)

\* What a job's step has to show: its own record, its request and the row.
LEMMA JobStep ==
  ASSUME TypeOK, ReportInv, TypeOK', NEW r \in Requests, poll' = poll,
         Later(sii, sii'), Known(rcof', sii'), rcof.status # "none" => rcof'.status # "none",
         failures <= failures',
         \A q \in Requests : q # r => /\ job'[q] = job[q] /\ req'[q] = req[q]
                                      /\ outbox'[q] = outbox[q] /\ sessions'[q] = sessions[q],
         JobOK(job'[r], req'[r].state, rcof', sii'),
         RequestOK(req'[r], outbox'[r], rcof', sii'),
         Paid(sessions'[r], failures', job'[r], req'[r].state)
  PROVE  ReportInv'
  <1>1. /\ sii \in Seq(Verdicts) /\ sii' \in Seq(Verdicts) /\ rcof \in Row /\ rcof' \in Row
        /\ failures \in Nat /\ failures' \in Nat
    BY DEF TypeOK
  <1>2. ASSUME NEW q \in Requests, q # r
        PROVE  /\ JobOK(job'[q], req'[q].state, rcof', sii')
               /\ RequestOK(req'[q], outbox'[q], rcof', sii')
               /\ Paid(sessions'[q], failures', job'[q], req'[q].state)
    <2>1. /\ job'[q] = job[q] /\ req'[q] = req[q] /\ outbox'[q] = outbox[q]
          /\ sessions'[q] = sessions[q] /\ job[q] \in Job /\ sessions[q] \in Nat
      BY <1>2 DEF TypeOK
    <2>2. /\ JobOK(job[q], req[q].state, rcof, sii) /\ RequestOK(req[q], outbox[q], rcof, sii)
          /\ Paid(sessions[q], failures, job[q], req[q].state)
      BY DEF ReportInv
    <2>3. Moved(req[q].state, req[q].state)
      BY DEF Moved
    <2>4. JobOK(job[q], req[q].state, rcof', sii')
      BY <1>1, <2>1, <2>2, <2>3, JobStays
    <2>5. RequestOK(req[q], outbox[q], rcof', sii')
      BY <1>1, <2>2, RequestStays
    <2>6. Paid(sessions[q], failures', job[q], req[q].state)
      BY <1>1, <2>1, <2>2 DEF Paid
    <2> QED
      BY <2>1, <2>4, <2>5, <2>6
  <1>3. \A p \in Pollers : PollOK(poll[p], rcof', sii')
    <2> SUFFICES ASSUME NEW p \in Pollers PROVE PollOK(poll[p], rcof', sii')
      OBVIOUS
    <2>1. poll[p] \in Poll /\ PollOK(poll[p], rcof, sii)
      BY DEF TypeOK, ReportInv
    <2> QED
      BY <1>1, <2>1, PollStays
  <1> QED
    BY <1>2, <1>3 DEF ReportInv

\* A step that only touches the job's record.
LEMMA QuietStep ==
  ASSUME TypeOK, ReportInv, NEW r \in Requests, NEW j \in Job,
         job' = [job EXCEPT ![r] = j],
         UNCHANGED <<req, rcof, sii, poll, outbox, sessions>>,
         failures' \in 0..MaxFailures, failures <= failures',
         JobOK(j, req[r].state, rcof, sii),
         Paid(sessions[r], failures', j, req[r].state)
  PROVE  TypeOK' /\ ReportInv'
  <1>1. TypeOK'
    BY DEF TypeOK
  <1>2. job'[r] = j /\ \A q \in Requests : q # r => job'[q] = job[q]
    BY DEF TypeOK
  <1>3. /\ Later(sii, sii') /\ Known(rcof', sii')
        /\ RequestOK(req'[r], outbox'[r], rcof', sii')
    BY SameLater DEF TypeOK, ReportInv
  <1>4. ReportInv'
    BY <1>1, <1>2, <1>3, JobStep
  <1> QED
    BY <1>1, <1>4

\* What a poller's step has to show.
LEMMA PollStepOK ==
  ASSUME TypeOK, ReportInv, TypeOK', NEW p \in Pollers, UNCHANGED <<sii, job, sessions>>,
         Known(rcof', sii), rcof.status # "none" => rcof'.status # "none",
         failures <= failures',
         \A q \in Pollers : q # p => poll'[q] = poll[q],
         PollOK(poll'[p], rcof', sii),
         \A r \in Requests : /\ Moved(req[r].state, req'[r].state)
                             /\ RequestOK(req'[r], outbox'[r], rcof, sii)
  PROVE  ReportInv'
  <1>1. /\ sii \in Seq(Verdicts) /\ Later(sii, sii) /\ rcof \in Row /\ rcof' \in Row
        /\ failures \in Nat /\ failures' \in Nat
    BY SameLater DEF TypeOK
  <1>2. ASSUME NEW r \in Requests
        PROVE  /\ JobOK(job[r], req'[r].state, rcof', sii)
               /\ RequestOK(req'[r], outbox'[r], rcof', sii)
               /\ Paid(sessions[r], failures', job[r], req'[r].state)
    <2>1. /\ job[r] \in Job /\ sessions[r] \in Nat /\ JobOK(job[r], req[r].state, rcof, sii)
          /\ Paid(sessions[r], failures, job[r], req[r].state)
      BY DEF TypeOK, ReportInv
    <2>2. JobOK(job[r], req'[r].state, rcof', sii)
      BY <1>1, <2>1, JobStays
    <2>3. RequestOK(req'[r], outbox'[r], rcof', sii)
      BY <1>1, RequestStays
    <2>4. Sent(job[r], req[r].state) => Sent(job[r], req'[r].state)
      BY DEF Sent, Moved, Reported
    <2>5. Paid(sessions[r], failures', job[r], req'[r].state)
      BY <1>1, <2>1, <2>4 DEF Paid
    <2> QED
      BY <2>2, <2>3, <2>5
  <1>3. \A q \in Pollers : PollOK(poll'[q], rcof', sii)
    <2> SUFFICES ASSUME NEW q \in Pollers, q # p PROVE PollOK(poll'[q], rcof', sii)
      OBVIOUS
    <2>1. poll'[q] = poll[q] /\ poll[q] \in Poll /\ PollOK(poll[q], rcof, sii)
      BY DEF TypeOK, ReportInv
    <2> QED
      BY <1>1, <2>1, PollStays
  <1> QED
    BY <1>2, <1>3 DEF ReportInv

\* applyState: types, and what the request's client is told.
LEMMA Applied ==
  ASSUME TypeOK, ReportInv, NEW r \in Requests, NEW c \in Request,
         NEW new \in Reported \cup {"failed"}, ApplyState(r, c, new),
         new \in Reported => c.linked /\ 0 < Len(sii) /\ rcof.status # "none",
         new \in Resolved => Given(sii, new)
  PROVE  /\ req' \in [Requests -> Request]
         /\ outbox' \in [Requests -> Seq(Reported \cup {"failed"})]
         /\ \A q \in Requests : q # r => req'[q] = req[q] /\ outbox'[q] = outbox[q]
         /\ RequestOK(req'[r], outbox'[r], rcof, sii)
         /\ IF <<req[r].state, new>> \in Allowed THEN req'[r].state = new
                                                 ELSE req'[r].state = req[r].state
  <1>1. CASE <<req[r].state, new>> \notin Allowed
    BY <1>1 DEF ApplyState, TypeOK, ReportInv
  <1>2. CASE <<req[r].state, new>> \in Allowed
    <2> DEFINE m == [c EXCEPT !.state = new]
               events == Append(outbox[r], new)
    <2>1. req' = [req EXCEPT ![r] = m] /\ outbox' = [outbox EXCEPT ![r] = events]
      BY <1>2 DEF ApplyState
    <2>2. m \in Request /\ m.state = new /\ m.linked = c.linked
      BY DEF Request
    <2>3. outbox[r] \in Seq(Reported \cup {"failed"}) /\ Len(outbox[r]) \in Nat
      BY DEF TypeOK
    <2>4. /\ events \in Seq(Reported \cup {"failed"})
          /\ Len(events) = Len(outbox[r]) + 1 /\ events[Len(outbox[r]) + 1] = new
          /\ \A i \in 1..Len(outbox[r]) : events[i] = outbox[r][i]
      BY <2>3, AppendProperties
    <2> HIDE DEF m, events
    <2>5. /\ req'[r] = m /\ outbox'[r] = events
          /\ \A q \in Requests : q # r => req'[q] = req[q] /\ outbox'[q] = outbox[q]
          /\ req' \in [Requests -> Request]
          /\ outbox' \in [Requests -> Seq(Reported \cup {"failed"})]
      BY <2>1, <2>2, <2>4 DEF TypeOK
    <2>6. \A i \in 1..Len(events) : events[i] \in Resolved => Given(sii, events[i])
      <3> SUFFICES ASSUME NEW i \in 1..Len(events), events[i] \in Resolved
                   PROVE  Given(sii, events[i])
        OBVIOUS
      <3>1. CASE i = Len(outbox[r]) + 1
        BY <2>4, <3>1
      <3>2. CASE i # Len(outbox[r]) + 1
        <4>1. i \in 1..Len(outbox[r]) /\ events[i] = outbox[r][i]
          BY <2>3, <2>4, <3>2
        <4> QED
          BY <4>1 DEF ReportInv, RequestOK
      <3> QED
        BY <3>1, <3>2
    <2> QED
      BY <1>2, <2>2, <2>5, <2>6 DEF RequestOK
  <1> QED
    BY <1>1, <1>2
-----------------------------------------------------------------------------
(* The steps of processRcof *)

\* What holds of a job's record and its request.
LEMMA JobFacts ==
  ASSUME TypeOK, ReportInv, NEW r \in Requests
  PROVE  /\ job[r] \in Job /\ req[r] \in Request /\ sessions[r] \in Nat
         /\ rcof \in Row /\ sii \in Seq(Verdicts) /\ Len(sii) \in Nat
         /\ failures \in Nat /\ MaxFailures \in Nat
         /\ Known(rcof, sii)
         /\ JobOK(job[r], req[r].state, rcof, sii)
         /\ RequestOK(req[r], outbox[r], rcof, sii)
         /\ Paid(sessions[r], failures, job[r], req[r].state)
  BY RcofAssumption DEF TypeOK, ReportInv

LEMMA InitialRecords ==
  /\ NoRequest \in Request /\ NoRow \in Row /\ IdleJob \in Job /\ IdlePoll \in Poll
  <1>1. NoRequest \in Request /\ NoRow \in Row
    BY DEF NoRequest, Request, NoRow, Row
  <1> QED
    BY <1>1 DEF IdleJob, Job, Steps, IdlePoll, Poll

\* Goto and Finish, as one assignment of a record.
LEMMA GotoRecord ==
  ASSUME TypeOK, NEW r \in Requests, NEW step \in Steps, Goto(r, step)
  PROVE  LET j == [job[r] EXCEPT !.pc = step] IN
         /\ job' = [job EXCEPT ![r] = j]
         /\ j \in Job /\ j.pc = step /\ j.fresh = job[r].fresh /\ j.copy = job[r].copy
         /\ j.track = job[r].track
  BY DEF Goto, TypeOK, Job

LEMMA IdleJobOK ==
  ASSUME NEW s, NEW c, NEW S PROVE JobOK(IdleJob, s, c, S)
  BY DEF JobOK, IdleJob

\* Entering the queue and the clock.
LEMMA EnqueueOK ==
  ASSUME TypeOK, ReportInv, NEW r \in Requests, Enqueue(r) \/ Wake(r)
  PROVE  TypeOK' /\ ReportInv'
  <1>1. /\ UNCHANGED <<rcof, sii, job, poll, outbox, sessions, failures>>
        /\ req[r].state \in {"none", "processing"}
    BY DEF Enqueue, Wake
  <1>2. PICK m \in Request : /\ req' = [req EXCEPT ![r] = m]
                             /\ \/ req[r].state = "none" /\ m.state = "queued"
                                \/ m.state = req[r].state
    <2>1. CASE Enqueue(r)
      <3> DEFINE m == [NoRequest EXCEPT !.state = "queued", !.due = TRUE]
      <3>1. m \in Request /\ m.state = "queued"
        BY DEF Request, NoRequest
      <3> QED
        BY <2>1, <3>1 DEF Enqueue
    <2>2. CASE Wake(r)
      <3> DEFINE m == [req[r] EXCEPT !.due = TRUE]
      <3>1. m \in Request /\ m.state = req[r].state
        BY DEF TypeOK, Request
      <3>2. req' = [req EXCEPT ![r] = m]
        BY <2>2 DEF Wake
      <3> QED
        BY <3>1, <3>2
    <2> QED
      BY <2>1, <2>2
  <1>3. req'[r] = m /\ \A q \in Requests : q # r => req'[q] = req[q]
    BY <1>2 DEF TypeOK
  <1>4. TypeOK'
    BY <1>1, <1>2 DEF TypeOK
  <1>5. m.state \notin Reported
    BY <1>1, <1>2 DEF Reported, Resolved
  <1>6. Moved(req[r].state, m.state)
    BY <1>2 DEF Moved, Reported, Resolved
  <1>7. JobOK(job[r], m.state, rcof, sii)
    BY <1>6, JobFacts, SameLater, JobStays
  <1>8. RequestOK(m, outbox[r], rcof, sii)
    BY <1>5, JobFacts DEF RequestOK
  <1>9. Paid(sessions[r], failures, job[r], m.state)
    BY <1>1, <1>5, JobFacts DEF Paid, Sent, Reported, Resolved
  <1> QED
    BY <1>1, <1>3, <1>4, <1>7, <1>8, <1>9, JobFacts, SameLater, JobStep

\* The claim.
LEMMA ClaimOK ==
  ASSUME TypeOK, ReportInv, NEW r \in Requests, Claim(r)
  PROVE  TypeOK' /\ ReportInv'
  <1> DEFINE m == [req[r] EXCEPT !.state = "processing", !.due = FALSE]
             j == [IdleJob EXCEPT !.pc = "find", !.fresh = m]
  <1>1. /\ UNCHANGED <<rcof, sii, poll, outbox, sessions, failures>>
        /\ job[r].pc = "idle" /\ req[r].state \in {"queued", "processing"}
        /\ req' = [req EXCEPT ![r] = m] /\ job' = [job EXCEPT ![r] = j]
    BY DEF Claim
  <1>2. m \in Request /\ m.state = "processing"
    BY JobFacts DEF Request
  <1> HIDE DEF m
  <1>3. j \in Job /\ j.pc = "find" /\ j.fresh = m
    BY <1>2, InitialRecords DEF IdleJob, Job, Steps
  <1> HIDE DEF j
  <1>4. /\ req'[r] = m /\ job'[r] = j
        /\ \A q \in Requests : q # r => req'[q] = req[q] /\ job'[q] = job[q]
    BY <1>1 DEF TypeOK
  <1>5. TypeOK'
    BY <1>1, <1>2, <1>3 DEF TypeOK
  <1>6. JobOK(j, m.state, rcof, sii)
    BY <1>2, <1>3 DEF JobOK
  <1>7. RequestOK(m, outbox[r], rcof, sii)
    BY <1>2, JobFacts DEF RequestOK, Reported, Resolved
  <1>8. Paid(sessions[r], failures, j, m.state)
    BY <1>1, <1>3, JobFacts DEF Paid, Sent, Reported, Resolved
  <1> QED
    BY <1>1, <1>4, <1>5, <1>6, <1>7, <1>8, JobFacts, SameLater, JobStep

\* A failed step, a crash: the job gives up what it holds, one failure later.
LEMMA FailureOK ==
  ASSUME TypeOK, ReportInv, NEW r \in Requests, StepFails(r) \/ Crash(r)
  PROVE  TypeOK' /\ ReportInv'
  <1>1. /\ UNCHANGED <<req, rcof, sii, poll, outbox, sessions>>
        /\ failures' = failures + 1 /\ failures < MaxFailures
    BY DEF StepFails, Crash
  <1>2. failures' \in 0..MaxFailures /\ failures <= failures' /\ failures \in Nat
    BY <1>1, JobFacts
  <1>3. \A j \in Job : Paid(sessions[r], failures', j, req[r].state)
    BY <1>1, JobFacts DEF Paid
  <1>4. CASE Finish(r)
    <2>1. Paid(sessions[r], failures', IdleJob, req[r].state)
      BY <1>3, InitialRecords
    <2> QED
      BY <1>1, <1>2, <1>4, <2>1, InitialRecords, IdleJobOK, QuietStep DEF Finish
  <1>5. CASE job[r].pc = "save" /\ Goto(r, "fail")
    <2> DEFINE j == [job[r] EXCEPT !.pc = "fail"]
    <2>1. /\ job' = [job EXCEPT ![r] = j] /\ j \in Job /\ j.pc = "fail"
          /\ j.fresh = job[r].fresh
      BY <1>5, GotoRecord DEF Steps
    <2> HIDE DEF j
    <2>2. JobOK(j, req[r].state, rcof, sii)
      BY <1>5, <2>1, JobFacts DEF JobOK
    <2>3. Paid(sessions[r], failures', j, req[r].state)
      BY <1>3, <2>1
    <2> QED
      BY <1>1, <1>2, <2>1, <2>2, <2>3, QuietStep
  <1>6. CASE job[r].pc # "idle" /\ Goto(r, "retry")
    <2> DEFINE j == [job[r] EXCEPT !.pc = "retry"]
    <2>1. /\ job' = [job EXCEPT ![r] = j] /\ j \in Job /\ j.pc = "retry"
          /\ j.fresh = job[r].fresh
      BY <1>6, GotoRecord DEF Steps
    <2> HIDE DEF j
    <2>2. JobOK(j, req[r].state, rcof, sii)
      BY <1>6, <2>1, JobFacts DEF JobOK
    <2>3. Paid(sessions[r], failures', j, req[r].state)
      BY <1>3, <2>1
    <2> QED
      BY <1>1, <1>2, <2>1, <2>2, <2>3, QuietStep
  <1> QED
    BY <1>4, <1>5, <1>6 DEF StepFails, Crash

\* execute finds the row, or the receipts to make one of.
LEMMA FindOK ==
  ASSUME TypeOK, ReportInv, NEW r \in Requests, Find(r)
  PROVE  TypeOK' /\ ReportInv'
  <1>1. job[r].pc = "find" /\ UNCHANGED <<req, rcof, sii, poll, outbox, sessions, failures>>
    BY DEF Find
  <1>2. failures' \in 0..MaxFailures /\ failures <= failures'
    BY <1>1 DEF TypeOK
  <1>3. ASSUME NEW j \in Job, job' = [job EXCEPT ![r] = j], j.fresh = job[r].fresh,
               \/ j.pc = "link" /\ j.copy = rcof /\ rcof.status # "none"
               \/ j.pc = "upload" /\ rcof.status # "none"
               \/ j.pc \in {"create", "reject"}
        PROVE  TypeOK' /\ ReportInv'
    <2>1. JobOK(j, req[r].state, rcof, sii)
      BY <1>1, <1>3, JobFacts DEF JobOK
    <2>2. Paid(sessions[r], failures', j, req[r].state)
      BY <1>1, JobFacts DEF Paid, Sent
    <2> QED
      BY <1>1, <1>2, <1>3, <2>1, <2>2, QuietStep
  <1>4. CASE job' = [job EXCEPT ![r].pc = "link", ![r].copy = rcof]
             /\ (rcof.track # 0 \/ rcof.status \in Resolved)
    <2> DEFINE j == [job[r] EXCEPT !.pc = "link", !.copy = rcof]
    <2>1. job' = [job EXCEPT ![r] = j] /\ j \in Job /\ j.fresh = job[r].fresh
          /\ j.pc = "link" /\ j.copy = rcof
      BY <1>4, JobFacts DEF TypeOK, Job, Steps
    <2>2. rcof.status # "none"
      BY <1>4, JobFacts DEF Known, Resolved
    <2> HIDE DEF j
    <2> QED
      BY <1>3, <2>1, <2>2
  <1>5. ASSUME NEW step \in {"upload", "create", "reject"}, Goto(r, step),
               step = "upload" => rcof.status # "none"
        PROVE  TypeOK' /\ ReportInv'
    <2> DEFINE j == [job[r] EXCEPT !.pc = step]
    <2>1. step \in Steps
      BY DEF Steps
    <2>2. job' = [job EXCEPT ![r] = j] /\ j \in Job /\ j.fresh = job[r].fresh /\ j.pc = step
      BY <1>5, <2>1, GotoRecord
    <2> HIDE DEF j
    <2> QED
      BY <1>3, <1>5, <2>2
  <1> QED
    BY <1>4, <1>5 DEF Find

\* The row is created, unless another request's job was first.
LEMMA CreateOK ==
  ASSUME TypeOK, ReportInv, NEW r \in Requests, Create(r)
  PROVE  TypeOK' /\ ReportInv'
  <1>1. job[r].pc = "create" /\ UNCHANGED <<req, sii, poll, outbox, sessions, failures>>
    BY DEF Create
  <1>2. PICK step \in {"upload", "retry"} :
          /\ Goto(r, step)
          /\ step = "upload" => rcof'.status = "submitted" /\ rcof'.track = 0
          /\ \/ rcof' = rcof
             \/ rcof' \in Row /\ rcof'.status = "submitted" /\ rcof'.track = 0
    BY DEF Create, Row, Reported
  <1> DEFINE j == [job[r] EXCEPT !.pc = step]
  <1>3. step \in Steps
    BY DEF Steps
  <1>4. job' = [job EXCEPT ![r] = j] /\ j \in Job /\ j.fresh = job[r].fresh /\ j.pc = step
    BY <1>2, <1>3, GotoRecord
  <1> HIDE DEF j
  <1>5. job'[r] = j /\ \A q \in Requests : q # r => job'[q] = job[q]
    BY <1>4 DEF TypeOK
  <1>6. TypeOK'
    BY <1>1, <1>2, <1>4 DEF TypeOK
  <1>7. Known(rcof', sii) /\ (rcof.status # "none" => rcof'.status # "none")
    BY <1>2, JobFacts DEF Known, Resolved
  <1>8. JobOK(j, req[r].state, rcof', sii)
    BY <1>1, <1>2, <1>4, JobFacts DEF JobOK
  <1>9. RequestOK(req[r], outbox[r], rcof', sii)
    BY <1>7, JobFacts DEF RequestOK
  <1>10. Paid(sessions[r], failures, j, req[r].state)
    BY <1>1, <1>4, JobFacts DEF Paid, Sent
  <1> QED
    BY <1>1, <1>5, <1>6, <1>7, <1>8, <1>9, <1>10, JobFacts, SameLater, JobStep

\* A transmission: answered with the last envelope's TrackID, or failed.
LEMMA UploadOK ==
  ASSUME TypeOK, ReportInv, NEW r \in Requests, Upload(r) \/ UploadFails(r)
  PROVE  TypeOK' /\ ReportInv'
  <1>1. /\ job[r].pc = "upload" /\ UNCHANGED <<req, rcof, poll, outbox>>
        /\ sessions' = [sessions EXCEPT ![r] = @ + 1]
    BY DEF Upload, UploadFails
  <1>2. PICK n \in Nat, j \in Job :
          /\ Received(n) /\ job' = [job EXCEPT ![r] = j] /\ j.fresh = job[r].fresh
          /\ failures' \in 0..MaxFailures
          /\ \/ 0 < n /\ j.pc = "save" /\ j.track = Len(sii) + n /\ failures' = failures
             \/ j.pc = "fail" /\ failures' = failures + 1
    <2>1. CASE Upload(r)
      <3>1. PICK n \in 1..MaxUploads :
              Received(n) /\ job' = [job EXCEPT ![r].pc = "save", ![r].track = Len(sii) + n]
        BY <2>1 DEF Upload
      <3> DEFINE j == [job[r] EXCEPT !.pc = "save", !.track = Len(sii) + n]
      <3>2. n \in Nat /\ 0 < n
        BY RcofAssumption
      <3>3. Len(sii) + n \in Nat
        BY <3>2, JobFacts
      <3>4. job' = [job EXCEPT ![r] = j]
        BY <3>1 DEF TypeOK, Job
      <3>5. /\ j \in Job /\ j.fresh = job[r].fresh
            /\ j.pc = "save" /\ j.track = Len(sii) + n
        BY <3>3, JobFacts DEF Job, Steps
      <3>6. failures' = failures /\ failures' \in 0..MaxFailures
        BY <2>1 DEF Upload, TypeOK
      <3> HIDE DEF j
      <3> QED
        BY <3>1, <3>2, <3>4, <3>5, <3>6
    <2>2. CASE UploadFails(r)
      <3>1. PICK n \in Nat : Received(n)
        BY <2>2, RcofAssumption DEF UploadFails
      <3> DEFINE j == [job[r] EXCEPT !.pc = "fail"]
      <3>2. job' = [job EXCEPT ![r] = j] /\ j \in Job /\ j.fresh = job[r].fresh /\ j.pc = "fail"
        BY <2>2, GotoRecord DEF UploadFails, Steps
      <3>3. failures' = failures + 1 /\ failures' \in 0..MaxFailures
        BY <2>2, JobFacts DEF UploadFails
      <3> HIDE DEF j
      <3> QED
        BY <3>1, <3>2, <3>3
    <2> QED
      BY <2>1, <2>2
  <1>3. sii' \in Seq(Verdicts) /\ Len(sii') = Len(sii) + n /\ Later(sii, sii')
    BY <1>2, ReceivedLater
  <1>4. /\ job'[r] = j /\ sessions'[r] = sessions[r] + 1
        /\ \A q \in Requests : q # r => job'[q] = job[q] /\ sessions'[q] = sessions[q]
    BY <1>1, <1>2 DEF TypeOK
  <1>5. TypeOK'
    BY <1>1, <1>2, <1>3 DEF TypeOK
  <1>6. Known(rcof, sii')
    BY <1>3, JobFacts, KnownStays
  <1>7. JobOK(j, req[r].state, rcof, sii')
    BY <1>1, <1>2, <1>3, JobFacts DEF JobOK
  <1>8. RequestOK(req[r], outbox[r], rcof, sii')
    BY <1>3, JobFacts, RequestStays
  <1>9. Paid(sessions[r] + 1, failures', j, req[r].state)
    BY <1>1, <1>2, JobFacts DEF Paid, Sent
  <1>10. failures <= failures'
    BY <1>2, JobFacts
  <1> QED
    BY <1>1, <1>3, <1>4, <1>5, <1>6, <1>7, <1>8, <1>9, <1>10, JobStep

\* update() reads the row.
LEMMA ReadRowOK ==
  ASSUME TypeOK, ReportInv, NEW r \in Requests, ReadRow(r)
  PROVE  TypeOK' /\ ReportInv'
  <1> DEFINE step == IF job[r].pc = "save" THEN "saving" ELSE "failing"
             j == [job[r] EXCEPT !.pc = step, !.copy = rcof]
  <1>1. /\ job[r].pc \in {"save", "fail"}
        /\ UNCHANGED <<req, rcof, sii, poll, outbox, sessions, failures>>
        /\ job' = [job EXCEPT ![r] = j]
    BY DEF ReadRow, TypeOK, Job
  <1>2. /\ j \in Job /\ j.fresh = job[r].fresh /\ j.copy = rcof /\ j.track = job[r].track
        /\ j.pc = step
    BY JobFacts DEF Job, Steps
  <1>3. failures' \in 0..MaxFailures /\ failures <= failures'
    BY <1>1 DEF TypeOK
  <1>4. JobOK(j, req[r].state, rcof, sii)
    BY <1>1, <1>2, JobFacts DEF JobOK
  <1>5. Paid(sessions[r], failures', j, req[r].state)
    BY <1>1, <1>2, JobFacts DEF Paid, Sent
  <1> HIDE DEF j
  <1> QED
    BY <1>1, <1>2, <1>3, <1>4, <1>5, QuietStep

\* ... and writes it back: saved, perhaps saved, or failed.
LEMMA WriteRowOK ==
  ASSUME TypeOK, ReportInv, NEW r \in Requests, Save(r) \/ SaveFails(r) \/ MarkFailed(r)
  PROVE  TypeOK' /\ ReportInv'
  <1>1. /\ job[r].pc \in {"saving", "failing"} /\ UNCHANGED <<req, sii, poll, outbox, sessions>>
        /\ failures' \in 0..MaxFailures /\ failures <= failures'
    BY JobFacts DEF Save, SaveFails, MarkFailed, TypeOK
  <1>2. /\ job[r].copy \in Row /\ Known(job[r].copy, sii) /\ job[r].copy.status # "none"
        /\ job[r].track \in Nat
        /\ job[r].pc = "saving" => 0 < job[r].track /\ job[r].track <= Len(sii)
    BY <1>1, JobFacts DEF JobOK, Job
  <1> DEFINE failed == [job[r].copy EXCEPT !.status = "failed"]
  <1>3. ASSUME job[r].pc = "saving"
        PROVE  /\ Saved(r) \in Row /\ Saved(r).status = "submitted" /\ Saved(r).track > 0
               /\ Known(Saved(r), sii)
    BY <1>2, <1>3 DEF Saved, Row, Reported, Resolved, Known
  <1>4. failed \in Row /\ failed.status = "failed" /\ Known(failed, sii)
    BY <1>2 DEF Row, Resolved, Known
  <1> HIDE DEF failed
  <1>5. PICK j \in Job :
          /\ job' = [job EXCEPT ![r] = j] /\ j.fresh = job[r].fresh
          /\ \/ job[r].pc = "saving" /\ j.pc = "link" /\ j.copy = Saved(r) /\ rcof' = Saved(r)
             \/ /\ job[r].pc = "saving" /\ j.pc = "fail" /\ failures' = failures + 1
                /\ rcof' = Saved(r) \/ rcof' = rcof
             \/ job[r].pc = "failing" /\ j.pc = "retry" /\ rcof' = failed
    <2>1. CASE Save(r)
      <3> DEFINE j == [job[r] EXCEPT !.pc = "link", !.copy = Saved(r)]
      <3>1. job[r].pc = "saving" /\ rcof' = Saved(r) /\ job' = [job EXCEPT ![r] = j]
        BY <2>1 DEF Save, TypeOK, Job
      <3>2. j \in Job /\ j.fresh = job[r].fresh /\ j.pc = "link" /\ j.copy = Saved(r)
        BY <1>3, <3>1, JobFacts DEF Job, Steps
      <3> HIDE DEF j
      <3> QED
        BY <3>1, <3>2
    <2>2. CASE SaveFails(r)
      <3> DEFINE j == [job[r] EXCEPT !.pc = "fail"]
      <3>1. /\ job[r].pc = "saving" /\ Goto(r, "fail") /\ failures' = failures + 1
            /\ rcof' = Saved(r) \/ rcof' = rcof
        BY <2>2 DEF SaveFails
      <3>2. job' = [job EXCEPT ![r] = j] /\ j \in Job /\ j.fresh = job[r].fresh /\ j.pc = "fail"
        BY <3>1, GotoRecord DEF Steps
      <3> HIDE DEF j
      <3> QED
        BY <3>1, <3>2
    <2>3. CASE MarkFailed(r)
      <3> DEFINE j == [job[r] EXCEPT !.pc = "retry"]
      <3>1. job[r].pc = "failing" /\ Goto(r, "retry") /\ rcof' = failed
        BY <2>3 DEF MarkFailed, failed
      <3>2. job' = [job EXCEPT ![r] = j] /\ j \in Job /\ j.fresh = job[r].fresh /\ j.pc = "retry"
        BY <3>1, GotoRecord DEF Steps
      <3> HIDE DEF j
      <3> QED
        BY <3>1, <3>2
    <2> QED
      BY <2>1, <2>2, <2>3
  <1>6. job'[r] = j /\ \A q \in Requests : q # r => job'[q] = job[q]
    BY <1>5 DEF TypeOK
  <1>7. /\ rcof' \in Row /\ Known(rcof', sii)
        /\ rcof'.status # "none" \/ rcof' = rcof
    BY <1>3, <1>4, <1>5, JobFacts
  <1>8. rcof.status # "none"
    BY <1>1, JobFacts DEF JobOK
  <1>9. TypeOK'
    BY <1>1, <1>5, <1>7 DEF TypeOK
  <1>10. JobOK(j, req[r].state, rcof', sii)
    <2>1. req[r].state = "processing" /\ job[r].fresh.state = "processing"
      BY <1>1, JobFacts DEF JobOK
    <2>2. j.pc = "link" => Known(j.copy, sii) /\ j.copy.status # "none"
      BY <1>3, <1>5
    <2>3. j.pc \in {"link", "fail", "retry"}
      BY <1>5
    <2> QED
      BY <1>5, <1>7, <1>8, <2>1, <2>2, <2>3 DEF JobOK
  <1>11. RequestOK(req[r], outbox[r], rcof', sii)
    BY <1>7, <1>8, JobFacts DEF RequestOK
  <1>12. Paid(sessions[r], failures', j, req[r].state)
    <2>1. req[r].state = "processing"
      BY <1>1, JobFacts DEF JobOK
    <2>2. j.pc = "link" => j.copy.track # 0
      <3>1. j.pc = "link" => j.copy = Saved(r) /\ Saved(r).track > 0
        BY <1>3, <1>5
      <3> QED
        BY <3>1
    <2> QED
      BY <1>1, <1>5, <2>1, <2>2, JobFacts DEF Paid, Sent
  <1> QED
    BY <1>1, <1>6, <1>7, <1>8, <1>9, <1>10, <1>11, <1>12, JobFacts, SameLater, JobStep

\* The request is linked to the row.
LEMMA LinkOK ==
  ASSUME TypeOK, ReportInv, NEW r \in Requests, Link(r)
  PROVE  TypeOK' /\ ReportInv'
  <1> DEFINE m == [req[r] EXCEPT !.linked = TRUE]
  <1>1. /\ job[r].pc = "link" /\ UNCHANGED <<rcof, sii, poll, outbox, sessions, failures>>
        /\ req' = [req EXCEPT ![r] = m]
    BY DEF Link, TypeOK, Request
  <1>2. m \in Request /\ m.state = req[r].state /\ m.linked
    BY JobFacts DEF Request
  <1> HIDE DEF m
  <1>3. PICK step \in {"retry", "submit"} :
          Goto(r, step) /\ (step = "submit" <=> job[r].copy.track # 0)
    BY DEF Link
  <1>4. step \in Steps
    BY DEF Steps
  <1> DEFINE j == [job[r] EXCEPT !.pc = step]
  <1>5. /\ job' = [job EXCEPT ![r] = j] /\ j \in Job /\ j.fresh = job[r].fresh
        /\ j.copy = job[r].copy /\ j.pc = step
    BY <1>3, <1>4, GotoRecord
  <1> HIDE DEF j
  <1>6. /\ job'[r] = j /\ req'[r] = m
        /\ \A q \in Requests : q # r => job'[q] = job[q] /\ req'[q] = req[q]
    BY <1>1, <1>5 DEF TypeOK
  <1>7. TypeOK'
    BY <1>1, <1>2, <1>5 DEF TypeOK
  <1>8. JobOK(j, m.state, rcof, sii)
    <2>1. /\ JobOK(job[r], req[r].state, rcof, sii)
          /\ job[r].copy.track \in Nat /\ Len(sii) \in Nat
      BY JobFacts DEF Job, Row
    <2>2. step = "submit" => 0 < Len(sii)
      BY <1>1, <1>3, <2>1 DEF JobOK, Known
    <2> QED
      BY <1>1, <1>2, <1>5, <2>1, <2>2 DEF JobOK
  <1>9. RequestOK(m, outbox[r], rcof, sii)
    BY <1>2, JobFacts DEF RequestOK
  <1>10. Paid(sessions[r], failures, j, m.state)
    BY <1>1, <1>2, <1>3, <1>5, JobFacts DEF Paid, Sent
  <1> QED
    BY <1>1, <1>6, <1>7, <1>8, <1>9, <1>10, JobFacts, SameLater, JobStep

\* What a step that writes the public state and then ends or goes on has to
\* show: nothing but the request, its events and the job's record changes.
LEMMA SettleStep ==
  ASSUME TypeOK, ReportInv, NEW r \in Requests, NEW j \in Job,
         job' = [job EXCEPT ![r] = j],
         UNCHANGED <<rcof, sii, poll, sessions, failures>>,
         req' \in [Requests -> Request],
         outbox' \in [Requests -> Seq(Reported \cup {"failed"})],
         \A q \in Requests : q # r => req'[q] = req[q] /\ outbox'[q] = outbox[q],
         RequestOK(req'[r], outbox'[r], rcof, sii),
         JobOK(j, req'[r].state, rcof, sii),
         Paid(sessions[r], failures, j, req'[r].state)
  PROVE  TypeOK' /\ ReportInv'
  <1>1. TypeOK'
    BY DEF TypeOK
  <1>2. job'[r] = j /\ \A q \in Requests : q # r => job'[q] = job[q]
    BY DEF TypeOK
  <1>3. Later(sii, sii') /\ Known(rcof', sii') /\ failures <= failures'
    BY JobFacts, SameLater
  <1>4. ReportInv'
    BY <1>1, <1>2, <1>3, JobStep
  <1> QED
    BY <1>1, <1>4

\* The request is submitted; a row with a verdict goes on to it.
LEMMA SubmitOK ==
  ASSUME TypeOK, ReportInv, NEW r \in Requests, Submit(r)
  PROVE  TypeOK' /\ ReportInv'
  <1>1. /\ job[r].pc = "submit" /\ UNCHANGED <<rcof, sii, poll, sessions, failures>>
        /\ ApplyState(r, WithRcof(r), "submitted")
    BY DEF Submit
  <1>2. /\ req[r].state = "processing" /\ rcof.status # "none" /\ 0 < Len(sii)
        /\ Known(job[r].copy, sii) /\ job[r].copy.status # "none"
        /\ job[r].fresh.state = "processing"
    BY <1>1, JobFacts DEF JobOK
  <1>3. WithRcof(r) \in Request /\ WithRcof(r).linked
    BY JobFacts DEF WithRcof, Job, Request
  <1>4. <<req[r].state, "submitted">> \in Allowed /\ MayApply(r, "submitted")
    BY <1>2 DEF Allowed, MayApply
  <1>5. /\ req' \in [Requests -> Request]
        /\ outbox' \in [Requests -> Seq(Reported \cup {"failed"})]
        /\ \A q \in Requests : q # r => req'[q] = req[q] /\ outbox'[q] = outbox[q]
        /\ RequestOK(req'[r], outbox'[r], rcof, sii)
        /\ req'[r].state = "submitted"
    <2>1. "submitted" \in Reported \cup {"failed"} /\ "submitted" \notin Resolved
      BY DEF Reported, Resolved
    <2> QED
      BY <1>1, <1>2, <1>3, <1>4, <2>1, Applied
  <1>6. CASE job[r].copy.status \in Resolved
    <2> DEFINE j == [job[r] EXCEPT !.pc = "resolve"]
    <2>1. /\ job' = [job EXCEPT ![r] = j] /\ j \in Job /\ j.fresh = job[r].fresh
          /\ j.copy = job[r].copy /\ j.pc = "resolve"
      BY <1>1, <1>4, <1>6, GotoRecord DEF Submit, Steps
    <2> HIDE DEF j
    <2>2. JobOK(j, req'[r].state, rcof, sii)
      BY <1>2, <1>5, <1>6, <2>1 DEF JobOK, Reported
    <2>3. Paid(sessions[r], failures, j, req'[r].state)
      BY <1>1, <2>1, JobFacts DEF Paid, Sent
    <2> QED
      BY <1>1, <1>5, <2>1, <2>2, <2>3, SettleStep
  <1>7. CASE job[r].copy.status \notin Resolved
    <2>1. job' = [job EXCEPT ![r] = IdleJob]
      BY <1>1, <1>4, <1>7 DEF Submit, Finish
    <2>2. Paid(sessions[r], failures, IdleJob, req'[r].state)
      BY <1>1, <1>5, JobFacts DEF Paid, Sent, IdleJob, Reported
    <2> QED
      BY <1>1, <1>5, <2>1, <2>2, InitialRecords, IdleJobOK, SettleStep
  <1> QED
    BY <1>6, <1>7

\* The verdict the row already has; a refused one changes nothing.
LEMMA ResolveOK ==
  ASSUME TypeOK, ReportInv, NEW r \in Requests, Resolve(r)
  PROVE  TypeOK' /\ ReportInv'
  <1>1. PICK new \in Resolved : new = job[r].copy.status
    BY JobFacts DEF Resolve, JobOK
  <1> DEFINE c == [WithRcof(r) EXCEPT !.state = "submitted"]
  <1>2. /\ job[r].pc = "resolve" /\ UNCHANGED <<rcof, sii, poll, sessions, failures>>
        /\ ApplyState(r, c, new)
        /\ IF MayApply(r, new) THEN Finish(r) ELSE Goto(r, "reject")
    BY <1>1 DEF Resolve
  <1>3. /\ req[r].state \in Reported /\ rcof.status # "none" /\ 0 < Len(sii)
        /\ Known(job[r].copy, sii) /\ job[r].fresh.state = "processing"
    BY <1>2, JobFacts DEF JobOK
  <1>4. c \in Request /\ c.linked
    BY JobFacts DEF WithRcof, Job, Request, Reported
  <1> HIDE DEF c
  <1>5. new \in Reported /\ Given(sii, new)
    BY <1>1, <1>3 DEF Known, Reported
  <1>6. /\ req' \in [Requests -> Request]
        /\ outbox' \in [Requests -> Seq(Reported \cup {"failed"})]
        /\ \A q \in Requests : q # r => req'[q] = req[q] /\ outbox'[q] = outbox[q]
        /\ RequestOK(req'[r], outbox'[r], rcof, sii)
        /\ IF <<req[r].state, new>> \in Allowed THEN req'[r].state = new
                                                ELSE req'[r].state = req[r].state
    BY <1>2, <1>3, <1>4, <1>5, Applied
  <1>7. req'[r].state \in Reported
    BY <1>3, <1>5, <1>6
  <1>8. CASE MayApply(r, new)
    <2>1. job' = [job EXCEPT ![r] = IdleJob]
      BY <1>2, <1>8 DEF Finish
    <2>2. Paid(sessions[r], failures, IdleJob, req'[r].state)
      BY <1>2, <1>7, JobFacts DEF Paid, Sent, IdleJob
    <2> QED
      BY <1>2, <1>6, <2>1, <2>2, InitialRecords, IdleJobOK, SettleStep
  <1>9. CASE ~MayApply(r, new)
    <2> DEFINE j == [job[r] EXCEPT !.pc = "reject"]
    <2>1. /\ job' = [job EXCEPT ![r] = j] /\ j \in Job /\ j.fresh = job[r].fresh
          /\ j.pc = "reject"
      BY <1>2, <1>9, GotoRecord DEF Steps
    <2> HIDE DEF j
    <2>2. req'[r].state = req[r].state /\ req[r].state \in Resolved
      BY <1>3, <1>6, <1>9 DEF MayApply, Allowed, Reported, Resolved
    <2>3. JobOK(j, req'[r].state, rcof, sii)
      BY <1>3, <2>1, <2>2 DEF JobOK
    <2>4. Paid(sessions[r], failures, j, req'[r].state)
      BY <1>2, <1>7, <2>1, JobFacts DEF Paid, Sent
    <2> QED
      BY <1>2, <1>6, <2>1, <2>3, <2>4, SettleStep
  <1> QED
    BY <1>8, <1>9

\* The catch: failed for good, or tried again later.
LEMMA CatchOK ==
  ASSUME TypeOK, ReportInv, NEW r \in Requests, Reject(r) \/ Retry(r)
  PROVE  TypeOK' /\ ReportInv'
  <1>1. /\ UNCHANGED <<rcof, sii, poll, sessions, failures>> /\ job[r].pc \in {"reject", "retry"}
        /\ job' = [job EXCEPT ![r] = IdleJob]
    BY DEF Reject, Retry, Finish
  <1>2. job[r].fresh \in Request /\ job[r].fresh.state = "processing"
    BY <1>1, JobFacts DEF JobOK, Job
  <1>3. /\ "failed" \in Reported \cup {"failed"}
        /\ "failed" \notin Reported /\ "failed" \notin Resolved
    BY DEF Reported, Resolved
  <1>4. /\ req' \in [Requests -> Request]
        /\ outbox' \in [Requests -> Seq(Reported \cup {"failed"})]
        /\ \A q \in Requests : q # r => req'[q] = req[q] /\ outbox'[q] = outbox[q]
        /\ RequestOK(req'[r], outbox'[r], rcof, sii)
        /\ job[r].pc = "reject" /\ req[r].state \in Resolved => req'[r].state = req[r].state
    <2>1. CASE Reject(r)
      <3>1. ApplyState(r, job[r].fresh, "failed")
        BY <2>1 DEF Reject
      <3>2. \A s \in Resolved : <<s, "failed">> \notin Allowed
        BY DEF Resolved, Allowed
      <3> QED
        BY <1>2, <1>3, <3>1, <3>2, Applied
    <2>2. CASE Retry(r)
      <3> DEFINE tried == [job[r].fresh EXCEPT !.attempts = @ + 1]
      <3>1. tried \in Request /\ tried.state = "processing"
        BY <1>2 DEF Request
      <3>2. CASE tried.attempts >= MaxAttempts[r]
        <4>1. ApplyState(r, tried, "failed") /\ job[r].pc = "retry"
          BY <2>2, <3>2 DEF Retry, ScheduleRetry
        <4> HIDE DEF tried
        <4> QED
          BY <1>3, <3>1, <4>1, Applied
      <3>3. CASE ~(tried.attempts >= MaxAttempts[r])
        <4> DEFINE m == [tried EXCEPT !.due = FALSE]
        <4>1. req' = [req EXCEPT ![r] = m] /\ outbox' = outbox /\ job[r].pc = "retry"
          BY <2>2, <3>3 DEF Retry, ScheduleRetry
        <4>2. m \in Request /\ m.state = "processing"
          BY <3>1 DEF Request
        <4> HIDE DEF m
        <4>3. RequestOK(m, outbox[r], rcof, sii)
          BY <4>2, JobFacts DEF RequestOK, Reported, Resolved
        <4> QED
          BY <4>1, <4>2, <4>3 DEF TypeOK
      <3> QED
        BY <3>2, <3>3
    <2> QED
      BY <2>1, <2>2
  <1>5. Paid(sessions[r], failures, IdleJob, req'[r].state)
    BY <1>1, <1>4, JobFacts DEF Paid, Sent, IdleJob, JobOK, Reported, Resolved
  <1> QED
    BY <1>1, <1>4, <1>5, InitialRecords, IdleJobOK, SettleStep
-----------------------------------------------------------------------------
(* Polling *)

LEMMA PollFacts ==
  ASSUME TypeOK, ReportInv, NEW p \in Pollers
  PROVE  /\ poll[p] \in Poll /\ PollOK(poll[p], rcof, sii) /\ Known(rcof, sii)
         /\ rcof \in Row /\ sii \in Seq(Verdicts) /\ Len(sii) \in Nat
         /\ failures \in Nat /\ MaxFailures \in Nat
         /\ \A r \in Requests : /\ req[r] \in Request
                                /\ RequestOK(req[r], outbox[r], rcof, sii)
  BY RcofAssumption DEF TypeOK, ReportInv

\* A step that only touches the poller's record.
LEMMA QuietPoll ==
  ASSUME TypeOK, ReportInv, NEW p \in Pollers, NEW q \in Poll,
         poll' = [poll EXCEPT ![p] = q],
         UNCHANGED <<req, rcof, sii, job, outbox, sessions>>,
         failures' \in 0..MaxFailures, failures <= failures',
         PollOK(q, rcof, sii)
  PROVE  TypeOK' /\ ReportInv'
  <1>1. TypeOK'
    BY DEF TypeOK
  <1>2. poll'[p] = q /\ \A o \in Pollers : o # p => poll'[o] = poll[o]
    BY DEF TypeOK
  <1>3. \A r \in Requests : /\ Moved(req[r].state, req'[r].state)
                            /\ RequestOK(req'[r], outbox'[r], rcof, sii)
    BY PollFacts DEF Moved
  <1>4. ReportInv'
    BY <1>1, <1>2, <1>3, PollFacts, PollStepOK
  <1> QED
    BY <1>1, <1>4

LEMMA IdlePollOK == \A c, S : PollOK(IdlePoll, c, S)
  BY DEF PollOK, IdlePoll

\* Listing a request, reading the row and asking the SII.
LEMMA PollReadOK ==
  ASSUME TypeOK, ReportInv, NEW p \in Pollers,
         \/ \E r \in Requests : PollStart(p, r)
         \/ PollRead(p) \/ PollAsk(p) \/ PollReadRow(p) \/ PollAskFails(p) \/ PollFails(p)
  PROVE  TypeOK' /\ ReportInv'
  <1>1. /\ UNCHANGED <<req, rcof, sii, job, outbox, sessions>>
        /\ failures' \in 0..MaxFailures /\ failures <= failures'
    <2>1. /\ UNCHANGED <<req, rcof, sii, job, outbox, sessions>>
          /\ failures' = failures \/ (failures' = failures + 1 /\ failures < MaxFailures)
      BY DEF PollStart, PollRead, PollAsk, PollReadRow, PollAskFails, PollFails
    <2>2. failures \in 0..MaxFailures
      BY DEF TypeOK
    <2> QED
      BY <2>1, <2>2, PollFacts
  <1>2. ASSUME PollEnds(p) PROVE TypeOK' /\ ReportInv'
    BY <1>1, <1>2, InitialRecords, IdlePollOK, QuietPoll DEF PollEnds
  <1>3. ASSUME NEW r \in Requests, PollStart(p, r) PROVE TypeOK' /\ ReportInv'
    <2> DEFINE q == [IdlePoll EXCEPT !.pc = "read", !.req = r, !.copy = req[r]]
    <2>1. poll' = [poll EXCEPT ![p] = q] /\ req[r].linked
      BY <1>3 DEF PollStart
    <2>2. q \in Poll /\ q.pc = "read" /\ q.req = r /\ q.copy = req[r]
      BY InitialRecords, PollFacts DEF IdlePoll, Poll
    <2> HIDE DEF q
    <2>3. rcof.status # "none"
      BY <1>3, PollFacts DEF PollStart, RequestOK, Reported, Resolved
    <2>4. PollOK(q, rcof, sii)
      BY <2>1, <2>2, <2>3 DEF PollOK
    <2> QED
      BY <1>1, <2>1, <2>2, <2>4, QuietPoll
  <1>4. CASE PollRead(p)
    <2>1. CASE poll' = [poll EXCEPT ![p].seen = rcof,
                 ![p].pc = IF rcof.status \in {"submitted", "observed"} /\ rcof.track # 0
                             THEN "ask" ELSE "apply"]
      <3> DEFINE pc == IF rcof.status \in {"submitted", "observed"} /\ rcof.track # 0
                         THEN "ask" ELSE "apply"
                 q == [poll[p] EXCEPT !.seen = rcof, !.pc = pc]
      <3>1. poll' = [poll EXCEPT ![p] = q]
        BY <2>1 DEF TypeOK, Poll
      <3>2. /\ q \in Poll /\ q.pc \in {"ask", "apply"} /\ (q.pc = "ask" => rcof.track # 0)
            /\ q.seen = rcof /\ q.req = poll[p].req /\ q.copy = poll[p].copy
        BY PollFacts DEF Poll
      <3>3. rcof.track \in Nat
        BY PollFacts DEF Row
      <3>4. poll[p].pc = "read"
        BY <1>4 DEF PollRead
      <3> HIDE DEF q
      <3>5. PollOK(q, rcof, sii)
        BY <3>2, <3>3, <3>4, PollFacts DEF PollOK
      <3> QED
        BY <1>1, <3>1, <3>2, <3>5, QuietPoll
    <2> QED
      BY <1>2, <1>4, <2>1 DEF PollRead
  <1>5. CASE PollAsk(p)
    <2> DEFINE answer == sii[poll[p].seen.track]
    <2>1. poll[p].pc = "ask" /\ PollOK(poll[p], rcof, sii) /\ poll[p].seen.track \in Nat
      BY <1>5, PollFacts DEF PollAsk, Poll, Row
    <2>2. poll[p].seen.track \in 1..Len(sii)
      BY <2>1, PollFacts DEF PollOK, Known
    <2>3. CASE poll' = [poll EXCEPT ![p].pc = "apply"]
      <3> DEFINE q == [poll[p] EXCEPT !.pc = "apply"]
      <3>1. poll' = [poll EXCEPT ![p] = q]
        BY <2>3 DEF TypeOK, Poll
      <3>2. /\ q \in Poll /\ q.pc = "apply" /\ q.seen = poll[p].seen /\ q.req = poll[p].req
            /\ q.copy = poll[p].copy
        BY PollFacts DEF Poll
      <3> HIDE DEF q
      <3>3. PollOK(q, rcof, sii)
        BY <2>1, <3>2 DEF PollOK
      <3> QED
        BY <1>1, <3>1, <3>2, <3>3, QuietPoll
    <2>4. CASE answer # "PROCESANDO"
               /\ poll' = [poll EXCEPT ![p].pc = "write", ![p].mapped = mapped[answer]]
      <3> DEFINE q == [poll[p] EXCEPT !.pc = "write", !.mapped = mapped[answer]]
      <3>1. poll' = [poll EXCEPT ![p] = q]
        BY <2>4 DEF TypeOK, Poll
      <3>2. answer \in DOMAIN mapped
        BY <2>2, <2>4, PollFacts, MappedVerdicts DEF Verdicts
      <3>3. mapped[answer] \in Resolved /\ Given(sii, mapped[answer])
        BY <2>2, <3>2, MappedVerdicts DEF Given
      <3> HIDE DEF answer
      <3>4. /\ q \in Poll /\ q.pc = "write" /\ q.seen = poll[p].seen /\ q.req = poll[p].req
            /\ q.copy = poll[p].copy /\ q.mapped = mapped[answer]
        BY <3>3, PollFacts DEF Poll
      <3> HIDE DEF q
      <3>5. PollOK(q, rcof, sii)
        BY <2>1, <3>3, <3>4 DEF PollOK
      <3> QED
        BY <1>1, <3>1, <3>4, <3>5, QuietPoll
    <2> QED
      BY <1>5, <2>3, <2>4 DEF PollAsk
  <1>6. CASE PollReadRow(p)
    <2> DEFINE q == [poll[p] EXCEPT !.pc = "writing", !.old = rcof]
    <2>1. poll' = [poll EXCEPT ![p] = q] /\ poll[p].pc = "write"
      BY <1>6 DEF PollReadRow, TypeOK, Poll
    <2>2. /\ q \in Poll /\ q.pc = "writing" /\ q.seen = poll[p].seen /\ q.req = poll[p].req
          /\ q.copy = poll[p].copy /\ q.mapped = poll[p].mapped /\ q.old = rcof
      BY PollFacts DEF Poll
    <2> HIDE DEF q
    <2>3. rcof.status # "none"
      BY <2>1, PollFacts DEF PollOK
    <2>4. PollOK(q, rcof, sii)
      BY <2>1, <2>2, <2>3, PollFacts DEF PollOK
    <2> QED
      BY <1>1, <2>1, <2>2, <2>4, QuietPoll
  <1>7. CASE PollAskFails(p)
    <2> DEFINE q == [poll[p] EXCEPT !.pc = "apply"]
    <2>1. poll' = [poll EXCEPT ![p] = q] /\ poll[p].pc \in {"ask", "write", "writing"}
      BY <1>7 DEF PollAskFails, TypeOK, Poll
    <2>2. /\ q \in Poll /\ q.pc = "apply" /\ q.seen = poll[p].seen /\ q.req = poll[p].req
          /\ q.copy = poll[p].copy
      BY PollFacts DEF Poll
    <2> HIDE DEF q
    <2>3. PollOK(q, rcof, sii)
      BY <2>1, <2>2, PollFacts DEF PollOK
    <2> QED
      BY <1>1, <2>1, <2>2, <2>3, QuietPoll
  <1> QED
    BY <1>2, <1>3, <1>4, <1>5, <1>6, <1>7 DEF PollFails

\* update() writes the row with the verdict.
LEMMA PollWriteOK ==
  ASSUME TypeOK, ReportInv, NEW p \in Pollers, PollWrite(p)
  PROVE  TypeOK' /\ ReportInv'
  <1> DEFINE new == [poll[p].old EXCEPT !.status = poll[p].mapped]
             q == [poll[p] EXCEPT !.pc = "apply", !.seen = new]
  <1>1. /\ poll[p].pc = "writing" /\ UNCHANGED <<req, sii, job, outbox, sessions, failures>>
        /\ rcof' = new /\ poll' = [poll EXCEPT ![p] = q]
    BY DEF PollWrite, TypeOK, Poll
  <1>2. /\ poll[p].mapped \in Resolved /\ Given(sii, poll[p].mapped)
        /\ Known(poll[p].old, sii) /\ poll[p].old.status # "none" /\ poll[p].old \in Row
        /\ poll[p].req \in Requests /\ poll[p].copy.linked /\ rcof.status # "none"
    BY <1>1, PollFacts DEF PollOK, Poll
  <1>3. new \in Row /\ new.status = poll[p].mapped /\ new.track = poll[p].old.track
    BY <1>2 DEF Row, Reported
  <1> HIDE DEF new
  <1>4. Known(new, sii) /\ new.status # "none"
    BY <1>2, <1>3 DEF Known, Resolved
  <1>5. /\ q \in Poll /\ q.pc = "apply" /\ q.seen = new /\ q.req = poll[p].req
        /\ q.copy = poll[p].copy
    BY <1>3, PollFacts DEF Poll
  <1> HIDE DEF q
  <1>6. PollOK(q, new, sii)
    BY <1>2, <1>4, <1>5 DEF PollOK
  <1>7. poll'[p] = q /\ \A o \in Pollers : o # p => poll'[o] = poll[o]
    BY <1>1 DEF TypeOK
  <1>8. TypeOK'
    BY <1>1, <1>3, <1>5 DEF TypeOK
  <1>9. \A r \in Requests : /\ Moved(req[r].state, req'[r].state)
                            /\ RequestOK(req'[r], outbox'[r], rcof, sii)
    BY <1>1, PollFacts DEF Moved
  <1> QED
    BY <1>1, <1>4, <1>6, <1>7, <1>8, <1>9, PollFacts, PollStepOK

\* The verdict is applied to the request.
LEMMA PollApplyOK ==
  ASSUME TypeOK, ReportInv, NEW p \in Pollers, PollApply(p)
  PROVE  TypeOK' /\ ReportInv'
  <1>1. /\ poll[p].pc = "apply" /\ UNCHANGED <<rcof, sii, job, sessions, failures>>
        /\ poll' = [poll EXCEPT ![p] = IdlePoll]
    BY DEF PollApply, PollEnds
  <1>2. PICK r \in Requests : r = poll[p].req
    BY <1>1, PollFacts DEF PollOK
  <1>3. PICK c \in Request : c = poll[p].copy
    BY PollFacts DEF Poll
  <1>4. c.linked /\ Known(poll[p].seen, sii)
    BY <1>1, <1>3, PollFacts DEF PollOK
  <1>5. CASE poll[p].seen.status \notin Resolved
    <2>1. UNCHANGED <<req, outbox>>
      BY <1>5 DEF PollApply
    <2>2. failures' \in 0..MaxFailures /\ failures <= failures'
      BY <1>1, PollFacts DEF TypeOK
    <2> QED
      BY <1>1, <2>1, <2>2, InitialRecords, IdlePollOK, QuietPoll
  <1>6. ASSUME NEW new \in Resolved, new = poll[p].seen.status PROVE TypeOK' /\ ReportInv'
    <2>1. ApplyState(r, c, new)
      BY <1>2, <1>3, <1>6 DEF PollApply
    <2>2. new \in Reported /\ Given(sii, new)
      BY <1>4, <1>6 DEF Known, Reported
    <2>3. CASE <<req[r].state, new>> \in Allowed
      <3>1. req[r].state \in Reported
        BY <2>3 DEF Allowed, Reported, Resolved
      <3>2. 0 < Len(sii) /\ rcof.status # "none"
        BY <3>1, PollFacts DEF RequestOK
      <3>3. /\ req' \in [Requests -> Request]
            /\ outbox' \in [Requests -> Seq(Reported \cup {"failed"})]
            /\ \A q \in Requests : q # r => req'[q] = req[q] /\ outbox'[q] = outbox[q]
            /\ RequestOK(req'[r], outbox'[r], rcof, sii)
            /\ req'[r].state = new
        BY <1>4, <2>1, <2>2, <2>3, <3>2, Applied
      <3>4. TypeOK'
        BY <1>1, <3>3, InitialRecords DEF TypeOK
      <3>5. \A q \in Requests : /\ Moved(req[q].state, req'[q].state)
                                /\ RequestOK(req'[q], outbox'[q], rcof, sii)
        BY <3>1, <3>3, PollFacts DEF Moved
      <3>6. poll'[p] = IdlePoll /\ \A o \in Pollers : o # p => poll'[o] = poll[o]
        BY <1>1 DEF TypeOK
      <3> QED
        BY <1>1, <3>4, <3>5, <3>6, PollFacts, IdlePollOK, PollStepOK
    <2>4. CASE <<req[r].state, new>> \notin Allowed
      <3>1. UNCHANGED <<req, outbox>>
        BY <2>1, <2>4 DEF ApplyState
      <3>2. failures' \in 0..MaxFailures /\ failures <= failures'
        BY <1>1, PollFacts DEF TypeOK
      <3> QED
        BY <1>1, <3>1, <3>2, InitialRecords, IdlePollOK, QuietPoll
    <2> QED
      BY <2>3, <2>4
  <1> QED
    BY <1>5, <1>6

\* The SII decides about an envelope.
LEMMA DecisionOK ==
  ASSUME TypeOK, ReportInv, NEW k \in DOMAIN sii, NEW v \in Verdicts, SiiDecides(k, v)
  PROVE  TypeOK' /\ ReportInv'
  <1>1. UNCHANGED <<req, rcof, job, poll, outbox, sessions, failures>>
    BY DEF SiiDecides
  <1>2. sii' \in Seq(Verdicts) /\ Later(sii, sii')
    BY DecidesLater
  <1>3. TypeOK'
    BY <1>1, <1>2 DEF TypeOK
  <1>4. ASSUME NEW r \in Requests
        PROVE  JobOK(job[r], req[r].state, rcof, sii') /\ RequestOK(req[r], outbox[r], rcof, sii')
    <2>1. Moved(req[r].state, req[r].state)
      BY DEF Moved
    <2> QED
      BY <1>2, <2>1, JobFacts, JobStays, RequestStays
  <1>5. ASSUME NEW p \in Pollers PROVE PollOK(poll[p], rcof, sii')
    BY <1>2, PollFacts, PollStays
  <1>6. Known(rcof, sii')
    <2>1. rcof \in Row /\ sii \in Seq(Verdicts) /\ Known(rcof, sii)
      BY DEF TypeOK, ReportInv
    <2> QED
      BY <1>2, <2>1, KnownStays
  <1> QED
    BY <1>1, <1>3, <1>4, <1>5, <1>6 DEF ReportInv
-----------------------------------------------------------------------------
LEMMA InitReports == Init => TypeOK /\ ReportInv
  <1> SUFFICES ASSUME Init PROVE TypeOK /\ ReportInv
    OBVIOUS
  <1>1. TypeOK
    BY InitialRecords, RcofAssumption DEF Init, TypeOK
  <1>2. Known(NoRow, <<>>)
    BY DEF Known, NoRow, Resolved
  <1>3. ASSUME NEW r \in Requests
        PROVE  /\ JobOK(IdleJob, NoRequest.state, NoRow, <<>>)
               /\ RequestOK(NoRequest, <<>>, NoRow, <<>>)
               /\ Paid(0, 0, IdleJob, NoRequest.state)
    BY IdleJobOK DEF RequestOK, NoRequest, Reported, Resolved, Paid
  <1> QED
    BY <1>1, <1>2, <1>3, IdlePollOK DEF Init, ReportInv

LEMMA NextReports == TypeOK /\ ReportInv /\ [Next]_vars => TypeOK' /\ ReportInv'
  <1> SUFFICES ASSUME TypeOK, ReportInv, [Next]_vars PROVE TypeOK' /\ ReportInv'
    OBVIOUS
  <1>1. CASE UNCHANGED vars
    BY <1>1 DEF vars, TypeOK, ReportInv
  <1>2. ASSUME NEW r \in Requests,
               \/ Enqueue(r) \/ Wake(r) \/ Claim(r)
               \/ WorkerStep(r) \/ UploadFails(r) \/ SaveFails(r) \/ StepFails(r) \/ Crash(r)
        PROVE  TypeOK' /\ ReportInv'
    BY <1>2, EnqueueOK, ClaimOK, FailureOK, FindOK, CreateOK, UploadOK, ReadRowOK, WriteRowOK,
       LinkOK, SubmitOK, ResolveOK, CatchOK DEF WorkerStep
  <1>3. ASSUME NEW p \in Pollers,
               \/ \E r \in Requests : PollStart(p, r)
               \/ PollStep(p) \/ PollAskFails(p) \/ PollFails(p)
        PROVE  TypeOK' /\ ReportInv'
    BY <1>3, PollReadOK, PollWriteOK, PollApplyOK DEF PollStep
  <1> QED
    BY <1>1, <1>2, <1>3, DecisionOK DEF Next

THEOREM RcofInvariant == Spec => [](TypeOK /\ ReportInv)
  BY InitReports, NextReports, PTL DEF Spec

\* The rows, and what each job and poller remembers, keep their types.
THEOREM TypeCorrect == Spec => []TypeOK
  BY RcofInvariant, PTL

\* A request reported as sent or resolved belongs to an RCOF the SII holds, and
\* a verdict announced to a client is one the SII gave, whichever of two
\* transmissions' TrackIDs update() keeps in the row.
THEOREM ReportsAreBacked == Spec => []ReportsAreTrue
  <1>1. TypeOK /\ ReportInv => ReportedWasReceived
    BY DEF ReportInv, RequestOK, ReportedWasReceived
  <1>2. TypeOK /\ ReportInv => AnnouncedIsTrue
    <2> SUFFICES ASSUME TypeOK, ReportInv, NEW r \in Requests, NEW i \in DOMAIN outbox[r],
                        NEW v \in DOMAIN mapped, outbox[r][i] = mapped[v]
                 PROVE  \E k \in DOMAIN sii :
                          sii[k] = v \/ (v = "REPARO" /\ sii[k] # "PROCESANDO")
      BY DEF AnnouncedIsTrue
    <2>1. i \in 1..Len(outbox[r])
      BY DEF TypeOK
    <2>2. mapped[v] \in Resolved
      BY MappedVerdicts
    <2>3. Given(sii, mapped[v])
      BY <2>1, <2>2 DEF ReportInv, RequestOK
    <2>4. PICK k \in 1..Len(sii), u \in DOMAIN mapped :
            mapped[u] = mapped[v] /\ (sii[k] = u \/ (u = "REPARO" /\ sii[k] # "PROCESANDO"))
      BY <2>3 DEF Given
    <2>5. u = v
      BY <2>4, MappedVerdicts
    <2>6. k \in DOMAIN sii
      BY DEF TypeOK
    <2> QED
      BY <2>4, <2>5, <2>6
  <1> QED
    BY <1>1, <1>2, RcofInvariant, PTL DEF ReportsAreTrue

\* A transmission after a request's first is paid for by a failed upload, a
\* database error or a crash: the stored TrackID stops every other retry.
THEOREM TransmissionsAreBounded == Spec => []BoundedTransmissions
  <1>1. TypeOK /\ ReportInv => BoundedTransmissions
    <2> SUFFICES ASSUME TypeOK, ReportInv, NEW r \in Requests
                 PROVE  sessions[r] <= 1 + failures
      BY DEF BoundedTransmissions
    <2> QED
      BY JobFacts DEF Paid
  <1> QED
    BY <1>1, RcofInvariant, PTL
=============================================================================
