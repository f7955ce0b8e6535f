------------------------ MODULE RequestPipelineProofs ------------------------
(***************************************************************************)
(* Properties of RequestPipeline for any number of requests, documents,    *)
(* workers and pollers, and any bounds.                                    *)
(*                                                                         *)
(* Then what it reports to the client: with exclusive claims it implements *)
(* RequestLifecycle, announces no state twice and reports the SII's        *)
(* verdict; with every fault, what it reports was announced, what it       *)
(* announced is true, and so is what GET /dtes/:id answers (RequestStatus) *)
(* while leases outlast the 202 handler.                                   *)
(***************************************************************************)
EXTENDS RequestStatus, SequenceTheorems, TLAPS

\* A busy worker knows its request, and past prepare the document; a TrackID it
\* holds is one the SII issued for that document.
JobOK(w) ==
  /\ job[w].pc # "idle" => job[w].req \in Requests
  /\ job[w].pc = "prepare" => job[w].track = 0
  /\ job[w].pc \notin {"idle", "prepare", "retry"} =>
       /\ job[w].fresh.dteId \in DteIds
       /\ job[w].track <= Len(sii[job[w].fresh.dteId])

\* The same for a poller, which past its first read holds a TrackID.
PollOK(p) ==
  poll[p].pc # "idle" =>
    /\ poll[p].req \in Requests
    /\ poll[p].copy.dteId \in DteIds
    /\ poll[p].pc # "read" =>
         0 < poll[p].track /\ poll[p].track <= Len(sii[poll[p].copy.dteId])

\* A document carries only TrackIDs the SII issued for it.
DocOK(d) == dte[d].trackId <= Len(sii[d])

\* The references processors carry are good whatever the faults.
RefsInv ==
  /\ TypeOK
  /\ \A w \in Workers : JobOK(w)
  /\ \A p \in Pollers : PollOK(p)
  /\ \A d \in DteIds : DocOK(d)
-----------------------------------------------------------------------------
\* What applyState writes is a row and an event list.
LEMMA ApplyStateTypes ==
  ASSUME TypeOK, NEW r \in Requests, NEW c \in Row, NEW new \in Notifiable,
         ApplyState(r, c, new)
  PROVE  row' \in [Requests -> Row] /\ outbox' \in [Requests -> Seq(Notifiable)]
  <1>1. [c EXCEPT !.state = new] \in Row
    BY DEF Row, Notifiable, States
  <1>2. outbox[r] \in Seq(Notifiable)
    BY DEF TypeOK
  <1>3. Append(outbox[r], new) \in Seq(Notifiable)
    BY <1>2, AppendProperties
  <1> QED
    BY <1>1, <1>3 DEF ApplyState, TypeOK

\* What scheduleRetry writes is a row and an event list.
LEMMA ScheduleRetryTypes ==
  ASSUME TypeOK, NEW r \in Requests, NEW c \in Row, ScheduleRetry(r, c)
  PROVE  row' \in [Requests -> Row] /\ outbox' \in [Requests -> Seq(Notifiable)]
  <1> DEFINE tried == [c EXCEPT !.attempts = @ + 1]
  <1>1. tried \in Row
    BY DEF Row
  <1>2. CASE tried.attempts >= MaxAttempts
    <2>1. ApplyState(r, tried, "failed")
      BY <1>2 DEF ScheduleRetry
    <2> HIDE DEF tried
    <2> QED
      BY <1>1, <2>1, ApplyStateTypes DEF Notifiable
  <1>3. CASE ~(tried.attempts >= MaxAttempts)
    <2>1. row' = [row EXCEPT ![r] = [tried EXCEPT !.due = FALSE]] /\ UNCHANGED outbox
      BY <1>3 DEF ScheduleRetry
    <2>2. [tried EXCEPT !.due = FALSE] \in Row
      BY <1>1 DEF Row
    <2> HIDE DEF tried
    <2> QED
      BY <2>1, <2>2 DEF TypeOK
  <1> QED
    BY <1>2, <1>3

\* The records the actions start from are well typed.
LEMMA InitialRecords ==
  /\ NoRow \in Row /\ NewRow \in Row /\ NoDoc \in Dte
  /\ IdleJob \in Job /\ IdlePoll \in Poll /\ NewSnap \in Snap
  <1>1. NoRow \in Row /\ NewRow \in Row /\ NoDoc \in Dte
    BY DEF NoRow, NewRow, Row, States, NoDoc, Dte, DteStatus
  <1> QED
    BY <1>1 DEF IdleJob, Job, Steps, DteStatus, IdlePoll, Poll, Verdicts, NewSnap, Snap

\* The initial state satisfies the invariant.
LEMMA InitRefs == Init => RefsInv
  <1> SUFFICES ASSUME Init PROVE RefsInv
    OBVIOUS
  <1>1. TypeOK
    BY InitialRecords, BoundsAssumption DEF Init, TypeOK
  <1> QED
    BY <1>1 DEF Init, RefsInv, JobOK, PollOK, DocOK, IdleJob, IdlePoll, NoDoc

\* The SII's envelopes of a document are counted by naturals.
LEMMA LengthsAreNat == TypeOK => \A d \in DteIds : Len(sii[d]) \in Nat
  BY DEF TypeOK

\* A worker's step that leaves the documents and the SII alone only has to
\* keep its own references.
LEMMA JobRefs ==
  ASSUME RefsInv, TypeOK', NEW w \in Workers, JobOK(w)',
         \A v \in Workers : v # w => job'[v] = job[v],
         UNCHANGED <<dte, sii, poll>>
  PROVE  RefsInv'
  BY DEF RefsInv, JobOK, PollOK, DocOK

\* The same for a poller's step.
LEMMA PollRefs ==
  ASSUME RefsInv, TypeOK', NEW p \in Pollers, PollOK(p)',
         \A q \in Pollers : q # p => poll'[q] = poll[q],
         UNCHANGED <<dte, sii, job>>
  PROVE  RefsInv'
  BY DEF RefsInv, JobOK, PollOK, DocOK

\* Enqueueing, the snapshot, claiming and the clock change no reference.
LEMMA QueueRefs ==
  ASSUME RefsInv,
         \/ \E r \in Requests : \/ Enqueue(r) \/ SnapshotRead(r) \/ SnapshotWrite(r)
                                \/ LeaseExpires(r)
         \/ \E w \in Workers, S \in SUBSET Requests : Claim(w, S)
  PROVE  RefsInv'
  <1>1. UNCHANGED <<dte, sii, job, poll>>
    BY DEF Enqueue, SnapshotRead, SnapshotWrite, LeaseExpires, Claim
  <1>2. ASSUME NEW r \in Requests, Enqueue(r) PROVE TypeOK'
    BY <1>2, InitialRecords DEF Enqueue, RefsInv, TypeOK
  <1>3. ASSUME NEW r \in Requests, SnapshotRead(r) PROVE TypeOK'
    BY <1>3 DEF SnapshotRead, RefsInv, TypeOK, Snap
  <1>4. ASSUME NEW r \in Requests, SnapshotWrite(r) PROVE TypeOK'
    BY <1>4, InitialRecords DEF SnapshotWrite, RefsInv, TypeOK, Snap
  <1>5. ASSUME NEW r \in Requests, LeaseExpires(r) PROVE TypeOK'
    BY <1>5 DEF LeaseExpires, RefsInv, TypeOK, Row
  <1>6. ASSUME NEW w \in Workers, NEW S \in SUBSET Requests, Claim(w, S) PROVE TypeOK'
    <2>0. ASSUME NEW c \in Row PROVE [c EXCEPT !.state = "processing", !.due = FALSE] \in Row
      BY DEF Row, States
    <2>1. row' \in [Requests -> Row]
      BY <1>6, <2>0 DEF Claim, RefsInv, TypeOK
    <2> QED
      BY <1>6, <2>1 DEF Claim, RefsInv, TypeOK
  <1>7. TypeOK'
    BY <1>2, <1>3, <1>4, <1>5, <1>6
  <1> QED
    BY <1>1, <1>7 DEF RefsInv, JobOK, PollOK, DocOK

\* What a worker's record becomes, for each form of its steps.
LEMMA JobBecomes ==
  ASSUME TypeOK, NEW w \in Workers, NEW j, job' = [job EXCEPT ![w] = j]
  PROVE  job'[w] = j /\ \A v \in Workers : v # w => job'[v] = job[v]
  BY DEF TypeOK

LEMMA GotoBecomes ==
  ASSUME TypeOK, NEW w \in Workers, NEW step \in Steps, Goto(w, step)
  PROVE  /\ job' \in [Workers -> Job]
         /\ job'[w].pc = step /\ job'[w].req = job[w].req /\ job'[w].fresh = job[w].fresh
         /\ job'[w].track = job[w].track
         /\ \A v \in Workers : v # w => job'[v] = job[v]
  <1>1. job \in [Workers -> Job] /\ job[w] \in Job
    BY DEF TypeOK
  <1>2. PICK j : j = [job[w] EXCEPT !.pc = step]
    OBVIOUS
  <1>3. /\ j \in Job /\ j.pc = step /\ j.req = job[w].req /\ j.fresh = job[w].fresh
        /\ j.track = job[w].track
    BY <1>1, <1>2 DEF Job
  <1>4. job' = [job EXCEPT ![w] = j]
    BY <1>1, <1>2 DEF Goto
  <1> QED
    BY <1>1, <1>3, <1>4

\* Loading, preparing and retrying.
LEMMA PrepareRefs ==
  ASSUME RefsInv, NEW w \in Workers,
         \/ \E r \in Requests : Load(w, r)
         \/ Prepare(w) \/ PrepareFails(w) \/ Retry(w)
  PROVE  RefsInv'
  <1> USE DEF RefsInv
  <1>1. ASSUME NEW r \in Requests, Load(w, r) PROVE RefsInv'
    <2> DEFINE j == [IdleJob EXCEPT
                       !.pc = IF row[r].dteId = NoDte THEN "prepare" ELSE "existing",
                       !.req = r, !.fresh = row[r]]
    <2>1. /\ j \in Job /\ j.pc \in {"prepare", "existing"} /\ j.req = r /\ j.track = 0
          /\ j.fresh.dteId = NoDte \/ j.fresh.dteId \in DteIds
          /\ j.pc = "existing" => j.fresh.dteId # NoDte
      BY InitialRecords DEF Job, Steps, IdleJob, TypeOK, Row
    <2>2. job' = [job EXCEPT ![w] = j]
      BY <1>1 DEF Load
    <2> HIDE DEF j
    <2>3. TypeOK'
      <3>1. job' \in [Workers -> Job]
        BY <2>1, <2>2 DEF TypeOK
      <3>2. todo' \in [Workers -> SUBSET Requests]
        BY <1>1 DEF Load, TypeOK
      <3> QED
        BY <1>1, <3>1, <3>2 DEF Load, TypeOK
    <2>4. job'[w] = j /\ sii' = sii /\ \A d \in DteIds : 0 <= Len(sii[d])
      <3>1. job'[w] = j
        BY <2>2 DEF TypeOK
      <3>2. sii' = sii
        BY <1>1 DEF Load
      <3>3. \A d \in DteIds : 0 <= Len(sii[d])
        BY LengthsAreNat
      <3> QED
        BY <3>1, <3>2, <3>3
    <2>5. JobOK(w)'
      BY <2>1, <2>4 DEF JobOK
    <2> QED
      BY <1>1, <2>2, <2>3, <2>5, JobRefs DEF Load, TypeOK
  <1>2. CASE Prepare(w)
    <2> DEFINE r == job[w].req
               new == [NoDoc EXCEPT !.status = "FIRMADO", !.owner = r]
    <2>0. r \in Requests /\ row[r] \in Row /\ job[w] \in Job
      BY <1>2 DEF Prepare, JobOK, TypeOK
    <2>a. new \in Dte /\ new.trackId = 0
      BY <2>0, InitialRecords DEF Dte, NoDoc, DteStatus
    <2>b. \A d \in DteIds : /\ [row[r] EXCEPT !.dteId = d] \in Row
                            /\ [row[r] EXCEPT !.dteId = d].dteId = d
      BY <2>0 DEF Row
    <2>c. \/ UNCHANGED <<row, dte>> /\ row[r].dteId # NoDte
          \/ \E d \in DteIds : /\ dte' = [dte EXCEPT ![d] = new]
                               /\ row' = [row EXCEPT ![r] = [row[r] EXCEPT !.dteId = d]]
      BY <1>2 DEF Prepare
    <2> HIDE DEF new
    <2>1. row' \in [Requests -> Row] /\ dte' \in [DteIds -> Dte] /\ row'[r].dteId \in DteIds
      <3>1. CASE UNCHANGED <<row, dte>> /\ row[r].dteId # NoDte
        BY <3>1, <2>0 DEF TypeOK, Row
      <3>2. ASSUME NEW d \in DteIds, dte' = [dte EXCEPT ![d] = new],
                   row' = [row EXCEPT ![r] = [row[r] EXCEPT !.dteId = d]]
            PROVE  row' \in [Requests -> Row] /\ dte' \in [DteIds -> Dte] /\ row'[r].dteId \in DteIds
        BY <3>2, <2>0, <2>a, <2>b DEF TypeOK
      <3> QED
        BY <2>c, <3>1, <3>2
    <2>len. \A d \in DteIds : 0 <= Len(sii[d])
      BY LengthsAreNat
    <2>g. sii' = sii /\ \A d \in DteIds : 0 <= Len(sii[d])
      BY <1>2, <2>len DEF Prepare
    <2>2. \A d \in DteIds : DocOK(d)'
      BY <2>a, <2>c, <2>g DEF TypeOK, DocOK
    <2>d. row'[r] \in Row /\ row'[r].dteId \in DteIds
      BY <2>0, <2>1
    <2> DEFINE go == [job[w] EXCEPT !.pc = "mark", !.fresh = row'[r]]
               back == [job[w] EXCEPT !.pc = "retry"]
    <2>e. \/ job' = [job EXCEPT ![w] = go]
          \/ job' = [job EXCEPT ![w] = back]
      BY <1>2 DEF Prepare, Goto, TypeOK
    <2>f. /\ go \in Job /\ go.req = r /\ go.fresh.dteId \in DteIds /\ go.pc = "mark"
          /\ go.track = job[w].track
          /\ back \in Job /\ back.req = r /\ back.pc = "retry"
      BY <2>0, <2>d DEF Job, Steps
    <2> HIDE DEF go, back
    <2>3. job' \in [Workers -> Job]
      BY <2>e, <2>f DEF TypeOK
    <2>4. \A v \in Workers : JobOK(v)'
      <3>1. job[w].track = 0
        BY <1>2 DEF Prepare, JobOK
      <3> QED
        BY <2>0, <2>e, <2>f, <2>g, <3>1 DEF TypeOK, JobOK
    <2>5. \A p \in Pollers : PollOK(p)'
      BY <1>2 DEF Prepare, PollOK
    <2> QED
      BY <1>2, <2>1, <2>2, <2>3, <2>4, <2>5 DEF Prepare, TypeOK
  <1>3. CASE PrepareFails(w)
    <2>1. /\ job[w].pc = "prepare" /\ Goto(w, "retry")
          /\ UNCHANGED <<row, dte, sii, todo, poll, snap, outbox, sessions, failures>>
      BY <1>3 DEF PrepareFails
    <2>2. /\ job' \in [Workers -> Job] /\ job'[w].pc = "retry" /\ job'[w].req = job[w].req
          /\ job'[w].fresh = job[w].fresh /\ job'[w].track = job[w].track
          /\ \A v \in Workers : v # w => job'[v] = job[v]
      BY <2>1, GotoBecomes DEF Steps
    <2>3. TypeOK'
      BY <2>1, <2>2 DEF TypeOK
    <2>4. JobOK(w)'
      BY <2>1, <2>2 DEF JobOK
    <2> QED
      BY <2>1, <2>2, <2>3, <2>4, JobRefs
  <1>4. CASE Retry(w)
    <2>1. job[w].req \in Requests /\ job[w].fresh \in Row
      BY <1>4 DEF Retry, JobOK, TypeOK, Job
    <2>2. TypeOK'
      BY <1>4, <2>1, ScheduleRetryTypes, InitialRecords DEF Retry, Finish, TypeOK
    <2>3. JobOK(w)'
      BY <1>4 DEF Retry, Finish, IdleJob, TypeOK, JobOK
    <2> QED
      BY <1>4, <2>2, <2>3, JobRefs DEF Retry, Finish, TypeOK
  <1> QED
    BY <1>1, <1>2, <1>3, <1>4

\* The steps from an existing document to the end of the worker's path that
\* change neither documents nor envelopes.
LEMMA TransmitRefs ==
  ASSUME RefsInv, NEW w \in Workers,
         \/ Existing(w) \/ Resume(w) \/ Finalize(w) \/ Submit(w) \/ Quarantine(w)
         \/ Mark(w) \/ ReadDte(w) \/ \E write \in Writes : PersistFails(w, write)
  PROVE  RefsInv'
  <1> USE DEF RefsInv
  <1> DEFINE r == job[w].req  d == job[w].fresh.dteId
  <1>0. job[w] \in Job /\ job[w].fresh \in Row
    BY DEF TypeOK, Job
  <1>1. CASE Existing(w) \/ Resume(w)
    <2>0. r \in Requests /\ d \in DteIds /\ dte[d] \in Dte
      BY <1>1 DEF Existing, Resume, JobOK, TypeOK
    <2>1. row' \in [Requests -> Row] /\ outbox' \in [Requests -> Seq(Notifiable)]
      <3>1. ApplyState(r, job[w].fresh, "submitted") \/ UNCHANGED <<row, outbox>>
        BY <1>1 DEF Existing, Resume
      <3> QED
        BY <1>0, <2>0, <3>1, ApplyStateTypes DEF Notifiable, TypeOK
    <2>2. \E j \in Job : /\ job' = [job EXCEPT ![w] = j]
                         /\ \/ j = IdleJob
                            \/ /\ j.req = r /\ j.fresh.dteId = d /\ j.track = job[w].track
                               /\ j.pc # "prepare"
      <3> DEFINE f == [job[w] EXCEPT !.pc = "finalize",
                                     !.fresh = [job[w].fresh EXCEPT !.state = "submitted"]]
                 g(s) == [job[w] EXCEPT !.pc = s, !.seen = dte[d].status]
                 h(s) == [job[w] EXCEPT !.pc = s]
      <3>1. /\ f \in Job /\ f.req = r /\ f.fresh.dteId = d
            /\ f.track = job[w].track /\ f.pc = "finalize"
        BY <1>0, <2>0 DEF Job, Row, Steps, States
      <3>2. ASSUME NEW s \in {"resume", "finalize"}
            PROVE  /\ g(s) \in Job /\ g(s).req = r /\ g(s).fresh.dteId = d
                   /\ g(s).track = job[w].track /\ g(s).pc = s
        BY <1>0, <2>0 DEF Job, Dte, Steps
      <3>3. ASSUME NEW s \in {"submit", "mark"}
            PROVE  /\ h(s) \in Job /\ h(s).req = r /\ h(s).fresh.dteId = d
                   /\ h(s).track = job[w].track /\ h(s).pc = s
        BY <1>0 DEF Job, Steps
      <3>4. \/ job' = [job EXCEPT ![w] = f]
            \/ \E s \in {"resume", "finalize"} : job' = [job EXCEPT ![w] = g(s)]
            \/ job' = [job EXCEPT ![w] = IdleJob]
            \/ \E s \in {"submit", "mark"} : job' = [job EXCEPT ![w] = h(s)]
        <4>1. CASE Existing(w)
          BY <4>1 DEF Existing, Goto, TypeOK
        <4>2. CASE Resume(w)
          BY <4>2 DEF Resume, Finish, TypeOK
        <4> QED
          BY <1>1, <4>1, <4>2
      <3> HIDE DEF f, g, h
      <3> QED
        BY <3>1, <3>2, <3>3, <3>4, InitialRecords
    <2>3. PICK j \in Job : /\ job' = [job EXCEPT ![w] = j]
                           /\ \/ j = IdleJob
                              \/ /\ j.req = r /\ j.fresh.dteId = d /\ j.track = job[w].track
                                 /\ j.pc # "prepare"
      BY <2>2
    <2>4. UNCHANGED <<dte, sii, todo, poll, snap, sessions, failures>>
      BY <1>1 DEF Existing, Resume
    <2>5. TypeOK'
      BY <2>1, <2>3, <2>4 DEF TypeOK
    <2>6. JobOK(w)'
      <3>1. job[w].track <= Len(sii[d])
        BY <1>1 DEF Existing, Resume, JobOK
      <3> QED
        BY <2>0, <2>3, <2>4, <3>1 DEF JobOK, IdleJob, TypeOK
    <2> QED
      BY <2>3, <2>4, <2>5, <2>6, JobRefs DEF TypeOK
  <1>2. ASSUME NEW step \in Steps \ {"idle"}, NEW new \in Notifiable, Settle(w, step, new)
        PROVE  RefsInv'
    <2>1. r \in Requests
      BY <1>2 DEF Settle, JobOK
    <2>2. TypeOK'
      BY <1>0, <1>2, <2>1, ApplyStateTypes, InitialRecords DEF Settle, Finish, TypeOK
    <2>3. JobOK(w)'
      BY <1>2 DEF Settle, Finish, IdleJob, TypeOK, JobOK
    <2> QED
      BY <1>2, <2>2, <2>3, JobRefs DEF Settle, Finish, TypeOK
  <1>3. CASE Finalize(w) \/ Submit(w) \/ Quarantine(w)
    <2>1. \A s \in Final : mapDteStatusToPublic[s] \in Notifiable
      BY DEF Final, DteStatus, mapDteStatusToPublic, Notifiable
    <2> QED
      BY <1>2, <1>3, <2>1 DEF Finalize, Submit, Quarantine, Steps, Notifiable
  <1>4. CASE Mark(w)
    <2>1. r \in Requests /\ d \in DteIds /\ job[w].track <= Len(sii[d])
      BY <1>4 DEF Mark, JobOK
    <2>2. row' \in [Requests -> Row]
      <3>1. row[r] \in Row
        BY <2>1 DEF TypeOK
      <3>2. [row[r] EXCEPT !.started = TRUE] \in Row
        BY <3>1 DEF Row
      <3> QED
        BY <1>4, <3>2 DEF Mark, TypeOK
    <2> DEFINE j == [job[w] EXCEPT !.pc = "read", !.fresh = [@ EXCEPT !.started = TRUE]]
               q == [job[w] EXCEPT !.pc = "quarantine"]
    <2>3. /\ j \in Job /\ j.req = r /\ j.fresh.dteId = d /\ j.track = job[w].track /\ j.pc = "read"
          /\ q \in Job /\ q.req = r /\ q.fresh.dteId = d /\ q.track = job[w].track
          /\ q.pc = "quarantine"
      BY <1>0 DEF Job, Row, Steps
    <2>4. job' = [job EXCEPT ![w] = j] \/ job' = [job EXCEPT ![w] = q]
      BY <1>4 DEF Mark, Goto, TypeOK
    <2>5. UNCHANGED <<dte, sii, todo, poll, snap, outbox, sessions, failures>>
      BY <1>4 DEF Mark
    <2> HIDE DEF j, q
    <2>6. TypeOK'
      BY <2>2, <2>3, <2>4, <2>5 DEF TypeOK
    <2>7. JobOK(w)'
      BY <2>1, <2>3, <2>4, <2>5 DEF TypeOK, JobOK
    <2> QED
      BY <2>4, <2>5, <2>6, <2>7, JobRefs DEF TypeOK
  <1>5. CASE ReadDte(w)
    <2>1. r \in Requests /\ d \in DteIds /\ job[w].track <= Len(sii[d]) /\ dte[d] \in Dte
      BY <1>5 DEF ReadDte, JobOK, TypeOK
    <2> DEFINE j == [job[w] EXCEPT !.pc = "upload", !.track = dte[d].trackId]
               q == [job[w] EXCEPT !.pc = "quarantine"]
    <2>2. /\ j \in Job /\ j.req = r /\ j.fresh.dteId = d /\ j.track = dte[d].trackId
          /\ j.pc = "upload"
          /\ q \in Job /\ q.req = r /\ q.fresh.dteId = d /\ q.track = job[w].track
          /\ q.pc = "quarantine"
      BY <1>0, <2>1 DEF Job, Dte, Steps
    <2>3. job' = [job EXCEPT ![w] = j] \/ job' = [job EXCEPT ![w] = q]
      BY <1>5 DEF ReadDte, Goto, TypeOK
    <2>4. UNCHANGED <<row, dte, sii, todo, poll, snap, outbox, sessions, failures>>
      BY <1>5 DEF ReadDte
    <2> HIDE DEF j, q
    <2>5. TypeOK'
      BY <2>2, <2>3, <2>4 DEF TypeOK
    <2>6. JobOK(w)'
      BY <2>1, <2>2, <2>3, <2>4 DEF TypeOK, JobOK, DocOK
    <2> QED
      BY <2>3, <2>4, <2>5, <2>6, JobRefs DEF TypeOK
  <1>6. ASSUME NEW write \in Writes, PersistFails(w, write) PROVE RefsInv'
    <2>1. r \in Requests /\ d \in DteIds /\ job[w].track <= Len(sii[d])
      BY <1>6 DEF PersistFails, JobOK
    <2> DEFINE j == [job[w] EXCEPT !.pending = @ \ {write}, !.pc = "revert"]
    <2>2. j \in Job /\ j.req = r /\ j.fresh.dteId = d /\ j.track = job[w].track /\ j.pc = "revert"
      BY <1>0 DEF Job, Steps
    <2>3. job' = [job EXCEPT ![w] = j]
      BY <1>6 DEF PersistFails, TypeOK
    <2>4. UNCHANGED <<row, dte, sii, todo, poll, snap, outbox, sessions, failures>>
      BY <1>6 DEF PersistFails
    <2> HIDE DEF j
    <2>5. TypeOK'
      BY <2>2, <2>3, <2>4 DEF TypeOK
    <2>6. JobOK(w)'
      BY <2>1, <2>2, <2>3, <2>4 DEF TypeOK, JobOK
    <2> QED
      BY <2>3, <2>4, <2>5, <2>6, JobRefs DEF TypeOK
  <1> QED
    BY <1>1, <1>3, <1>4, <1>5, <1>6

\* The SII's envelopes only grow, so every TrackID in hand stays good.
LEMMA UploadRefs ==
  ASSUME RefsInv, NEW w \in Workers, Upload(w)
  PROVE  RefsInv'
  <1> DEFINE r == job[w].req  d == job[w].fresh.dteId
             more == Append(sii[d], "PROCESANDO")
  <1>0. job[w] \in Job /\ r \in Requests /\ d \in DteIds /\ job[w].track <= Len(sii[d])
    BY DEF RefsInv, TypeOK, Upload, JobOK
  <1>1. sii[d] \in Seq(Verdicts) /\ Len(sii[d]) \in Nat
    BY <1>0 DEF RefsInv, TypeOK
  <1>2. more \in Seq(Verdicts) /\ Len(more) = Len(sii[d]) + 1
    BY <1>1, AppendProperties DEF Verdicts
  <1>3. sii' = [sii EXCEPT ![d] = more] \/ sii' = sii
    BY DEF Upload
  <1>4. sii' \in [DteIds -> Seq(Verdicts)] /\ \A e \in DteIds : Len(sii[e]) <= Len(sii'[e])
    <2>1. \A e \in DteIds : Len(sii[e]) \in Nat
      BY LengthsAreNat DEF RefsInv
    <2>2. sii \in [DteIds -> Seq(Verdicts)]
      BY DEF RefsInv, TypeOK
    <2> HIDE DEF more
    <2>3. CASE sii' = sii
      BY <2>1, <2>2, <2>3
    <2>4. CASE sii' = [sii EXCEPT ![d] = more]
      <3>1. sii' \in [DteIds -> Seq(Verdicts)]
        BY <1>0, <1>2, <2>2, <2>4
      <3>2. \A e \in DteIds : sii'[e] = IF e = d THEN more ELSE sii[e]
        BY <2>2, <2>4
      <3> QED
        BY <1>2, <2>1, <3>1, <3>2
    <2> QED
      BY <1>3, <2>3, <2>4
  <1> DEFINE sent == [job[w] EXCEPT !.pc = "persist", !.track = Len(sii[d]) + 1,
                                    !.pending = Writes]
             lost == [job[w] EXCEPT !.pc = "revert"]
             again == [job[w] EXCEPT !.tries = @ + 1]
  <1>5. /\ sent \in Job /\ sent.req = r /\ sent.fresh.dteId = d /\ sent.pc = "persist"
        /\ sent.track = Len(sii[d]) + 1
        /\ lost \in Job /\ lost.req = r /\ lost.fresh.dteId = d /\ lost.pc = "revert"
        /\ lost.track = job[w].track
        /\ again \in Job /\ again.req = r /\ again.fresh.dteId = d /\ again.pc = job[w].pc
        /\ again.track = job[w].track
    <2>1. /\ sent \in Job /\ sent.req = r /\ sent.fresh.dteId = d /\ sent.pc = "persist"
          /\ sent.track = Len(sii[d]) + 1
      <3> DEFINE n == Len(sii[d]) + 1
      <3>1. n \in Nat /\ Writes \in SUBSET Writes
        BY <1>1
      <3> HIDE DEF n
      <3>2. \A x \in Nat : \A W \in SUBSET Writes :
              LET j == [job[w] EXCEPT !.pc = "persist", !.track = x, !.pending = W]
              IN  /\ j \in Job /\ j.req = r /\ j.fresh = job[w].fresh /\ j.pc = "persist"
                  /\ j.track = x
        BY <1>0 DEF Job, Steps
      <3> QED
        BY <3>1, <3>2 DEF n
    <2>2. /\ lost \in Job /\ lost.req = r /\ lost.fresh.dteId = d /\ lost.pc = "revert"
          /\ lost.track = job[w].track
      BY <1>0 DEF Job, Steps
    <2>3. /\ again \in Job /\ again.req = r /\ again.fresh.dteId = d /\ again.pc = job[w].pc
          /\ again.track = job[w].track
      BY <1>0 DEF Job
    <2> QED
      BY <2>1, <2>2, <2>3
  <1>6. \/ job' = [job EXCEPT ![w] = sent] /\ sii' = [sii EXCEPT ![d] = more]
        \/ job' = [job EXCEPT ![w] = lost]
        \/ job' = [job EXCEPT ![w] = again]
    BY DEF RefsInv, Upload, Goto, TypeOK
  <1>7. sessions' \in [Requests -> Nat]
    <2>1. sessions \in [Requests -> Nat]
      BY DEF RefsInv, TypeOK
    <2>2. PICK n \in Nat : sessions' = [sessions EXCEPT ![r] = @ + n]
      BY DEF Upload
    <2> QED
      BY <1>0, <2>1, <2>2
  <1>8. UNCHANGED <<row, dte, todo, poll, snap, outbox, failures>> /\ job[w].pc = "upload"
    BY DEF Upload
  <1> HIDE DEF more, sent, lost, again
  <1>9. TypeOK'
    BY <1>4, <1>5, <1>6, <1>7, <1>8 DEF RefsInv, TypeOK
  <1>10. JobOK(w)'
    <2>1. \/ /\ job'[w].track = Len(sii[d]) + 1 /\ Len(sii'[d]) = Len(sii[d]) + 1
             /\ job'[w].fresh.dteId = d /\ job'[w].req = r /\ job'[w].pc = "persist"
          \/ /\ job'[w].track = job[w].track /\ job'[w].fresh.dteId = d /\ job'[w].req = r
             /\ job'[w].pc \in {"upload", "revert"}
      BY <1>0, <1>2, <1>5, <1>6, <1>8 DEF RefsInv, TypeOK
    <2>2. Len(sii[d]) <= Len(sii'[d]) /\ Len(sii'[d]) \in Nat /\ job[w].track \in Nat
      BY <1>0, <1>4 DEF Job
    <2>3. /\ job'[w].track <= Len(sii'[job'[w].fresh.dteId])
          /\ job'[w].fresh.dteId \in DteIds /\ job'[w].req \in Requests
          /\ job'[w].pc # "prepare"
      <3>1. CASE /\ job'[w].track = Len(sii[d]) + 1 /\ Len(sii'[d]) = Len(sii[d]) + 1
                 /\ job'[w].fresh.dteId = d /\ job'[w].req = r /\ job'[w].pc = "persist"
        BY <1>0, <1>1, <3>1
      <3>2. CASE /\ job'[w].track = job[w].track /\ job'[w].fresh.dteId = d
                 /\ job'[w].req = r /\ job'[w].pc \in {"upload", "revert"}
        BY <1>0, <1>1, <2>2, <3>2
      <3> QED
        BY <2>1, <3>1, <3>2
    <2> QED
      BY <2>3 DEF JobOK
  <1>11. ASSUME NEW v \in Workers, v # w PROVE JobOK(v)'
    <2>1. job'[v] = job[v]
      BY <1>6, <1>11 DEF RefsInv, TypeOK
    <2>2. job[v].track \in Nat
      BY DEF RefsInv, TypeOK, Job
    <2>3. \A e \in DteIds : Len(sii[e]) \in Nat /\ Len(sii'[e]) \in Nat
      BY <1>9, LengthsAreNat DEF RefsInv, TypeOK
    <2> QED
      BY <1>4, <2>1, <2>2, <2>3 DEF RefsInv, JobOK
  <1>12. ASSUME NEW e \in DteIds PROVE DocOK(e)'
    <2>1. dte[e].trackId \in Nat /\ Len(sii[e]) \in Nat /\ Len(sii'[e]) \in Nat
      BY <1>4, LengthsAreNat DEF RefsInv, TypeOK, Dte
    <2> QED
      BY <1>4, <1>8, <2>1 DEF RefsInv, DocOK
  <1>13. ASSUME NEW p \in Pollers PROVE PollOK(p)'
    <2>1. poll[p].track \in Nat
      BY DEF RefsInv, TypeOK, Poll
    <2>2. \A e \in DteIds : Len(sii[e]) \in Nat /\ Len(sii'[e]) \in Nat
      BY <1>4, LengthsAreNat DEF RefsInv
    <2> QED
      BY <1>4, <1>8, <2>1, <2>2 DEF RefsInv, PollOK
  <1> QED
    BY <1>9, <1>10, <1>11, <1>12, <1>13 DEF RefsInv

\* Writing TrackIDs and states to documents.
LEMMA PersistRefs ==
  ASSUME RefsInv, NEW w \in Workers,
         Revert(w) \/ \E write \in Writes : Persist(w, write)
  PROVE  RefsInv'
  <1> USE DEF RefsInv
  <1> DEFINE r == job[w].req  d == job[w].fresh.dteId
  <1>0. /\ job[w] \in Job /\ r \in Requests /\ d \in DteIds /\ job[w].track <= Len(sii[d])
        /\ job[w].track \in Nat /\ dte[d] \in Dte
    BY DEF TypeOK, Revert, Persist, JobOK, Job
  <1>1. UNCHANGED <<row, sii, todo, poll, snap, outbox, sessions, failures>>
    BY DEF Revert, Persist
  <1>2. \E doc \in Dte : /\ dte' = [dte EXCEPT ![d] = doc]
                         /\ doc.trackId \in {dte[d].trackId, job[w].track}
    <2>1. ASSUME NEW write \in Writes
          PROVE  /\ Wrote(dte[d], job[w].track, write) \in Dte
                 /\ Wrote(dte[d], job[w].track, write).trackId \in {dte[d].trackId, job[w].track}
      <3>1. CASE write = "dte"
        BY <1>0, <3>1 DEF Wrote, Dte, DteStatus
      <3>2. CASE write = "submission"
        BY <1>0, <3>2 DEF Wrote, Dte
      <3>3. CASE write = "audit"
        BY <1>0, <3>3 DEF Wrote
      <3> QED
        BY <2>1, <3>1, <3>2, <3>3 DEF Writes
    <2>2. ASSUME NEW write \in Writes, Persist(w, write)
          PROVE  dte' = [dte EXCEPT ![d] = Wrote(dte[d], job[w].track, write)]
      BY <2>2 DEF Persist
    <2>3. CASE Revert(w)
      <3>1. CASE dte' = dte
        BY <1>0, <3>1 DEF TypeOK
      <3> DEFINE back == [dte[d] EXCEPT !.status = "BORRADOR", !.trackId = job[w].track]
                 doc(late) == [back EXCEPT
                   !.status = IF "dte" \in late THEN "ENVIADO" ELSE @,
                   !.submissions = IF "submission" \in late THEN @ \cup {job[w].track} ELSE @]
      <3>2. back \in Dte /\ back.trackId = job[w].track
        BY <1>0 DEF Dte, DteStatus
      <3>3. ASSUME NEW late \in SUBSET job[w].pending, dte' = [dte EXCEPT ![d] = doc(late)]
            PROVE  \E x \in Dte : /\ dte' = [dte EXCEPT ![d] = x]
                                  /\ x.trackId \in {dte[d].trackId, job[w].track}
        <4> HIDE DEF back
        <4>1. doc(late) \in Dte /\ doc(late).trackId = job[w].track
          BY <1>0, <3>2 DEF Dte, DteStatus
        <4> HIDE DEF doc
        <4> QED
          BY <3>3, <4>1
      <3> QED
        BY <2>3, <3>1, <3>3 DEF Revert
    <2> QED
      BY <2>1, <2>2, <2>3
  <1>3. PICK doc \in Dte : /\ dte' = [dte EXCEPT ![d] = doc]
                           /\ doc.trackId \in {dte[d].trackId, job[w].track}
    BY <1>2
  <1>4. \E j \in Job : /\ job' = [job EXCEPT ![w] = j] /\ j.req = r /\ j.fresh = job[w].fresh
                       /\ j.track = job[w].track
                       /\ j.pc \in {"persist", "submit", "quarantine"}
    <2> DEFINE q == [job[w] EXCEPT !.pc = "quarantine"]
               n(rest, step) == [job[w] EXCEPT !.pending = rest, !.pc = step]
    <2>1. /\ q \in Job /\ q.req = r /\ q.fresh = job[w].fresh
          /\ q.track = job[w].track /\ q.pc = "quarantine"
      BY <1>0 DEF Job, Steps
    <2>2. ASSUME NEW rest \in SUBSET Writes, NEW step \in {"persist", "submit"}
          PROVE  /\ n(rest, step) \in Job /\ n(rest, step).req = r
                 /\ n(rest, step).fresh = job[w].fresh
                 /\ n(rest, step).track = job[w].track /\ n(rest, step).pc = step
      BY <1>0, <2>2 DEF Job, Steps
    <2>3. CASE Revert(w)
      <3>1. job' = [job EXCEPT ![w] = q]
        BY <2>3 DEF Revert, Goto, TypeOK
      <3> HIDE DEF q
      <3> QED
        BY <2>1, <3>1
    <2>4. ASSUME NEW write \in Writes, Persist(w, write)
          PROVE  \E rest \in SUBSET Writes, step \in {"persist", "submit"} :
                   job' = [job EXCEPT ![w] = n(rest, step)]
      <3> DEFINE rest == job[w].pending \ {write}
      <3>1. rest \in SUBSET Writes
        BY <1>0 DEF Job
      <3>2. job' = [job EXCEPT ![w] = n(rest, IF rest = {} THEN "submit" ELSE "persist")]
        BY <2>4 DEF Persist, TypeOK
      <3> HIDE DEF rest, n
      <3> QED
        BY <3>1, <3>2
    <2> HIDE DEF n
    <2> QED
      BY <2>2, <2>3, <2>4
  <1>5. PICK j \in Job : /\ job' = [job EXCEPT ![w] = j] /\ j.req = r /\ j.fresh = job[w].fresh
                         /\ j.track = job[w].track
                         /\ j.pc \in {"persist", "submit", "quarantine"}
    BY <1>4
  <1>6. TypeOK'
    BY <1>1, <1>3, <1>5 DEF TypeOK
  <1>7. \A v \in Workers : JobOK(v)'
    BY <1>0, <1>1, <1>5 DEF TypeOK, JobOK
  <1>8. \A e \in DteIds : DocOK(e)'
    BY <1>0, <1>1, <1>3 DEF TypeOK, DocOK
  <1>9. \A p \in Pollers : PollOK(p)'
    BY <1>1 DEF PollOK
  <1> QED
    BY <1>6, <1>7, <1>8, <1>9

\* Crashes and errors forget references.
LEMMA FailureRefs ==
  ASSUME RefsInv,
         \/ \E w \in Workers : Crash(w) \/ Abandon(w)
         \/ \E p \in Pollers : PollFails(p)
  PROVE  RefsInv'
  <1>1. ASSUME NEW w \in Workers, Crash(w) \/ Abandon(w) PROVE RefsInv'
    <2>a. failures' \in 0..MaxFailures
      BY <1>1, BoundsAssumption DEF Crash, Abandon, RefsInv, TypeOK
    <2>b. todo' \in [Workers -> SUBSET Requests]
      BY <1>1 DEF Crash, Abandon, RefsInv, TypeOK
    <2>1. failures' \in 0..MaxFailures /\ todo' \in [Workers -> SUBSET Requests]
      BY <2>a, <2>b
    <2>2. job' = [job EXCEPT ![w] = IdleJob]
      BY <1>1 DEF Crash, Abandon, Finish
    <2>3. UNCHANGED <<row, dte, sii, poll, snap, outbox, sessions>>
      BY <1>1 DEF Crash, Abandon
    <2>4. TypeOK'
      BY <2>1, <2>2, <2>3, InitialRecords DEF RefsInv, TypeOK
    <2>5. JobOK(w)'
      BY <2>2 DEF RefsInv, TypeOK, JobOK, IdleJob
    <2> QED
      BY <2>2, <2>3, <2>4, <2>5, JobRefs DEF RefsInv, TypeOK
  <1>2. ASSUME NEW p \in Pollers, PollFails(p) PROVE RefsInv'
    <2>1. failures' \in 0..MaxFailures
      BY <1>2, BoundsAssumption DEF PollFails, RefsInv, TypeOK
    <2>2. poll' = [poll EXCEPT ![p] = IdlePoll]
      BY <1>2 DEF PollFails, PollEnds
    <2>3. UNCHANGED <<row, dte, sii, job, todo, snap, outbox, sessions>>
      BY <1>2 DEF PollFails
    <2>4. TypeOK'
      BY <2>1, <2>2, <2>3, InitialRecords DEF RefsInv, TypeOK
    <2>5. PollOK(p)'
      BY <2>2 DEF RefsInv, TypeOK, PollOK, IdlePoll
    <2> QED
      BY <2>2, <2>3, <2>4, <2>5, PollRefs DEF RefsInv, TypeOK
  <1> QED
    BY <1>1, <1>2

\* A verdict replaces one element: the sequence keeps its length.
LEMMA VerdictKeepsLength ==
  ASSUME TypeOK, NEW d \in DteIds, NEW k \in 1..Len(sii[d]), NEW v \in Final,
         SiiDecides(d, k, v)
  PROVE  /\ sii' \in [DteIds -> Seq(Verdicts)]
         /\ \A e \in DteIds : Len(sii'[e]) = Len(sii[e])
  <1> DEFINE s == [sii[d] EXCEPT ![k] = v]
  <1>1. sii[d] \in Seq(Verdicts) /\ v \in Verdicts
    BY DEF TypeOK, Final, Verdicts
  <1>2. s \in Seq(Verdicts) /\ Len(s) = Len(sii[d])
    BY <1>1, ExceptSeq
  <1>3. sii' = [sii EXCEPT ![d] = s]
    BY DEF SiiDecides
  <1> HIDE DEF s
  <1> QED
    BY <1>2, <1>3 DEF TypeOK

\* The SII's verdicts change no reference.
LEMMA VerdictRefs ==
  ASSUME RefsInv, NEW d \in DteIds, NEW k \in 1..Len(sii[d]), NEW v \in Final,
         SiiDecides(d, k, v)
  PROVE  RefsInv'
  <1>1. /\ sii' \in [DteIds -> Seq(Verdicts)]
        /\ \A e \in DteIds : Len(sii'[e]) = Len(sii[e])
    BY VerdictKeepsLength DEF RefsInv
  <1>2. UNCHANGED <<row, dte, job, todo, poll, snap, outbox, sessions, failures>>
    BY DEF SiiDecides
  <1>3. TypeOK'
    BY <1>1, <1>2 DEF RefsInv, TypeOK
  <1> QED
    BY <1>1, <1>2, <1>3 DEF RefsInv, JobOK, PollOK, DocOK

\* A poller keeps its document and TrackID, and writes only that TrackID.
LEMMA PollStepRefs ==
  ASSUME RefsInv, NEW p \in Pollers,
         PollStep(p) \/ \E r \in Requests : PollStart(p, r)
  PROVE  RefsInv'
  <1> DEFINE d == poll[p].copy.dteId
  <1>0. /\ poll[p] \in Poll
        /\ poll[p].pc # "idle" => /\ d \in DteIds /\ dte[d] \in Dte /\ poll[p].req \in Requests
                                  /\ poll[p].track \in Nat /\ sii[d] \in Seq(Verdicts)
        /\ poll[p].pc \notin {"idle", "read"} =>
             0 < poll[p].track /\ poll[p].track <= Len(sii[d])
    BY DEF RefsInv, TypeOK, PollOK, Poll
  <1>1. ASSUME NEW r \in Requests, PollStart(p, r) PROVE RefsInv'
    <2> DEFINE n == [IdlePoll EXCEPT !.pc = "read", !.req = r, !.copy = row[r]]
    <2>1. row[r] \in Row /\ row[r].dteId \in DteIds
      BY <1>1 DEF PollStart, RefsInv, TypeOK, Row
    <2>2. n \in Poll /\ n.req = r /\ n.copy = row[r] /\ n.pc = "read"
      BY <2>1, InitialRecords DEF Poll, IdlePoll
    <2>3. poll' = [poll EXCEPT ![p] = n]
      BY <1>1 DEF PollStart
    <2>4. UNCHANGED <<row, dte, sii, job, todo, snap, outbox, sessions, failures>>
      BY <1>1 DEF PollStart
    <2> HIDE DEF n
    <2>5. TypeOK'
      BY <2>2, <2>3, <2>4 DEF RefsInv, TypeOK
    <2>6. PollOK(p)'
      BY <2>1, <2>2, <2>3, <2>4 DEF RefsInv, TypeOK, PollOK
    <2> QED
      BY <2>3, <2>4, <2>5, <2>6, PollRefs DEF RefsInv, TypeOK
  <1>7. CASE PollRead(p)
    <2> DEFINE track == dte[d].trackId
               n == [poll[p] EXCEPT !.pc = "ask", !.track = track]
    <2>1. poll[p].pc = "read" /\ track \in Nat /\ track <= Len(sii[d])
      BY <1>0, <1>7 DEF PollRead, RefsInv, DocOK, Dte
    <2>2. n \in Poll /\ n.req = poll[p].req /\ n.copy = poll[p].copy /\ n.track = track
          /\ n.pc = "ask"
      BY <1>0, <2>1 DEF Poll
    <2>3. \/ poll' = [poll EXCEPT ![p] = n] /\ track # 0
          \/ poll' = [poll EXCEPT ![p] = IdlePoll]
      BY <1>7 DEF PollRead, PollEnds, RefsInv, TypeOK
    <2>4. UNCHANGED <<row, dte, sii, job, todo, snap, outbox, sessions, failures>>
      BY <1>7 DEF PollRead
    <2> HIDE DEF n
    <2>5. TypeOK'
      BY <2>2, <2>3, <2>4, InitialRecords DEF RefsInv, TypeOK
    <2>6. PollOK(p)'
      BY <1>0, <2>1, <2>2, <2>3, <2>4 DEF RefsInv, TypeOK, PollOK, IdlePoll
    <2> QED
      BY <2>3, <2>4, <2>5, <2>6, PollRefs DEF RefsInv, TypeOK
  <1>2. ASSUME NEW n \in Poll, poll' = [poll EXCEPT ![p] = n],
               \/ n = IdlePoll
               \/ /\ poll[p].pc \notin {"idle", "read"} /\ n.req = poll[p].req /\ n.copy = poll[p].copy
                  /\ n.track = poll[p].track,
               UNCHANGED <<dte, sii, job, todo, snap, sessions, failures>>,
               row' \in [Requests -> Row], outbox' \in [Requests -> Seq(Notifiable)]
        PROVE  RefsInv'
    <2>1. TypeOK'
      BY <1>2 DEF RefsInv, TypeOK
    <2>2. PollOK(p)'
      BY <1>0, <1>2 DEF RefsInv, TypeOK, PollOK, IdlePoll
    <2> QED
      BY <1>2, <2>1, <2>2, PollRefs DEF RefsInv, TypeOK
  <1>3. CASE PollAsk(p)
    <2> DEFINE n == [poll[p] EXCEPT !.pc = "find", !.answer = sii[d][poll[p].track]]
    <2>1. poll[p].pc = "ask" /\ sii[d][poll[p].track] \in Verdicts
      BY <1>0, <1>3, ElementOfSeq DEF PollAsk
    <2>2. n \in Poll /\ n.req = poll[p].req /\ n.copy = poll[p].copy /\ n.track = poll[p].track
      BY <1>0, <2>1 DEF Poll
    <2>3. poll' = [poll EXCEPT ![p] = n] \/ poll' = [poll EXCEPT ![p] = IdlePoll]
      BY <1>3 DEF PollAsk, PollEnds, RefsInv, TypeOK
    <2> HIDE DEF n
    <2> QED
      BY <1>2, <1>3, <2>1, <2>2, <2>3, InitialRecords DEF PollAsk, RefsInv, TypeOK
  <1>4. CASE PollFind(p)
    <2> DEFINE n == [poll[p] EXCEPT !.pc = "write", !.seen = dte[d].status]
               m == [poll[p] EXCEPT !.pc = "apply"]
    <2>1. poll[p].pc = "find"
      BY <1>4 DEF PollFind
    <2>2. /\ n \in Poll /\ n.req = poll[p].req /\ n.copy = poll[p].copy /\ n.track = poll[p].track
          /\ m \in Poll /\ m.req = poll[p].req /\ m.copy = poll[p].copy /\ m.track = poll[p].track
      BY <1>0, <2>1 DEF Poll, Dte
    <2>3. poll' = [poll EXCEPT ![p] = n] \/ poll' = [poll EXCEPT ![p] = m]
      BY <1>4 DEF PollFind, PollGoto, RefsInv, TypeOK
    <2> HIDE DEF n, m
    <2> QED
      BY <1>2, <1>4, <2>1, <2>2, <2>3 DEF PollFind, RefsInv, TypeOK
  <1>5. CASE PollWrite(p)
    <2> DEFINE m == [poll[p] EXCEPT !.pc = "apply"]
               doc(s) == [dte[d] EXCEPT !.status = s, !.trackId = poll[p].track]
    <2>1. poll[p].pc = "write"
      BY <1>5 DEF PollWrite
    <2>2. m \in Poll /\ m.req = poll[p].req /\ m.copy = poll[p].copy /\ m.track = poll[p].track
      BY <1>0, <2>1 DEF Poll
    <2>3. poll' = [poll EXCEPT ![p] = m]
      BY <1>5 DEF PollWrite, PollGoto
    <2>4. \E s \in DteStatus : dte' = [dte EXCEPT ![d] = doc(s)]
      <3> DEFINE s == IF poll[p].answer \in Final THEN poll[p].answer ELSE poll[p].seen
      <3>1. s \in DteStatus
        BY <1>0 DEF Poll, DteStatus
      <3>2. dte' = [dte EXCEPT ![d] = doc(s)]
        BY <1>5 DEF PollWrite
      <3> QED
        BY <3>1, <3>2
    <2>5. \A s \in DteStatus : doc(s) \in Dte /\ doc(s).trackId = poll[p].track
      BY <1>0, <2>1 DEF Dte
    <2>6. UNCHANGED <<row, sii, job, todo, snap, outbox, sessions, failures>>
      BY <1>5 DEF PollWrite
    <2> HIDE DEF m, doc
    <2>7. TypeOK'
      BY <1>0, <2>1, <2>2, <2>3, <2>4, <2>5, <2>6 DEF RefsInv, TypeOK
    <2>8. \A e \in DteIds : DocOK(e)'
      BY <1>0, <2>1, <2>4, <2>5, <2>6 DEF RefsInv, TypeOK, DocOK
    <2>9. \A q \in Pollers : PollOK(q)'
      BY <1>0, <2>1, <2>2, <2>3, <2>6 DEF RefsInv, TypeOK, PollOK
    <2> QED
      BY <2>6, <2>7, <2>8, <2>9 DEF RefsInv, JobOK
  <1>6. CASE PollApply(p)
    <2>1. poll[p].pc = "apply" /\ poll[p].copy \in Row
      BY <1>0, <1>6 DEF PollApply, Poll
    <2>2. poll' = [poll EXCEPT ![p] = IdlePoll]
      BY <1>6 DEF PollApply, PollEnds
    <2>3. row' \in [Requests -> Row] /\ outbox' \in [Requests -> Seq(Notifiable)]
      <3>1. \A s \in Final : mapDteStatusToPublic[s] \in Notifiable
        BY DEF Final, DteStatus, mapDteStatusToPublic, Notifiable
      <3> QED
        BY <1>0, <1>6, <2>1, <3>1, ApplyStateTypes DEF PollApply, RefsInv, TypeOK
    <2> QED
      BY <1>2, <1>6, <2>2, <2>3, InitialRecords DEF PollApply
  <1> QED
    BY <1>1, <1>3, <1>4, <1>5, <1>6, <1>7 DEF PollStep

\* Every step preserves the invariant.
LEMMA NextRefs == RefsInv /\ [Next]_vars => RefsInv'
  <1> SUFFICES ASSUME RefsInv, [Next]_vars PROVE RefsInv'
    OBVIOUS
  <1>1. CASE UNCHANGED vars
    BY <1>1 DEF vars, RefsInv, TypeOK, JobOK, PollOK, DocOK
  <1>2. ASSUME NEW w \in Workers, WorkerStep(w) PROVE RefsInv'
    BY <1>2, PrepareRefs, TransmitRefs, UploadRefs, PersistRefs DEF WorkerStep
  <1>3. CASE Next
    BY <1>2, <1>3, QueueRefs, FailureRefs, VerdictRefs, PollStepRefs DEF Next
  <1> QED
    BY <1>1, <1>3

\* Whatever the faults, every reachable state is well typed, and every
\* reference a processor carries is good.
THEOREM RefsInvariant == Spec => []RefsInv
  BY InitRefs, NextRefs, PTL DEF Spec

\* Type correctness: no interleaving of claims, crashes, stale writes and polls
\* makes process(), transmit() or pollSubmitted() use a missing document or a
\* TrackID the SII never issued.
THEOREM TypeCorrect == Spec => []TypeOK
  BY RefsInvariant, PTL DEF RefsInv
-----------------------------------------------------------------------------
(* With no lost lookup, no expired lease of a live claim and no processor      *)
(* inside the 202 handler's update, a claim is exclusive.                      *)

Exclusive == Faults \subseteq {"prepare"}

\* A busy worker's copy is the row, claimed and not due; behind the fence the
\* row is marked, and before the first POST nothing was sent.
JobExcl(w) ==
  LET j == job[w]  r == j.req IN
  /\ j.pc = "idle" => r = NoReq
  /\ j.pc # "idle" =>
       /\ j.fresh = row[r]
       /\ row[r].state = "processing" /\ ~row[r].due
       /\ j.pc \notin {"resume", "finalize"}
       /\ j.pc \in {"read", "upload", "persist", "revert"} => row[r].started
       /\ j.pc = "read" \/ (j.pc = "upload" /\ j.tries = 0) => sessions[r] = 0
       /\ j.pc = "persist" =>
            /\ 0 < j.track
            /\ "dte" \notin j.pending => dte[j.fresh.dteId].trackId = j.track
       /\ j.pc = "submit" => 0 < dte[j.fresh.dteId].trackId

\* Requests claimed and not yet started.
TodoExcl(w) ==
  \A r \in todo[w] : /\ row[r].state = "processing" /\ ~row[r].due
                     /\ r # job[w].req

\* No two workers hold the same request.
HeldOnce == \A v, w \in Workers : v # w => Held(v) \cap Held(w) = {}

\* A polled request was reported; the poller's copy has its document and fence.
PollExcl(p) ==
  poll[p].pc # "idle" =>
    LET c == poll[p].copy  now == row[poll[p].req] IN
    /\ now.state \in Reported
    /\ c.dteId = now.dteId /\ c.started = now.started
    /\ poll[p].pc = "write" => poll[p].seen # "none"

\* A row links only its own document; a reported one has a TrackID; an upload
\* is remembered by the fence.
RowExcl(r) ==
  /\ snap[r].pc = "todo"
  /\ row[r].state = "none" => row[r].dteId = NoDte /\ ~row[r].started
  /\ row[r].dteId # NoDte => /\ dte[row[r].dteId].owner = r
                             /\ dte[row[r].dteId].status # "none"
  /\ row[r].state \in Reported => /\ row[r].dteId # NoDte
                                  /\ 0 < dte[row[r].dteId].trackId
  /\ sessions[r] <= 1
  /\ sessions[r] = 1 => row[r].started

\* A document is linked by its owner; one the SII received is fenced, and one
\* the SII resolved was reported.
DocExcl(d) ==
  LET owner == dte[d].owner IN
  /\ dte[d].status # "none" => owner \in Requests /\ row[owner].dteId = d
  /\ 0 < Len(sii[d]) => dte[d].status # "none" /\ row[owner].started
  /\ dte[d].status \in Final => row[owner].state \in Reported

\* The inductive invariant of exclusive claims.
ExclInv ==
  /\ RefsInv
  /\ \A w \in Workers : JobExcl(w) /\ TodoExcl(w)
  /\ HeldOnce
  /\ \A p \in Pollers : PollExcl(p)
  /\ \A r \in Requests : RowExcl(r)
  /\ \A d \in DteIds : DocExcl(d)

\* The initial state satisfies the invariant.
LEMMA InitExcl == Init => ExclInv
  <1> SUFFICES ASSUME Init PROVE ExclInv
    OBVIOUS
  <1>1. RefsInv
    BY InitRefs
  <1>2. \A w \in Workers : JobExcl(w) /\ TodoExcl(w)
    BY DEF Init, JobExcl, TodoExcl, IdleJob
  <1>3. HeldOnce
    BY DEF Init, HeldOnce, Held, IdleJob
  <1>4. \A p \in Pollers : PollExcl(p)
    BY DEF Init, PollExcl, IdlePoll
  <1>5. \A r \in Requests : RowExcl(r)
    BY DEF Init, RowExcl, NoRow, NewSnap, Reported
  <1>6. \A d \in DteIds : DocExcl(d)
    BY DEF Init, DocExcl, NoDoc, Final
  <1> QED
    BY <1>1, <1>2, <1>3, <1>4, <1>5, <1>6 DEF ExclInv

\* What a busy worker may rely on: nobody else is at its request.
LEMMA WorkerAlone ==
  ASSUME ExclInv, NEW w \in Workers, job[w].pc # "idle"
  PROVE  LET r == job[w].req IN
         /\ r \in Requests /\ job[w].fresh = row[r] /\ row[r] \in Row
         /\ row[r].state = "processing" /\ ~row[r].due
         /\ r # NoReq
         /\ \A v \in Workers : v # w => job[v].req # r /\ r \notin todo[v]
         /\ r \notin todo[w]
         /\ \A p \in Pollers : poll[p].pc # "idle" => poll[p].req # r
  <1> DEFINE r == job[w].req
  <1>1. r \in Requests /\ job[w].fresh = row[r] /\ row[r].state = "processing" /\ ~row[r].due
    BY DEF ExclInv, RefsInv, JobOK, JobExcl
  <1>2. r # NoReq /\ row[r] \in Row
    BY <1>1, NullsAssumption DEF ExclInv, RefsInv, TypeOK
  <1>3. \A v \in Workers : v # w => job[v].req # r /\ r \notin todo[v]
    BY <1>2 DEF ExclInv, HeldOnce, Held
  <1>4. r \notin todo[w]
    BY DEF ExclInv, TodoExcl
  <1>5. \A p \in Pollers : poll[p].pc # "idle" => poll[p].req # r
    BY <1>1 DEF ExclInv, PollExcl, Reported
  <1> QED
    BY <1>1, <1>2, <1>3, <1>4, <1>5

\* A worker's step that changes only its own request's row and its own job
\* preserves the invariant if it does so for them.
LEMMA RowFrame ==
  ASSUME ExclInv, RefsInv', NEW w \in Workers, job[w].pc # "idle",
         \A v \in Workers : v # w => job'[v] = job[v],
         \A q \in Requests : q # job[w].req => row'[q] = row[q],
         UNCHANGED <<todo, poll, snap, dte, sii, sessions>>,
         row'[job[w].req].dteId = row[job[w].req].dteId,
         row[job[w].req].started => row'[job[w].req].started,
         row'[job[w].req].state # "none",
         row'[job[w].req].state \in Reported =>
           /\ row[job[w].req].dteId # NoDte
           /\ 0 < dte[row[job[w].req].dteId].trackId,
         job'[w].req \in {job[w].req, NoReq}, JobExcl(w)'
  PROVE  ExclInv'
  <1> DEFINE r == job[w].req
  <1>1. /\ r \in Requests /\ row[r].state = "processing" /\ r \notin todo[w]
        /\ \A v \in Workers : v # w => job[v].req # r /\ r \notin todo[v]
        /\ \A p \in Pollers : poll[p].pc # "idle" => poll[p].req # r
    BY WorkerAlone
  <1>2. ASSUME NEW v \in Workers PROVE JobExcl(v)'
    <2>1. CASE v # w
      <3>1. JobExcl(v) /\ JobOK(v) /\ job[v].req # r
        BY <1>1, <2>1 DEF ExclInv, RefsInv
      <3> QED
        BY <2>1, <3>1 DEF JobExcl, JobOK
    <2> QED
      BY <2>1
  <1>3. ASSUME NEW v \in Workers PROVE TodoExcl(v)'
    <2>1. TodoExcl(v) /\ r \notin todo[v] /\ todo[v] \subseteq Requests
      BY <1>1 DEF ExclInv, RefsInv, TypeOK
    <2>2. CASE v = w
      BY <2>1, <2>2, NullsAssumption DEF TodoExcl
    <2>3. CASE v # w
      BY <2>1, <2>3 DEF TodoExcl
    <2> QED
      BY <2>2, <2>3
  <1>4. HeldOnce'
    <2>1. \A v \in Workers : Held(v)' \subseteq Held(v)
      BY DEF Held
    <2> QED
      BY <2>1 DEF ExclInv, HeldOnce
  <1>5. ASSUME NEW p \in Pollers PROVE PollExcl(p)'
    <2>1. PollExcl(p) /\ PollOK(p) /\ (poll[p].pc # "idle" => poll[p].req # r)
      BY <1>1 DEF ExclInv, RefsInv
    <2> QED
      BY <2>1 DEF PollExcl, PollOK
  <1>6. ASSUME NEW q \in Requests PROVE RowExcl(q)'
    <2>1. RowExcl(q)
      BY DEF ExclInv
    <2>2. CASE q = r
      BY <1>1, <2>1, <2>2 DEF RowExcl
    <2>3. CASE q # r
      BY <2>1, <2>3 DEF RowExcl
    <2> QED
      BY <2>2, <2>3
  <1>7. ASSUME NEW d \in DteIds PROVE DocExcl(d)'
    <2>1. DocExcl(d) /\ (dte[d].owner \in Requests \/ dte[d].status = "none")
      BY DEF ExclInv, DocExcl
    <2>2. CASE dte[d].owner = r
      BY <1>1, <2>1, <2>2 DEF DocExcl, Reported
    <2>3. CASE dte[d].owner # r
      BY <2>1, <2>3 DEF DocExcl, Final
    <2> QED
      BY <2>2, <2>3
  <1> QED
    BY <1>2, <1>3, <1>4, <1>5, <1>6, <1>7 DEF ExclInv

\* A worker's step that also changes its own request's document, or creates it.
LEMMA DocFrame ==
  ASSUME ExclInv, RefsInv', NEW w \in Workers, job[w].pc # "idle",
         NEW d \in DteIds,
         \/ row[job[w].req].dteId = d
         \/ row[job[w].req].dteId = NoDte /\ dte[d].status = "none",
         \A v \in Workers : v # w => job'[v] = job[v],
         \A q \in Requests : q # job[w].req => row'[q] = row[q] /\ sessions'[q] = sessions[q],
         \A e \in DteIds : e # d => dte'[e] = dte[e] /\ sii'[e] = sii[e],
         UNCHANGED <<todo, poll, snap>>,
         dte'[d].owner = job[w].req, dte'[d].status \notin Final \cup {"none"},
         0 < Len(sii'[d]) => row'[job[w].req].started,
         row'[job[w].req].dteId = d, row'[job[w].req].state = "processing",
         sessions'[job[w].req] <= 1,
         sessions'[job[w].req] = 1 => row'[job[w].req].started,
         job'[w].req = job[w].req, JobExcl(w)'
  PROVE  ExclInv'
  <1> DEFINE r == job[w].req
  <1>1. /\ r \in Requests /\ row[r].state = "processing" /\ r \notin todo[w]
        /\ \A v \in Workers : v # w => job[v].req # r /\ r \notin todo[v]
        /\ \A p \in Pollers : poll[p].pc # "idle" => poll[p].req # r
    BY WorkerAlone
  <1>2. d # NoDte /\ \A e \in DteIds : e # NoDte
    BY NullsAssumption
  <1>3. \A q \in Requests : q # r => row[q].dteId # d
    BY <1>1, <1>2 DEF ExclInv, RowExcl
  <1>4. ASSUME NEW v \in Workers PROVE JobExcl(v)'
    <2>1. CASE v # w
      <3>1. JobExcl(v) /\ JobOK(v) /\ job[v].req # r
        BY <1>1, <2>1 DEF ExclInv, RefsInv
      <3>2. job[v].pc # "idle" => job[v].req \in Requests /\ job[v].fresh.dteId # d
        BY <1>3, <3>1 DEF JobExcl, JobOK
      <3>3. job[v].pc \in {"persist", "submit"} =>
              dte'[job[v].fresh.dteId] = dte[job[v].fresh.dteId]
        BY <3>1, <3>2 DEF JobOK
      <3> QED
        BY <2>1, <3>1, <3>2, <3>3 DEF JobExcl
    <2> QED
      BY <2>1
  <1>5. ASSUME NEW v \in Workers PROVE TodoExcl(v)'
    <2>1. TodoExcl(v) /\ r \notin todo[v] /\ todo[v] \subseteq Requests
      BY <1>1 DEF ExclInv, RefsInv, TypeOK
    <2> QED
      BY <2>1 DEF TodoExcl
  <1>6. HeldOnce'
    <2>1. \A v \in Workers : Held(v)' \subseteq Held(v)
      BY DEF Held
    <2> QED
      BY <2>1 DEF ExclInv, HeldOnce
  <1>7. ASSUME NEW p \in Pollers PROVE PollExcl(p)'
    <2>1. PollExcl(p) /\ PollOK(p) /\ (poll[p].pc # "idle" => poll[p].req # r)
      BY <1>1 DEF ExclInv, RefsInv
    <2> QED
      BY <2>1 DEF PollExcl, PollOK
  <1>8. ASSUME NEW q \in Requests PROVE RowExcl(q)'
    <2>1. RowExcl(q) /\ row[q].dteId \in DteIds \cup {NoDte}
      BY DEF ExclInv, RefsInv, TypeOK, Row
    <2>2. CASE q = r
      BY <1>2, <2>1, <2>2 DEF RowExcl, Reported
    <2>3. CASE q # r
      <3>1. row[q].dteId # NoDte => dte'[row[q].dteId] = dte[row[q].dteId]
        BY <1>3, <2>1, <2>3
      <3> QED
        BY <2>1, <2>3, <3>1 DEF RowExcl
    <2> QED
      BY <2>2, <2>3
  <1>9. ASSUME NEW e \in DteIds PROVE DocExcl(e)'
    <2>1. DocExcl(e)
      BY DEF ExclInv
    <2>2. CASE e = d
      BY <1>1, <2>2 DEF DocExcl
    <2>3. CASE e # d
      <3>1. dte[e].status # "none" => dte[e].owner \in Requests /\ dte[e].owner # r
        BY <1>2, <2>1, <2>3 DEF DocExcl
      <3> QED
        BY <2>1, <2>3, <3>1 DEF DocExcl, Final
    <2> QED
      BY <2>2, <2>3
  <1> QED
    BY <1>4, <1>5, <1>6, <1>7, <1>8, <1>9 DEF ExclInv

\* Entering the queue and the clock.
LEMMA EnqueueExcl ==
  ASSUME Exclusive, ExclInv, RefsInv',
         NEW r \in Requests, Enqueue(r) \/ LeaseExpires(r)
  PROVE  ExclInv'
  <1>1. UNCHANGED <<dte, sii, job, todo, poll, snap, sessions>>
    BY DEF Enqueue, LeaseExpires
  <1>2. \A q \in Requests : q # r => row'[q] = row[q]
    BY DEF Enqueue, LeaseExpires, ExclInv, RefsInv, TypeOK
  <1>3. \/ /\ row[r].state = "none" /\ row'[r].state = "queued"
           /\ row'[r].dteId = NoDte /\ row'[r].started = FALSE
        \/ /\ row[r].state = "processing" /\ row'[r].state = "processing"
           /\ row'[r].dteId = row[r].dteId /\ row'[r].started = row[r].started
           /\ \A w \in Workers : r \notin Held(w)
    <2>1. row[r] \in Row
      BY DEF ExclInv, RefsInv, TypeOK
    <2>2. CASE Enqueue(r)
      BY <2>2 DEF Enqueue, NewRow, NoRow, ExclInv, RefsInv, TypeOK
    <2>3. CASE LeaseExpires(r)
      BY <2>1, <2>3 DEF LeaseExpires, Row, Exclusive, ExclInv, RefsInv, TypeOK
    <2> QED
      BY <2>2, <2>3
  <1>4. \A w \in Workers : r \notin Held(w)
    BY <1>3 DEF ExclInv, JobExcl, TodoExcl, RefsInv, JobOK, Held
  <1>5. \A w \in Workers : JobExcl(w)' /\ TodoExcl(w)'
    <2> SUFFICES ASSUME NEW w \in Workers PROVE JobExcl(w)' /\ TodoExcl(w)'
      OBVIOUS
    <2>1. /\ JobExcl(w) /\ TodoExcl(w) /\ JobOK(w) /\ todo[w] \subseteq Requests
          /\ r \notin todo[w] /\ (job[w].pc # "idle" => job[w].req # r)
      BY <1>4, NullsAssumption DEF ExclInv, RefsInv, TypeOK, Held, JobOK
    <2> QED
      BY <1>1, <1>2, <2>1 DEF JobExcl, TodoExcl, JobOK
  <1>6. HeldOnce'
    BY <1>1 DEF ExclInv, HeldOnce, Held
  <1>7. \A p \in Pollers : PollExcl(p)'
    BY <1>1, <1>2, <1>3 DEF ExclInv, RefsInv, PollExcl, PollOK, Reported
  <1>8. \A q \in Requests : RowExcl(q)'
    <2> SUFFICES ASSUME NEW q \in Requests PROVE RowExcl(q)'
      OBVIOUS
    <2>1. RowExcl(q)
      BY DEF ExclInv
    <2> QED
      BY <1>1, <1>2, <1>3, <2>1 DEF RowExcl, Reported
  <1>9. \A d \in DteIds : DocExcl(d)'
    <2> SUFFICES ASSUME NEW d \in DteIds PROVE DocExcl(d)'
      OBVIOUS
    <2>1. DocExcl(d) /\ RowExcl(r) /\ d # NoDte
      BY NullsAssumption DEF ExclInv
    <2> QED
      BY <1>1, <1>2, <1>3, <2>1 DEF DocExcl, RowExcl, Reported, Final
  <1> QED
    BY <1>5, <1>6, <1>7, <1>8, <1>9 DEF ExclInv

\* A claim takes rows nobody holds.
LEMMA ClaimExcl ==
  ASSUME ExclInv, RefsInv', NEW w \in Workers, NEW S \in SUBSET Requests, Claim(w, S)
  PROVE  ExclInv'
  <1>1. /\ UNCHANGED <<dte, sii, job, poll, snap, sessions>>
        /\ job[w].pc = "idle" /\ todo[w] = {} /\ todo' = [todo EXCEPT ![w] = S]
    BY DEF Claim
  <1>2. \A q \in Requests : /\ q \notin S => row'[q] = row[q]
                            /\ row'[q].dteId = row[q].dteId /\ row'[q].started = row[q].started
    BY DEF Claim, ExclInv, RefsInv, TypeOK, Row
  <1>3. \A q \in S : row'[q].state = "processing" /\ ~row'[q].due
    BY DEF Claim, ExclInv, RefsInv, TypeOK, Row
  <1>4. \A q \in S : row[q].state \in {"queued", "processing"}
                     /\ (row[q].state = "processing" => row[q].due)
    BY DEF Claim, Due
  <1>5. \A v \in Workers : S \cap Held(v) = {}
    BY <1>4 DEF ExclInv, JobExcl, TodoExcl, RefsInv, JobOK, Held
  <1>6. job[w].req = NoReq /\ NoReq \notin S
    BY <1>1, NullsAssumption DEF ExclInv, JobExcl
  <1>7. \A v \in Workers : v # w => todo'[v] = todo[v]
    BY <1>1 DEF ExclInv, RefsInv, TypeOK
  <1>8. todo'[w] = S
    BY <1>1 DEF ExclInv, RefsInv, TypeOK
  <1>9. \A v \in Workers : JobExcl(v)' /\ TodoExcl(v)'
    <2> SUFFICES ASSUME NEW v \in Workers PROVE JobExcl(v)' /\ TodoExcl(v)'
      OBVIOUS
    <2>1. JobExcl(v) /\ TodoExcl(v) /\ JobOK(v) /\ todo[v] \subseteq Requests
      BY DEF ExclInv, RefsInv, TypeOK
    <2>2. job[v].pc # "idle" => job[v].req \in Requests \ S
      BY <1>5, <2>1, NullsAssumption DEF Held, JobOK
    <2>3. JobExcl(v)'
      BY <1>1, <1>2, <2>1, <2>2 DEF JobExcl
    <2>4. CASE v = w
      BY <1>1, <1>3, <1>6, <1>8, <2>3, <2>4 DEF TodoExcl
    <2>5. CASE v # w
      <3>1. todo[v] \cap S = {}
        BY <1>5 DEF Held
      <3> QED
        BY <1>1, <1>2, <1>7, <2>1, <2>3, <2>5, <3>1 DEF TodoExcl
    <2> QED
      BY <2>4, <2>5
  <1>10. HeldOnce'
    <2>1. \A v \in Workers : v # w => Held(v)' = Held(v)
      BY <1>1, <1>7 DEF Held
    <2>2. Held(w)' = S
      BY <1>1, <1>6, <1>8 DEF Held
    <2> QED
      BY <1>5, <2>1, <2>2 DEF ExclInv, HeldOnce
  <1>11. \A p \in Pollers : PollExcl(p)'
    BY <1>1, <1>2, <1>4 DEF ExclInv, RefsInv, PollExcl, PollOK, Reported
  <1>12. \A q \in Requests : RowExcl(q)'
    <2> SUFFICES ASSUME NEW q \in Requests PROVE RowExcl(q)'
      OBVIOUS
    <2>1. RowExcl(q)
      BY DEF ExclInv
    <2> QED
      BY <1>1, <1>2, <1>3, <2>1 DEF RowExcl, Reported
  <1>13. \A d \in DteIds : DocExcl(d)'
    <2> SUFFICES ASSUME NEW d \in DteIds PROVE DocExcl(d)'
      OBVIOUS
    <2>1. DocExcl(d)
      BY DEF ExclInv
    <2> QED
      BY <1>1, <1>2, <1>4, <2>1 DEF DocExcl, Reported, Final
  <1> QED
    BY <1>9, <1>10, <1>11, <1>12, <1>13 DEF ExclInv

\* A worker takes the next request of its batch.
LEMMA LoadExcl ==
  ASSUME ExclInv, RefsInv', NEW w \in Workers, NEW r \in Requests, Load(w, r)
  PROVE  ExclInv'
  <1>1. /\ UNCHANGED <<row, dte, sii, poll, snap, sessions>>
        /\ job[w].pc = "idle" /\ r \in todo[w] /\ todo' = [todo EXCEPT ![w] = @ \ {r}]
    BY DEF Load
  <1>2. /\ job'[w].pc \in {"prepare", "existing"} /\ job'[w].req = r /\ job'[w].fresh = row[r]
        /\ \A v \in Workers : v # w => job'[v] = job[v]
    BY DEF Load, IdleJob, ExclInv, RefsInv, TypeOK
  <1>3. todo'[w] = todo[w] \ {r} /\ \A v \in Workers : v # w => todo'[v] = todo[v]
    BY <1>1 DEF ExclInv, RefsInv, TypeOK
  <1>4. \A v \in Workers : JobExcl(v)' /\ TodoExcl(v)'
    <2> SUFFICES ASSUME NEW v \in Workers PROVE JobExcl(v)' /\ TodoExcl(v)'
      OBVIOUS
    <2>1. JobExcl(v) /\ TodoExcl(v) /\ TodoExcl(w)
      BY DEF ExclInv
    <2>2. CASE v = w
      BY <1>1, <1>2, <1>3, <2>1, <2>2 DEF JobExcl, TodoExcl
    <2>3. CASE v # w
      BY <1>1, <1>2, <1>3, <2>1, <2>3 DEF JobExcl, TodoExcl
    <2> QED
      BY <2>2, <2>3
  <1>5. HeldOnce'
    <2>1. \A v \in Workers : Held(v)' \subseteq Held(v)
      BY <1>1, <1>2, <1>3 DEF Held
    <2> QED
      BY <2>1 DEF ExclInv, HeldOnce
  <1>6. \A p \in Pollers : PollExcl(p)'
    BY <1>1 DEF ExclInv, PollExcl
  <1>7. \A q \in Requests : RowExcl(q)'
    BY <1>1 DEF ExclInv, RowExcl
  <1>8. \A d \in DteIds : DocExcl(d)'
    BY <1>1 DEF ExclInv, DocExcl
  <1> QED
    BY <1>4, <1>5, <1>6, <1>7, <1>8 DEF ExclInv

\* The preparing transaction.
LEMMA PrepareExcl ==
  ASSUME Exclusive, ExclInv, RefsInv', NEW w \in Workers, Prepare(w)
  PROVE  ExclInv'
  <1> DEFINE r == job[w].req
  <1>1. /\ r \in Requests /\ job[w].fresh = row[r] /\ row[r] \in Row /\ job[w] \in Job
        /\ row[r].state = "processing" /\ ~row[r].due /\ job[w].pc = "prepare"
    BY WorkerAlone DEF Prepare, ExclInv, RefsInv, TypeOK
  <1>2. /\ UNCHANGED <<sii, todo, poll, snap, sessions>>
        /\ job' = [job EXCEPT ![w].pc = "mark", ![w].fresh = row'[r]]
    BY DEF Prepare, Exclusive
  <1>3. /\ job'[w].req = r /\ job'[w].pc = "mark" /\ job'[w].fresh = row'[r]
        /\ \A v \in Workers : v # w => job'[v] = job[v]
    BY <1>1, <1>2 DEF ExclInv, RefsInv, TypeOK, Job
  <1>4. CASE UNCHANGED <<row, dte>>
    <2>1. JobExcl(w)'
      BY <1>1, <1>3, <1>4 DEF JobExcl
    <2> QED
      BY <1>1, <1>2, <1>3, <1>4, <2>1, RowFrame DEF Reported
  <1>5. ASSUME NEW d \in DteIds, dte[d].status = "none", row[r].dteId = NoDte,
               dte' = [dte EXCEPT ![d] = [NoDoc EXCEPT !.status = "FIRMADO", !.owner = r]],
               row' = [row EXCEPT ![r].dteId = d]
        PROVE  ExclInv'
    <2>1. /\ row'[r].dteId = d /\ row'[r].state = "processing" /\ ~row'[r].due
          /\ row'[r].started = row[r].started
          /\ \A q \in Requests : q # r => row'[q] = row[q]
      BY <1>1, <1>5 DEF ExclInv, RefsInv, TypeOK, Row
    <2>2. /\ dte'[d].owner = r /\ dte'[d].status = "FIRMADO"
          /\ \A e \in DteIds : e # d => dte'[e] = dte[e]
      BY <1>5 DEF ExclInv, RefsInv, TypeOK, NoDoc
    <2>3. ~(0 < Len(sii[d]))
      BY <1>5 DEF ExclInv, DocExcl
    <2>4. sessions[r] <= 1 /\ (sessions[r] = 1 => row[r].started)
      BY <1>1 DEF ExclInv, RowExcl
    <2>5. JobExcl(w)'
      BY <1>1, <1>3, <2>1 DEF JobExcl
    <2> QED
      BY <1>1, <1>2, <1>3, <1>5, <2>1, <2>2, <2>3, <2>4, <2>5, DocFrame DEF Final
  <1> QED
    BY <1>4, <1>5 DEF Prepare

\* The worker's steps on its own row and job.
LEMMA TransmitExcl ==
  ASSUME ExclInv, RefsInv', NEW w \in Workers,
         \/ PrepareFails(w) \/ Retry(w) \/ Existing(w) \/ Resume(w)
         \/ Finalize(w) \/ Submit(w) \/ Quarantine(w)
         \/ Mark(w) \/ ReadDte(w) \/ \E write \in Writes : PersistFails(w, write)
  PROVE  ExclInv'
  <1> DEFINE r == job[w].req  d == row[r].dteId
  <1>0. job[w].pc # "idle"
    BY DEF PrepareFails, Retry, Existing, Resume, Finalize, Submit, Quarantine, Settle, Mark, ReadDte,
       PersistFails, Final
  <1>1. /\ r \in Requests /\ job[w].fresh = row[r] /\ row[r] \in Row /\ job[w] \in Job
        /\ row[r].state = "processing" /\ ~row[r].due /\ JobExcl(w) /\ JobOK(w) /\ RowExcl(r)
    BY <1>0, WorkerAlone DEF ExclInv, RefsInv, TypeOK
  <1>2. ASSUME NEW step \in {"retry", "quarantine", "upload", "revert", "submit", "mark"},
               job'[w].pc = step, job'[w].req = r, job'[w].fresh = job[w].fresh,
               \A v \in Workers : v # w => job'[v] = job[v],
               UNCHANGED <<row, todo, poll, snap, dte, sii, sessions>>,
               step \in {"upload", "revert"} => row[r].started,
               step = "upload" => sessions[r] = 0,
               step = "submit" => 0 < dte[d].trackId
        PROVE  ExclInv'
    <2>1. JobExcl(w)'
      BY <1>1, <1>2 DEF JobExcl
    <2> QED
      BY <1>0, <1>1, <1>2, <2>1, RowFrame DEF Reported
  <1>3. ASSUME NEW c \in Row, c.dteId = d, c.started = row[r].started,
               c.state \in {"processing", "failed"} \/ (c.state = "submitted" /\ job[w].pc = "submit"),
               row' = [row EXCEPT ![r] = c], Finish(w),
               UNCHANGED <<todo, poll, snap, dte, sii, sessions>>
        PROVE  ExclInv'
    <2>1. /\ job'[w].pc = "idle" /\ job'[w].req = NoReq
          /\ \A v \in Workers : v # w => job'[v] = job[v]
      BY <1>3 DEF Finish, IdleJob, ExclInv, RefsInv, TypeOK
    <2>2. row'[r] = c /\ \A q \in Requests : q # r => row'[q] = row[q]
      BY <1>1, <1>3 DEF ExclInv, RefsInv, TypeOK
    <2>3. JobExcl(w)'
      BY <2>1 DEF JobExcl
    <2>4. c.state = "submitted" => d # NoDte /\ 0 < dte[d].trackId
      <3>1. job[w].pc = "submit" => d \in DteIds /\ 0 < dte[d].trackId
        BY <1>1 DEF JobExcl, JobOK
      <3> QED
        BY <1>3, <3>1, NullsAssumption
    <2> QED
      BY <1>0, <1>1, <1>3, <2>1, <2>2, <2>3, <2>4, RowFrame DEF Reported
  <1>4. CASE PrepareFails(w)
    BY <1>1, <1>2, <1>4 DEF PrepareFails, Goto, ExclInv, RefsInv, TypeOK, Job
  <1>5. CASE Retry(w)
    <2> DEFINE tried == [row[r] EXCEPT !.attempts = @ + 1]
               gone == [tried EXCEPT !.state = "failed"]
               later == [tried EXCEPT !.due = FALSE]
    <2>1. /\ gone \in Row /\ gone.dteId = d /\ gone.started = row[r].started
          /\ gone.state = "failed"
          /\ later \in Row /\ later.dteId = d /\ later.started = row[r].started
          /\ later.state = "processing"
      <3>1. /\ tried \in Row /\ tried.dteId = d /\ tried.started = row[r].started
            /\ tried.state = "processing"
        BY <1>1 DEF Row
      <3> HIDE DEF tried
      <3> QED
        BY <3>1 DEF Row, States
    <2>2. row' = [row EXCEPT ![r] = gone] \/ row' = [row EXCEPT ![r] = later]
      <3>1. ScheduleRetry(r, row[r])
        BY <1>1, <1>5 DEF Retry
      <3>2. <<row[r].state, "failed">> \in Allowed
        BY <1>1 DEF Allowed
      <3> QED
        BY <3>1, <3>2 DEF ScheduleRetry, ApplyState
    <2>3. Finish(w) /\ UNCHANGED <<todo, poll, snap, dte, sii, sessions>>
      BY <1>5 DEF Retry
    <2> HIDE DEF gone, later
    <2> QED
      BY <1>3, <2>1, <2>2, <2>3
  <1>6. CASE Existing(w)
    <2>1. d \in DteIds /\ dte[d].owner = r /\ dte[d].trackId \in Nat
      <3>1. d \in DteIds
        BY <1>1, <1>6 DEF Existing, JobOK
      <3>2. dte[d] \in Dte /\ d # NoDte
        BY <3>1, NullsAssumption DEF ExclInv, RefsInv, TypeOK
      <3> QED
        BY <1>1, <3>1, <3>2 DEF RowExcl, Dte
    <2>2. dte[d].status \notin Final
      BY <1>1, <2>1 DEF ExclInv, DocExcl, Reported
    <2>3. /\ Goto(w, IF dte[d].trackId # 0 THEN "submit" ELSE "mark")
          /\ UNCHANGED <<row, todo, poll, snap, dte, sii, sessions>>
      BY <1>1, <1>6, <2>2 DEF Existing
    <2>4. /\ job'[w].pc = (IF dte[d].trackId # 0 THEN "submit" ELSE "mark")
          /\ job'[w].req = r /\ job'[w].fresh = job[w].fresh
          /\ \A v \in Workers : v # w => job'[v] = job[v]
      BY <1>1, <2>3 DEF Goto, ExclInv, RefsInv, TypeOK, Job
    <2>5. CASE dte[d].trackId # 0
      <3>1. 0 < dte[d].trackId
        BY <2>1, <2>5
      <3> QED
        BY <1>2, <2>3, <2>4, <2>5, <3>1
    <2>6. CASE dte[d].trackId = 0
      BY <1>2, <2>3, <2>4, <2>6
    <2> QED
      BY <2>5, <2>6
  <1>7. ASSUME NEW new \in {"submitted", "failed"}, NEW step,
               step = "submit" \/ new = "failed", Settle(w, step, new)
        PROVE  ExclInv'
    <2> DEFINE c == [row[r] EXCEPT !.state = new]
    <2>1. c \in Row /\ c.dteId = d /\ c.started = row[r].started /\ c.state = new
      BY <1>1 DEF Row, States
    <2>2. row' = [row EXCEPT ![r] = c]
      <3>1. <<row[r].state, new>> \in Allowed
        BY <1>1 DEF Allowed
      <3> QED
        BY <1>1, <1>7, <3>1 DEF Settle, ApplyState
    <2>3. Finish(w) /\ job[w].pc = step /\ UNCHANGED <<todo, poll, snap, dte, sii, sessions>>
      BY <1>7 DEF Settle
    <2> HIDE DEF c
    <2> QED
      BY <1>3, <1>7, <2>1, <2>2, <2>3
  <1>8. CASE Submit(w) \/ Quarantine(w)
    BY <1>7, <1>8 DEF Submit, Quarantine
  <1>9. CASE Resume(w) \/ Finalize(w)
    BY <1>1, <1>9 DEF Resume, Finalize, Settle, JobExcl
  <1>10. CASE Mark(w)
    <2>1. CASE row[r].started
      BY <1>1, <1>2, <1>10, <2>1 DEF Mark, Goto, ExclInv, RefsInv, TypeOK, Job
    <2>2. CASE ~row[r].started
      <3> DEFINE c == [row[r] EXCEPT !.started = TRUE]
      <3>1. /\ c \in Row /\ c.dteId = d /\ c.started = TRUE /\ c.state = "processing" /\ ~c.due
        BY <1>1 DEF Row
      <3>2. row' = [row EXCEPT ![r] = c]
        BY <1>1, <1>10, <2>2 DEF Mark
      <3>3. job'[w].req = r /\ job'[w].pc = "read" /\ job'[w].fresh = c
            /\ \A v \in Workers : v # w => job'[v] = job[v]
        <4> DEFINE j == [job[w] EXCEPT !.pc = "read", !.fresh = c]
        <4>1. job' = [job EXCEPT ![w] = j]
          BY <1>1, <1>10, <2>2 DEF Mark, ExclInv, RefsInv, TypeOK
        <4>2. j.req = r /\ j.pc = "read" /\ j.fresh = c
          BY <1>1 DEF Job
        <4> HIDE DEF j, c
        <4> QED
          BY <4>1, <4>2 DEF ExclInv, RefsInv, TypeOK
      <3>4. UNCHANGED <<todo, poll, snap, dte, sii, sessions>>
        BY <1>10 DEF Mark
      <3> HIDE DEF c
      <3>5. row'[r] = c /\ \A q \in Requests : q # r => row'[q] = row[q]
        BY <1>1, <3>2 DEF ExclInv, RefsInv, TypeOK
      <3>6. sessions[r] = 0
        <4>1. sessions[r] \in Nat
          BY <1>1 DEF ExclInv, RefsInv, TypeOK
        <4> QED
          BY <1>1, <2>2, <4>1 DEF RowExcl
      <3>7. JobExcl(w)'
        BY <3>1, <3>3, <3>4, <3>5, <3>6 DEF JobExcl
      <3> QED
        BY <1>0, <1>1, <3>1, <3>3, <3>4, <3>5, <3>7, RowFrame DEF Reported
    <2> QED
      BY <2>1, <2>2
  <1>11. CASE ReadDte(w)
    <2>1. row[r].started /\ sessions[r] = 0
      BY <1>1, <1>11 DEF ReadDte, JobExcl
    <2>2. /\ job'[w].pc \in {"upload", "quarantine"} /\ job'[w].req = r
          /\ job'[w].fresh = job[w].fresh /\ \A v \in Workers : v # w => job'[v] = job[v]
      BY <1>1, <1>11 DEF ReadDte, Goto, ExclInv, RefsInv, TypeOK, Job
    <2> QED
      BY <1>2, <1>11, <2>1, <2>2 DEF ReadDte
  <1>12. ASSUME NEW write \in Writes, PersistFails(w, write) PROVE ExclInv'
    <2>1. row[r].started
      BY <1>1, <1>12 DEF PersistFails, JobExcl
    <2>2. /\ job'[w].pc = "revert" /\ job'[w].req = r
          /\ job'[w].fresh = job[w].fresh /\ \A v \in Workers : v # w => job'[v] = job[v]
      BY <1>1, <1>12 DEF PersistFails, ExclInv, RefsInv, TypeOK, Job
    <2> QED
      BY <1>2, <1>12, <2>1, <2>2 DEF PersistFails
  <1> QED
    BY <1>4, <1>5, <1>6, <1>8, <1>9, <1>10, <1>11, <1>12

\* One POST: the first of a request's only upload, or a repetition of it.
LEMMA UploadExcl ==
  ASSUME ExclInv, RefsInv', NEW w \in Workers, Upload(w)
  PROVE  ExclInv'
  <1> DEFINE r == job[w].req  d == row[r].dteId
  <1>1. /\ r \in Requests /\ job[w].fresh = row[r] /\ row[r] \in Row /\ job[w] \in Job
        /\ row[r].state = "processing" /\ ~row[r].due /\ job[w].pc = "upload"
        /\ JobExcl(w) /\ RowExcl(r)
    BY WorkerAlone DEF Upload, ExclInv, RefsInv, TypeOK
  <1>2. d \in DteIds /\ Len(sii[d]) \in Nat /\ sessions[r] \in Nat /\ job[w].tries \in Nat
    BY <1>1, LengthsAreNat DEF ExclInv, RefsInv, JobOK, TypeOK, Job
  <1>3. row[r].started /\ dte[d].owner = r /\ dte[d].status \notin Final \cup {"none"}
    <2>1. row[r].started
      BY <1>1 DEF JobExcl
    <2>2. dte[d].owner = r /\ dte[d].status # "none"
      BY <1>1, <1>2, NullsAssumption DEF RowExcl
    <2>3. dte[d].status \notin Final
      BY <1>1, <1>2, <2>2 DEF ExclInv, DocExcl, Reported
    <2> QED
      BY <2>1, <2>2, <2>3
  <1>4. /\ UNCHANGED <<row, dte, todo, poll, snap>>
        /\ \A e \in DteIds : e # d => sii'[e] = sii[e]
    BY <1>1 DEF Upload, ExclInv, RefsInv, TypeOK
  <1>5. sessions'[r] <= 1 /\ \A q \in Requests : q # r => sessions'[q] = sessions[q]
    <2>1. /\ sessions'[r] = sessions[r] + (IF job[w].tries = 0 THEN 1 ELSE 0)
          /\ \A q \in Requests : q # r => sessions'[q] = sessions[q]
      BY <1>1 DEF Upload, ExclInv, RefsInv, TypeOK
    <2>2. job[w].tries = 0 => sessions[r] = 0
      BY <1>1 DEF JobExcl
    <2>3. sessions[r] <= 1
      BY <1>1 DEF RowExcl
    <2> QED
      BY <1>2, <2>1, <2>2, <2>3
  <1>6. \A v \in Workers : v # w => job'[v] = job[v]
    BY DEF Upload, Goto, ExclInv, RefsInv, TypeOK
  <1>7. /\ job'[w].req = r /\ job'[w].fresh = row[r]
        /\ \/ job'[w].pc = "persist" /\ 0 < job'[w].track /\ "dte" \in job'[w].pending
           \/ job'[w].pc = "revert"
           \/ job'[w].pc = "upload" /\ job'[w].tries # 0
    <2> DEFINE n == Len(sii[d]) + 1
    <2>1. \/ job' = [job EXCEPT ![w].pc = "persist", ![w].track = n, ![w].pending = Writes]
          \/ job' = [job EXCEPT ![w].pc = "revert"]
          \/ job' = [job EXCEPT ![w].tries = @ + 1]
      BY <1>1 DEF Upload, Goto
    <2>2. 0 < n /\ job[w].tries + 1 # 0 /\ "dte" \in Writes
      BY <1>2 DEF Writes
    <2> HIDE DEF n
    <2>3. job \in [Workers -> Job]
      BY DEF ExclInv, RefsInv, TypeOK
    <2> QED
      BY <1>1, <2>1, <2>2, <2>3 DEF Job
  <1>8. JobExcl(w)'
    BY <1>1, <1>3, <1>4, <1>7 DEF JobExcl
  <1> QED
    BY <1>1, <1>2, <1>3, <1>4, <1>5, <1>6, <1>7, <1>8, DocFrame

\* The writes that follow the answer.
LEMMA PersistExcl ==
  ASSUME ExclInv, RefsInv', NEW w \in Workers,
         Revert(w) \/ \E write \in Writes : Persist(w, write)
  PROVE  ExclInv'
  <1> DEFINE r == job[w].req  d == row[r].dteId
  <1>0. job[w].pc \in {"persist", "revert"}
    BY DEF Revert, Persist
  <1>1. /\ r \in Requests /\ job[w].fresh = row[r] /\ row[r] \in Row /\ job[w] \in Job
        /\ row[r].state = "processing" /\ ~row[r].due
        /\ JobExcl(w) /\ RowExcl(r)
    BY <1>0, WorkerAlone DEF ExclInv, RefsInv, TypeOK
  <1>2. d \in DteIds /\ dte[d] \in Dte /\ sessions[r] <= 1 /\ job[w].track \in Nat
    BY <1>0, <1>1 DEF ExclInv, RefsInv, JobOK, TypeOK, RowExcl, Job
  <1>3. row[r].started /\ dte[d].owner = r /\ dte[d].status \notin Final \cup {"none"}
    <2>1. row[r].started
      BY <1>0, <1>1 DEF JobExcl
    <2>2. dte[d].owner = r /\ dte[d].status # "none"
      BY <1>1, <1>2, NullsAssumption DEF RowExcl
    <2>3. dte[d].status \notin Final
      BY <1>1, <1>2, <2>2 DEF ExclInv, DocExcl, Reported
    <2> QED
      BY <2>1, <2>2, <2>3
  <1>4. UNCHANGED <<row, sii, todo, poll, snap, sessions>>
    BY DEF Revert, Persist
  <1>5. \A v \in Workers : v # w => job'[v] = job[v]
    BY DEF Revert, Persist, Goto, ExclInv, RefsInv, TypeOK
  <1>6. ASSUME NEW doc \in Dte, dte' = [dte EXCEPT ![d] = doc], doc.owner = r,
               doc.status \notin Final \cup {"none"},
               job'[w].req = r, JobExcl(w)'
        PROVE  ExclInv'
    <2>1. dte'[d] = doc /\ \A e \in DteIds : e # d => dte'[e] = dte[e]
      BY <1>2, <1>6 DEF ExclInv, RefsInv, TypeOK
    <2>2. job[w].pc # "idle" /\ row[r].dteId = d
      BY <1>0
    <2>3. /\ \A q \in Requests : q # r => row'[q] = row[q] /\ sessions'[q] = sessions[q]
          /\ \A e \in DteIds : e # d => dte'[e] = dte[e] /\ sii'[e] = sii[e]
          /\ UNCHANGED <<todo, poll, snap>>
      BY <1>4, <2>1
    <2>4. dte'[d].owner = r /\ dte'[d].status \notin Final \cup {"none"}
      BY <1>6, <2>1
    <2>5. /\ row'[r].started /\ row'[r].dteId = d /\ row'[r].state = "processing"
          /\ sessions'[r] <= 1
      BY <1>1, <1>2, <1>3, <1>4
    <2>6. job'[w].req = r /\ JobExcl(w)'
      BY <1>6
    <2> HIDE DEF r, d
    <2> QED
      BY <1>2, <1>5, <2>2, <2>3, <2>4, <2>5, <2>6, DocFrame DEF r, d
  <1>7. CASE Revert(w)
    <2>1. job'[w].req = r /\ job'[w].fresh = row[r] /\ job'[w].pc = "quarantine"
      BY <1>1, <1>7 DEF Revert, Goto, ExclInv, RefsInv, TypeOK, Job
    <2>2. JobExcl(w)'
      BY <1>1, <1>4, <2>1 DEF JobExcl
    <2>3. CASE dte' = dte
      <3>1. dte' = [dte EXCEPT ![d] = dte[d]]
        BY <2>3 DEF ExclInv, RefsInv, TypeOK
      <3> QED
        BY <1>2, <1>3, <1>6, <2>1, <2>2, <3>1
    <2> DEFINE e == job[w].fresh.dteId
               back == [dte[e] EXCEPT !.status = "BORRADOR", !.trackId = job[w].track]
               doc(late) == [back EXCEPT
                 !.status = IF "dte" \in late THEN "ENVIADO" ELSE @,
                 !.submissions = IF "submission" \in late THEN @ \cup {job[w].track} ELSE @]
    <2>4. back \in Dte /\ back.owner = r /\ back.status = "BORRADOR" /\ e = d
      BY <1>1, <1>2, <1>3 DEF Dte, DteStatus
    <2>5. ASSUME NEW late \in SUBSET job[w].pending, dte' = [dte EXCEPT ![e] = doc(late)]
          PROVE  ExclInv'
      <3> HIDE DEF back
      <3>1. doc(late) \in Dte /\ doc(late).owner = r /\ doc(late).status \in {"ENVIADO", "BORRADOR"}
        BY <1>2, <2>4 DEF Dte, DteStatus
      <3> HIDE DEF doc
      <3>2. doc(late).status \notin Final \cup {"none"}
        BY <3>1 DEF Final
      <3> QED
        BY <1>6, <2>1, <2>2, <2>4, <2>5, <3>1, <3>2
    <2>6. dte' = dte \/ \E late \in SUBSET job[w].pending : dte' = [dte EXCEPT ![e] = doc(late)]
      BY <1>7 DEF Revert
    <2> HIDE DEF doc, e
    <2> QED
      BY <2>3, <2>5, <2>6
  <1>8. ASSUME NEW write \in Writes, Persist(w, write) PROVE ExclInv'
    <2> DEFINE doc == Wrote(dte[d], job[w].track, write)
               rest == job[w].pending \ {write}
    <2>1. /\ doc \in Dte /\ doc.owner = r /\ doc.status \in {dte[d].status, "ENVIADO"}
          /\ write = "dte" => doc.trackId = job[w].track
          /\ write # "dte" => doc.trackId = dte[d].trackId
      <3>1. CASE write = "dte"
        BY <1>2, <1>3, <3>1 DEF Wrote, Dte, DteStatus
      <3>2. CASE write = "submission"
        BY <1>2, <1>3, <3>2 DEF Wrote, Dte
      <3>3. CASE write = "audit"
        BY <1>2, <1>3, <3>3 DEF Wrote
      <3> QED
        BY <1>8, <3>1, <3>2, <3>3 DEF Writes
    <2>2. dte' = [dte EXCEPT ![d] = doc] /\ write \in job[w].pending /\ job[w].pc = "persist"
      BY <1>1, <1>8 DEF Persist
    <2>3. job' = [job EXCEPT ![w].pending = rest,
                             ![w].pc = IF rest = {} THEN "submit" ELSE "persist"]
      BY <1>8 DEF Persist
    <2> HIDE DEF doc, rest
    <2>4. /\ job'[w].req = r /\ job'[w].fresh = row[r] /\ job'[w].track = job[w].track
          /\ job'[w].pending = rest
          /\ job'[w].pc = IF rest = {} THEN "submit" ELSE "persist"
      BY <1>1, <2>3 DEF ExclInv, RefsInv, TypeOK, Job
    <2>5. dte'[d] = doc
      BY <1>2, <2>2 DEF ExclInv, RefsInv, TypeOK
    <2>6. 0 < job[w].track /\ ("dte" \notin rest => doc.trackId = job[w].track)
      <3>1. 0 < job[w].track /\ ("dte" \notin job[w].pending => dte[d].trackId = job[w].track)
        BY <1>1, <2>2 DEF JobExcl
      <3> QED
        BY <2>1, <3>1 DEF rest
    <2>7. JobExcl(w)'
      BY <1>1, <1>3, <1>4, <2>4, <2>5, <2>6 DEF JobExcl
    <2>8. doc.status \notin Final \cup {"none"}
      BY <1>3, <2>1 DEF Final
    <2> QED
      BY <1>6, <2>1, <2>2, <2>4, <2>7, <2>8
  <1> QED
    BY <1>7, <1>8

\* A dying worker and a logged error leave rows claimed by nobody.
LEMMA FailureExcl ==
  ASSUME ExclInv, RefsInv', NEW w \in Workers, Crash(w) \/ Abandon(w)
  PROVE  ExclInv'
  <1>1. /\ job'[w].pc = "idle" /\ job'[w].req = NoReq
        /\ \A v \in Workers : v # w => job'[v] = job[v]
    BY DEF Crash, Abandon, Finish, IdleJob, ExclInv, RefsInv, TypeOK
  <1>2. UNCHANGED <<row, dte, sii, poll, snap, sessions>>
    BY DEF Crash, Abandon
  <1>3. \A v \in Workers : todo'[v] = todo[v] \/ todo'[v] = {}
    BY DEF Crash, Abandon, ExclInv, RefsInv, TypeOK
  <1>4. \A v \in Workers : JobExcl(v)' /\ TodoExcl(v)'
    <2> SUFFICES ASSUME NEW v \in Workers PROVE JobExcl(v)' /\ TodoExcl(v)'
      OBVIOUS
    <2>1. JobExcl(v) /\ TodoExcl(v) /\ NoReq \notin todo[v]
      BY NullsAssumption DEF ExclInv, RefsInv, TypeOK
    <2>2. CASE v = w
      BY <1>1, <1>2, <1>3, <2>1, <2>2 DEF JobExcl, TodoExcl
    <2>3. CASE v # w
      BY <1>1, <1>2, <1>3, <2>1, <2>3 DEF JobExcl, TodoExcl
    <2> QED
      BY <2>2, <2>3
  <1>5. HeldOnce'
    <2>1. \A v \in Workers : Held(v)' \subseteq Held(v)
      BY <1>1, <1>3 DEF Held
    <2> QED
      BY <2>1 DEF ExclInv, HeldOnce
  <1> QED
    BY <1>2, <1>4, <1>5 DEF ExclInv, PollExcl, RowExcl, DocExcl

\* The SII's verdict is no news to anyone yet.
LEMMA VerdictExcl ==
  ASSUME ExclInv, RefsInv', NEW d \in DteIds, NEW k \in 1..Len(sii[d]), NEW v \in Final,
         SiiDecides(d, k, v)
  PROVE  ExclInv'
  <1>1. UNCHANGED <<row, dte, job, todo, poll, snap, sessions>>
    BY DEF SiiDecides
  <1>2. \A e \in DteIds : Len(sii'[e]) = Len(sii[e])
    BY VerdictKeepsLength DEF ExclInv, RefsInv
  <1>3. \A e \in DteIds : DocExcl(e)'
    BY <1>1, <1>2 DEF ExclInv, DocExcl
  <1> QED
    BY <1>1, <1>3 DEF ExclInv, JobExcl, TodoExcl, HeldOnce, Held, PollExcl, RowExcl

\* What a busy poller may rely on: its document is its request's own, and no
\* worker is at the request.
LEMMA PollerAlone ==
  ASSUME ExclInv, NEW p \in Pollers, poll[p].pc # "idle"
  PROVE  LET r == poll[p].req  d == poll[p].copy.dteId IN
         /\ r \in Requests /\ d \in DteIds /\ row[r].dteId = d /\ row[r] \in Row
         /\ poll[p] \in Poll /\ poll[p].copy.started = row[r].started
         /\ row[r].state \in Reported
         /\ dte[d] \in Dte /\ dte[d].owner = r /\ dte[d].status # "none"
         /\ poll[p].pc # "read" => 0 < poll[p].track
         /\ \A w \in Workers : /\ r \notin todo[w]
                               /\ job[w].pc # "idle" => /\ job[w].req # r
                                                        /\ job[w].fresh.dteId # d
  <1> DEFINE r == poll[p].req  d == poll[p].copy.dteId
  <1>1. r \in Requests /\ d \in DteIds /\ (poll[p].pc # "read" => 0 < poll[p].track)
    BY DEF ExclInv, RefsInv, PollOK
  <1>2. row[r].dteId = d /\ row[r].state \in Reported /\ poll[p].copy.started = row[r].started
    BY DEF ExclInv, PollExcl
  <1>3. row[r] \in Row /\ poll[p] \in Poll /\ dte[d] \in Dte
    BY <1>1 DEF ExclInv, RefsInv, TypeOK
  <1>4. dte[d].owner = r /\ dte[d].status # "none"
    BY <1>1, <1>2, NullsAssumption DEF ExclInv, RowExcl
  <1>5. ASSUME NEW w \in Workers
        PROVE  /\ r \notin todo[w]
               /\ job[w].pc # "idle" => job[w].req # r /\ job[w].fresh.dteId # d
    <2>1. r \notin todo[w]
      BY <1>2 DEF ExclInv, TodoExcl, Reported
    <2>2. ASSUME job[w].pc # "idle" PROVE job[w].req # r /\ job[w].fresh.dteId # d
      <3>1. job[w].req \in Requests /\ row[job[w].req].state = "processing"
            /\ job[w].fresh = row[job[w].req] /\ RowExcl(job[w].req)
        BY <2>2, WorkerAlone DEF ExclInv
      <3>2. job[w].req # r
        BY <1>2, <3>1 DEF Reported
      <3> QED
        BY <1>1, <1>4, <3>1, <3>2, NullsAssumption DEF RowExcl
    <2> QED
      BY <2>1, <2>2
  <1> QED
    BY <1>1, <1>2, <1>3, <1>4, <1>5

\* A poller's steps that only read.
LEMMA PollReadExcl ==
  ASSUME ExclInv, RefsInv', NEW p \in Pollers,
         \/ \E r \in Requests : PollStart(p, r)
         \/ PollRead(p) \/ PollAsk(p) \/ PollFind(p) \/ PollFails(p)
  PROVE  ExclInv'
  <1>1. UNCHANGED <<row, dte, sii, job, todo, snap, sessions>>
    BY DEF PollStart, PollRead, PollAsk, PollFind, PollFails
  <1>2. \A q \in Pollers : q # p => poll'[q] = poll[q]
    BY DEF PollStart, PollRead, PollAsk, PollFind, PollFails, PollEnds, PollGoto, ExclInv,
       RefsInv, TypeOK
  <1>3. PollExcl(p)'
    <2>1. ASSUME NEW r \in Requests, PollStart(p, r) PROVE PollExcl(p)'
      <3>1. poll'[p].pc = "read" /\ poll'[p].req = r /\ poll'[p].copy = row[r]
        BY <2>1 DEF PollStart, IdlePoll, ExclInv, RefsInv, TypeOK
      <3>2. row[r].state \in Reported
        BY <2>1 DEF PollStart, Reported
      <3> QED
        BY <1>1, <3>1, <3>2 DEF PollExcl
    <2>2. CASE PollRead(p) \/ PollAsk(p) \/ PollFind(p) \/ PollFails(p)
      <3>1. poll[p].pc # "idle"
        BY <2>2 DEF PollRead, PollAsk, PollFind, PollFails
      <3>2. poll[p] \in Poll /\ dte[poll[p].copy.dteId].status # "none" /\ PollExcl(p)
        BY <3>1, PollerAlone DEF ExclInv
      <3>3. \/ poll'[p].pc = "idle"
            \/ /\ poll'[p].req = poll[p].req /\ poll'[p].copy = poll[p].copy
               /\ poll'[p].pc = "write" => poll'[p].seen = dte[poll[p].copy.dteId].status
        <4>1. poll \in [Pollers -> Poll]
          BY DEF ExclInv, RefsInv, TypeOK
        <4>2. CASE PollRead(p)
          BY <3>2, <4>1, <4>2 DEF PollRead, PollEnds, PollGoto, IdlePoll, Poll
        <4>3. CASE PollAsk(p)
          BY <3>2, <4>1, <4>3 DEF PollAsk, PollEnds, PollGoto, IdlePoll, Poll
        <4>4. CASE PollFind(p)
          BY <3>2, <4>1, <4>4 DEF PollFind, PollEnds, PollGoto, IdlePoll, Poll
        <4>5. CASE PollFails(p)
          BY <3>2, <4>1, <4>5 DEF PollFails, PollEnds, PollGoto, IdlePoll, Poll
        <4> QED
          BY <2>2, <4>2, <4>3, <4>4, <4>5
      <3> QED
        BY <1>1, <3>1, <3>2, <3>3 DEF PollExcl
    <2> QED
      BY <2>1, <2>2
  <1>4. \A q \in Pollers : PollExcl(q)'
    BY <1>1, <1>2, <1>3 DEF ExclInv, PollExcl
  <1>5. /\ \A v \in Workers : JobExcl(v)' /\ TodoExcl(v)'
        /\ HeldOnce'
    BY <1>1 DEF ExclInv, JobExcl, TodoExcl, HeldOnce, Held
  <1>6. /\ \A r \in Requests : RowExcl(r)'
        /\ \A d \in DteIds : DocExcl(d)'
    BY <1>1 DEF ExclInv, RowExcl, DocExcl
  <1> QED
    BY <1>1, <1>4, <1>5, <1>6 DEF ExclInv

\* A poller writes the document of a reported request.
LEMMA PollWriteExcl ==
  ASSUME ExclInv, RefsInv', NEW p \in Pollers, PollWrite(p)
  PROVE  ExclInv'
  <1> DEFINE r == poll[p].req  d == poll[p].copy.dteId
  <1>1. /\ r \in Requests /\ d \in DteIds /\ row[r].dteId = d /\ poll[p] \in Poll
        /\ row[r].state \in Reported /\ dte[d] \in Dte /\ dte[d].owner = r /\ dte[d].status # "none"
        /\ 0 < poll[p].track
        /\ \A w \in Workers : job[w].pc # "idle" => job[w].fresh.dteId # d
    BY PollerAlone DEF PollWrite
  <1>2. poll[p].pc = "write" /\ UNCHANGED <<row, sii, job, todo, snap, sessions>>
    BY DEF PollWrite
  <1>3. /\ dte'[d].status # "none" /\ dte'[d].owner = r /\ 0 < dte'[d].trackId
        /\ \A e \in DteIds : e # d => dte'[e] = dte[e]
    <2> DEFINE s == IF poll[p].answer \in Final THEN poll[p].answer ELSE poll[p].seen
               doc == [dte[d] EXCEPT !.status = s, !.trackId = poll[p].track]
    <2>1. s # "none"
      BY <1>2 DEF ExclInv, PollExcl, Final
    <2>2. doc.status = s /\ doc.owner = r /\ doc.trackId = poll[p].track
      BY <1>1 DEF Dte
    <2>3. dte' = [dte EXCEPT ![d] = doc]
      BY DEF PollWrite
    <2> HIDE DEF s, doc
    <2> QED
      BY <1>1, <2>1, <2>2, <2>3 DEF ExclInv, RefsInv, TypeOK
  <1>4. /\ poll'[p].pc = "apply" /\ poll'[p].req = r /\ poll'[p].copy = poll[p].copy
        /\ \A q \in Pollers : q # p => poll'[q] = poll[q]
    BY <1>1 DEF PollWrite, PollGoto, ExclInv, RefsInv, TypeOK, Poll
  <1>5. \A w \in Workers : JobExcl(w)' /\ TodoExcl(w)'
    <2> SUFFICES ASSUME NEW w \in Workers PROVE JobExcl(w)' /\ TodoExcl(w)'
      OBVIOUS
    <2>1. JobExcl(w) /\ TodoExcl(w) /\ JobOK(w)
      BY DEF ExclInv, RefsInv
    <2>2. job[w].pc \in {"persist", "submit"} =>
            dte'[job[w].fresh.dteId] = dte[job[w].fresh.dteId]
      BY <1>1, <1>3, <2>1 DEF JobOK
    <2> QED
      BY <1>2, <2>1, <2>2 DEF JobExcl, TodoExcl
  <1>6. \A q \in Pollers : PollExcl(q)'
    BY <1>2, <1>4 DEF ExclInv, PollExcl
  <1>7. \A q \in Requests : RowExcl(q)'
    <2> SUFFICES ASSUME NEW q \in Requests PROVE RowExcl(q)'
      OBVIOUS
    <2>1. RowExcl(q) /\ row[q].dteId \in DteIds \cup {NoDte}
      BY DEF ExclInv, RefsInv, TypeOK, Row
    <2>2. CASE row[q].dteId = d
      <3>1. q = r
        BY <1>1, <2>1, <2>2, NullsAssumption DEF RowExcl
      <3> QED
        BY <1>1, <1>2, <1>3, <2>1, <3>1 DEF RowExcl
    <2>3. CASE row[q].dteId # d
      BY <1>2, <1>3, <2>1, <2>3 DEF RowExcl
    <2> QED
      BY <2>2, <2>3
  <1>8. \A e \in DteIds : DocExcl(e)'
    <2> SUFFICES ASSUME NEW e \in DteIds PROVE DocExcl(e)'
      OBVIOUS
    <2>1. DocExcl(e)
      BY DEF ExclInv
    <2> QED
      BY <1>1, <1>2, <1>3, <2>1 DEF DocExcl
  <1> QED
    BY <1>2, <1>5, <1>6, <1>7, <1>8 DEF ExclInv, HeldOnce, Held

\* A poller writes its copy of a reported request with the SII's verdict.
LEMMA PollApplyExcl ==
  ASSUME ExclInv, RefsInv', NEW p \in Pollers, PollApply(p)
  PROVE  ExclInv'
  <1> DEFINE r == poll[p].req  d == poll[p].copy.dteId
  <1>1. /\ r \in Requests /\ d \in DteIds /\ row[r].dteId = d /\ row[r] \in Row /\ poll[p] \in Poll
        /\ poll[p].copy.started = row[r].started /\ row[r].state \in Reported
        /\ dte[d].owner = r
        /\ \A w \in Workers : r \notin todo[w] /\ (job[w].pc # "idle" => job[w].req # r)
    BY PollerAlone DEF PollApply
  <1>2. UNCHANGED <<dte, sii, job, todo, snap, sessions>>
    BY DEF PollApply
  <1>3. poll'[p].pc = "idle" /\ \A q \in Pollers : q # p => poll'[q] = poll[q]
    BY DEF PollApply, PollEnds, IdlePoll, ExclInv, RefsInv, TypeOK
  <1>4. /\ row'[r].dteId = d /\ row'[r].started = row[r].started /\ row'[r].state \in Reported
        /\ \A q \in Requests : q # r => row'[q] = row[q]
    <2>1. CASE row' = row
      BY <1>1, <2>1
    <2>2. ASSUME NEW s \in Final,
                 row' = [row EXCEPT ![r] = [poll[p].copy EXCEPT !.state = mapDteStatusToPublic[s]]]
          PROVE  /\ row'[r].dteId = d /\ row'[r].started = row[r].started
                 /\ row'[r].state \in Reported /\ \A q \in Requests : q # r => row'[q] = row[q]
      <3> DEFINE new == mapDteStatusToPublic[s]
                 c == [poll[p].copy EXCEPT !.state = new]
      <3>1. new \in Reported
        BY DEF Final, DteStatus, mapDteStatusToPublic, Reported
      <3>2. poll[p].copy \in Row
        BY <1>1 DEF Poll
      <3> HIDE DEF new
      <3>3. c.dteId = d /\ c.started = row[r].started /\ c.state = new
        BY <1>1, <3>2 DEF Row
      <3>4. row' = [row EXCEPT ![r] = c]
        BY <2>2 DEF new
      <3> HIDE DEF c
      <3> QED
        BY <1>1, <3>1, <3>3, <3>4 DEF ExclInv, RefsInv, TypeOK
    <2>3. \/ row' = row
          \/ \E s \in Final :
               row' = [row EXCEPT ![r] = [poll[p].copy EXCEPT !.state = mapDteStatusToPublic[s]]]
      BY DEF PollApply, ApplyState
    <2> QED
      BY <2>1, <2>2, <2>3
  <1>5. \A w \in Workers : JobExcl(w)' /\ TodoExcl(w)'
    <2> SUFFICES ASSUME NEW w \in Workers PROVE JobExcl(w)' /\ TodoExcl(w)'
      OBVIOUS
    <2>1. /\ JobExcl(w) /\ TodoExcl(w) /\ JobOK(w) /\ todo[w] \subseteq Requests
          /\ r \notin todo[w] /\ (job[w].pc # "idle" => job[w].req # r)
      BY <1>1 DEF ExclInv, RefsInv, TypeOK
    <2> QED
      BY <1>2, <1>4, <2>1 DEF JobExcl, TodoExcl, JobOK
  <1>6. \A q \in Pollers : PollExcl(q)'
    <2> SUFFICES ASSUME NEW q \in Pollers PROVE PollExcl(q)'
      OBVIOUS
    <2>1. PollExcl(q) /\ PollOK(q)
      BY DEF ExclInv, RefsInv
    <2> QED
      BY <1>1, <1>3, <1>4, <2>1 DEF PollExcl, PollOK
  <1>7. \A q \in Requests : RowExcl(q)'
    <2> SUFFICES ASSUME NEW q \in Requests PROVE RowExcl(q)'
      OBVIOUS
    <2>1. RowExcl(q) /\ RowExcl(r)
      BY <1>1 DEF ExclInv
    <2> QED
      BY <1>1, <1>2, <1>4, <2>1 DEF RowExcl, Reported
  <1>8. \A e \in DteIds : DocExcl(e)'
    <2> SUFFICES ASSUME NEW e \in DteIds PROVE DocExcl(e)'
      OBVIOUS
    <2>1. DocExcl(e)
      BY DEF ExclInv
    <2> QED
      BY <1>1, <1>2, <1>4, <2>1 DEF DocExcl, Final
  <1> QED
    BY <1>2, <1>5, <1>6, <1>7, <1>8 DEF ExclInv, HeldOnce, Held

\* With exclusive claims every step preserves the invariant.
LEMMA NextExcl ==
  ASSUME Exclusive
  PROVE  ExclInv /\ [Next]_vars => ExclInv'
  <1> SUFFICES ASSUME ExclInv, [Next]_vars PROVE ExclInv'
    OBVIOUS
  <1>1. RefsInv'
    BY NextRefs DEF ExclInv
  <1>2. CASE UNCHANGED vars
    <2>1. /\ \A w \in Workers : JobExcl(w)' /\ TodoExcl(w)'
          /\ HeldOnce'
      BY <1>2 DEF vars, ExclInv, JobExcl, TodoExcl, HeldOnce, Held
    <2>2. /\ \A p \in Pollers : PollExcl(p)'
          /\ \A r \in Requests : RowExcl(r)'
          /\ \A d \in DteIds : DocExcl(d)'
      BY <1>2 DEF vars, ExclInv, PollExcl, RowExcl, DocExcl
    <2> QED
      BY <1>1, <2>1, <2>2 DEF ExclInv
  <1>3. \A r \in Requests : ~SnapshotRead(r) /\ ~SnapshotWrite(r)
    BY DEF Exclusive, ExclInv, RowExcl, SnapshotRead, SnapshotWrite
  <1>4. ASSUME NEW w \in Workers, WorkerStep(w) PROVE ExclInv'
    BY <1>1, <1>4, LoadExcl, PrepareExcl, TransmitExcl, UploadExcl, PersistExcl DEF WorkerStep
  <1>5. ASSUME NEW p \in Pollers, PollStep(p) PROVE ExclInv'
    BY <1>1, <1>5, PollReadExcl, PollWriteExcl, PollApplyExcl DEF PollStep
  <1>6. CASE Next
    BY <1>1, <1>3, <1>4, <1>5, <1>6, EnqueueExcl, ClaimExcl, FailureExcl, PollReadExcl,
       VerdictExcl DEF Next
  <1> QED
    BY <1>2, <1>6

\* While a claim outlives the work done under it, the document is found again
\* after prepare and no processor enters the 202 handler's update, a request
\* has one owner at a time, and what the owner remembers is what is stored.
THEOREM ExclusiveClaims ==
  ASSUME Exclusive
  PROVE  Spec => []ExclInv
  BY InitExcl, NextExcl, PTL DEF Spec

\* BR-12 under those conditions, for any number of workers, crashes and retries:
\* prepare never gives a request a second document and folio.
THEOREM NoSecondFolio ==
  ASSUME Exclusive
  PROVE  Spec => []OneDtePerRequest
  <1>1. ExclInv => OneDtePerRequest
    BY DEF ExclInv, DocExcl, OneDtePerRequest, Prepared
  <1> QED
    BY <1>1, ExclusiveClaims, PTL

\* The marker transmit() writes before the upload is never lost again, whichever
\* whole-row write of applyState or scheduleRetry follows.
THEOREM FenceIsDurable ==
  ASSUME Exclusive
  PROVE  Spec => []FenceDurable
  <1>1. ExclInv => FenceDurable
    <2> SUFFICES ASSUME ExclInv, NEW d \in Prepared, Len(sii[d]) > 0
                 PROVE  row[dte[d].owner].dteId = d /\ row[dte[d].owner].started
      BY DEF FenceDurable
    <2>1. d \in DteIds /\ Len(sii[d]) \in Nat
      BY LengthsAreNat DEF ExclInv, RefsInv, Prepared
    <2> QED
      BY <2>1 DEF ExclInv, DocExcl
  <1> QED
    BY <1>1, ExclusiveClaims, PTL

\* emit.transmit's upload runs at most once for a request, over all retries,
\* crashes and re-claims.
THEOREM TransmittedOnce ==
  ASSUME Exclusive
  PROVE  Spec => []OneTransmission
  <1>1. ExclInv => OneTransmission
    BY DEF ExclInv, RowExcl, OneTransmission
  <1> QED
    BY <1>1, ExclusiveClaims, PTL

\* What applyState reports as submitted or resolved has a TrackID the SII issued.
THEOREM ReportsAreBacked ==
  ASSUME Exclusive
  PROVE  Spec => []ReportedWasReceived
  <1>1. ExclInv => ReportedWasReceived
    <2> SUFFICES ASSUME ExclInv, NEW r \in Requests, row[r].state \in Reported
                 PROVE  /\ row[r].dteId \in Prepared
                        /\ dte[row[r].dteId].trackId \in 1..Len(sii[row[r].dteId])
      BY DEF ReportedWasReceived
    <2> DEFINE d == row[r].dteId
    <2>1. d \in DteIds
      BY DEF ExclInv, RowExcl, RefsInv, TypeOK, Row
    <2>2. dte[d].status # "none" /\ 0 < dte[d].trackId
      BY DEF ExclInv, RowExcl
    <2>3. dte[d].trackId <= Len(sii[d]) /\ dte[d].trackId \in Nat /\ Len(sii[d]) \in Nat
      BY <2>1, LengthsAreNat DEF ExclInv, RefsInv, DocOK, TypeOK, Dte
    <2> QED
      BY <2>1, <2>2, <2>3 DEF Prepared
  <1> QED
    BY <1>1, ExclusiveClaims, PTL
-----------------------------------------------------------------------------
(* The refinement of RequestLifecycle *)

\* A step that leaves the states and the events alone is a stutter.
LEMMA KeepsState ==
  ASSUME TypeOK, row' \in [Requests -> Row], outbox' = outbox,
         \A r \in Requests : row'[r].state = row[r].state
  PROVE  UNCHANGED Lifecycle!vars
  BY DEF Lifecycle!vars

\* applyState on a forward transition enters and announces the state.
LEMMA AppliesForward ==
  ASSUME TypeOK, NEW r \in Requests, NEW c \in Row, NEW new \in Notifiable,
         ApplyState(r, c, new),
         <<row[r].state, new>> \in Allowed => <<row[r].state, new>> \in Lifecycle!Forward
  PROVE  [Lifecycle!Next]_(Lifecycle!vars)
  <1> DEFINE state == [q \in Requests |-> row[q].state]
  <1>1. CASE <<row[r].state, new>> \in Allowed
    <2>1. /\ row' = [row EXCEPT ![r] = [c EXCEPT !.state = new]]
          /\ outbox' = [outbox EXCEPT ![r] = Append(@, new)]
      BY <1>1 DEF ApplyState
    <2>2. [q \in Requests |-> row[q].state]' = [state EXCEPT ![r] = new]
      <3>1. [c EXCEPT !.state = new].state = new
        BY DEF Row
      <3>2. \A q \in Requests : row'[q] = IF q = r THEN [c EXCEPT !.state = new] ELSE row[q]
        BY <2>1 DEF TypeOK
      <3> QED
        BY <3>1, <3>2
    <2>3. state[r] = row[r].state
      OBVIOUS
    <2>4. Lifecycle!Announce(r, new)
      BY <1>1, <2>1, <2>2, <2>3 DEF Lifecycle!Announce
    <2> QED
      BY <2>4 DEF Lifecycle!Next, Notifiable
  <1>2. CASE <<row[r].state, new>> \notin Allowed
    BY <1>2 DEF ApplyState, Lifecycle!vars
  <1> QED
    BY <1>1, <1>2

\* Entering, claiming and the clock.
LEMMA QueueMaps ==
  ASSUME TypeOK, TypeOK',
         \/ \E r \in Requests : Enqueue(r) \/ LeaseExpires(r)
         \/ \E w \in Workers, S \in SUBSET Requests : Claim(w, S)
  PROVE  [Lifecycle!Next]_(Lifecycle!vars)
  <1>1. ASSUME NEW r \in Requests, Enqueue(r) PROVE Lifecycle!Next
    <2>1. row' = [row EXCEPT ![r] = NewRow] /\ outbox' = outbox /\ row[r].state = "none"
      BY <1>1 DEF Enqueue
    <2>2. NewRow.state = "queued"
      BY DEF NewRow, NoRow
    <2>3. [q \in Requests |-> row[q].state]' = [[q \in Requests |-> row[q].state] EXCEPT ![r] = "queued"]
      BY <2>1, <2>2 DEF TypeOK
    <2>4. Lifecycle!Receive(r)
      BY <2>1, <2>3 DEF Lifecycle!Receive
    <2> QED
      BY <2>4 DEF Lifecycle!Next
  <1>2. ASSUME NEW r \in Requests, LeaseExpires(r) PROVE UNCHANGED Lifecycle!vars
    <2>1. row' = [row EXCEPT ![r].due = TRUE] /\ outbox' = outbox
      BY <1>2 DEF LeaseExpires
    <2>2. \A q \in Requests : row'[q].state = row[q].state
      BY <2>1 DEF TypeOK, Row
    <2> QED
      BY <2>1, <2>2, KeepsState DEF TypeOK
  <1>3. ASSUME NEW w \in Workers, NEW S \in SUBSET Requests, Claim(w, S) PROVE Lifecycle!Next
    <2> DEFINE state == [q \in Requests |-> row[q].state]
    <2>1. S # {} /\ (\A r \in S : row[r].state \in {"queued", "processing"}) /\ outbox' = outbox
      BY <1>3 DEF Claim, Due
    <2>2. \A q \in Requests : row'[q].state = IF q \in S THEN "processing" ELSE row[q].state
      <3> SUFFICES ASSUME NEW q \in Requests
                   PROVE  row'[q].state = IF q \in S THEN "processing" ELSE row[q].state
        OBVIOUS
      <3>1. row'[q] = IF q \in S THEN [row[q] EXCEPT !.state = "processing", !.due = FALSE]
                                 ELSE row[q]
        BY <1>3 DEF Claim
      <3>2. row[q] \in Row
        BY DEF TypeOK
      <3> QED
        BY <3>1, <3>2 DEF Row
    <2>3. Lifecycle!TakeBatch(S)
      BY <2>1, <2>2 DEF Lifecycle!TakeBatch
    <2> QED
      BY <2>3 DEF Lifecycle!Next
  <1> QED
    BY <1>1, <1>2, <1>3

\* A worker holds a request in process: it submits it or gives it up.
LEMMA WorkerMaps ==
  ASSUME ExclInv, TypeOK', NEW w \in Workers, WorkerStep(w)
  PROVE  [Lifecycle!Next]_(Lifecycle!vars)
  <1> DEFINE r == job[w].req  c == job[w].fresh
  <1>1. TypeOK
    BY DEF ExclInv, RefsInv
  <1>2. ASSUME job[w].pc # "idle" PROVE r \in Requests /\ c \in Row /\ c = row[r] /\ row[r].state = "processing"
    BY <1>2, WorkerAlone
  <1>3. ASSUME NEW new \in {"submitted", "failed"}, NEW x \in Row, job[w].pc # "idle",
               ApplyState(r, x, new)
        PROVE  [Lifecycle!Next]_(Lifecycle!vars)
    <2>1. <<row[r].state, new>> \in Lifecycle!Forward
      BY <1>2, <1>3 DEF Lifecycle!Forward
    <2> QED
      BY <1>1, <1>2, <1>3, <2>1, AppliesForward DEF Notifiable
  <1>4. CASE Submit(w) \/ Quarantine(w)
    <2>1. job[w].pc # "idle" /\ (ApplyState(r, c, "submitted") \/ ApplyState(r, c, "failed"))
      BY <1>4 DEF Submit, Quarantine, Settle
    <2> QED
      BY <1>2, <1>3, <2>1
  <1>5. CASE Resume(w) \/ Finalize(w)
    <2>1. job[w].pc \in {"resume", "finalize"}
      BY <1>5 DEF Resume, Finalize, Settle
    <2> QED
      BY <2>1 DEF ExclInv, JobExcl
  <1>6. CASE Retry(w)
    <2> DEFINE tried == [c EXCEPT !.attempts = @ + 1]
    <2>1. job[w].pc # "idle" /\ ScheduleRetry(r, c)
      BY <1>6 DEF Retry
    <2>2. tried \in Row /\ tried.state = c.state
      BY <1>2, <2>1 DEF Row
    <2>3. CASE tried.attempts >= MaxAttempts
      <3>1. ApplyState(r, tried, "failed")
        BY <2>1, <2>3 DEF ScheduleRetry
      <3> HIDE DEF tried
      <3> QED
        BY <1>3, <2>1, <2>2, <3>1
    <2>4. CASE ~(tried.attempts >= MaxAttempts)
      <3>1. row' = [row EXCEPT ![r] = [tried EXCEPT !.due = FALSE]] /\ outbox' = outbox
        BY <2>1, <2>4 DEF ScheduleRetry
      <3>2. [tried EXCEPT !.due = FALSE].state = row[r].state
        BY <1>2, <2>1, <2>2 DEF Row
      <3> HIDE DEF tried
      <3>3. \A q \in Requests : row'[q].state = row[q].state
        BY <1>1, <1>2, <2>1, <3>1, <3>2 DEF TypeOK
      <3> QED
        BY <1>1, <3>1, <3>3, KeepsState DEF TypeOK
    <2> QED
      BY <2>3, <2>4
  <1>7. CASE Prepare(w) \/ Mark(w)
    <2>1. /\ job[w].pc # "idle" /\ outbox' = outbox
          /\ \/ row' = row
             \/ row' = [row EXCEPT ![r].started = TRUE]
             \/ \E d \in DteIds : row' = [row EXCEPT ![r].dteId = d]
      BY <1>7 DEF Prepare, Mark
    <2>2. \A q \in Requests : row'[q].state = row[q].state
      <3>1. row \in [Requests -> Row] /\ r \in Requests
        BY <1>1, <1>2, <2>1 DEF TypeOK
      <3>2. ASSUME NEW d \in DteIds, row' = [row EXCEPT ![r].dteId = d]
            PROVE  \A q \in Requests : row'[q].state = row[q].state
        BY <3>1, <3>2 DEF Row
      <3>3. ASSUME row' = [row EXCEPT ![r].started = TRUE]
            PROVE  \A q \in Requests : row'[q].state = row[q].state
        BY <3>1, <3>3 DEF Row
      <3> QED
        BY <2>1, <3>2, <3>3
    <2> QED
      BY <1>1, <2>1, <2>2, KeepsState DEF TypeOK
  <1>8. CASE \/ \E q \in Requests : Load(w, q)
             \/ PrepareFails(w) \/ Existing(w) \/ ReadDte(w) \/ Upload(w) \/ Revert(w)
             \/ \E write \in Writes : Persist(w, write) \/ PersistFails(w, write)
    <2>1. row' = row /\ outbox' = outbox
      BY <1>8 DEF Load, PrepareFails, Existing, ReadDte, Upload, Revert, Persist, PersistFails
    <2> QED
      BY <2>1 DEF Lifecycle!vars
  <1> QED
    BY <1>4, <1>5, <1>6, <1>7, <1>8 DEF WorkerStep

\* A poller's request was reported: it only brings the SII's verdict.
LEMMA PollMaps ==
  ASSUME ExclInv, NEW p \in Pollers, PollStep(p)
  PROVE  [Lifecycle!Next]_(Lifecycle!vars)
  <1> DEFINE r == poll[p].req  c == poll[p].copy
  <1>1. TypeOK
    BY DEF ExclInv, RefsInv
  <1>2. ASSUME NEW s \in Final, poll[p].pc # "idle", ApplyState(r, c, mapDteStatusToPublic[s])
        PROVE  [Lifecycle!Next]_(Lifecycle!vars)
    <2> DEFINE new == mapDteStatusToPublic[s]
    <2>1. r \in Requests /\ c \in Row /\ row[r].state \in Reported
      BY <1>2, PollerAlone DEF Poll
    <2>2. new \in {"accepted", "observed", "rejected"}
      BY DEF Final, DteStatus, mapDteStatusToPublic
    <2> HIDE DEF new
    <2>3. <<row[r].state, new>> \in Allowed => <<row[r].state, new>> \in Lifecycle!Forward
      BY <2>1, <2>2 DEF Allowed, Lifecycle!Forward, Reported
    <2> QED
      BY <1>1, <1>2, <2>1, <2>2, <2>3, AppliesForward DEF Notifiable, new
  <1>3. CASE PollApply(p)
    <2>1. \/ row' = row /\ outbox' = outbox
          \/ \E s \in Final : ApplyState(r, c, mapDteStatusToPublic[s])
      BY <1>3 DEF PollApply
    <2>2. poll[p].pc # "idle"
      BY <1>3 DEF PollApply
    <2> QED
      BY <1>2, <2>1, <2>2 DEF Lifecycle!vars
  <1>4. CASE PollRead(p) \/ PollAsk(p) \/ PollFind(p) \/ PollWrite(p)
    BY <1>4 DEF PollRead, PollAsk, PollFind, PollWrite, Lifecycle!vars
  <1> QED
    BY <1>3, <1>4 DEF PollStep

\* With exclusive claims every step is a step of the lifecycle, or a stutter.
LEMMA NextMaps ==
  ASSUME Exclusive, ExclInv, [Next]_vars
  PROVE  [Lifecycle!Next]_(Lifecycle!vars)
  <1>1. TypeOK /\ TypeOK'
    BY NextRefs DEF ExclInv, RefsInv
  <1>2. CASE UNCHANGED vars
    BY <1>2 DEF vars, Lifecycle!vars
  <1>3. \A r \in Requests : ~SnapshotRead(r) /\ ~SnapshotWrite(r)
    BY DEF Exclusive, ExclInv, RowExcl, SnapshotRead, SnapshotWrite
  <1>4. CASE \/ \E r \in Requests : Enqueue(r) \/ LeaseExpires(r)
             \/ \E w \in Workers, S \in SUBSET Requests : Claim(w, S)
    BY <1>1, <1>4, QueueMaps
  <1>5. ASSUME NEW w \in Workers, WorkerStep(w) PROVE [Lifecycle!Next]_(Lifecycle!vars)
    BY <1>1, <1>5, WorkerMaps
  <1>6. ASSUME NEW p \in Pollers, PollStep(p) PROVE [Lifecycle!Next]_(Lifecycle!vars)
    BY <1>6, PollMaps
  <1>7. CASE \/ \E w \in Workers : Crash(w) \/ Abandon(w)
             \/ \E p \in Pollers : (\E r \in Requests : PollStart(p, r)) \/ PollFails(p)
             \/ \E d \in DteIds, v \in Final : \E k \in 1..Len(sii[d]) : SiiDecides(d, k, v)
    BY <1>7 DEF Crash, Abandon, PollStart, PollFails, SiiDecides, Lifecycle!vars
  <1> QED
    BY <1>2, <1>3, <1>4, <1>5, <1>6, <1>7 DEF Next

\* integration-state.service.ts under exclusive claims: for any number of workers,
\* pollers, crashes and retries the public state only moves forward, and is
\* announced in the step that enters it.
THEOREM PipelineImplementsLifecycle ==
  ASSUME Exclusive
  PROVE  Spec => ImplementsLifecycle
  <1>1. Init => Lifecycle!Init
    BY DEF Init, Lifecycle!Init, NoRow
  <1>2. ExclInv /\ [Next]_vars => [Lifecycle!Next]_(Lifecycle!vars)
    BY NextMaps
  <1> QED
    BY <1>1, <1>2, ExclusiveClaims, PTL DEF Spec, ImplementsLifecycle, Lifecycle!Spec
-----------------------------------------------------------------------------
(* The events of a request *)

\* How far a state is: every forward transition that is announced leads further.
Rank ==
  [s \in States |-> CASE s \in {"none", "queued", "processing"} -> 0
                      [] s = "submitted" -> 1 [] s = "observed" -> 2
                      [] s \in {"accepted", "rejected", "failed"} -> 3]

\* The events of a request get further and further, up to its state s.
Story(s, events) ==
  /\ \A i \in 1..Len(events) : Rank[events[i]] <= Rank[s]
  /\ \A i, j \in 1..Len(events) : i < j => Rank[events[i]] < Rank[events[j]]

LEMMA RankTypes ==
  /\ \A s \in States : Rank[s] \in Nat
  /\ \A s \in States, new \in Notifiable : <<s, new>> \in Lifecycle!Forward => Rank[s] < Rank[new]
  /\ Rank["none"] = 0 /\ Rank["queued"] = 0 /\ Rank["processing"] = 0
  BY DEF Rank, States, Notifiable, Lifecycle!Forward

\* An event that leads further continues the story.
LEMMA StoryGoesOn ==
  ASSUME NEW s \in States, NEW events \in Seq(Notifiable), Story(s, events),
         NEW new \in Notifiable, Rank[s] < Rank[new]
  PROVE  Story(new, Append(events, new))
  <1> DEFINE more == Append(events, new)  n == Len(events)
  <1>1. /\ Len(more) = n + 1 /\ more[n + 1] = new /\ n \in Nat
        /\ \A i \in 1..n : more[i] = events[i] /\ events[i] \in States
    BY AppendProperties DEF Notifiable, States
  <1>2. Rank[s] \in Nat /\ Rank[new] \in Nat /\ \A i \in 1..n : Rank[events[i]] \in Nat
    BY <1>1, RankTypes DEF Notifiable, States
  <1> HIDE DEF more, n
  <1>3. \A i \in 1..n : Rank[more[i]] < Rank[new]
    <2>1. \A i \in 1..n : Rank[events[i]] <= Rank[s]
      BY DEF Story, n
    <2> QED
      BY <1>1, <1>2, <2>1
  <1>4. \A i \in 1..Len(more) : Rank[more[i]] <= Rank[new]
    BY <1>1, <1>2, <1>3
  <1>5. ASSUME NEW i \in 1..Len(more), NEW j \in 1..Len(more), i < j
        PROVE  Rank[more[i]] < Rank[more[j]]
    <2>1. CASE j = n + 1
      BY <1>1, <1>3, <1>5, <2>1
    <2>2. CASE j \in 1..n
      <3>1. \A k, l \in 1..n : k < l => Rank[events[k]] < Rank[events[l]]
        BY DEF Story, n
      <3> QED
        BY <1>1, <1>5, <2>2, <3>1
    <2> QED
      BY <1>1, <1>5, <2>1, <2>2
  <1> QED
    BY <1>4, <1>5 DEF Story, more

\* Every step of the lifecycle continues the stories.
LEMMA LifecycleTells ==
  ASSUME TypeOK, TypeOK', [Lifecycle!Next]_(Lifecycle!vars),
         NEW r \in Requests, Story(row[r].state, outbox[r])
  PROVE  Story(row[r].state, outbox[r])'
  <1> DEFINE state == [q \in Requests |-> row[q].state]
             now == [q \in Requests |-> row'[q].state]
  <1>1. state[r] = row[r].state /\ now[r] = row'[r].state
    OBVIOUS
  <1>2. row[r].state \in States /\ outbox[r] \in Seq(Notifiable)
    BY DEF TypeOK, Row
  <1>3. CASE UNCHANGED Lifecycle!vars
    BY <1>1, <1>3 DEF Lifecycle!vars
  <1>4. ASSUME NEW q \in Requests, Lifecycle!Receive(q) PROVE Story(row[r].state, outbox[r])'
    <2>1. outbox' = outbox /\ now = [state EXCEPT ![q] = "queued"] /\ state[q] = "none"
      BY <1>4 DEF Lifecycle!Receive
    <2>2. row'[r].state = row[r].state \/ (row[r].state = "none" /\ row'[r].state = "queued")
      BY <1>1, <2>1
    <2> QED
      BY <2>1, <2>2, RankTypes DEF Story
  <1>5. ASSUME NEW S \in SUBSET Requests, Lifecycle!TakeBatch(S)
        PROVE  Story(row[r].state, outbox[r])'
    <2>1. /\ outbox' = outbox /\ \A q \in S : state[q] \in {"queued", "processing"}
          /\ now = [q \in Requests |-> IF q \in S THEN "processing" ELSE state[q]]
      BY <1>5 DEF Lifecycle!TakeBatch
    <2>2. \/ row'[r].state = row[r].state
          \/ row[r].state \in {"queued", "processing"} /\ row'[r].state = "processing"
      BY <1>1, <2>1
    <2> QED
      BY <2>1, <2>2, RankTypes DEF Story
  <1>6. ASSUME NEW q \in Requests, NEW new \in Notifiable, Lifecycle!Announce(q, new)
        PROVE  Story(row[r].state, outbox[r])'
    <2>1. /\ <<state[q], new>> \in Lifecycle!Forward /\ now = [state EXCEPT ![q] = new]
          /\ outbox' = [outbox EXCEPT ![q] = Append(@, new)]
      BY <1>6 DEF Lifecycle!Announce
    <2>2. CASE q = r
      <3>1. /\ row'[r].state = new /\ outbox'[r] = Append(outbox[r], new)
            /\ <<row[r].state, new>> \in Lifecycle!Forward
        BY <1>1, <2>1, <2>2 DEF TypeOK
      <3>2. Rank[row[r].state] < Rank[new]
        BY <1>2, <3>1, RankTypes
      <3> QED
        BY <1>2, <3>1, <3>2, StoryGoesOn
    <2>3. CASE q # r
      <3>1. row'[r].state = row[r].state /\ outbox'[r] = outbox[r]
        BY <1>1, <2>1, <2>3 DEF TypeOK
      <3> QED
        BY <3>1
    <2> QED
      BY <2>2, <2>3
  <1> QED
    BY <1>3, <1>4, <1>5, <1>6 DEF Lifecycle!Next, Notifiable

\* applyState under exclusive claims: however many workers and pollers bring a
\* request to a state, its event is dispatched once.
THEOREM AnnouncedOnce ==
  ASSUME Exclusive
  PROVE  Spec => []NoDuplicateEvents
  <1> DEFINE Stories == \A r \in Requests : Story(row[r].state, outbox[r])
  <1>1. Init => Stories
    <2> SUFFICES ASSUME Init, NEW r \in Requests PROVE Story(row[r].state, outbox[r])
      OBVIOUS
    <2>1. Len(outbox[r]) = 0
      BY DEF Init
    <2> QED
      BY <2>1 DEF Story
  <1>2. ExclInv /\ Stories /\ [Next]_vars => Stories'
    <2> SUFFICES ASSUME ExclInv, Stories, [Next]_vars, NEW r \in Requests
                 PROVE  Story(row[r].state, outbox[r])'
      OBVIOUS
    <2>1. TypeOK /\ TypeOK' /\ [Lifecycle!Next]_(Lifecycle!vars)
      BY NextMaps, NextRefs DEF ExclInv, RefsInv
    <2> QED
      BY <2>1, LifecycleTells
  <1>3. ExclInv /\ Stories => NoDuplicateEvents
    <2> SUFFICES ASSUME TypeOK, Stories, NEW r \in Requests,
                        NEW i \in DOMAIN outbox[r], NEW j \in DOMAIN outbox[r],
                        outbox[r][i] = outbox[r][j], i # j
                 PROVE  FALSE
      BY DEF NoDuplicateEvents, ExclInv, RefsInv
    <2>1. outbox[r] \in Seq(Notifiable) /\ Story(row[r].state, outbox[r])
      BY DEF TypeOK
    <2>2. i \in 1..Len(outbox[r]) /\ j \in 1..Len(outbox[r]) /\ Len(outbox[r]) \in Nat
      BY <2>1
    <2>3. Rank[outbox[r][i]] \in Nat
      <3>1. outbox[r][i] \in Notifiable
        BY <2>1, <2>2
      <3> QED
        BY <3>1, RankTypes DEF Notifiable, States
    <2> QED
      BY <2>1, <2>2, <2>3 DEF Story
  <1> QED
    BY <1>1, <1>2, <1>3, ExclusiveClaims, PTL DEF Spec
-----------------------------------------------------------------------------
(* The verdict of a request *)

Last == {"ACEPTADO", "RECHAZADO"}

\* The SII's envelopes only grow in number, and keep their last verdict.
Grown ==
  \A d \in DteIds :
    /\ Len(sii[d]) <= Len(sii'[d])
    /\ \A k \in 1..Len(sii[d]) :
         /\ sii[d][k] \in Last => sii'[d][k] = sii[d][k]
         /\ sii[d][k] # "PROCESANDO" => sii'[d][k] # "PROCESANDO"

LEMMA EnvelopesGrow ==
  ASSUME RefsInv, [Next]_vars
  PROVE  Grown
  <1>1. \A d \in DteIds : sii[d] \in Seq(Verdicts) /\ Len(sii[d]) \in Nat
    BY DEF RefsInv, TypeOK
  <1>2. CASE sii' = sii
    BY <1>1, <1>2 DEF Grown
  <1>3. ASSUME NEW d \in DteIds, sii' = [sii EXCEPT ![d] = Append(@, "PROCESANDO")]
        PROVE  Grown
    <2> SUFFICES ASSUME NEW e \in DteIds
                 PROVE  /\ Len(sii[e]) <= Len(sii'[e])
                        /\ \A k \in 1..Len(sii[e]) : sii'[e][k] = sii[e][k]
      BY DEF Grown
    <2>1. CASE e = d
      <3>1. sii'[e] = Append(sii[e], "PROCESANDO")
        BY <1>3, <2>1 DEF RefsInv, TypeOK
      <3> QED
        BY <1>1, <3>1, AppendProperties DEF Verdicts
    <2>2. CASE e # d
      BY <1>1, <1>3, <2>2 DEF RefsInv, TypeOK
    <2> QED
      BY <2>1, <2>2
  <1>4. ASSUME NEW d \in DteIds, NEW k \in 1..Len(sii[d]), NEW v \in Final, SiiDecides(d, k, v)
        PROVE  Grown
    <2>1. /\ sii' = [sii EXCEPT ![d][k] = v] /\ sii[d][k] \notin Last
      BY <1>4 DEF SiiDecides, Last, Final
    <2>2. ASSUME NEW e \in DteIds, NEW i \in 1..Len(sii[e])
          PROVE  sii'[e][i] = sii[e][i] \/ (sii[e][i] \notin Last /\ sii'[e][i] = v)
      <3>1. CASE e = d
        <4>1. sii'[d] = [sii[d] EXCEPT ![k] = v]
          BY <2>1 DEF RefsInv, TypeOK
        <4>2. sii'[d][i] = IF i = k THEN v ELSE sii[d][i]
          BY <1>1, <2>2, <3>1, <4>1
        <4> QED
          BY <2>1, <3>1, <4>2
      <3>2. CASE e # d
        BY <2>1, <3>2 DEF RefsInv, TypeOK
      <3> QED
        BY <3>1, <3>2
    <2>3. \A e \in DteIds : Len(sii'[e]) = Len(sii[e])
      BY <1>4, VerdictKeepsLength DEF RefsInv
    <2>4. v # "PROCESANDO"
      BY DEF Final
    <2> QED
      BY <1>1, <2>2, <2>3, <2>4 DEF Grown
  <1>5. ASSUME NEW w \in Workers, Upload(w) PROVE Grown
    <2>1. job[w].fresh.dteId \in DteIds
      BY <1>5 DEF Upload, RefsInv, JobOK
    <2>2. sii' = sii \/ sii' = [sii EXCEPT ![job[w].fresh.dteId] = Append(@, "PROCESANDO")]
      BY <1>5 DEF Upload
    <2> QED
      BY <1>2, <1>3, <2>1, <2>2
  <1>6. \/ sii' = sii
        \/ \E w \in Workers : Upload(w)
        \/ \E d \in DteIds, v \in Final : \E k \in 1..Len(sii[d]) : SiiDecides(d, k, v)
    <2>1. ASSUME NEW w \in Workers, WorkerStep(w) PROVE sii' = sii \/ Upload(w)
      BY <2>1 DEF WorkerStep, Load, Prepare, PrepareFails, Retry, Existing, Resume, Finalize, Submit,
         Quarantine, Settle, Mark, ReadDte, Revert, Persist, PersistFails
    <2>2. ASSUME NEW p \in Pollers, PollStep(p) PROVE sii' = sii
      BY <2>2 DEF PollStep, PollRead, PollAsk, PollFind, PollWrite, PollApply
    <2>3. CASE UNCHANGED vars
      BY <2>3 DEF vars
    <2> QED
      BY <2>1, <2>2, <2>3 DEF Next, Enqueue, SnapshotRead, SnapshotWrite, LeaseExpires, Claim, Crash,
         Abandon, PollStart, PollFails
  <1> QED
    BY <1>2, <1>4, <1>5, <1>6

\* A last verdict v that somebody holds of envelope t is the SII's.
Sure(d, t, v) == v \in Last => t \in 1..Len(sii[d]) /\ sii[d][t] = v

LEMMA SureStays ==
  ASSUME TypeOK, TypeOK', Grown, NEW d \in DteIds, NEW t, NEW v, Sure(d, t, v)
  PROVE  Sure(d, t, v)'
  <1>1. Len(sii[d]) \in Nat /\ Len(sii'[d]) \in Nat
    BY DEF TypeOK
  <1>2. /\ Len(sii[d]) <= Len(sii'[d])
        /\ \A k \in 1..Len(sii[d]) : sii[d][k] \in Last => sii'[d][k] = sii[d][k]
    BY DEF Grown
  <1> QED
    BY <1>1, <1>2 DEF Sure

DocVerdict(d) == Sure(d, dte[d].trackId, dte[d].status)

PollVerdict(p) ==
  LET d == poll[p].copy.dteId IN
  /\ poll[p].pc \notin {"idle", "read"} => poll[p].track = dte[d].trackId
  /\ poll[p].pc \in {"find", "write", "apply"} => Sure(d, poll[p].track, poll[p].answer)
  /\ poll[p].pc = "write" => Sure(d, poll[p].track, poll[p].seen)

RowVerdict(r) ==
  LET d == row[r].dteId IN
  /\ row[r].state = "accepted" => Sure(d, dte[d].trackId, "ACEPTADO")
  /\ row[r].state = "rejected" => Sure(d, dte[d].trackId, "RECHAZADO")

\* The inductive invariant of the verdicts.
VerdictInv ==
  /\ \A d \in DteIds : DocVerdict(d)
  /\ \A p \in Pollers : PollVerdict(p)
  /\ \A r \in Requests : RowVerdict(r)

Resolved == {"accepted", "rejected"}

\* A step of anybody but a poller: documents that are written have no verdict,
\* no poller and no resolved request.
LEMMA VerdictFrame ==
  ASSUME ExclInv, RefsInv', VerdictInv, Grown, poll' = poll,
         \A r \in Requests : \/ row'[r].state = row[r].state /\ row'[r].dteId = row[r].dteId
                             \/ row'[r].state \notin Resolved,
         \A d \in DteIds :
           \/ dte'[d] = dte[d]
           \/ /\ dte'[d].status \notin Last
              /\ \A r \in Requests : row[r].dteId = d => row[r].state \notin Resolved
              /\ \A p \in Pollers : poll[p].pc # "idle" => poll[p].copy.dteId # d
  PROVE  VerdictInv'
  <1>1. TypeOK /\ TypeOK' /\ \A p \in Pollers : PollOK(p)
    BY DEF ExclInv, RefsInv
  <1>2. ASSUME NEW d \in DteIds PROVE DocVerdict(d)'
    <2>1. CASE dte'[d] = dte[d]
      <3>1. Sure(d, dte[d].trackId, dte[d].status)
        BY <1>2 DEF VerdictInv, DocVerdict
      <3>2. Sure(d, dte[d].trackId, dte[d].status)'
        BY <1>1, <2>1, <3>1, SureStays
      <3> QED
        BY <3>2 DEF DocVerdict
    <2>2. CASE dte'[d].status \notin Last
      BY <2>2 DEF DocVerdict, Sure
    <2> QED
      BY <1>2, <2>1, <2>2
  <1>3. ASSUME NEW p \in Pollers PROVE PollVerdict(p)'
    <2> DEFINE d == poll[p].copy.dteId
    <2>1. CASE poll[p].pc = "idle"
      BY <2>1 DEF PollVerdict
    <2>2. CASE poll[p].pc # "idle"
      <3>1. d \in DteIds /\ dte'[d] = dte[d] /\ PollVerdict(p)
        BY <1>1, <1>3, <2>2 DEF PollOK, VerdictInv
      <3>2. poll[p].pc \in {"find", "write", "apply"} => Sure(d, poll[p].track, poll[p].answer)'
        BY <1>1, <3>1, SureStays DEF PollVerdict
      <3>3. poll[p].pc = "write" => Sure(d, poll[p].track, poll[p].seen)'
        BY <1>1, <3>1, SureStays DEF PollVerdict
      <3> QED
        BY <3>1, <3>2, <3>3 DEF PollVerdict
    <2> QED
      BY <2>1, <2>2
  <1>4. ASSUME NEW r \in Requests PROVE RowVerdict(r)'
    <2> DEFINE d == row[r].dteId
    <2>1. CASE row'[r].state \notin Resolved
      BY <2>1 DEF RowVerdict, Resolved
    <2>2. CASE /\ row'[r].state \in Resolved
               /\ row'[r].state = row[r].state /\ row'[r].dteId = row[r].dteId
      <3>1. d \in DteIds
        BY <1>1, <2>2 DEF ExclInv, RowExcl, Resolved, Reported, TypeOK, Row
      <3>2. dte'[d] = dte[d]
        BY <2>2, <3>1
      <3>3. RowVerdict(r)
        BY DEF VerdictInv
      <3>4. /\ row[r].state = "accepted" => Sure(d, dte[d].trackId, "ACEPTADO")'
            /\ row[r].state = "rejected" => Sure(d, dte[d].trackId, "RECHAZADO")'
        BY <1>1, <2>2, <3>1, <3>2, <3>3, SureStays DEF RowVerdict
      <3> QED
        BY <2>2, <3>4 DEF RowVerdict
    <2> QED
      BY <1>4, <2>1, <2>2
  <1> QED
    BY <1>2, <1>3, <1>4 DEF VerdictInv

\* The document of a request in process has no verdict, no poller and no other
\* request.
LEMMA WorkerVerdict ==
  ASSUME Exclusive, ExclInv, RefsInv', VerdictInv, Grown, NEW w \in Workers, WorkerStep(w)
  PROVE  VerdictInv'
  <1> DEFINE r == job[w].req  e == job[w].fresh.dteId
  <1>1. TypeOK /\ TypeOK' /\ poll' = poll
    BY DEF ExclInv, RefsInv, WorkerStep, Load, Prepare, PrepareFails, Retry, Existing, Resume, Finalize,
       Submit, Quarantine, Settle, Mark, ReadDte, Upload, Revert, Persist, PersistFails
  <1>2. ASSUME job[w].pc # "idle"
        PROVE  /\ r \in Requests /\ row[r] \in Row /\ row[r].state = "processing"
               /\ job[w].fresh = row[r]
    BY <1>2, WorkerAlone
  <1>3. \A q \in Requests : \/ row'[q].state = row[q].state /\ row'[q].dteId = row[q].dteId
                            \/ row'[q].state \notin Resolved
    <2>1. CASE row' = row
      BY <2>1
    <2>2. ASSUME NEW c \in Row, job[w].pc # "idle", row' = [row EXCEPT ![r] = c],
                 c.state \in {"processing", "submitted", "failed"}
          PROVE  \A q \in Requests : row'[q] = row[q] \/ row'[q].state \notin Resolved
      BY <1>1, <1>2, <2>2 DEF TypeOK, Resolved
    <2>3. ASSUME NEW c \in Row, NEW new \in {"submitted", "failed"}, job[w].pc # "idle",
                 ApplyState(r, c, new)
          PROVE  \A q \in Requests : row'[q] = row[q] \/ row'[q].state \notin Resolved
      <3> DEFINE changed == [c EXCEPT !.state = new]
      <3>1. changed \in Row /\ changed.state = new
        BY DEF Row, States
      <3>2. row' = row \/ row' = [row EXCEPT ![r] = changed]
        BY <2>3 DEF ApplyState
      <3> HIDE DEF changed
      <3> QED
        BY <2>2, <2>3, <3>1, <3>2
    <2>4. CASE Submit(w) \/ Quarantine(w)
      <3>1. job[w].pc # "idle" /\ (\E new \in {"submitted", "failed"} : ApplyState(r, job[w].fresh, new))
        BY <2>4 DEF Submit, Quarantine, Settle
      <3> QED
        BY <1>2, <2>3, <3>1
    <2>5. CASE Resume(w) \/ Finalize(w)
      <3>1. job[w].pc \in {"resume", "finalize"}
        BY <2>5 DEF Resume, Finalize, Settle
      <3> QED
        BY <3>1 DEF ExclInv, JobExcl
    <2>6. CASE Retry(w)
      <3> DEFINE tried == [job[w].fresh EXCEPT !.attempts = @ + 1]
      <3>1. job[w].pc # "idle" /\ ScheduleRetry(r, job[w].fresh)
        BY <2>6 DEF Retry
      <3>2. tried \in Row /\ [tried EXCEPT !.due = FALSE] \in Row
            /\ [tried EXCEPT !.due = FALSE].state = "processing"
        <4>1. job[w].fresh \in Row /\ job[w].fresh.state = "processing"
          BY <1>2, <3>1
        <4>2. tried \in Row /\ tried.state = "processing"
          BY <4>1 DEF Row
        <4> HIDE DEF tried
        <4> QED
          BY <4>2 DEF Row
      <3>3. \/ ApplyState(r, tried, "failed")
            \/ row' = [row EXCEPT ![r] = [tried EXCEPT !.due = FALSE]]
        BY <3>1 DEF ScheduleRetry
      <3> HIDE DEF tried
      <3> QED
        BY <2>2, <2>3, <3>1, <3>2, <3>3
    <2>7. CASE Prepare(w) \/ Mark(w)
      <3>1. /\ job[w].pc # "idle"
            /\ \/ row' = row
               \/ row' = [row EXCEPT ![r].started = TRUE]
               \/ \E d \in DteIds : row' = [row EXCEPT ![r].dteId = d]
        BY <2>7 DEF Prepare, Mark
      <3>2. [row[r] EXCEPT !.started = TRUE] \in Row
            /\ [row[r] EXCEPT !.started = TRUE].state = "processing"
        BY <1>2, <3>1 DEF Row
      <3>3. \A d \in DteIds : /\ [row[r] EXCEPT !.dteId = d] \in Row
                              /\ [row[r] EXCEPT !.dteId = d].state = "processing"
        BY <1>2, <3>1 DEF Row
      <3>4. \/ row' = row
            \/ row' = [row EXCEPT ![r] = [row[r] EXCEPT !.started = TRUE]]
            \/ \E d \in DteIds : row' = [row EXCEPT ![r] = [row[r] EXCEPT !.dteId = d]]
        BY <3>1
      <3> QED
        BY <2>2, <3>1, <3>2, <3>3, <3>4
    <2>8. CASE \/ \E q \in Requests : Load(w, q)
               \/ PrepareFails(w) \/ Existing(w) \/ ReadDte(w) \/ Upload(w) \/ Revert(w)
               \/ \E write \in Writes : Persist(w, write) \/ PersistFails(w, write)
      BY <2>8 DEF Load, PrepareFails, Existing, ReadDte, Upload, Revert, Persist, PersistFails
    <2> QED
      BY <2>1, <2>4, <2>5, <2>6, <2>7, <2>8 DEF WorkerStep
  <1>4. \A d \in DteIds :
          \/ dte'[d] = dte[d]
          \/ /\ dte'[d].status \notin Last
             /\ \A q \in Requests : row[q].dteId = d => row[q].state \notin Resolved
             /\ \A p \in Pollers : poll[p].pc # "idle" => poll[p].copy.dteId # d
    <2>1. CASE dte' = dte
      BY <2>1
    <2>2. ASSUME NEW d \in DteIds, dte[d].status = "none",
                 dte' = [dte EXCEPT ![d] = [NoDoc EXCEPT !.status = "FIRMADO", !.owner = r]]
          PROVE  /\ dte'[d].status \notin Last
                 /\ \A f \in DteIds : f # d => dte'[f] = dte[f]
                 /\ \A q \in Requests : row[q].dteId # d
                 /\ \A p \in Pollers : poll[p].pc # "idle" => poll[p].copy.dteId # d
      <3>1. [NoDoc EXCEPT !.status = "FIRMADO", !.owner = r].status = "FIRMADO"
        BY DEF NoDoc
      <3>2. dte'[d].status = "FIRMADO" /\ \A f \in DteIds : f # d => dte'[f] = dte[f]
        BY <1>1, <2>2, <3>1 DEF TypeOK
      <3>3. \A q \in Requests : row[q].dteId # d
        BY <2>2, NullsAssumption DEF ExclInv, RowExcl
      <3>4. \A p \in Pollers : poll[p].pc # "idle" => poll[p].copy.dteId # d
        BY <2>2, PollerAlone
      <3> QED
        BY <3>2, <3>3, <3>4 DEF Last
    <2>3. ASSUME job[w].pc \notin {"idle", "prepare", "retry"}
          PROVE  /\ e \in DteIds /\ dte[e] \in Dte /\ dte[e].status \notin Last
                 /\ \A q \in Requests : row[q].dteId = e => row[q].state \notin Resolved
                 /\ \A p \in Pollers : poll[p].pc # "idle" => poll[p].copy.dteId # e
      <3>1. e \in DteIds /\ e = row[r].dteId /\ e # NoDte
        BY <1>2, <2>3, NullsAssumption DEF ExclInv, RefsInv, JobOK
      <3>2. dte[e].owner = r /\ dte[e].status # "none"
        BY <1>2, <2>3, <3>1 DEF ExclInv, RowExcl
      <3>3. \A q \in Requests : row[q].dteId = e => q = r
        BY <3>1, <3>2 DEF ExclInv, RowExcl
      <3>4. dte[e].status \notin Final
        BY <1>2, <2>3, <3>1, <3>2 DEF ExclInv, DocExcl, Reported
      <3>5. \A p \in Pollers : poll[p].pc # "idle" => poll[p].copy.dteId # e
        BY <2>3, PollerAlone
      <3> QED
        BY <1>1, <1>2, <2>3, <3>1, <3>3, <3>4, <3>5 DEF TypeOK, Resolved, Final, Last
    <2>4. CASE Prepare(w)
      BY <2>1, <2>2, <2>4 DEF Prepare
    <2>5. ASSUME NEW doc, doc.status \notin Last, dte' = [dte EXCEPT ![e] = doc],
                 job[w].pc \notin {"idle", "prepare", "retry"}
          PROVE  /\ dte'[e].status \notin Last
                 /\ \A f \in DteIds : f # e => dte'[f] = dte[f]
      BY <1>1, <2>3, <2>5 DEF TypeOK
    <2>6. ASSUME NEW write \in Writes, Persist(w, write)
          PROVE  \E doc : doc.status \notin Last /\ dte' = [dte EXCEPT ![e] = doc]
      <3>1. dte' = [dte EXCEPT ![e] = Wrote(dte[e], job[w].track, write)]
        BY <2>6 DEF Persist
      <3>2. job[w].pc \notin {"idle", "prepare", "retry"}
        BY <2>6 DEF Persist
      <3>3. Wrote(dte[e], job[w].track, write).status \notin Last
        BY <2>3, <3>2 DEF Wrote, Writes, Dte, Last
      <3> QED
        BY <3>1, <3>3
    <2>7. ASSUME Revert(w)
          PROVE  dte' = dte \/ \E doc : doc.status \notin Last /\ dte' = [dte EXCEPT ![e] = doc]
      <3> DEFINE back == [dte[e] EXCEPT !.status = "BORRADOR", !.trackId = job[w].track]
                 Doc(late) == [back EXCEPT !.status = IF "dte" \in late THEN "ENVIADO" ELSE @,
                                           !.submissions = IF "submission" \in late
                                                             THEN @ \cup {job[w].track} ELSE @]
      <3>1. dte[e] \in Dte
        BY <2>3, <2>7 DEF Revert
      <3>2. \A late \in SUBSET job[w].pending : Doc(late).status \notin Last
        BY <3>1 DEF Dte, Last
      <3>3. dte' = dte \/ \E late \in SUBSET job[w].pending : dte' = [dte EXCEPT ![e] = Doc(late)]
        BY <2>7 DEF Revert
      <3> HIDE DEF Doc
      <3> QED
        BY <3>2, <3>3
    <2>8. CASE Revert(w) \/ \E write \in Writes : Persist(w, write)
      <3>1. job[w].pc \notin {"idle", "prepare", "retry"}
        BY <2>8 DEF Revert, Persist
      <3> QED
        BY <2>3, <2>5, <2>6, <2>7, <2>8, <3>1
    <2>9. CASE \/ \E q \in Requests : Load(w, q)
               \/ PrepareFails(w) \/ Retry(w) \/ Existing(w) \/ Resume(w) \/ Finalize(w) \/ Submit(w)
               \/ Quarantine(w) \/ Mark(w) \/ ReadDte(w) \/ Upload(w)
               \/ \E write \in Writes : PersistFails(w, write)
      BY <2>9 DEF Load, PrepareFails, Retry, Existing, Resume, Finalize, Submit, Quarantine, Settle,
         Mark, ReadDte, Upload, PersistFails
    <2> QED
      BY <2>4, <2>8, <2>9 DEF WorkerStep
  <1> QED
    BY <1>1, <1>3, <1>4, VerdictFrame

\* A poller's steps: it holds the TrackID of the document, and the SII's answer
\* for it.
LEMMA PollVerdictStep ==
  ASSUME ExclInv, RefsInv', VerdictInv, NEW p \in Pollers,
         PollStep(p) \/ PollFails(p) \/ \E r \in Requests : PollStart(p, r)
  PROVE  VerdictInv'
  <1> DEFINE d == poll[p].copy.dteId  r == poll[p].req
  <1>1. TypeOK /\ TypeOK' /\ sii' = sii
    BY DEF ExclInv, RefsInv, PollStep, PollRead, PollAsk, PollFind, PollWrite, PollApply, PollFails,
       PollStart
  <1>2. \A q \in Pollers : q # p => poll'[q] = poll[q]
    BY <1>1 DEF PollStep, PollRead, PollAsk, PollFind, PollWrite, PollApply, PollFails, PollStart,
       PollEnds, PollGoto, TypeOK
  <1>3. ASSUME poll[p].pc # "idle"
        PROVE  /\ d \in DteIds /\ r \in Requests /\ row[r].dteId = d /\ dte[d] \in Dte
               /\ poll[p] \in Poll /\ PollVerdict(p) /\ DocVerdict(d)
               /\ poll[p].copy \in Row
               /\ poll[p].pc # "read" => poll[p].track \in 1..Len(sii[d])
    <2>1. d \in DteIds /\ r \in Requests /\ row[r].dteId = d /\ dte[d] \in Dte /\ poll[p] \in Poll
      BY <1>3, PollerAlone
    <2>2. poll[p].track \in Nat /\ poll[p].copy \in Row /\ Len(sii[d]) \in Nat
      BY <1>1, <2>1 DEF Poll, TypeOK
    <2>3. poll[p].pc # "read" => 0 < poll[p].track /\ poll[p].track <= Len(sii[d])
      BY <1>3 DEF ExclInv, RefsInv, PollOK
    <2> QED
      BY <2>1, <2>2, <2>3 DEF VerdictInv
  <1>4. ASSUME NEW e \in DteIds, NEW t, NEW v, Sure(e, t, v) PROVE Sure(e, t, v)'
    BY <1>1, <1>4 DEF Sure
  <1>0. ASSUME NEW new, poll' = [poll EXCEPT ![p] = new] PROVE poll'[p] = new
    BY <1>0, <1>1 DEF TypeOK
  <1>5. ASSUME UNCHANGED <<row, dte>>, PollVerdict(p)' PROVE VerdictInv'
    <2>1. \A q \in Pollers : PollVerdict(q)'
      BY <1>1, <1>2, <1>5 DEF VerdictInv, PollVerdict, Sure
    <2> QED
      BY <1>1, <1>5, <2>1 DEF VerdictInv, DocVerdict, RowVerdict, Sure
  <1>6. ASSUME NEW q \in Requests, PollStart(p, q) PROVE VerdictInv'
    <2>1. poll'[p].pc = "read" /\ UNCHANGED <<row, dte>>
      BY <1>1, <1>6 DEF PollStart, IdlePoll, TypeOK
    <2>2. PollVerdict(p)'
      BY <2>1 DEF PollVerdict
    <2> QED
      BY <1>5, <2>1, <2>2
  <1>7. CASE PollFails(p)
    <2>1. poll'[p].pc = "idle" /\ UNCHANGED <<row, dte>>
      BY <1>1, <1>7 DEF PollFails, PollEnds, IdlePoll, TypeOK
    <2>2. PollVerdict(p)'
      BY <2>1 DEF PollVerdict
    <2> QED
      BY <1>5, <2>1, <2>2
  <1>8. CASE PollRead(p)
    <2>1. poll[p].pc = "read" /\ UNCHANGED <<row, dte>>
      BY <1>8 DEF PollRead
    <2>2. \/ poll'[p].pc = "idle"
          \/ poll'[p].pc = "ask" /\ poll'[p].track = dte[d].trackId /\ poll'[p].copy = poll[p].copy
      <3> DEFINE new == [poll[p] EXCEPT !.pc = "ask", !.track = dte[d].trackId]
      <3>1. poll' = [poll EXCEPT ![p] = IdlePoll] \/ poll' = [poll EXCEPT ![p] = new]
        BY <1>1, <1>8 DEF PollRead, PollEnds, TypeOK
      <3>2. new.pc = "ask" /\ new.track = dte[d].trackId /\ new.copy = poll[p].copy
        BY <1>3, <2>1 DEF Poll
      <3> HIDE DEF new
      <3> QED
        BY <1>0, <3>1, <3>2 DEF IdlePoll
    <2>3. PollVerdict(p)'
      BY <2>1, <2>2 DEF PollVerdict
    <2> QED
      BY <1>5, <2>1, <2>3
  <1>9. CASE PollAsk(p)
    <2>1. poll[p].pc = "ask" /\ UNCHANGED <<row, dte>>
      BY <1>9 DEF PollAsk
    <2>2. \/ poll'[p].pc = "idle"
          \/ /\ poll'[p].pc = "find" /\ poll'[p].track = poll[p].track
             /\ poll'[p].copy = poll[p].copy /\ poll'[p].answer = sii[d][poll[p].track]
      <3> DEFINE new == [poll[p] EXCEPT !.pc = "find", !.answer = sii[d][poll[p].track]]
      <3>1. poll' = [poll EXCEPT ![p] = IdlePoll] \/ poll' = [poll EXCEPT ![p] = new]
        BY <1>1, <1>9 DEF PollAsk, PollEnds, TypeOK
      <3>2. /\ new.pc = "find" /\ new.track = poll[p].track /\ new.copy = poll[p].copy
            /\ new.answer = sii[d][poll[p].track]
        BY <1>3, <2>1 DEF Poll
      <3> HIDE DEF new
      <3> QED
        BY <1>0, <3>1, <3>2 DEF IdlePoll
    <2>3. poll[p].track = dte[d].trackId /\ poll[p].track \in 1..Len(sii[d])
      BY <1>3, <2>1 DEF PollVerdict
    <2>4. PollVerdict(p)'
      BY <1>1, <2>1, <2>2, <2>3 DEF PollVerdict, Sure
    <2> QED
      BY <1>5, <2>1, <2>4
  <1>10. CASE PollFind(p)
    <2>1. poll[p].pc = "find" /\ UNCHANGED <<row, dte>>
      BY <1>10 DEF PollFind
    <2>2. /\ poll'[p].track = poll[p].track /\ poll'[p].copy = poll[p].copy
          /\ poll'[p].answer = poll[p].answer
          /\ poll'[p].pc = "apply" \/ (poll'[p].pc = "write" /\ poll'[p].seen = dte[d].status)
      <3> DEFINE on == [poll[p] EXCEPT !.pc = "apply"]
                 new == [poll[p] EXCEPT !.pc = "write", !.seen = dte[d].status]
      <3>1. poll' = [poll EXCEPT ![p] = on] \/ poll' = [poll EXCEPT ![p] = new]
        BY <1>1, <1>10 DEF PollFind, PollGoto, TypeOK
      <3>2. /\ on.pc = "apply" /\ on.track = poll[p].track /\ on.copy = poll[p].copy
            /\ on.answer = poll[p].answer
        BY <1>3, <2>1 DEF Poll
      <3>3. /\ new.pc = "write" /\ new.track = poll[p].track /\ new.copy = poll[p].copy
            /\ new.answer = poll[p].answer /\ new.seen = dte[d].status
        BY <1>3, <2>1 DEF Poll
      <3> HIDE DEF on, new
      <3> QED
        BY <1>0, <3>1, <3>2, <3>3
    <2>3. /\ poll[p].track = dte[d].trackId /\ Sure(d, poll[p].track, poll[p].answer)
          /\ Sure(d, dte[d].trackId, dte[d].status)
      BY <1>3, <2>1 DEF PollVerdict, DocVerdict
    <2>4. PollVerdict(p)'
      BY <1>1, <2>1, <2>2, <2>3 DEF PollVerdict, Sure
    <2> QED
      BY <1>5, <2>1, <2>4
  <1>11. CASE PollWrite(p)
    <2> DEFINE s == IF poll[p].answer \in Final THEN poll[p].answer ELSE poll[p].seen
               doc == [dte[d] EXCEPT !.status = s, !.trackId = poll[p].track]
    <2>1. poll[p].pc = "write" /\ row' = row /\ dte' = [dte EXCEPT ![d] = doc]
          /\ poll' = [poll EXCEPT ![p] = [poll[p] EXCEPT !.pc = "apply"]]
      BY <1>1, <1>11 DEF PollWrite, PollGoto, TypeOK
    <2>2. /\ poll[p].track = dte[d].trackId /\ Sure(d, poll[p].track, poll[p].answer)
          /\ Sure(d, poll[p].track, poll[p].seen)
      BY <1>3, <2>1 DEF PollVerdict
    <2>3. Sure(d, poll[p].track, s)
      BY <2>2
    <2>4. doc.status = s /\ doc.trackId = dte[d].trackId
      BY <1>3, <2>1, <2>2 DEF Dte
    <2> HIDE DEF s, doc
    <2>5. /\ dte'[d] = doc
          /\ \A e \in DteIds : e # d => dte'[e] = dte[e]
          /\ \A e \in DteIds : dte'[e].trackId = dte[e].trackId
      BY <1>1, <1>3, <2>1, <2>4 DEF TypeOK
    <2>6. ASSUME NEW e \in DteIds PROVE DocVerdict(e)'
      <3>1. CASE e = d
        BY <1>1, <2>2, <2>3, <2>4, <2>5, <3>1 DEF DocVerdict, Sure
      <3>2. CASE e # d
        BY <1>1, <2>5, <2>6, <3>2 DEF VerdictInv, DocVerdict, Sure
      <3> QED
        BY <3>1, <3>2
    <2>7. /\ poll'[p].pc = "apply" /\ poll'[p].track = poll[p].track
          /\ poll'[p].copy = poll[p].copy /\ poll'[p].answer = poll[p].answer
      BY <1>1, <1>3, <2>1 DEF Poll, TypeOK
    <2>8. ASSUME NEW q \in Pollers PROVE PollVerdict(q)'
      <3>1. CASE q = p
        <4>1. PICK e, t, v : e = d /\ t = poll[p].track /\ v = poll[p].answer
          OBVIOUS
        <4>d. d \in DteIds
          BY <1>3, <2>1
        <4>2. Sure(e, t, v) /\ e \in DteIds
          BY <2>2, <4>1, <4>d
        <4>3. Sure(e, t, v)'
          BY <1>4, <4>2
        <4>4. /\ poll'[p].copy.dteId = e /\ poll'[p].track = t /\ poll'[p].answer = v
              /\ poll'[p].pc = "apply" /\ dte'[e].trackId = t
          BY <2>2, <2>5, <2>7, <4>1, <4>d
        <4> QED
          BY <3>1, <4>3, <4>4 DEF PollVerdict
      <3>2. CASE q # p /\ poll[q].pc # "idle"
        <4>1. poll'[q] = poll[q] /\ poll[q].copy.dteId \in DteIds /\ PollVerdict(q)
          BY <1>2, <2>8, <3>2 DEF ExclInv, RefsInv, PollOK, VerdictInv
        <4> QED
          BY <1>1, <2>5, <4>1 DEF PollVerdict, Sure
      <3>3. CASE q # p /\ poll[q].pc = "idle"
        BY <1>2, <2>8, <3>3 DEF PollVerdict
      <3> QED
        BY <3>1, <3>2, <3>3
    <2>9. ASSUME NEW q \in Requests PROVE RowVerdict(q)'
      <3>1. RowVerdict(q)
        BY <2>9 DEF VerdictInv
      <3>2. CASE row[q].state \in Resolved
        <4>1. row[q].dteId \in DteIds
          BY <1>1, <2>9, <3>2 DEF ExclInv, RowExcl, Resolved, Reported, TypeOK, Row
        <4> QED
          BY <1>1, <2>1, <2>5, <3>1, <4>1 DEF RowVerdict, Sure
      <3>3. CASE row[q].state \notin Resolved
        BY <2>1, <3>3 DEF RowVerdict, Resolved
      <3> QED
        BY <3>2, <3>3
    <2> QED
      BY <2>6, <2>8, <2>9 DEF VerdictInv
  <1>12. CASE PollApply(p)
    <2> DEFINE s == dte[d].status  new == mapDteStatusToPublic[s]
    <2>1. poll[p].pc = "apply" /\ dte' = dte /\ poll'[p].pc = "idle"
      BY <1>1, <1>12 DEF PollApply, PollEnds, IdlePoll, TypeOK
    <2>2. \A q \in Pollers : PollVerdict(q)'
      BY <1>1, <1>2, <2>1 DEF VerdictInv, PollVerdict, Sure
    <2>3. \/ row' = row
          \/ s \in Final /\ row' = [row EXCEPT ![r] = [poll[p].copy EXCEPT !.state = new]]
      BY <1>12 DEF PollApply, ApplyState
    <2>4. ASSUME NEW q \in Requests PROVE RowVerdict(q)'
      <3>1. CASE row'[q] = row[q]
        BY <1>1, <2>1, <2>4, <3>1 DEF VerdictInv, RowVerdict, Sure
      <3>2. CASE row'[q] # row[q]
        <4>1. s \in Final /\ q = r /\ row'[q] = [poll[p].copy EXCEPT !.state = new]
          BY <1>1, <2>3, <2>4, <3>2 DEF TypeOK
        <4>2. row'[q].state = new /\ row'[q].dteId = d
          BY <1>3, <2>1, <4>1 DEF Row
        <4>3. /\ new = "accepted" => s = "ACEPTADO"
              /\ new = "rejected" => s = "RECHAZADO"
          BY <4>1 DEF Final, DteStatus, mapDteStatusToPublic
        <4>4. Sure(d, dte[d].trackId, s)
          BY <1>3, <2>1 DEF DocVerdict
        <4> HIDE DEF new, s
        <4> QED
          BY <1>1, <2>1, <4>2, <4>3, <4>4 DEF RowVerdict, Sure
      <3> QED
        BY <3>1, <3>2
    <2>5. \A e \in DteIds : DocVerdict(e)'
      BY <1>1, <2>1 DEF VerdictInv, DocVerdict, Sure
    <2> QED
      BY <2>2, <2>4, <2>5 DEF VerdictInv
  <1> QED
    BY <1>6, <1>7, <1>8, <1>9, <1>10, <1>11, <1>12 DEF PollStep

LEMMA NextVerdict ==
  ASSUME Exclusive, ExclInv, VerdictInv, [Next]_vars
  PROVE  VerdictInv'
  <1>1. TypeOK /\ RefsInv' /\ Grown
    BY NextRefs, EnvelopesGrow DEF ExclInv, RefsInv
  <1>2. ASSUME UNCHANGED <<dte, poll>>,
               \A r \in Requests : \/ row'[r].state = row[r].state /\ row'[r].dteId = row[r].dteId
                                   \/ row'[r].state \notin Resolved
        PROVE  VerdictInv'
    BY <1>1, <1>2, VerdictFrame
  <1>3. \A r \in Requests : ~SnapshotRead(r) /\ ~SnapshotWrite(r)
    BY DEF Exclusive, ExclInv, RowExcl, SnapshotRead, SnapshotWrite
  <1>4. ASSUME NEW r \in Requests, Enqueue(r) PROVE VerdictInv'
    <2>1. \A q \in Requests : row'[q] = row[q] \/ row'[q].state = "queued"
      BY <1>1, <1>4 DEF Enqueue, NewRow, NoRow, TypeOK
    <2> QED
      BY <1>2, <1>4, <2>1 DEF Enqueue, Resolved
  <1>5. ASSUME NEW r \in Requests, LeaseExpires(r) PROVE VerdictInv'
    <2>1. \A q \in Requests : row'[q].state = row[q].state /\ row'[q].dteId = row[q].dteId
      BY <1>1, <1>5 DEF LeaseExpires, TypeOK, Row
    <2> QED
      BY <1>2, <1>5, <2>1 DEF LeaseExpires
  <1>6. ASSUME NEW w \in Workers, NEW S \in SUBSET Requests, Claim(w, S) PROVE VerdictInv'
    <2>1. \A q \in Requests : row'[q] = row[q] \/ row'[q].state = "processing"
      BY <1>1, <1>6 DEF Claim, TypeOK, Row
    <2> QED
      BY <1>2, <1>6, <2>1 DEF Claim, Resolved
  <1>7. CASE \/ UNCHANGED vars
             \/ \E w \in Workers : Crash(w) \/ Abandon(w)
             \/ \E d \in DteIds, v \in Final : \E k \in 1..Len(sii[d]) : SiiDecides(d, k, v)
    <2>1. UNCHANGED <<row, dte, poll>>
      BY <1>7 DEF vars, Crash, Abandon, SiiDecides
    <2> QED
      BY <1>2, <2>1
  <1>8. ASSUME NEW w \in Workers, WorkerStep(w) PROVE VerdictInv'
    BY <1>1, <1>8, WorkerVerdict
  <1>9. ASSUME NEW p \in Pollers, PollStep(p) \/ PollFails(p) \/ \E r \in Requests : PollStart(p, r)
        PROVE  VerdictInv'
    BY <1>1, <1>9, PollVerdictStep
  <1> QED
    BY <1>3, <1>4, <1>5, <1>6, <1>7, <1>8, <1>9 DEF Next

\* query-dte-status.use-case.ts and pollSubmitted under exclusive claims: with any
\* number of pollers writing documents and rows back from their own copies, an
\* accepted or rejected request has that verdict of the SII.
THEOREM VerdictsAreFaithful ==
  ASSUME Exclusive
  PROVE  Spec => []VerdictFaithful
  <1>1. Init => VerdictInv
    BY DEF Init, VerdictInv, DocVerdict, PollVerdict, RowVerdict, Sure, NoDoc, IdlePoll, NoRow, Last
  <1>2. ExclInv /\ VerdictInv /\ [Next]_vars => VerdictInv'
    BY NextVerdict
  <1>3. VerdictInv => VerdictFaithful
    BY DEF VerdictInv, RowVerdict, Sure, Last, VerdictFaithful
  <1> QED
    BY <1>1, <1>2, <1>3, ExclusiveClaims, PTL DEF Spec
-----------------------------------------------------------------------------
(* With every fault: leases that run out under their holder, lost lookups and   *)
(* whole rows written back from copies of any age                              *)

\* State s of request r was announced, if it had to be.
Announced(r, s) == s \in Notifiable => \E i \in 1..Len(outbox[r]) : outbox[r][i] = s

\* A copy c of request r's row, however old: its state was announced and its
\* document is one that was prepared for r.
CopyOK(r, c) ==
  /\ Announced(r, c.state)
  /\ c.dteId # NoDte => dte[c.dteId].owner = r /\ dte[c.dteId].status # "none"

\* The SII gave an envelope of d verdict v, or gave it up for a last one.
Given(d, v) ==
  \E k \in 1..Len(sii[d]) : sii[d][k] = v \/ (v = "REPARO" /\ sii[d][k] # "PROCESANDO")

Backed(r, v) == \E d \in DteIds : dte[d].status # "none" /\ dte[d].owner = r /\ Given(d, v)

RowReport(r) ==
  /\ CopyOK(r, row[r])
  /\ snap[r].pc = "read" => CopyOK(r, snap[r].copy)
  /\ \A i \in 1..Len(outbox[r]), v \in Final :
       outbox[r][i] = mapDteStatusToPublic[v] => Backed(r, v)

JobReport(w) ==
  LET j == job[w] IN
  /\ j.pc # "idle" => CopyOK(j.req, j.fresh)
  /\ j.pc \in {"resume", "finalize"} => j.seen \in Final /\ Given(j.fresh.dteId, j.seen)

PollReport(p) ==
  LET q == poll[p]  d == poll[p].copy.dteId IN
  /\ q.pc # "idle" => CopyOK(q.req, q.copy)
  /\ q.pc \in {"find", "write", "apply"} /\ q.answer \in Final => Given(d, q.answer)
  /\ q.pc = "write" => q.seen # "none" /\ (q.seen \in Final => Given(d, q.seen))

DocReport(d) == dte[d].status \in Final => Given(d, dte[d].status)

\* The inductive invariant of the reports.
ReportInv ==
  /\ \A r \in Requests : RowReport(r)
  /\ \A w \in Workers : JobReport(w)
  /\ \A p \in Pollers : PollReport(p)
  /\ \A d \in DteIds : DocReport(d)

\* Events are only added, at the end.
Told ==
  \A r \in Requests :
    /\ Len(outbox[r]) <= Len(outbox'[r])
    /\ \A i \in 1..Len(outbox[r]) : outbox'[r][i] = outbox[r][i]

\* A prepared document stays, with its owner.
DocsStay ==
  \A d \in DteIds : dte[d].status # "none" =>
    dte'[d].status # "none" /\ dte'[d].owner = dte[d].owner

\* What a step may not take back.
Onward == TypeOK /\ TypeOK' /\ Told /\ DocsStay /\ Grown

LEMMA CopyStays ==
  ASSUME Onward, NEW r \in Requests, NEW c \in Row, CopyOK(r, c)
  PROVE  CopyOK(r, c)'
  <1>1. Len(outbox[r]) \in Nat /\ Len(outbox'[r]) \in Nat
    BY DEF Onward, TypeOK
  <1>2. /\ Len(outbox[r]) <= Len(outbox'[r])
        /\ \A i \in 1..Len(outbox[r]) : outbox'[r][i] = outbox[r][i]
    BY DEF Onward, Told
  <1>3. Announced(r, c.state)'
    <2> SUFFICES ASSUME c.state \in Notifiable
                 PROVE  \E i \in 1..Len(outbox'[r]) : outbox'[r][i] = c.state
      BY DEF Announced
    <2>1. PICK i \in 1..Len(outbox[r]) : outbox[r][i] = c.state
      BY DEF CopyOK, Announced
    <2> QED
      BY <1>1, <1>2, <2>1
  <1>4. c.dteId # NoDte => dte'[c.dteId].owner = r /\ dte'[c.dteId].status # "none"
    BY DEF CopyOK, Onward, DocsStay, Row
  <1> QED
    BY <1>3, <1>4 DEF CopyOK

LEMMA GivenStays ==
  ASSUME Onward, NEW d \in DteIds, NEW v \in Final, Given(d, v)
  PROVE  Given(d, v)'
  <1>1. Len(sii[d]) \in Nat /\ Len(sii'[d]) \in Nat
    BY DEF Onward, TypeOK
  <1>2. PICK k \in 1..Len(sii[d]) : sii[d][k] = v \/ (v = "REPARO" /\ sii[d][k] # "PROCESANDO")
    BY DEF Given
  <1>3. /\ Len(sii[d]) <= Len(sii'[d])
        /\ sii[d][k] \in Last => sii'[d][k] = sii[d][k]
        /\ sii[d][k] # "PROCESANDO" => sii'[d][k] # "PROCESANDO"
    BY DEF Onward, Grown
  <1>4. sii'[d][k] = v \/ (v = "REPARO" /\ sii'[d][k] # "PROCESANDO")
    BY <1>2, <1>3 DEF Final, Last
  <1>5. k \in 1..Len(sii'[d])
    BY <1>1, <1>2, <1>3
  <1> QED
    BY <1>4, <1>5 DEF Given

LEMMA BackedStays ==
  ASSUME Onward, NEW r \in Requests, NEW v \in Final, Backed(r, v)
  PROVE  Backed(r, v)'
  <1>1. PICK d \in DteIds : dte[d].status # "none" /\ dte[d].owner = r /\ Given(d, v)
    BY DEF Backed
  <1>2. dte'[d].status # "none" /\ dte'[d].owner = r
    BY <1>1 DEF Onward, DocsStay
  <1>3. Given(d, v)'
    BY <1>1, GivenStays
  <1> QED
    BY <1>2, <1>3 DEF Backed

\* What a step does not write keeps its reports.
LEMMA SameReports ==
  ASSUME RefsInv, ReportInv, Onward
  PROVE  /\ \A r \in Requests : row'[r] = row[r] => CopyOK(r, row[r])'
         /\ \A r \in Requests : snap'[r] = snap[r] =>
              (snap[r].pc = "read" => CopyOK(r, snap[r].copy))'
         /\ \A r \in Requests : \A i \in 1..Len(outbox[r]), v \in Final :
              outbox[r][i] = mapDteStatusToPublic[v] => Backed(r, v)'
         /\ \A w \in Workers : job'[w] = job[w] => JobReport(w)'
         /\ \A p \in Pollers : poll'[p] = poll[p] => PollReport(p)'
         /\ \A d \in DteIds : dte'[d] = dte[d] => DocReport(d)'
  <1>1. ASSUME NEW r \in Requests, row'[r] = row[r] PROVE CopyOK(r, row[r])'
    <2>1. row[r] \in Row /\ CopyOK(r, row[r])
      BY <1>1 DEF RefsInv, TypeOK, ReportInv, RowReport
    <2>2. PICK c \in Row : c = row[r]
      BY <2>1
    <2>3. CopyOK(r, c)'
      BY <2>1, <2>2, CopyStays
    <2> QED
      BY <1>1, <2>2, <2>3
  <1>2. ASSUME NEW r \in Requests, snap'[r] = snap[r], snap'[r].pc = "read"
        PROVE  CopyOK(r, snap[r].copy)'
    <2>1. snap[r].copy \in Row /\ CopyOK(r, snap[r].copy)
      BY <1>2 DEF RefsInv, TypeOK, Snap, ReportInv, RowReport
    <2>2. PICK c \in Row : c = snap[r].copy
      BY <2>1
    <2>3. CopyOK(r, c)'
      BY <2>1, <2>2, CopyStays
    <2> QED
      BY <1>2, <2>2, <2>3
  <1>3. ASSUME NEW r \in Requests, NEW i \in 1..Len(outbox[r]), NEW v \in Final,
               outbox[r][i] = mapDteStatusToPublic[v]
        PROVE  Backed(r, v)'
    BY <1>3, BackedStays DEF ReportInv, RowReport
  <1>4. ASSUME NEW w \in Workers, job'[w] = job[w] PROVE JobReport(w)'
    <2>1. job[w] \in Job /\ JobReport(w) /\ JobOK(w)
      BY <1>4 DEF RefsInv, TypeOK, ReportInv
    <2>2. PICK c \in Row : c = job[w].fresh
      BY <2>1 DEF Job
    <2>3. ASSUME job[w].pc # "idle" PROVE CopyOK(job[w].req, c)'
      <3>1. PICK r \in Requests : r = job[w].req
        BY <2>1, <2>3 DEF JobOK
      <3>2. CopyOK(r, c)
        BY <2>1, <2>2, <2>3, <3>1 DEF JobReport
      <3>3. CopyOK(r, c)'
        BY <3>2, CopyStays
      <3> QED
        BY <1>4, <3>1, <3>3
    <2>4. ASSUME job[w].pc \in {"resume", "finalize"}
          PROVE  job[w].seen \in Final /\ Given(c.dteId, job[w].seen)'
      <3>1. c.dteId \in DteIds /\ job[w].seen \in Final /\ Given(c.dteId, job[w].seen)
        BY <2>1, <2>2, <2>4 DEF JobReport, JobOK
      <3>2. PICK v \in Final : v = job[w].seen
        BY <3>1
      <3>3. Given(c.dteId, v)'
        BY <3>1, <3>2, GivenStays
      <3> QED
        BY <1>4, <3>2, <3>3
    <2> QED
      BY <1>4, <2>2, <2>3, <2>4 DEF JobReport
  <1>5. ASSUME NEW p \in Pollers, poll'[p] = poll[p] PROVE PollReport(p)'
    <2>1. poll[p] \in Poll /\ PollReport(p) /\ PollOK(p)
      BY <1>5 DEF RefsInv, TypeOK, ReportInv
    <2>2. PICK c \in Row : c = poll[p].copy
      BY <2>1 DEF Poll
    <2>3. CASE poll[p].pc = "idle"
      BY <1>5, <2>3 DEF PollReport
    <2>4. CASE poll[p].pc # "idle"
      <3>1. c.dteId \in DteIds
        BY <2>1, <2>2, <2>4 DEF PollOK
      <3>2. CopyOK(poll[p].req, c)'
        <4>1. PICK r \in Requests : r = poll[p].req
          BY <2>1, <2>4 DEF PollOK
        <4>2. CopyOK(r, c)
          BY <2>1, <2>2, <2>4, <4>1 DEF PollReport
        <4>3. CopyOK(r, c)'
          BY <4>2, CopyStays
        <4> QED
          BY <1>5, <4>1, <4>3
      <3>3. ASSUME NEW v \in Final, Given(c.dteId, v) PROVE Given(c.dteId, v)'
        BY <3>1, <3>3, GivenStays
      <3>4. poll[p].pc \in {"find", "write", "apply"} /\ poll[p].answer \in Final =>
              Given(c.dteId, poll[p].answer)'
        BY <1>5, <2>1, <2>2, <3>3 DEF PollReport
      <3>5. poll[p].pc = "write" =>
              poll[p].seen # "none" /\ (poll[p].seen \in Final => Given(c.dteId, poll[p].seen)')
        BY <1>5, <2>1, <2>2, <3>3 DEF PollReport
      <3> QED
        BY <1>5, <2>2, <3>2, <3>4, <3>5 DEF PollReport
    <2> QED
      BY <2>3, <2>4
  <1>6. ASSUME NEW d \in DteIds, dte'[d] = dte[d] PROVE DocReport(d)'
    <2>1. DocReport(d)
      BY <1>6 DEF ReportInv
    <2>2. ASSUME NEW v \in Final, v = dte[d].status PROVE Given(d, v)'
      BY <2>1, <2>2, GivenStays DEF DocReport
    <2> QED
      BY <1>6, <2>2 DEF DocReport
  <1> QED
    BY <1>1, <1>2, <1>3, <1>4, <1>5, <1>6

\* Which documents a worker and a poller write, and how.
LEMMA WorkerDocs ==
  ASSUME RefsInv, ReportInv, NEW w \in Workers,
         Revert(w) \/ \E write \in Writes : Persist(w, write)
  PROVE  LET e == job[w].fresh.dteId IN
         /\ e \in DteIds /\ dte[e] \in Dte
         /\ \A d \in DteIds : d # e => dte'[d] = dte[d]
         /\ dte'[e].owner = dte[e].owner
         /\ dte'[e].status = dte[e].status \/ dte'[e].status \in {"ENVIADO", "BORRADOR"}
  <1> DEFINE e == job[w].fresh.dteId
  <1>1. e \in DteIds /\ dte[e] \in Dte /\ dte \in [DteIds -> Dte]
    BY DEF RefsInv, TypeOK, JobOK, Revert, Persist
  <1>2. ASSUME NEW doc, dte' = [dte EXCEPT ![e] = doc]
        PROVE  dte'[e] = doc /\ \A d \in DteIds : d # e => dte'[d] = dte[d]
    BY <1>1, <1>2
  <1>3. ASSUME NEW write \in Writes, Persist(w, write)
        PROVE  \E doc : /\ dte' = [dte EXCEPT ![e] = doc] /\ doc.owner = dte[e].owner
                        /\ doc.status = dte[e].status \/ doc.status \in {"ENVIADO", "BORRADOR"}
    <2> DEFINE doc == Wrote(dte[e], job[w].track, write)
    <2>1. dte' = [dte EXCEPT ![e] = doc]
      BY <1>3 DEF Persist
    <2>2. doc.owner = dte[e].owner /\ (doc.status = dte[e].status \/ doc.status = "ENVIADO")
      BY <1>1 DEF Wrote, Writes, Dte
    <2> HIDE DEF doc
    <2> QED
      BY <2>1, <2>2
  <1>4. ASSUME Revert(w)
        PROVE  \/ dte' = dte
               \/ \E doc : /\ dte' = [dte EXCEPT ![e] = doc] /\ doc.owner = dte[e].owner
                           /\ doc.status \in {"ENVIADO", "BORRADOR"}
    <2> DEFINE back == [dte[e] EXCEPT !.status = "BORRADOR", !.trackId = job[w].track]
               Doc(late) == [back EXCEPT !.status = IF "dte" \in late THEN "ENVIADO" ELSE @,
                                         !.submissions = IF "submission" \in late
                                                           THEN @ \cup {job[w].track} ELSE @]
    <2>1. \A late \in SUBSET job[w].pending :
            Doc(late).owner = dte[e].owner /\ Doc(late).status \in {"ENVIADO", "BORRADOR"}
      BY <1>1 DEF Dte
    <2>2. dte' = dte \/ \E late \in SUBSET job[w].pending : dte' = [dte EXCEPT ![e] = Doc(late)]
      BY <1>4 DEF Revert
    <2> HIDE DEF Doc
    <2> QED
      BY <2>1, <2>2
  <1> QED
    BY <1>1, <1>2, <1>3, <1>4

LEMMA PollerDocs ==
  ASSUME RefsInv, ReportInv, NEW p \in Pollers, PollWrite(p)
  PROVE  LET e == poll[p].copy.dteId IN
         /\ e \in DteIds
         /\ \A d \in DteIds : d # e => dte'[d] = dte[d]
         /\ dte'[e].owner = dte[e].owner /\ dte'[e].status # "none"
         /\ dte'[e].status \in Final => Given(e, dte'[e].status)
  <1> DEFINE e == poll[p].copy.dteId
             s == IF poll[p].answer \in Final THEN poll[p].answer ELSE poll[p].seen
             doc == [dte[e] EXCEPT !.status = s, !.trackId = poll[p].track]
  <1>1. poll[p].pc = "write" /\ dte' = [dte EXCEPT ![e] = doc]
    BY DEF PollWrite
  <1>2. e \in DteIds /\ dte[e] \in Dte /\ dte \in [DteIds -> Dte]
    BY <1>1 DEF RefsInv, TypeOK, PollOK
  <1>3. doc.owner = dte[e].owner /\ doc.status = s
    BY <1>2 DEF Dte
  <1>4. s # "none" /\ (s \in Final => Given(e, s))
    BY <1>1 DEF ReportInv, PollReport, Final
  <1> HIDE DEF s, doc
  <1>5. dte'[e] = doc /\ \A d \in DteIds : d # e => dte'[d] = dte[d]
    BY <1>1, <1>2
  <1> QED
    BY <1>2, <1>3, <1>4, <1>5

\* No step takes back an event, a document or an envelope.
LEMMA StepsGoOnward ==
  ASSUME RefsInv, ReportInv, [Next]_vars
  PROVE  Onward /\ RefsInv'
  <1>1. RefsInv' /\ TypeOK /\ TypeOK' /\ Grown
    BY NextRefs, EnvelopesGrow DEF RefsInv
  <1>2. Told
    <2>1. CASE outbox' = outbox
      BY <1>1, <2>1 DEF Told, TypeOK
    <2>2. ASSUME NEW r \in Requests, NEW new \in Notifiable,
                 outbox' = [outbox EXCEPT ![r] = Append(@, new)]
          PROVE  Told
      <3> SUFFICES ASSUME NEW q \in Requests
                   PROVE  /\ Len(outbox[q]) <= Len(outbox'[q])
                          /\ \A i \in 1..Len(outbox[q]) : outbox'[q][i] = outbox[q][i]
        BY DEF Told
      <3>1. outbox[q] \in Seq(Notifiable) /\ Len(outbox[q]) \in Nat
        BY <1>1 DEF TypeOK
      <3>2. outbox'[q] = outbox[q] \/ outbox'[q] = Append(outbox[q], new)
        BY <1>1, <2>2 DEF TypeOK
      <3> QED
        BY <3>1, <3>2, AppendProperties
    <2>3. ASSUME NEW r \in Requests, NEW c, NEW new \in Notifiable, ApplyState(r, c, new)
          PROVE  Told
      BY <2>1, <2>2, <2>3 DEF ApplyState
    <2>4. ASSUME NEW r \in Requests, NEW c, ScheduleRetry(r, c) PROVE Told
      <3>1. outbox' = outbox \/ ApplyState(r, [c EXCEPT !.attempts = @ + 1], "failed")
        BY <2>4 DEF ScheduleRetry
      <3> QED
        BY <2>1, <2>3, <3>1 DEF Notifiable
    <2>5. \A s \in Final : mapDteStatusToPublic[s] \in Notifiable
      BY DEF Final, DteStatus, mapDteStatusToPublic, Notifiable
    <2>6. ASSUME NEW w \in Workers, WorkerStep(w) PROVE Told
      <3>1. CASE Retry(w) \/ Resume(w) \/ Finalize(w) \/ Submit(w) \/ Quarantine(w)
        <4>1. job[w].req \in Requests
          BY <3>1 DEF Retry, Resume, Finalize, Submit, Quarantine, Settle, RefsInv, JobOK
        <4>2. \/ ScheduleRetry(job[w].req, job[w].fresh)
              \/ \E new \in Notifiable : ApplyState(job[w].req, job[w].fresh, new)
          BY <2>5, <3>1 DEF Retry, Resume, Finalize, Submit, Quarantine, Settle, Notifiable
        <4> QED
          BY <2>3, <2>4, <4>1, <4>2
      <3>2. CASE ~(Retry(w) \/ Resume(w) \/ Finalize(w) \/ Submit(w) \/ Quarantine(w))
        BY <2>1, <2>6, <3>2 DEF WorkerStep, Load, Prepare, PrepareFails, Existing, Mark, ReadDte,
           Upload, Revert, Persist, PersistFails
      <3> QED
        BY <3>1, <3>2
    <2>7. ASSUME NEW p \in Pollers, PollStep(p) PROVE Told
      <3>1. CASE PollApply(p)
        <4>1. poll[p].req \in Requests
          BY <3>1 DEF PollApply, RefsInv, PollOK
        <4>2. outbox' = outbox \/ \E new \in Notifiable : ApplyState(poll[p].req, poll[p].copy, new)
          BY <2>5, <3>1 DEF PollApply
        <4> QED
          BY <2>1, <2>3, <4>1, <4>2
      <3>2. CASE ~PollApply(p)
        BY <2>1, <2>7, <3>2 DEF PollStep, PollRead, PollAsk, PollFind, PollWrite
      <3> QED
        BY <3>1, <3>2
    <2>8. CASE UNCHANGED vars
      BY <2>1, <2>8 DEF vars
    <2> QED
      BY <2>1, <2>6, <2>7, <2>8 DEF Next, Enqueue, SnapshotRead, SnapshotWrite, LeaseExpires, Claim,
         Crash, Abandon, PollStart, PollFails, SiiDecides
  <1>3. DocsStay
    <2>1. CASE dte' = dte
      BY <2>1 DEF DocsStay
    <2>2. ASSUME NEW w \in Workers, WorkerStep(w) PROVE DocsStay
      <3>1. CASE Revert(w) \/ \E write \in Writes : Persist(w, write)
        BY <3>1, WorkerDocs DEF DocsStay
      <3>2. CASE Prepare(w)
        BY <1>1, <2>1, <3>2 DEF Prepare, DocsStay, TypeOK
      <3>3. CASE ~(Prepare(w) \/ Revert(w) \/ \E write \in Writes : Persist(w, write))
        BY <2>1, <2>2, <3>3 DEF WorkerStep, Load, PrepareFails, Retry, Existing, Resume, Finalize,
           Submit, Quarantine, Settle, Mark, ReadDte, Upload, PersistFails
      <3> QED
        BY <3>1, <3>2, <3>3
    <2>3. ASSUME NEW p \in Pollers, PollStep(p) PROVE DocsStay
      <3>1. CASE PollWrite(p)
        BY <3>1, PollerDocs DEF DocsStay
      <3>2. CASE ~PollWrite(p)
        BY <2>1, <2>3, <3>2 DEF PollStep, PollRead, PollAsk, PollFind, PollApply
      <3> QED
        BY <3>1, <3>2
    <2>4. CASE UNCHANGED vars
      BY <2>1, <2>4 DEF vars
    <2> QED
      BY <2>1, <2>2, <2>3, <2>4 DEF Next, Enqueue, SnapshotRead, SnapshotWrite, LeaseExpires, Claim,
         Crash, Abandon, PollStart, PollFails, SiiDecides
  <1> QED
    BY <1>1, <1>2, <1>3 DEF Onward

-----------------------------------------------------------------------------
\* A row that keeps its document, and its state unless the new one is announced
\* to nobody, keeps its report.
LEMMA RowCarries ==
  ASSUME RefsInv, ReportInv, Onward, NEW r \in Requests,
         row'[r].dteId = row[r].dteId,
         row'[r].state = row[r].state \/ row'[r].state \notin Notifiable
  PROVE  CopyOK(r, row[r])'
  <1>1. row[r] \in Row /\ CopyOK(r, row[r])
    BY DEF RefsInv, TypeOK, ReportInv, RowReport
  <1>2. PICK c \in Row : c = row[r]
    BY <1>1
  <1>3. CopyOK(r, c)'
    BY <1>1, <1>2, CopyStays
  <1> QED
    BY <1>2, <1>3 DEF CopyOK, Announced

\* The reports of the rows when no event is added.
LEMMA RowsSilent ==
  ASSUME RefsInv, ReportInv, Onward, outbox' = outbox,
         \A r \in Requests : CopyOK(r, row[r])',
         \A r \in Requests : snap'[r].pc = "read" => CopyOK(r, snap[r].copy)'
  PROVE  \A r \in Requests : RowReport(r)'
  <1> SUFFICES ASSUME NEW r \in Requests PROVE RowReport(r)'
    OBVIOUS
  <1>1. \A i \in 1..Len(outbox[r]), v \in Final :
          outbox[r][i] = mapDteStatusToPublic[v] => Backed(r, v)'
    BY SameReports
  <1> QED
    BY <1>1 DEF RowReport

LEMMA RowsKept ==
  ASSUME RefsInv, ReportInv, Onward, UNCHANGED <<row, snap, outbox>>
  PROVE  \A r \in Requests : RowReport(r)'
  BY SameReports, RowsSilent

\* applyState, on a copy whose state was announced, for a verdict the SII gave:
\* the new state is announced with the row.
LEMMA AppliedReports ==
  ASSUME RefsInv, ReportInv, Onward, snap' = snap,
         NEW r \in Requests, NEW c \in Row, NEW new \in Notifiable,
         CopyOK(r, c), ApplyState(r, c, new),
         \A v \in Final : new = mapDteStatusToPublic[v] => Backed(r, v)
  PROVE  /\ \A q \in Requests : RowReport(q)'
         /\ MayApply(r, new) => Announced(r, new)'
  <1>1. CASE <<row[r].state, new>> \in Allowed
    <2> DEFINE n == [c EXCEPT !.state = new]
    <2>1. row' = [row EXCEPT ![r] = n] /\ outbox' = [outbox EXCEPT ![r] = Append(@, new)]
      BY <1>1 DEF ApplyState
    <2>2. n.state = new /\ n.dteId = c.dteId
      BY DEF Row
    <2> HIDE DEF n
    <2>3. /\ row'[r] = n /\ outbox'[r] = Append(outbox[r], new)
          /\ \A q \in Requests : q # r => row'[q] = row[q] /\ outbox'[q] = outbox[q]
      BY <2>1 DEF RefsInv, TypeOK
    <2>4. outbox[r] \in Seq(Notifiable) /\ Len(outbox[r]) \in Nat
      BY DEF RefsInv, TypeOK
    <2>5. /\ Len(outbox'[r]) = Len(outbox[r]) + 1
          /\ outbox'[r][Len(outbox[r]) + 1] = new
          /\ \A i \in 1..Len(outbox[r]) : outbox'[r][i] = outbox[r][i]
      BY <2>3, <2>4, AppendProperties
    <2>6. Announced(r, new)'
      <3>1. Len(outbox[r]) + 1 \in 1..Len(outbox'[r])
        BY <2>4, <2>5
      <3> QED
        BY <2>5, <3>1 DEF Announced
    <2>7. CopyOK(r, row[r])'
      <3>1. CopyOK(r, c)'
        BY CopyStays
      <3> QED
        BY <2>2, <2>3, <2>6, <3>1 DEF CopyOK
    <2>8. \A q \in Requests : snap'[q].pc = "read" => CopyOK(q, snap[q].copy)'
      BY SameReports
    <2>9. ASSUME NEW q \in Requests PROVE RowReport(q)'
      <3>1. CopyOK(q, row[q])'
        BY <2>3, <2>7, SameReports
      <3>2. \A i \in 1..Len(outbox[q]), v \in Final :
              outbox[q][i] = mapDteStatusToPublic[v] => Backed(q, v)'
        BY SameReports
      <3>3. ASSUME NEW i \in 1..Len(outbox'[q]), NEW v \in Final,
                   outbox'[q][i] = mapDteStatusToPublic[v]
            PROVE  Backed(q, v)'
        <4>1. CASE q = r /\ i = Len(outbox[r]) + 1
          <5>1. Backed(r, v)
            BY <2>5, <3>3, <4>1
          <5> QED
            BY <4>1, <5>1, BackedStays
        <4>2. CASE q = r /\ i # Len(outbox[r]) + 1
          <5>1. i \in 1..Len(outbox[r])
            BY <2>4, <2>5, <4>2
          <5> QED
            BY <2>5, <3>2, <3>3, <4>2, <5>1
        <4>3. CASE q # r
          BY <2>3, <3>2, <3>3, <4>3
        <4> QED
          BY <4>1, <4>2, <4>3
      <3> QED
        BY <2>8, <3>1, <3>3 DEF RowReport
    <2> QED
      BY <2>6, <2>9
  <1>2. CASE <<row[r].state, new>> \notin Allowed
    <2>1. UNCHANGED <<row, outbox>>
      BY <1>2 DEF ApplyState
    <2>2. \A q \in Requests : RowReport(q)'
      BY <2>1, RowsKept
    <2>3. ASSUME MayApply(r, new) PROVE Announced(r, new)'
      BY <1>2, <2>1, <2>2, <2>3 DEF MayApply, RowReport, CopyOK
    <2> QED
      BY <2>2, <2>3
  <1> QED
    BY <1>1, <1>2

\* No verdict is announced as a failure or as a submission.
LEMMA OnlyVerdicts ==
  \A v \in Final : mapDteStatusToPublic[v] \in Notifiable \ {"submitted", "failed"}
  BY DEF Final, mapDteStatusToPublic, DteStatus, Notifiable

\* ... and two verdicts are never announced alike.
LEMMA VerdictsDiffer ==
  \A u, v \in Final : mapDteStatusToPublic[u] = mapDteStatusToPublic[v] => u = v
  BY DEF Final, mapDteStatusToPublic, DteStatus

LEMMA RetriedReports ==
  ASSUME RefsInv, ReportInv, Onward, snap' = snap,
         NEW r \in Requests, NEW c \in Row, CopyOK(r, c), ScheduleRetry(r, c)
  PROVE  \A q \in Requests : RowReport(q)'
  <1> DEFINE tried == [c EXCEPT !.attempts = @ + 1]
  <1>1. tried \in Row /\ tried.state = c.state /\ tried.dteId = c.dteId
    BY DEF Row
  <1>2. CASE tried.attempts >= MaxAttempts
    <2>1. ApplyState(r, tried, "failed")
      BY <1>2 DEF ScheduleRetry
    <2> HIDE DEF tried
    <2>2. CopyOK(r, tried)
      BY <1>1 DEF CopyOK, Announced
    <2>3. "failed" \in Notifiable /\ \A v \in Final : "failed" # mapDteStatusToPublic[v]
      BY OnlyVerdicts DEF Notifiable
    <2> QED
      BY <1>1, <2>1, <2>2, <2>3, AppliedReports
  <1>3. CASE ~(tried.attempts >= MaxAttempts)
    <2> DEFINE n == [tried EXCEPT !.due = FALSE]
    <2>1. row' = [row EXCEPT ![r] = n] /\ outbox' = outbox
      BY <1>3 DEF ScheduleRetry
    <2>2. n.state = c.state /\ n.dteId = c.dteId
      BY <1>1 DEF Row
    <2> HIDE DEF n
    <2>3. row'[r] = n /\ \A q \in Requests : q # r => row'[q] = row[q]
      BY <2>1 DEF RefsInv, TypeOK
    <2>4. CopyOK(r, c)'
      BY CopyStays
    <2>5. CopyOK(r, row[r])'
      BY <2>2, <2>3, <2>4 DEF CopyOK, Announced
    <2>6. \A q \in Requests : CopyOK(q, row[q])'
      BY <2>3, <2>5, SameReports
    <2>7. \A q \in Requests : snap'[q].pc = "read" => CopyOK(q, snap[q].copy)'
      BY SameReports
    <2> QED
      BY <2>1, <2>6, <2>7, RowsSilent
  <1> QED
    BY <1>2, <1>3

-----------------------------------------------------------------------------
\* A worker's step has to keep the rows' reports and its own.
LEMMA WorkerReports ==
  ASSUME RefsInv, ReportInv, Onward, NEW w \in Workers, JobReport(w)',
         \A v \in Workers : v # w => job'[v] = job[v],
         \A r \in Requests : RowReport(r)',
         UNCHANGED <<dte, poll>>
  PROVE  ReportInv'
  BY SameReports DEF ReportInv

\* The same for a poller's step.
LEMMA PollerReports ==
  ASSUME RefsInv, ReportInv, Onward, NEW p \in Pollers, PollReport(p)',
         \A q \in Pollers : q # p => poll'[q] = poll[q],
         \A r \in Requests : RowReport(r)',
         UNCHANGED <<dte, job>>
  PROVE  ReportInv'
  BY SameReports DEF ReportInv

\* A worker that only moves on keeps what it remembers.
LEMMA MovesOn ==
  ASSUME RefsInv, ReportInv, Onward, NEW w \in Workers, NEW step \in Steps,
         job[w].pc # "idle", job'[w].pc = step, step \notin {"resume", "finalize"},
         job'[w].req = job[w].req, job'[w].fresh = job[w].fresh
  PROVE  JobReport(w)'
  <1>1. job[w].req \in Requests /\ job[w].fresh \in Row /\ CopyOK(job[w].req, job[w].fresh)
    BY DEF RefsInv, TypeOK, Job, JobOK, ReportInv, JobReport
  <1>2. PICK r \in Requests : r = job[w].req
    BY <1>1
  <1>3. PICK c \in Row : c = job[w].fresh
    BY <1>1
  <1>4. CopyOK(r, c)'
    BY <1>1, <1>2, <1>3, CopyStays
  <1> QED
    BY <1>2, <1>3, <1>4 DEF JobReport

\* Entering, the 202 answer, claiming and the clock.
LEMMA QueueReports ==
  ASSUME RefsInv, ReportInv, Onward,
         \/ \E r \in Requests : \/ Enqueue(r) \/ SnapshotRead(r) \/ SnapshotWrite(r)
                                \/ LeaseExpires(r)
         \/ \E w \in Workers, S \in SUBSET Requests : Claim(w, S)
  PROVE  ReportInv'
  <1>1. UNCHANGED <<dte, job, poll, outbox>>
    BY DEF Enqueue, SnapshotRead, SnapshotWrite, LeaseExpires, Claim
  <1>2. \A r \in Requests : RowReport(r)'
    <2>1. ASSUME NEW r \in Requests, Enqueue(r) PROVE \A q \in Requests : RowReport(q)'
      <3>1. row' = [row EXCEPT ![r] = NewRow] /\ snap' = snap
        BY <2>1 DEF Enqueue
      <3>2. row'[r] = NewRow /\ \A q \in Requests : q # r => row'[q] = row[q]
        BY <3>1 DEF RefsInv, TypeOK
      <3>3. NewRow.state = "queued" /\ NewRow.dteId = NoDte
        BY DEF NewRow, NoRow
      <3>4. CopyOK(r, row[r])'
        BY <3>2, <3>3 DEF CopyOK, Announced, Notifiable
      <3> QED
        BY <1>1, <3>1, <3>2, <3>4, SameReports, RowsSilent
    <2>2. ASSUME NEW r \in Requests, SnapshotRead(r) PROVE \A q \in Requests : RowReport(q)'
      <3> DEFINE n == [pc |-> "read", copy |-> row[r]]
      <3>1. snap' = [snap EXCEPT ![r] = n] /\ row' = row
        BY <2>2 DEF SnapshotRead
      <3>2. n.copy = row[r]
        OBVIOUS
      <3> HIDE DEF n
      <3>3. snap'[r] = n /\ \A q \in Requests : q # r => snap'[q] = snap[q]
        BY <3>1 DEF RefsInv, TypeOK
      <3>4. \A q \in Requests : CopyOK(q, row[q])'
        BY <3>1, SameReports
      <3>5. CopyOK(r, snap[r].copy)'
        BY <3>1, <3>2, <3>3, <3>4
      <3>6. \A q \in Requests : snap'[q].pc = "read" => CopyOK(q, snap[q].copy)'
        BY <3>3, <3>5, SameReports
      <3> QED
        BY <1>1, <3>4, <3>6, RowsSilent
    <2>3. ASSUME NEW r \in Requests, SnapshotWrite(r) PROVE \A q \in Requests : RowReport(q)'
      <3> DEFINE n == [pc |-> "done", copy |-> NoRow]
      <3>1. /\ snap[r].pc = "read"
            /\ row' = [row EXCEPT ![r] = snap[r].copy]
            /\ snap' = [snap EXCEPT ![r] = n]
        BY <2>3 DEF SnapshotWrite
      <3>2. n.pc = "done"
        OBVIOUS
      <3> HIDE DEF n
      <3>3. /\ row'[r] = snap[r].copy /\ \A q \in Requests : q # r => row'[q] = row[q]
            /\ snap'[r] = n /\ \A q \in Requests : q # r => snap'[q] = snap[q]
        BY <3>1 DEF RefsInv, TypeOK
      <3>4. snap[r].copy \in Row /\ CopyOK(r, snap[r].copy)
        BY <3>1 DEF RefsInv, TypeOK, Snap, ReportInv, RowReport
      <3>5. PICK c \in Row : c = snap[r].copy
        BY <3>4
      <3>6. CopyOK(r, c)'
        BY <3>4, <3>5, CopyStays
      <3>7. CopyOK(r, row[r])'
        BY <3>3, <3>5, <3>6
      <3>8. \A q \in Requests : CopyOK(q, row[q])'
        BY <3>3, <3>7, SameReports
      <3>9. \A q \in Requests : snap'[q].pc = "read" => CopyOK(q, snap[q].copy)'
        BY <3>2, <3>3, SameReports
      <3> QED
        BY <1>1, <3>8, <3>9, RowsSilent
    <2>4. ASSUME NEW r \in Requests, LeaseExpires(r) PROVE \A q \in Requests : RowReport(q)'
      <3>1. row' = [row EXCEPT ![r].due = TRUE] /\ snap' = snap
        BY <2>4 DEF LeaseExpires
      <3>2. \A q \in Requests : row'[q].state = row[q].state /\ row'[q].dteId = row[q].dteId
        BY <3>1 DEF RefsInv, TypeOK, Row
      <3>3. \A q \in Requests : CopyOK(q, row[q])'
        BY <3>2, RowCarries
      <3> QED
        BY <1>1, <3>1, <3>3, SameReports, RowsSilent
    <2>5. ASSUME NEW w \in Workers, NEW S \in SUBSET Requests, Claim(w, S)
          PROVE  \A q \in Requests : RowReport(q)'
      <3>1. /\ row' = [r \in Requests |-> IF r \in S
                         THEN [row[r] EXCEPT !.state = "processing", !.due = FALSE] ELSE row[r]]
            /\ snap' = snap
        BY <2>5 DEF Claim
      <3>2. \A q \in Requests : /\ row'[q].dteId = row[q].dteId
                                /\ row'[q].state = row[q].state \/ row'[q].state = "processing"
        BY <3>1 DEF RefsInv, TypeOK, Row
      <3>3. \A q \in Requests : CopyOK(q, row[q])'
        BY <3>2, RowCarries DEF Notifiable
      <3> QED
        BY <1>1, <3>1, <3>3, SameReports, RowsSilent
    <2> QED
      BY <2>1, <2>2, <2>3, <2>4, <2>5
  <1> QED
    BY <1>1, <1>2, SameReports DEF ReportInv

-----------------------------------------------------------------------------
LEMMA FinishReports ==
  ASSUME TypeOK, NEW w \in Workers, Finish(w)
  PROVE  JobReport(w)' /\ \A v \in Workers : v # w => job'[v] = job[v]
  <1>1. job'[w] = IdleJob /\ \A v \in Workers : v # w => job'[v] = job[v]
    BY JobBecomes DEF Finish
  <1> QED
    BY <1>1 DEF JobReport, IdleJob

\* Loading a row, preparing its document and reading it.
LEMMA PrepareReports ==
  ASSUME RefsInv, ReportInv, Onward, NEW w \in Workers,
         \/ \E r \in Requests : Load(w, r)
         \/ Prepare(w) \/ PrepareFails(w) \/ Existing(w)
  PROVE  ReportInv'
  <1>1. TypeOK /\ job[w] \in Job
    BY DEF RefsInv, TypeOK
  <1>2. ASSUME NEW r \in Requests, Load(w, r) PROVE ReportInv'
    <2> DEFINE step == IF row[r].dteId = NoDte THEN "prepare" ELSE "existing"
               j == [IdleJob EXCEPT !.pc = step, !.req = r, !.fresh = row[r]]
    <2>1. job' = [job EXCEPT ![w] = j] /\ UNCHANGED <<row, dte, poll, snap, outbox>>
      BY <1>2 DEF Load
    <2>2. j.pc \in {"prepare", "existing"} /\ j.req = r /\ j.fresh = row[r]
      BY DEF IdleJob
    <2> HIDE DEF j
    <2>3. job'[w] = j /\ \A v \in Workers : v # w => job'[v] = job[v]
      BY <1>1, <2>1, JobBecomes
    <2>4. \A q \in Requests : RowReport(q)'
      BY <2>1, RowsKept
    <2>5. CopyOK(r, row[r])'
      BY <2>1, SameReports
    <2>6. JobReport(w)'
      BY <2>1, <2>2, <2>3, <2>5 DEF JobReport
    <2> QED
      BY <2>1, <2>3, <2>4, <2>6, WorkerReports
  <1>3. CASE Prepare(w)
    <2>1. job[w].pc = "prepare" /\ UNCHANGED <<poll, snap, outbox>>
      BY <1>3 DEF Prepare
    <2>2. PICK r \in Requests : r = job[w].req
      BY <2>1 DEF RefsInv, JobOK
    <2>3. /\ \A q \in Requests : CopyOK(q, row[q])'
          /\ \A d \in DteIds : DocReport(d)'
      <3>1. CASE UNCHANGED <<row, dte>>
        BY <3>1, SameReports
      <3>2. ASSUME NEW d \in DteIds,
                   dte' = [dte EXCEPT ![d] = [NoDoc EXCEPT !.status = "FIRMADO", !.owner = r]],
                   row' = [row EXCEPT ![r].dteId = d]
            PROVE  /\ \A q \in Requests : CopyOK(q, row[q])'
                   /\ \A e \in DteIds : DocReport(e)'
        <4>1. /\ dte'[d].status = "FIRMADO" /\ dte'[d].owner = r
              /\ \A e \in DteIds : e # d => dte'[e] = dte[e]
          BY <1>1, <3>2 DEF TypeOK, NoDoc
        <4>2. /\ row'[r].dteId = d /\ row'[r].state = row[r].state
              /\ \A q \in Requests : q # r => row'[q] = row[q]
          BY <1>1, <3>2 DEF TypeOK, Row
        <4>3. CopyOK(r, row[r])'
          <5>1. CopyOK(r, row[r])
            BY DEF ReportInv, RowReport
          <5> QED
            BY <2>1, <4>1, <4>2, <5>1 DEF CopyOK, Announced
        <4>4. DocReport(d)'
          BY <4>1 DEF DocReport, Final
        <4> QED
          BY <4>1, <4>2, <4>3, <4>4, SameReports
      <3> QED
        BY <1>3, <2>2, <3>1, <3>2 DEF Prepare
    <2>4. \A q \in Requests : RowReport(q)'
      BY <2>1, <2>3, SameReports, RowsSilent
    <2>5. JobReport(w)' /\ \A v \in Workers : v # w => job'[v] = job[v]
      <3>1. CASE Goto(w, "retry")
        <4>1. /\ job'[w].pc = "retry" /\ job'[w].req = job[w].req
              /\ job'[w].fresh = job[w].fresh
              /\ \A v \in Workers : v # w => job'[v] = job[v]
          BY <1>1, <3>1, GotoBecomes DEF Steps
        <4> QED
          BY <2>1, <4>1, MovesOn DEF Steps
      <3>2. CASE job' = [job EXCEPT ![w].pc = "mark", ![w].fresh = row'[r]]
        <4>1. /\ job'[w].pc = "mark" /\ job'[w].req = r /\ job'[w].fresh = row'[r]
              /\ \A v \in Workers : v # w => job'[v] = job[v]
          BY <1>1, <2>2, <3>2 DEF TypeOK, Job
        <4> QED
          BY <2>3, <4>1 DEF JobReport
      <3> QED
        BY <1>3, <2>2, <3>1, <3>2 DEF Prepare
    <2> QED
      BY <2>1, <2>3, <2>4, <2>5, SameReports DEF ReportInv
  <1>4. CASE PrepareFails(w)
    <2>1. job[w].pc = "prepare" /\ Goto(w, "retry") /\ UNCHANGED <<row, dte, poll, snap, outbox>>
      BY <1>4 DEF PrepareFails
    <2>2. /\ job'[w].pc = "retry" /\ job'[w].req = job[w].req /\ job'[w].fresh = job[w].fresh
          /\ \A v \in Workers : v # w => job'[v] = job[v]
      BY <1>1, <2>1, GotoBecomes DEF Steps
    <2>3. JobReport(w)'
      BY <2>1, <2>2, MovesOn DEF Steps
    <2> QED
      BY <2>1, <2>2, <2>3, RowsKept, WorkerReports
  <1>5. CASE Existing(w)
    <2> DEFINE doc == dte[job[w].fresh.dteId]
    <2>1. job[w].pc = "existing" /\ UNCHANGED <<row, dte, sii, poll, snap, outbox>>
      BY <1>5 DEF Existing
    <2>2. job[w].fresh.dteId \in DteIds
      BY <2>1 DEF RefsInv, JobOK
    <2>3. CASE doc.status \notin Final
      <3>1. PICK step \in {"submit", "mark"} : Goto(w, step)
        BY <1>5, <2>3 DEF Existing
      <3>2. step \in Steps
        BY <3>1 DEF Steps
      <3>3. /\ job'[w].pc = step /\ job'[w].req = job[w].req /\ job'[w].fresh = job[w].fresh
            /\ \A v \in Workers : v # w => job'[v] = job[v]
        BY <1>1, <3>1, <3>2, GotoBecomes
      <3>4. JobReport(w)'
        BY <2>1, <3>1, <3>2, <3>3, MovesOn
      <3> QED
        BY <2>1, <3>3, <3>4, RowsKept, WorkerReports
    <2>4. CASE doc.status \in Final
      <3>1. PICK step \in {"resume", "finalize"} :
              job' = [job EXCEPT ![w].pc = step, ![w].seen = doc.status]
        BY <1>5, <2>4 DEF Existing
      <3>2. /\ job'[w].pc = step /\ job'[w].req = job[w].req /\ job'[w].fresh = job[w].fresh
            /\ job'[w].seen = doc.status
            /\ \A v \in Workers : v # w => job'[v] = job[v]
        BY <1>1, <3>1 DEF TypeOK, Job
      <3>3. CopyOK(job[w].req, job[w].fresh)
        BY <2>1 DEF ReportInv, JobReport
      <3>4. Given(job[w].fresh.dteId, doc.status)
        BY <2>2, <2>4 DEF ReportInv, DocReport
      <3>5. JobReport(w)'
        BY <2>1, <2>4, <3>2, <3>3, <3>4 DEF JobReport, CopyOK, Announced, Given
      <3> QED
        BY <2>1, <3>2, <3>5, RowsKept, WorkerReports
    <2> QED
      BY <2>3, <2>4
  <1> QED
    BY <1>2, <1>3, <1>4, <1>5

\* The steps that write the public state.
LEMMA SettleReports ==
  ASSUME RefsInv, ReportInv, Onward, NEW w \in Workers,
         Retry(w) \/ Resume(w) \/ Finalize(w) \/ Submit(w) \/ Quarantine(w)
  PROVE  ReportInv'
  <1>1. TypeOK /\ job[w] \in Job /\ job[w].pc # "idle" /\ UNCHANGED <<dte, sii, poll, snap>>
    BY DEF RefsInv, TypeOK, Retry, Resume, Finalize, Submit, Quarantine, Settle
  <1>2. PICK r \in Requests : r = job[w].req
    BY <1>1 DEF RefsInv, JobOK
  <1>3. PICK c \in Row : c = job[w].fresh
    BY <1>1 DEF Job
  <1>4. CopyOK(r, c)
    BY <1>1, <1>2, <1>3 DEF ReportInv, JobReport
  <1>5. ASSUME job[w].pc \in {"resume", "finalize"}
        PROVE  job[w].seen \in Final /\ Given(c.dteId, job[w].seen) /\ c.dteId \in DteIds
    BY <1>3, <1>5 DEF ReportInv, JobReport, RefsInv, JobOK
  <1>6. ASSUME NEW new \in {"submitted", "failed"}, ApplyState(r, c, new)
        PROVE  /\ \A q \in Requests : RowReport(q)'
               /\ MayApply(r, new) => Announced(r, new)'
    <2>1. new \in Notifiable /\ \A v \in Final : new # mapDteStatusToPublic[v]
      BY <1>6, OnlyVerdicts DEF Notifiable
    <2> QED
      BY <1>1, <1>4, <1>6, <2>1, AppliedReports
  <1>7. ASSUME Finish(w), \A q \in Requests : RowReport(q)' PROVE ReportInv'
    <2>1. JobReport(w)' /\ \A v \in Workers : v # w => job'[v] = job[v]
      BY <1>1, <1>7, FinishReports
    <2> QED
      BY <1>1, <1>7, <2>1, WorkerReports
  <1>8. CASE Retry(w)
    <2>1. ScheduleRetry(r, c) /\ Finish(w)
      BY <1>2, <1>3, <1>8 DEF Retry
    <2>2. \A q \in Requests : RowReport(q)'
      BY <1>1, <1>4, <2>1, RetriedReports
    <2> QED
      BY <1>7, <2>1, <2>2
  <1>9. CASE Submit(w) \/ Quarantine(w)
    <2>1. Finish(w) /\ \E new \in {"submitted", "failed"} : ApplyState(r, c, new)
      BY <1>2, <1>3, <1>9 DEF Submit, Quarantine, Settle
    <2> QED
      BY <1>6, <1>7, <2>1
  <1>10. CASE Finalize(w)
    <2>1. PICK v \in Final : /\ job[w].seen = v /\ job[w].pc = "finalize" /\ Finish(w)
                             /\ ApplyState(r, c, mapDteStatusToPublic[v])
      BY <1>2, <1>3, <1>10 DEF Finalize, Settle
    <2>2. Backed(r, v)
      <3>1. Given(c.dteId, v) /\ c.dteId \in DteIds
        BY <1>5, <2>1
      <3>2. c.dteId # NoDte
        BY <3>1, NullsAssumption
      <3>3. dte[c.dteId].owner = r /\ dte[c.dteId].status # "none"
        BY <1>4, <3>2 DEF CopyOK
      <3> QED
        BY <3>1, <3>3 DEF Backed
    <2>3. PICK new \in Notifiable : new = mapDteStatusToPublic[v]
      BY OnlyVerdicts
    <2>4. \A u \in Final : new = mapDteStatusToPublic[u] => Backed(r, u)
      BY <2>2, <2>3, VerdictsDiffer
    <2>5. \A q \in Requests : RowReport(q)'
      BY <1>1, <1>4, <2>1, <2>3, <2>4, AppliedReports
    <2> QED
      BY <1>7, <2>1, <2>5
  <1>11. CASE Resume(w)
    <2>1. /\ job[w].pc = "resume" /\ ApplyState(r, c, "submitted")
          /\ MayApply(r, "submitted") =>
               job' = [job EXCEPT ![w].pc = "finalize",
                                  ![w].fresh = [job[w].fresh EXCEPT !.state = "submitted"]]
          /\ ~MayApply(r, "submitted") => Finish(w)
      BY <1>2, <1>3, <1>11 DEF Resume
    <2>2. /\ \A q \in Requests : RowReport(q)'
          /\ MayApply(r, "submitted") => Announced(r, "submitted")'
      BY <1>6, <2>1
    <2>3. CASE MayApply(r, "submitted")
      <3> DEFINE n == [job[w].fresh EXCEPT !.state = "submitted"]
      <3>1. job' = [job EXCEPT ![w].pc = "finalize", ![w].fresh = n]
        BY <2>1, <2>3
      <3>2. n.state = "submitted" /\ n.dteId = c.dteId
        BY <1>3 DEF Row
      <3> HIDE DEF n
      <3>3. /\ job'[w].pc = "finalize" /\ job'[w].req = r /\ job'[w].fresh = n
            /\ job'[w].seen = job[w].seen
            /\ \A v \in Workers : v # w => job'[v] = job[v]
        BY <1>1, <1>2, <3>1 DEF TypeOK, Job
      <3>4. CopyOK(r, c)'
        BY <1>4, CopyStays
      <3>5. Announced(r, "submitted")'
        BY <2>2, <2>3
      <3>6. CopyOK(job[w].req, job[w].fresh)'
        BY <3>2, <3>3, <3>4, <3>5 DEF CopyOK
      <3>7. job'[w].seen \in Final /\ Given(job[w].fresh.dteId, job[w].seen)'
        BY <1>1, <1>5, <2>1, <3>2, <3>3 DEF Given
      <3>8. JobReport(w)'
        BY <3>6, <3>7 DEF JobReport
      <3> QED
        BY <1>1, <2>2, <3>3, <3>8, WorkerReports
    <2>4. CASE ~MayApply(r, "submitted")
      BY <1>7, <2>1, <2>2, <2>4
    <2> QED
      BY <2>3, <2>4
  <1> QED
    BY <1>8, <1>9, <1>10, <1>11

\* The fence and the upload.
LEMMA TransmitReports ==
  ASSUME RefsInv, ReportInv, Onward, NEW w \in Workers,
         Mark(w) \/ ReadDte(w) \/ Upload(w) \/ \E write \in Writes : PersistFails(w, write)
  PROVE  ReportInv'
  <1>1. /\ TypeOK /\ job[w] \in Job /\ job[w].pc \notin {"idle", "resume", "finalize"}
        /\ UNCHANGED <<dte, poll, snap, outbox>>
    BY DEF RefsInv, TypeOK, Mark, ReadDte, Upload, PersistFails
  <1>2. ASSUME NEW step \in Steps, Goto(w, step), step \notin {"resume", "finalize"}
        PROVE  JobReport(w)' /\ \A v \in Workers : v # w => job'[v] = job[v]
    BY <1>1, <1>2, GotoBecomes, MovesOn
  <1>3. ASSUME row' = row, JobReport(w)', \A v \in Workers : v # w => job'[v] = job[v]
        PROVE  ReportInv'
    BY <1>1, <1>3, RowsKept, WorkerReports
  <1>4. CASE Mark(w)
    <2>1. PICK r \in Requests : r = job[w].req
      BY <1>1 DEF RefsInv, JobOK
    <2>2. CASE Goto(w, "quarantine") /\ UNCHANGED row
      BY <1>2, <1>3, <2>2 DEF Steps
    <2>3. CASE /\ row' = [row EXCEPT ![r].started = TRUE]
               /\ job' = [job EXCEPT ![w].pc = "read", ![w].fresh = [@ EXCEPT !.started = TRUE]]
      <3> DEFINE n == [job[w].fresh EXCEPT !.started = TRUE]
      <3>1. job' = [job EXCEPT ![w].pc = "read", ![w].fresh = n]
        BY <2>3
      <3>2. n.state = job[w].fresh.state /\ n.dteId = job[w].fresh.dteId
        BY <1>1 DEF Job, Row
      <3> HIDE DEF n
      <3>3. /\ job'[w].pc = "read" /\ job'[w].req = r /\ job'[w].fresh = n
            /\ \A v \in Workers : v # w => job'[v] = job[v]
        BY <1>1, <2>1, <3>1 DEF TypeOK, Job
      <3>4. CopyOK(job[w].req, job[w].fresh)
        BY <1>1 DEF ReportInv, JobReport
      <3>5. CopyOK(job[w].req, job[w].fresh)'
        BY <1>1, <2>1, <3>2, <3>3, <3>4 DEF CopyOK, Announced
      <3>6. JobReport(w)'
        BY <3>3, <3>5 DEF JobReport
      <3>7. \A q \in Requests : row'[q].state = row[q].state /\ row'[q].dteId = row[q].dteId
        BY <1>1, <2>3 DEF TypeOK, Row
      <3>8. \A q \in Requests : CopyOK(q, row[q])'
        BY <3>7, RowCarries
      <3>9. \A q \in Requests : RowReport(q)'
        BY <1>1, <3>8, SameReports, RowsSilent
      <3> QED
        BY <1>1, <3>3, <3>6, <3>9, WorkerReports
    <2> QED
      BY <1>4, <2>1, <2>2, <2>3 DEF Mark
  <1>5. CASE ReadDte(w)
    <2>1. row' = row
      BY <1>5 DEF ReadDte
    <2>2. CASE Goto(w, "quarantine")
      BY <1>2, <1>3, <2>1, <2>2 DEF Steps
    <2>3. CASE job' = [job EXCEPT ![w].pc = "upload",
                                  ![w].track = dte[job[w].fresh.dteId].trackId]
      <3>1. /\ job'[w].pc = "upload" /\ job'[w].req = job[w].req
            /\ job'[w].fresh = job[w].fresh
            /\ \A v \in Workers : v # w => job'[v] = job[v]
        BY <1>1, <2>3 DEF TypeOK, Job
      <3>2. JobReport(w)'
        BY <1>1, <3>1, MovesOn DEF Steps
      <3> QED
        BY <1>3, <2>1, <3>1, <3>2
    <2> QED
      BY <1>5, <2>2, <2>3 DEF ReadDte
  <1>6. CASE Upload(w)
    <2>1. row' = row /\ job[w].pc = "upload"
      BY <1>6 DEF Upload
    <2>2. CASE Goto(w, "revert")
      BY <1>2, <1>3, <2>1, <2>2 DEF Steps
    <2>3. ASSUME NEW track,
                 job' = [job EXCEPT ![w].pc = "persist", ![w].track = track,
                                    ![w].pending = Writes]
          PROVE  ReportInv'
      <3>1. /\ job'[w].pc = "persist" /\ job'[w].req = job[w].req
            /\ job'[w].fresh = job[w].fresh
            /\ \A v \in Workers : v # w => job'[v] = job[v]
        BY <1>1, <2>3 DEF TypeOK, Job
      <3>2. JobReport(w)'
        BY <1>1, <3>1, MovesOn DEF Steps
      <3> QED
        BY <1>3, <2>1, <3>1, <3>2
    <2>4. CASE job' = [job EXCEPT ![w].tries = @ + 1]
      <3>1. /\ job'[w].pc = "upload" /\ job'[w].req = job[w].req
            /\ job'[w].fresh = job[w].fresh
            /\ \A v \in Workers : v # w => job'[v] = job[v]
        BY <1>1, <2>1, <2>4 DEF TypeOK, Job
      <3>2. JobReport(w)'
        BY <1>1, <3>1, MovesOn DEF Steps
      <3> QED
        BY <1>3, <2>1, <3>1, <3>2
    <2> QED
      BY <1>6, <2>2, <2>3, <2>4 DEF Upload
  <1>7. ASSUME NEW write \in Writes, PersistFails(w, write) PROVE ReportInv'
    <2>1. row' = row /\ job' = [job EXCEPT ![w].pending = @ \ {write}, ![w].pc = "revert"]
      BY <1>7 DEF PersistFails
    <2>2. /\ job'[w].pc = "revert" /\ job'[w].req = job[w].req
          /\ job'[w].fresh = job[w].fresh
          /\ \A v \in Workers : v # w => job'[v] = job[v]
      BY <1>1, <2>1 DEF TypeOK, Job
    <2>3. JobReport(w)'
      BY <1>1, <2>2, MovesOn DEF Steps
    <2> QED
      BY <1>3, <2>1, <2>2, <2>3
  <1> QED
    BY <1>4, <1>5, <1>6, <1>7

\* The writes of forkJoin and of the catch never make a document resolved.
LEMMA PersistReports ==
  ASSUME RefsInv, ReportInv, Onward, NEW w \in Workers,
         Revert(w) \/ \E write \in Writes : Persist(w, write)
  PROVE  ReportInv'
  <1>1. /\ TypeOK /\ job[w] \in Job /\ job[w].pc \in {"revert", "persist"}
        /\ UNCHANGED <<row, sii, poll, snap, outbox>>
    BY DEF RefsInv, TypeOK, Revert, Persist
  <1>2. PICK e \in DteIds : /\ \A d \in DteIds : d # e => dte'[d] = dte[d]
                            /\ \/ dte'[e].status = dte[e].status
                               \/ dte'[e].status \in {"ENVIADO", "BORRADOR"}
    BY WorkerDocs
  <1>3. DocReport(e)'
    <2>1. DocReport(e)
      BY DEF ReportInv
    <2> QED
      BY <1>1, <1>2, <2>1 DEF DocReport, Given, Final
  <1>4. JobReport(w)' /\ \A v \in Workers : v # w => job'[v] = job[v]
    <2>1. PICK step \in {"submit", "persist", "quarantine"} :
            \/ Goto(w, step)
            \/ \E rest : job' = [job EXCEPT ![w].pending = rest, ![w].pc = step]
      BY DEF Revert, Persist
    <2>2. /\ job'[w].pc = step /\ job'[w].req = job[w].req /\ job'[w].fresh = job[w].fresh
          /\ \A v \in Workers : v # w => job'[v] = job[v]
      <3>1. CASE Goto(w, step)
        <4>1. step \in Steps
          BY DEF Steps
        <4> QED
          BY <1>1, <3>1, <4>1, GotoBecomes
      <3>2. ASSUME NEW rest, job' = [job EXCEPT ![w].pending = rest, ![w].pc = step]
            PROVE  /\ job'[w].pc = step /\ job'[w].req = job[w].req /\ job'[w].fresh = job[w].fresh
                   /\ \A v \in Workers : v # w => job'[v] = job[v]
        <4>1. PICK j : j = [job[w] EXCEPT !.pending = rest, !.pc = step]
          OBVIOUS
        <4>2. j.pc = step /\ j.req = job[w].req /\ j.fresh = job[w].fresh
          BY <1>1, <4>1 DEF Job
        <4>3. job' = [job EXCEPT ![w] = j]
          BY <1>1, <3>2, <4>1 DEF TypeOK
        <4> QED
          BY <1>1, <4>2, <4>3, JobBecomes
      <3> QED
        BY <2>1, <3>1, <3>2
    <2>3. JobReport(w)'
      BY <1>1, <2>1, <2>2, MovesOn DEF Steps
    <2> QED
      BY <2>2, <2>3
  <1> QED
    BY <1>1, <1>2, <1>3, <1>4, RowsKept, SameReports DEF ReportInv

\* Crashes and database errors, of workers and of pollers.
LEMMA FailureReports ==
  ASSUME RefsInv, ReportInv, Onward,
         \/ \E w \in Workers : Crash(w) \/ Abandon(w)
         \/ \E p \in Pollers : PollFails(p)
  PROVE  ReportInv'
  <1>1. TypeOK /\ UNCHANGED <<row, dte, snap, outbox>>
    BY DEF RefsInv, Crash, Abandon, PollFails
  <1>2. ASSUME NEW w \in Workers, Crash(w) \/ Abandon(w) PROVE ReportInv'
    <2>1. Finish(w) /\ poll' = poll
      BY <1>2 DEF Crash, Abandon, Finish
    <2> QED
      BY <1>1, <2>1, FinishReports, RowsKept, WorkerReports
  <1>3. ASSUME NEW p \in Pollers, PollFails(p) PROVE ReportInv'
    <2>1. /\ poll'[p] = IdlePoll /\ job' = job
          /\ \A q \in Pollers : q # p => poll'[q] = poll[q]
      BY <1>1, <1>3 DEF PollFails, PollEnds, TypeOK
    <2>2. PollReport(p)'
      BY <2>1 DEF PollReport, IdlePoll
    <2> QED
      BY <1>1, <2>1, <2>2, RowsKept, PollerReports
  <1> QED
    BY <1>2, <1>3

\* The SII's decisions.
LEMMA DecisionReports ==
  ASSUME RefsInv, ReportInv, Onward,
         \E d \in DteIds, v \in Final : \E k \in 1..Len(sii[d]) : SiiDecides(d, k, v)
  PROVE  ReportInv'
  <1>1. UNCHANGED <<row, dte, job, poll, snap, outbox>>
    BY DEF SiiDecides
  <1> QED
    BY <1>1, RowsKept, SameReports DEF ReportInv

-----------------------------------------------------------------------------
\* A poller starts with the row as it is and asks the SII for a TrackID.
LEMMA PollAskReports ==
  ASSUME RefsInv, ReportInv, Onward, NEW p \in Pollers,
         \/ \E r \in Requests : PollStart(p, r)
         \/ PollRead(p) \/ PollAsk(p) \/ PollFind(p)
  PROVE  ReportInv'
  <1>1. /\ TypeOK /\ poll[p] \in Poll /\ UNCHANGED <<row, dte, sii, job, snap, outbox>>
    BY DEF RefsInv, TypeOK, PollStart, PollRead, PollAsk, PollFind
  <1>2. ASSUME NEW q, poll' = [poll EXCEPT ![p] = q]
        PROVE  poll'[p] = q /\ \A o \in Pollers : o # p => poll'[o] = poll[o]
    BY <1>1, <1>2 DEF TypeOK
  <1>3. ASSUME PollReport(p)', \A o \in Pollers : o # p => poll'[o] = poll[o]
        PROVE  ReportInv'
    BY <1>1, <1>3, RowsKept, PollerReports
  <1>4. ASSUME PollEnds(p) PROVE ReportInv'
    <2>1. poll'[p] = IdlePoll /\ \A o \in Pollers : o # p => poll'[o] = poll[o]
      BY <1>2, <1>4 DEF PollEnds
    <2>2. PollReport(p)'
      BY <2>1 DEF PollReport, IdlePoll
    <2> QED
      BY <1>3, <2>1, <2>2
  <1>5. ASSUME poll[p].pc # "idle", poll'[p].req = poll[p].req, poll'[p].copy = poll[p].copy
        PROVE  CopyOK(poll[p].req, poll[p].copy)'
    <2>1. CopyOK(poll[p].req, poll[p].copy)
      BY <1>5 DEF ReportInv, PollReport
    <2> QED
      BY <1>1, <1>5, <2>1 DEF CopyOK, Announced
  <1>6. ASSUME NEW r \in Requests, PollStart(p, r) PROVE ReportInv'
    <2> DEFINE q == [IdlePoll EXCEPT !.pc = "read", !.req = r, !.copy = row[r]]
    <2>1. poll' = [poll EXCEPT ![p] = q]
      BY <1>6 DEF PollStart
    <2>2. q.pc = "read" /\ q.req = r /\ q.copy = row[r]
      BY DEF IdlePoll
    <2> HIDE DEF q
    <2>3. poll'[p] = q /\ \A o \in Pollers : o # p => poll'[o] = poll[o]
      BY <1>2, <2>1
    <2>4. CopyOK(r, row[r])'
      BY <1>1, SameReports
    <2>5. PollReport(p)'
      BY <1>1, <2>2, <2>3, <2>4 DEF PollReport
    <2> QED
      BY <1>3, <2>3, <2>5
  <1>7. CASE PollRead(p)
    <2>1. poll[p].pc = "read"
      BY <1>7 DEF PollRead
    <2>2. ASSUME NEW track, poll' = [poll EXCEPT ![p].pc = "ask", ![p].track = track]
          PROVE  ReportInv'
      <3>1. /\ poll'[p].pc = "ask" /\ poll'[p].req = poll[p].req /\ poll'[p].copy = poll[p].copy
            /\ \A o \in Pollers : o # p => poll'[o] = poll[o]
        BY <1>1, <2>2 DEF TypeOK, Poll
      <3>2. PollReport(p)'
        BY <1>5, <2>1, <3>1 DEF PollReport
      <3> QED
        BY <1>3, <3>1, <3>2
    <2> QED
      BY <1>4, <1>7, <2>2 DEF PollRead
  <1>8. CASE PollAsk(p)
    <2> DEFINE a == sii[poll[p].copy.dteId][poll[p].track]
    <2>1. poll[p].pc = "ask"
      BY <1>8 DEF PollAsk
    <2>2. CASE poll' = [poll EXCEPT ![p].pc = "find", ![p].answer = a]
      <3>1. /\ poll'[p].pc = "find" /\ poll'[p].req = poll[p].req
            /\ poll'[p].copy = poll[p].copy /\ poll'[p].answer = a
            /\ \A o \in Pollers : o # p => poll'[o] = poll[o]
        BY <1>1, <2>2 DEF TypeOK, Poll
      <3>2. /\ poll[p].copy.dteId \in DteIds /\ poll[p].track \in Nat
            /\ 0 < poll[p].track /\ poll[p].track <= Len(sii[poll[p].copy.dteId])
        BY <1>1, <2>1 DEF RefsInv, PollOK, Poll
      <3>3. poll[p].track \in 1..Len(sii[poll[p].copy.dteId])
        <4>1. Len(sii[poll[p].copy.dteId]) \in Nat
          BY <1>1, <3>2 DEF TypeOK
        <4> QED
          BY <3>2, <4>1
      <3>4. Given(poll[p].copy.dteId, a)
        BY <3>3 DEF Given
      <3>5. Given(poll[p].copy.dteId, poll[p].answer)'
        BY <1>1, <3>1, <3>4 DEF Given
      <3>6. CopyOK(poll[p].req, poll[p].copy)'
        BY <1>5, <2>1, <3>1
      <3>7. PollReport(p)'
        BY <3>1, <3>5, <3>6 DEF PollReport
      <3> QED
        BY <1>3, <3>1, <3>7
    <2> QED
      BY <1>4, <1>8, <2>2 DEF PollAsk
  <1>9. CASE PollFind(p)
    <2> DEFINE s == dte[poll[p].copy.dteId].status
    <2>1. poll[p].pc = "find"
      BY <1>9 DEF PollFind
    <2>2. /\ poll[p].copy.dteId \in DteIds
          /\ CopyOK(poll[p].req, poll[p].copy)
          /\ poll[p].answer \in Final => Given(poll[p].copy.dteId, poll[p].answer)
      BY <2>1 DEF RefsInv, PollOK, ReportInv, PollReport
    <2>3. s # "none" /\ (s \in Final => Given(poll[p].copy.dteId, s))
      BY <2>2, NullsAssumption DEF CopyOK, ReportInv, DocReport
    <2>4. ASSUME NEW step \in {"write", "apply"}, poll'[p].pc = step,
                 poll'[p].req = poll[p].req, poll'[p].copy = poll[p].copy,
                 poll'[p].answer = poll[p].answer, step = "write" => poll'[p].seen = s,
                 \A o \in Pollers : o # p => poll'[o] = poll[o]
          PROVE  ReportInv'
      <3>1. CopyOK(poll[p].req, poll[p].copy)'
        BY <1>5, <2>1, <2>4
      <3>2. poll'[p].answer \in Final => Given(poll[p].copy.dteId, poll[p].answer)'
        BY <1>1, <2>2, <2>4 DEF Given
      <3>3. step = "write" => /\ poll'[p].seen # "none"
                              /\ poll'[p].seen \in Final =>
                                   Given(poll[p].copy.dteId, poll[p].seen)'
        BY <1>1, <2>3, <2>4 DEF Given
      <3>4. PollReport(p)'
        BY <2>4, <3>1, <3>2, <3>3 DEF PollReport
      <3> QED
        BY <1>3, <2>4, <3>4
    <2>5. CASE poll' = [poll EXCEPT ![p].pc = "write", ![p].seen = s]
      <3>1. /\ poll'[p].pc = "write" /\ poll'[p].req = poll[p].req
            /\ poll'[p].copy = poll[p].copy /\ poll'[p].answer = poll[p].answer
            /\ poll'[p].seen = s
            /\ \A o \in Pollers : o # p => poll'[o] = poll[o]
        BY <1>1, <2>5 DEF TypeOK, Poll
      <3> QED
        BY <2>4, <3>1
    <2>6. CASE PollGoto(p, "apply")
      <3>1. /\ poll'[p].pc = "apply" /\ poll'[p].req = poll[p].req
            /\ poll'[p].copy = poll[p].copy /\ poll'[p].answer = poll[p].answer
            /\ \A o \in Pollers : o # p => poll'[o] = poll[o]
        BY <1>1, <2>6 DEF PollGoto, TypeOK, Poll
      <3> QED
        BY <2>4, <3>1
    <2> QED
      BY <1>9, <2>5, <2>6 DEF PollFind
  <1> QED
    BY <1>6, <1>7, <1>8, <1>9

\* A poller writes the document back and sets the public state.
LEMMA PollApplyReports ==
  ASSUME RefsInv, ReportInv, Onward, NEW p \in Pollers, PollWrite(p) \/ PollApply(p)
  PROVE  ReportInv'
  <1>1. /\ TypeOK /\ poll[p] \in Poll /\ poll[p].pc \in {"write", "apply"}
        /\ UNCHANGED <<sii, job, snap>>
    BY DEF RefsInv, TypeOK, PollWrite, PollApply
  <1>2. CASE PollWrite(p)
    <2>1. PollGoto(p, "apply") /\ UNCHANGED <<row, outbox>> /\ poll[p].pc = "write"
      BY <1>2 DEF PollWrite
    <2>2. PICK e \in DteIds : /\ e = poll[p].copy.dteId
                              /\ \A d \in DteIds : d # e => dte'[d] = dte[d]
                              /\ dte'[e].status \in Final => Given(e, dte'[e].status)
      BY <1>2, PollerDocs
    <2>3. \A d \in DteIds : DocReport(d)'
      <3>1. DocReport(e)'
        BY <1>1, <2>2 DEF DocReport, Given
      <3> QED
        BY <2>2, <3>1, SameReports
    <2>4. /\ poll'[p].pc = "apply" /\ poll'[p].req = poll[p].req
          /\ poll'[p].copy = poll[p].copy /\ poll'[p].answer = poll[p].answer
          /\ \A o \in Pollers : o # p => poll'[o] = poll[o]
      BY <1>1, <2>1 DEF PollGoto, TypeOK, Poll
    <2>5. PICK r \in Requests : r = poll[p].req
      BY <2>1 DEF RefsInv, PollOK
    <2>6. PICK c \in Row : c = poll[p].copy
      BY <1>1 DEF Poll
    <2>7. CopyOK(r, c)
      BY <1>1, <2>5, <2>6 DEF ReportInv, PollReport
    <2>8. CopyOK(r, c)'
      BY <2>7, CopyStays
    <2>9. poll[p].answer \in Final => Given(e, poll[p].answer)
      BY <2>1, <2>2 DEF ReportInv, PollReport
    <2>10. PICK k : k = poll[p].answer
      OBVIOUS
    <2>11. (k \in Final => Given(e, k))'
      <3>1. k \in Final => Given(e, k)
        BY <2>9, <2>10
      <3>2. sii' = sii
        BY <1>1
      <3> QED
        BY <3>1, <3>2 DEF Given
    <2>12. /\ poll'[p].req = r /\ poll'[p].copy = c /\ poll'[p].answer = k
           /\ poll'[p].pc = "apply"
      BY <2>4, <2>5, <2>6, <2>10
    <2>13. c.dteId = e
      BY <2>2, <2>6
    <2>14. PollReport(p)'
      BY <2>8, <2>11, <2>12, <2>13 DEF PollReport
    <2> QED
      BY <1>1, <2>1, <2>3, <2>4, <2>14, RowsKept, SameReports DEF ReportInv
  <1>3. CASE PollApply(p)
    <2>1. PollEnds(p) /\ dte' = dte
      BY <1>3 DEF PollApply
    <2>2. PollReport(p)' /\ \A o \in Pollers : o # p => poll'[o] = poll[o]
      BY <1>1, <2>1 DEF PollEnds, TypeOK, PollReport, IdlePoll
    <2>3. \A q \in Requests : RowReport(q)'
      <3>1. CASE UNCHANGED <<row, outbox>>
        BY <1>1, <3>1, RowsKept
      <3>2. ASSUME ~UNCHANGED <<row, outbox>> PROVE \A q \in Requests : RowReport(q)'
        <4>1. PICK r \in Requests : r = poll[p].req
          BY <1>1 DEF RefsInv, PollOK
        <4>2. PICK c \in Row : c = poll[p].copy
          BY <1>1 DEF Poll
        <4>3. PICK v \in Final : /\ v = dte[c.dteId].status
                                 /\ ApplyState(r, c, mapDteStatusToPublic[v])
          BY <1>3, <3>2, <4>1, <4>2 DEF PollApply
        <4>4. CopyOK(r, c) /\ c.dteId \in DteIds
          BY <1>1, <4>1, <4>2 DEF ReportInv, PollReport, RefsInv, PollOK
        <4>5. Backed(r, v)
          <5>1. dte[c.dteId].owner = r /\ dte[c.dteId].status # "none"
            BY <4>4, NullsAssumption DEF CopyOK
          <5>2. Given(c.dteId, v)
            BY <4>3, <4>4 DEF ReportInv, DocReport
          <5> QED
            BY <4>4, <5>1, <5>2 DEF Backed
        <4>6. PICK new \in Notifiable : new = mapDteStatusToPublic[v]
          BY OnlyVerdicts
        <4>7. \A u \in Final : new = mapDteStatusToPublic[u] => Backed(r, u)
          BY <4>5, <4>6, VerdictsDiffer
        <4> QED
          BY <1>1, <4>3, <4>4, <4>6, <4>7, AppliedReports
      <3> QED
        BY <3>1, <3>2
    <2> QED
      BY <1>1, <2>1, <2>2, <2>3, PollerReports
  <1> QED
    BY <1>2, <1>3
-----------------------------------------------------------------------------
LEMMA InitReports == Init => ReportInv
  BY DEF Init, ReportInv, RowReport, JobReport, PollReport, DocReport, CopyOK, Announced, NoRow,
     NewSnap, IdleJob, IdlePoll, NoDoc, Notifiable, Final

LEMMA NextReports == RefsInv /\ ReportInv /\ [Next]_vars => RefsInv' /\ ReportInv'
  <1> SUFFICES ASSUME RefsInv, ReportInv, [Next]_vars PROVE RefsInv' /\ ReportInv'
    OBVIOUS
  <1>1. Onward /\ RefsInv'
    BY StepsGoOnward
  <1>2. CASE UNCHANGED vars
    BY <1>1, <1>2, RowsKept, SameReports DEF vars, ReportInv
  <1>3. CASE Next
    <2>1. ASSUME NEW w \in Workers, WorkerStep(w) PROVE ReportInv'
      BY <1>1, <2>1, PrepareReports, SettleReports, TransmitReports, PersistReports DEF WorkerStep
    <2>2. ASSUME NEW p \in Pollers, PollStep(p) PROVE ReportInv'
      BY <1>1, <2>2, PollAskReports, PollApplyReports DEF PollStep
    <2> QED
      BY <1>1, <1>3, <2>1, <2>2, QueueReports, FailureReports, PollAskReports, DecisionReports
         DEF Next
  <1> QED
    BY <1>1, <1>2, <1>3

THEOREM ReportInvariant == Spec => [](RefsInv /\ ReportInv)
  BY InitRefs, InitReports, NextReports, PTL DEF Spec

\* With every fault of the environment, also when leases run out under their
\* holders and whole rows are written back from old copies: a state a client
\* can read has its webhook event (applyState writes both in one transaction).
THEOREM StatesAreAnnounced == Spec => []EveryStateAnnounced
  <1>1. RefsInv /\ ReportInv => EveryStateAnnounced
    <2> SUFFICES ASSUME RefsInv, ReportInv, NEW r \in Requests, row[r].state \in Notifiable
                 PROVE  \E i \in DOMAIN outbox[r] : outbox[r][i] = row[r].state
      BY DEF EveryStateAnnounced
    <2>1. outbox[r] \in Seq(Notifiable)
      BY DEF RefsInv, TypeOK
    <2>2. \E i \in 1..Len(outbox[r]) : outbox[r][i] = row[r].state
      BY DEF ReportInv, RowReport, CopyOK, Announced
    <2> QED
      BY <2>1, <2>2
  <1> QED
    BY <1>1, ReportInvariant, PTL

\* With every fault: a verdict dispatchForRequest announces is one the SII gave
\* to an envelope of a document prepared for that request.
THEOREM AnnouncementsAreTrue == Spec => []AnnouncedIsTrue
  <1>1. RefsInv /\ ReportInv => AnnouncedIsTrue
    <2> SUFFICES ASSUME RefsInv, ReportInv, NEW r \in Requests
                 PROVE  \A i \in DOMAIN outbox[r] : \A v \in Final :
                          outbox[r][i] = mapDteStatusToPublic[v] =>
                            \E d \in Prepared :
                              /\ dte[d].owner = r
                              /\ \E k \in DOMAIN sii[d] :
                                   sii[d][k] = v \/ (v = "REPARO" /\ sii[d][k] # "PROCESANDO")
      BY DEF AnnouncedIsTrue
    <2> SUFFICES ASSUME NEW i \in DOMAIN outbox[r], NEW v \in Final,
                        outbox[r][i] = mapDteStatusToPublic[v]
                 PROVE  \E d \in Prepared :
                          /\ dte[d].owner = r
                          /\ \E k \in DOMAIN sii[d] :
                               sii[d][k] = v \/ (v = "REPARO" /\ sii[d][k] # "PROCESANDO")
      OBVIOUS
    <2>1. i \in 1..Len(outbox[r])
      BY DEF RefsInv, TypeOK
    <2>2. PICK d \in DteIds : dte[d].status # "none" /\ dte[d].owner = r /\ Given(d, v)
      BY <2>1 DEF ReportInv, RowReport, Backed
    <2>3. PICK k \in 1..Len(sii[d]) : sii[d][k] = v \/ (v = "REPARO" /\ sii[d][k] # "PROCESANDO")
      BY <2>2 DEF Given
    <2>4. k \in DOMAIN sii[d]
      BY <2>3 DEF RefsInv, TypeOK
    <2> QED
      BY <2>2, <2>3, <2>4 DEF Prepared
  <1> QED
    BY <1>1, ReportInvariant, PTL
-----------------------------------------------------------------------------
(* What GET /dtes/:id answers                                                  *)

\* Request r's 202 handler is not through; until then its row is written from
\* no old copy and its claims are exclusive.
Calm(r) == snap[r].pc # "done"

\* A write of emit.transmit in flight has a TrackID; a busy worker's calm
\* request is claimed, and its copy has the row's document.
JobCalm(w) ==
  LET j == job[w]  r == j.req  d == j.fresh.dteId IN
  /\ j.pc = "idle" => r = NoReq
  /\ j.pc = "persist" \/ j.pending # {} => 0 < j.track
  /\ j.pending # {} => j.pc \in {"persist", "revert", "quarantine"}
  /\ j.pc # "idle" /\ Calm(r) =>
       /\ row[r].state = "processing" /\ ~row[r].due
       /\ j.fresh.state = "processing"
       /\ j.pc \notin {"resume", "finalize"}
       /\ j.pc \notin {"prepare", "retry"} => d = row[r].dteId
       /\ j.pc = "submit" => 0 < dte[d].trackId
       /\ j.pc = "persist" /\ "dte" \notin j.pending => dte[d].trackId = j.track

\* A calm request that waits in a worker's batch is claimed.
TodoCalm(w, r) ==
  r \in todo[w] /\ Calm(r) =>
    row[r].state = "processing" /\ ~row[r].due /\ r # job[w].req

\* No two workers hold a calm request.
HeldApart ==
  \A v, w \in Workers : v # w => \A r \in Held(v) \cap Held(w) : ~Calm(r)

\* A calm polled request was reported; the poller's verdict is the SII's.
PollCalm(p) ==
  poll[p].pc # "idle" /\ Calm(poll[p].req) =>
    LET now == row[poll[p].req] IN
    /\ now.state \in Reported /\ now.dteId = poll[p].copy.dteId
    /\ PollVerdict(p)

\* A reported calm request has a TrackID and the SII's verdict, and what the 202
\* handler's copy reports the row still says.
RowCalm(r) ==
  Calm(r) =>
    /\ row[r].state \in Reported => row[r].dteId # NoDte /\ 0 < dte[row[r].dteId].trackId
    /\ RowVerdict(r)
    /\ snap[r].pc = "read" =>
         LET c == snap[r].copy IN
         /\ c.state \in Reported => row[r].state \in Reported /\ row[r].dteId = c.dteId
         /\ c.state \in Resolved => row[r].state = c.state

\* A document that was sent has a TrackID; the verdict of a calm request's
\* document is the SII's, and the request was reported.
DocCalm(d) ==
  /\ dte[d].status # "none" => dte[d].owner \in Requests
  /\ dte[d].status \in {"ENVIADO"} \cup Final => 0 < dte[d].trackId
  /\ dte[d].status \in Final /\ Calm(dte[d].owner) =>
       row[dte[d].owner].state \in Reported /\ DocVerdict(d)

\* The inductive invariant of the answers.
CalmInv ==
  /\ \A w \in Workers : JobCalm(w)
  /\ \A w \in Workers, r \in Requests : TodoCalm(w, r)
  /\ HeldApart
  /\ \A p \in Pollers : PollCalm(p)
  /\ \A r \in Requests : RowCalm(r)
  /\ \A d \in DteIds : DocCalm(d)

LEMMA InitCalm == Init => CalmInv
  <1> SUFFICES ASSUME Init PROVE CalmInv
    OBVIOUS
  <1>1. \A w \in Workers : JobCalm(w)
    BY DEF Init, JobCalm, IdleJob
  <1>2. HeldApart
    BY DEF Init, HeldApart, Held, IdleJob
  <1>3. \A p \in Pollers : PollCalm(p)
    BY DEF Init, PollCalm, IdlePoll
  <1>4. \A r \in Requests : RowCalm(r)
    BY DEF Init, RowCalm, RowVerdict, NoRow, NewSnap, Reported
  <1>5. \A d \in DteIds : DocCalm(d)
    BY DEF Init, DocCalm, NoDoc, Final
  <1>6. \A w \in Workers, r \in Requests : TodoCalm(w, r)
    BY DEF Init, TodoCalm
  <1> QED
    BY <1>1, <1>2, <1>3, <1>4, <1>5, <1>6 DEF CalmInv

\* All that CalmInv rests on, and what a step may not take back.
CalmStep == RefsInv /\ ReportInv /\ CalmInv /\ Onward

\* A step that leaves request q's row and documents alone; its 202 handler at
\* most reads the row.
Same(q) ==
  /\ row'[q] = row[q]
  /\ snap'[q] = snap[q] \/ (Calm(q) /\ snap'[q].copy = row[q])
  /\ \A d \in DteIds : dte[d].status # "none" /\ dte[d].owner = q => dte'[d] = dte[d]

\* A step that writes at most request r's row, handler and documents.
Only(r) ==
  /\ \A q \in Requests : q # r => row'[q] = row[q] /\ snap'[q] = snap[q]
  /\ \A d \in DteIds : dte'[d] = dte[d] \/ (dte'[d].owner = r /\ dte'[d].status # "none")

LEMMA OnlySame ==
  ASSUME CalmStep, NEW r, Only(r), NEW q \in Requests, q # r
  PROVE  Same(q)
  BY DEF CalmStep, Onward, DocsStay, Only, Same

LEMMA SameRow ==
  ASSUME CalmStep, NEW q \in Requests, Same(q)
  PROVE  RowCalm(q)'
  <1>1. row'[q] = row[q] /\ (Calm(q)' => Calm(q))
    BY DEF Same, Calm
  <1>2. RowCalm(q) /\ CopyOK(q, row[q]) /\ row[q].dteId \in DteIds \cup {NoDte} /\ TypeOK /\ TypeOK' /\ Grown
    BY DEF CalmStep, CalmInv, ReportInv, RowReport, Onward, TypeOK, Row
  <1>3. Calm(q) /\ snap'[q].pc = "read" =>
          LET c == snap'[q].copy IN
          /\ c.state \in Reported => row[q].state \in Reported /\ row[q].dteId = c.dteId
          /\ c.state \in Resolved => row[q].state = c.state
    BY <1>2 DEF RowCalm, Same
  <1>4. CASE Calm(q)' /\ row[q].state \notin Reported
    <2>1. RowVerdict(q)'
      BY <1>1, <1>4 DEF RowVerdict, Reported
    <2> QED
      BY <1>1, <1>3, <1>4, <2>1 DEF RowCalm
  <1>5. CASE Calm(q)' /\ row[q].state \in Reported
    <2>1. PICK d \in DteIds : d = row[q].dteId
      BY <1>1, <1>2, <1>5 DEF RowCalm
    <2>2. dte'[d] = dte[d]
      BY <1>2, <2>1, NullsAssumption DEF CopyOK, Same
    <2>3. RowVerdict(q)'
      <3>1. \A v : Sure(d, dte[d].trackId, v) => Sure(d, dte[d].trackId, v)'
        BY <1>2, <2>2, SureStays
      <3> QED
        BY <1>1, <1>2, <1>5, <2>1, <2>2, <3>1 DEF RowCalm, RowVerdict
    <2> QED
      BY <1>1, <1>2, <1>3, <1>5, <2>1, <2>2, <2>3 DEF RowCalm
  <1>6. CASE ~Calm(q)'
    BY <1>6 DEF RowCalm
  <1> QED
    BY <1>4, <1>5, <1>6

LEMMA SameJob ==
  ASSUME CalmStep, NEW w \in Workers, job'[w] = job[w], job[w].pc # "idle" => Same(job[w].req)
  PROVE  JobCalm(w)'
  <1>1. JobCalm(w) /\ JobOK(w) /\ JobReport(w)
    BY DEF CalmStep, CalmInv, RefsInv, ReportInv
  <1>2. CASE job[w].pc = "idle"
    BY <1>1, <1>2 DEF JobCalm
  <1>3. CASE job[w].pc # "idle"
    <2>1. CopyOK(job[w].req, job[w].fresh)
      BY <1>1, <1>3 DEF JobReport
    <2>2. row'[job[w].req] = row[job[w].req] /\ (Calm(job[w].req)' => Calm(job[w].req))
      BY <1>3 DEF Same, Calm
    <2>3. ASSUME job[w].pc \in {"persist", "submit"}
          PROVE  dte'[job[w].fresh.dteId] = dte[job[w].fresh.dteId]
      <3>1. PICK d \in DteIds : d = job[w].fresh.dteId
        BY <1>1, <2>3 DEF JobOK
      <3>2. dte[d].status # "none" /\ dte[d].owner = job[w].req
        BY <2>1, <3>1, NullsAssumption DEF CopyOK
      <3> QED
        BY <1>3, <3>1, <3>2 DEF Same
    <2> QED
      BY <1>1, <2>2, <2>3 DEF JobCalm
  <1> QED
    BY <1>2, <1>3

LEMMA SamePoll ==
  ASSUME CalmStep, NEW p \in Pollers, poll'[p] = poll[p], poll[p].pc # "idle" => Same(poll[p].req)
  PROVE  PollCalm(p)'
  <1>1. PollCalm(p) /\ PollOK(p) /\ PollReport(p) /\ TypeOK /\ TypeOK' /\ Grown
    BY DEF CalmStep, CalmInv, RefsInv, ReportInv, Onward
  <1>2. CASE poll[p].pc = "idle"
    BY <1>2 DEF PollCalm
  <1>3. CASE poll[p].pc # "idle"
    <2>1. poll[p].copy.dteId \in DteIds /\ CopyOK(poll[p].req, poll[p].copy)
      BY <1>1, <1>3 DEF PollOK, PollReport
    <2>2. row'[poll[p].req] = row[poll[p].req] /\ (Calm(poll[p].req)' => Calm(poll[p].req))
      BY <1>3 DEF Same, Calm
    <2>3. PICK d \in DteIds : d = poll[p].copy.dteId
      BY <2>1
    <2>4. dte'[d] = dte[d]
      BY <1>3, <2>1, <2>3, NullsAssumption DEF CopyOK, Same
    <2>5. \A t, v : Sure(d, t, v) => Sure(d, t, v)'
      BY <1>1, SureStays
    <2>6. PollVerdict(p) => PollVerdict(p)'
      BY <2>3, <2>4, <2>5 DEF PollVerdict
    <2> QED
      BY <1>1, <2>2, <2>6 DEF PollCalm
  <1> QED
    BY <1>2, <1>3

LEMMA SameDoc ==
  ASSUME CalmStep, NEW d \in DteIds, dte'[d] = dte[d], dte[d].status # "none" => Same(dte[d].owner)
  PROVE  DocCalm(d)'
  <1>1. DocCalm(d) /\ TypeOK /\ TypeOK' /\ Grown
    BY DEF CalmStep, CalmInv, Onward
  <1>2. CASE dte[d].status \notin Final
    BY <1>1, <1>2 DEF DocCalm
  <1>3. CASE dte[d].status \in Final
    <2>1. row'[dte[d].owner] = row[dte[d].owner] /\ (Calm(dte[d].owner)' => Calm(dte[d].owner))
      BY <1>3 DEF Same, Calm, Final
    <2>2. DocVerdict(d) => DocVerdict(d)'
      BY <1>1, SureStays DEF DocVerdict
    <2> QED
      BY <1>1, <2>1, <2>2 DEF DocCalm
  <1> QED
    BY <1>2, <1>3

\* Calm, a busy worker's request is claimed by nobody else, nor polled, nor
\* has it a resolved document.
LEMMA CalmAlone ==
  ASSUME CalmStep, NEW w \in Workers, job[w].pc # "idle", Calm(job[w].req)
  PROVE  LET r == job[w].req IN
         /\ row[r].state = "processing" /\ ~row[r].due
         /\ \A v \in Workers : v # w => job[v].req # r /\ r \notin todo[v]
         /\ r \notin todo[w]
         /\ \A p \in Pollers : poll[p].pc # "idle" => poll[p].req # r
         /\ \A d \in DteIds : dte[d].status \in Final => dte[d].owner # r
  <1>1. PICK r \in Requests : r = job[w].req
    BY DEF CalmStep, RefsInv, JobOK
  <1>2. row[r].state = "processing" /\ ~row[r].due
    BY <1>1 DEF CalmStep, CalmInv, JobCalm
  <1>3. \A v \in Workers : v # w => job[v].req # r /\ r \notin todo[v]
    BY <1>1, NullsAssumption DEF CalmStep, CalmInv, HeldApart, Held
  <1>4. r \notin todo[w]
    BY <1>1 DEF CalmStep, CalmInv, TodoCalm
  <1>5. \A p \in Pollers : poll[p].pc # "idle" => poll[p].req # r
    BY <1>1, <1>2 DEF CalmStep, CalmInv, PollCalm, Reported
  <1>6. \A d \in DteIds : dte[d].status \in Final => dte[d].owner # r
    BY <1>1, <1>2 DEF CalmStep, CalmInv, DocCalm, Reported
  <1> QED
    BY <1>1, <1>2, <1>3, <1>4, <1>5, <1>6

\* A document after a worker's step: resolved only if it was, and numbered if sent.
DocWorked(d) ==
  /\ dte'[d].status \in Final => dte[d].status \in Final
  /\ dte'[d].status \in {"ENVIADO"} \cup Final => 0 < dte'[d].trackId

\* A request after its worker's step.
RowWorked(r) ==
  /\ row'[r].state \notin Resolved
  /\ row'[r].state \in Reported => row'[r].dteId # NoDte /\ 0 < dte'[row'[r].dteId].trackId

\* A worker's step on its request and the request's documents.
LEMMA WorkerCalm ==
  ASSUME CalmStep, NEW w \in Workers, job[w].pc # "idle", Only(job[w].req),
         UNCHANGED <<todo, poll, snap>>,
         \A v \in Workers : v # w => job'[v] = job[v],
         job'[w].req \in {job[w].req, NoReq}, JobCalm(w)',
         \A d \in DteIds : dte'[d] = dte[d] \/ DocWorked(d),
         Calm(job[w].req) => RowWorked(job[w].req)
  PROVE  CalmInv'
  <1>1. PICK r \in Requests : r = job[w].req
    BY DEF CalmStep, RefsInv, JobOK
  <1>2. Only(r) /\ (Calm(r) => RowWorked(r))
    BY <1>1
  <1>3. Calm(r) =>
          /\ row[r].state = "processing" /\ ~row[r].due
          /\ \A v \in Workers : v # w => job[v].req # r /\ r \notin todo[v]
          /\ r \notin todo[w]
          /\ \A p \in Pollers : poll[p].pc # "idle" => poll[p].req # r
          /\ \A d \in DteIds : dte[d].status \in Final => dte[d].owner # r
    BY <1>1, CalmAlone
  <1>4. \A q : Calm(q)' = Calm(q)
    BY DEF Calm
  <1>5. ASSUME NEW v \in Workers PROVE JobCalm(v)'
    <2>1. CASE v # w /\ job[v].req # r
      <3>1. job[v].pc # "idle" => Same(job[v].req)
        BY <1>2, <2>1, OnlySame DEF CalmStep, RefsInv, JobOK
      <3> QED
        BY <2>1, <3>1, SameJob
    <2>2. CASE v # w /\ job[v].req = r
      <3>1. ~Calm(r) /\ JobCalm(v) /\ job'[v] = job[v]
        BY <1>3, <2>2 DEF CalmStep, CalmInv
      <3> QED
        BY <1>4, <2>2, <3>1 DEF JobCalm
    <2> QED
      BY <2>1, <2>2
  <1>6. ASSUME NEW v \in Workers, NEW q \in Requests PROVE TodoCalm(v, q)'
    <2>1. TodoCalm(v, q)
      BY DEF CalmStep, CalmInv
    <2>2. CASE q = r
      BY <1>3, <1>4, <2>2 DEF TodoCalm
    <2>3. CASE q # r
      <3>1. row'[q] = row[q] /\ (job'[v].req = job[v].req \/ q # job'[v].req)
        BY <1>1, <1>2, <2>3, NullsAssumption DEF Only
      <3> QED
        BY <1>4, <2>1, <3>1 DEF TodoCalm
    <2> QED
      BY <2>2, <2>3
  <1>7. HeldApart'
    <2>1. \A v \in Workers : Held(v)' \subseteq Held(v)
      BY DEF Held
    <2> QED
      BY <1>4, <2>1 DEF CalmStep, CalmInv, HeldApart
  <1>8. ASSUME NEW p \in Pollers PROVE PollCalm(p)'
    <2>1. CASE poll[p].req # r
      <3>1. poll[p].pc # "idle" => Same(poll[p].req)
        BY <1>2, <2>1, OnlySame DEF CalmStep, RefsInv, PollOK
      <3> QED
        BY <3>1, SamePoll
    <2>2. CASE poll[p].req = r
      BY <1>3, <1>4, <2>2 DEF PollCalm
    <2> QED
      BY <2>1, <2>2
  <1>9. ASSUME NEW q \in Requests PROVE RowCalm(q)'
    <2>1. CASE q # r
      BY <1>2, <2>1, OnlySame, SameRow
    <2>2. CASE q = r /\ Calm(r)
      <3>1. RowCalm(r) /\ snap' = snap
        BY DEF CalmStep, CalmInv
      <3>2. snap[r].pc = "read" => snap[r].copy.state \notin Reported \cup Resolved
        BY <1>3, <2>2, <3>1 DEF RowCalm, Reported, Resolved
      <3>3. RowVerdict(r)'
        BY <1>2, <2>2 DEF RowVerdict, RowWorked, Resolved
      <3> QED
        BY <1>2, <1>4, <2>2, <3>1, <3>2, <3>3 DEF RowCalm, RowWorked
    <2>3. CASE q = r /\ ~Calm(r)
      BY <1>4, <2>3 DEF RowCalm
    <2> QED
      BY <2>1, <2>2, <2>3
  <1>10. ASSUME NEW d \in DteIds PROVE DocCalm(d)'
    <2>1. CASE dte'[d] = dte[d] /\ dte[d].owner # r
      <3>1. dte[d].status # "none" => Same(dte[d].owner)
        BY <1>2, <2>1, OnlySame DEF CalmStep, CalmInv, DocCalm
      <3> QED
        BY <2>1, <3>1, SameDoc
    <2>2. CASE dte'[d] = dte[d] /\ dte[d].owner = r
      <3>1. DocCalm(d)
        BY DEF CalmStep, CalmInv
      <3> QED
        BY <1>3, <1>4, <2>2, <3>1 DEF DocCalm
    <2>3. CASE dte'[d] # dte[d]
      <3>1. dte'[d].owner = r /\ DocWorked(d)
        BY <1>2, <2>3 DEF Only
      <3>2. dte[d].status \in Final => dte[d].owner = r
        BY <1>2, <2>3, <3>1 DEF CalmStep, Onward, DocsStay, Final
      <3> QED
        BY <1>3, <1>4, <3>1, <3>2 DEF DocCalm, DocWorked
    <2> QED
      BY <2>1, <2>2, <2>3
  <1> QED
    BY <1>5, <1>6, <1>7, <1>8, <1>9, <1>10 DEF CalmInv

\* Nobody holds request r and it was not reported.
Free(r) == row[r].state \notin Reported /\ \A w \in Workers : r \notin Held(w)

\* A free request is not polled, has no resolved document and was not reported
\* to the 202 handler.
LEMMA FreeAlone ==
  ASSUME CalmStep, NEW r \in Requests, Calm(r), Free(r)
  PROVE  /\ \A v \in Workers : job[v].pc # "idle" => job[v].req # r
         /\ \A v \in Workers : r \notin todo[v]
         /\ \A p \in Pollers : poll[p].pc # "idle" => poll[p].req # r
         /\ \A d \in DteIds : dte[d].status \in Final => dte[d].owner # r
         /\ snap[r].pc = "read" => snap[r].copy.state \notin Reported \cup Resolved
  <1>1. \A v \in Workers : job[v].pc # "idle" => job[v].req # r
    BY NullsAssumption DEF Free, Held
  <1>2. \A v \in Workers : r \notin todo[v]
    BY DEF Free, Held
  <1>3. \A p \in Pollers : poll[p].pc # "idle" => poll[p].req # r
    BY DEF CalmStep, CalmInv, PollCalm, Free
  <1>4. \A d \in DteIds : dte[d].status \in Final => dte[d].owner # r
    BY DEF CalmStep, CalmInv, DocCalm, Free
  <1>5. RowCalm(r)
    BY DEF CalmStep, CalmInv
  <1>6. snap[r].pc = "read" => snap[r].copy.state \notin Reported \cup Resolved
    BY <1>5 DEF RowCalm, Free, Reported, Resolved
  <1> QED
    BY <1>1, <1>2, <1>3, <1>4, <1>6

\* The step finds request q free and does not report it, ends its 202 handler,
\* or leaves it alone.
Taken(q) ==
  \/ Same(q)
  \/ ~Calm(q)'
  \/ Calm(q) /\ Free(q) /\ snap'[q] = snap[q] /\ row'[q].state \notin Reported

\* A step that takes free requests' rows.
LEMMA TakenCalm ==
  ASSUME CalmStep, UNCHANGED <<job, poll, dte>>,
         \A q \in Requests : Taken(q),
         \A v \in Workers, q \in Requests : TodoCalm(v, q)',
         HeldApart'
  PROVE  CalmInv'
  <1>1. ASSUME NEW v \in Workers PROVE JobCalm(v)'
    <2>1. JobCalm(v) /\ (job[v].pc # "idle" => job[v].req \in Requests)
      BY DEF CalmStep, CalmInv, RefsInv, JobOK
    <2>2. CASE job[v].pc = "idle" \/ Same(job[v].req)
      BY <2>2, SameJob
    <2>3. CASE job[v].pc # "idle" /\ ~Same(job[v].req)
      <3>1. ~Calm(job[v].req)'
        BY <2>1, <2>3, FreeAlone DEF Taken
      <3> QED
        BY <2>1, <3>1 DEF JobCalm
    <2> QED
      BY <2>2, <2>3
  <1>2. ASSUME NEW p \in Pollers PROVE PollCalm(p)'
    <2>1. poll[p].pc # "idle" => poll[p].req \in Requests
      BY DEF CalmStep, RefsInv, PollOK
    <2>2. CASE poll[p].pc = "idle" \/ Same(poll[p].req)
      BY <2>2, SamePoll
    <2>3. CASE poll[p].pc # "idle" /\ ~Same(poll[p].req)
      <3>1. ~Calm(poll[p].req)'
        BY <2>1, <2>3, FreeAlone DEF Taken
      <3> QED
        BY <3>1 DEF PollCalm
    <2> QED
      BY <2>2, <2>3
  <1>3. ASSUME NEW q \in Requests PROVE RowCalm(q)'
    <2>1. CASE Same(q)
      BY <2>1, SameRow
    <2>2. CASE ~Calm(q)'
      BY <2>2 DEF RowCalm
    <2>3. CASE Calm(q) /\ Free(q) /\ snap'[q] = snap[q] /\ row'[q].state \notin Reported
      <3>1. snap'[q].pc = "read" => snap'[q].copy.state \notin Reported \cup Resolved
        BY <2>3, FreeAlone
      <3>2. RowVerdict(q)'
        BY <2>3 DEF RowVerdict, Reported
      <3> QED
        BY <2>3, <3>1, <3>2 DEF RowCalm
    <2> QED
      BY <2>1, <2>2, <2>3 DEF Taken
  <1>4. ASSUME NEW d \in DteIds PROVE DocCalm(d)'
    <2>1. DocCalm(d)
      BY DEF CalmStep, CalmInv
    <2>2. CASE dte[d].status = "none" \/ Same(dte[d].owner)
      BY <2>2, SameDoc
    <2>3. CASE dte[d].status # "none" /\ ~Same(dte[d].owner)
      <3>1. dte[d].status \notin Final \/ ~Calm(dte[d].owner)'
        BY <2>1, <2>3, FreeAlone DEF Taken, DocCalm
      <3> QED
        BY <2>1, <3>1 DEF DocCalm
    <2> QED
      BY <2>2, <2>3
  <1> QED
    BY <1>1, <1>2, <1>3, <1>4 DEF CalmInv

\* What a step that writes no row and no document keeps.
LEMMA QuietCalm ==
  ASSUME CalmStep, UNCHANGED <<row, dte, snap>>
  PROVE  /\ \A q \in Requests : RowCalm(q)'
         /\ \A d \in DteIds : DocCalm(d)'
         /\ \A w \in Workers : job'[w] = job[w] => JobCalm(w)'
         /\ \A p \in Pollers : poll'[p] = poll[p] => PollCalm(p)'
  <1>1. \A q : Same(q)
    BY DEF Same
  <1> QED
    BY <1>1, SameRow, SameDoc, SameJob, SamePoll

LEMMA UnclaimedIsFree ==
  ASSUME CalmStep, NEW r \in Requests, Calm(r), row[r].state \notin Reported,
         row[r].state # "processing" \/ row[r].due
  PROVE  Free(r)
  <1> SUFFICES ASSUME NEW w \in Workers, r \in Held(w) PROVE FALSE
    BY DEF Free
  <1>1. r \notin todo[w]
    BY DEF CalmStep, CalmInv, TodoCalm
  <1>2. r = job[w].req /\ r # NoReq /\ JobCalm(w)
    BY <1>1 DEF Held, CalmStep, CalmInv
  <1> QED
    BY <1>2 DEF JobCalm

\* Entering, the 202 answer, claiming and the clock.
LEMMA QueueCalm ==
  ASSUME CalmStep, HandlerFirst,
         \/ \E r \in Requests : \/ Enqueue(r) \/ SnapshotRead(r) \/ SnapshotWrite(r)
                                \/ LeaseExpires(r)
         \/ \E w \in Workers, S \in SUBSET Requests : Claim(w, S)
  PROVE  CalmInv'
  <1>1. /\ row \in [Requests -> Row] /\ snap \in [Requests -> Snap] /\ todo \in [Workers -> SUBSET Requests]
        /\ \A v \in Workers, q \in Requests : TodoCalm(v, q)
        /\ HeldApart
    BY DEF CalmStep, RefsInv, TypeOK, CalmInv
  <1>2. ASSUME NEW r \in Requests, UNCHANGED <<todo, job, poll, dte>>, Taken(r),
               \A q \in Requests : q # r => row'[q] = row[q] /\ snap'[q] = snap[q],
               Calm(r)' => Calm(r),
               Calm(r)' /\ ~Same(r) => Free(r)
        PROVE  CalmInv'
    <2>1. \A q \in Requests : Taken(q)
      BY <1>2 DEF Taken, Same
    <2>2. ASSUME NEW v \in Workers, NEW q \in Requests PROVE TodoCalm(v, q)'
      <3>1. CASE q = r
        BY <1>1, <1>2, <3>1 DEF TodoCalm, Free, Held, Same
      <3>2. CASE q # r
        BY <1>1, <1>2, <3>2 DEF TodoCalm, Calm
      <3> QED
        BY <3>1, <3>2
    <2>3. HeldApart'
      <3> SUFFICES ASSUME NEW v \in Workers, NEW w \in Workers, v # w,
                          NEW q, q \in Held(v), q \in Held(w)
                   PROVE  ~Calm(q)'
        BY <1>2 DEF HeldApart, Held
      <3>1. q \in Requests
        BY <1>1 DEF Held, CalmStep, RefsInv, TypeOK, Job
      <3>2. ~Calm(q)
        BY <1>1 DEF HeldApart
      <3> QED
        BY <1>2, <3>1, <3>2 DEF Calm
    <2> QED
      BY <1>2, <2>1, <2>2, <2>3, TakenCalm
  <1>3. ASSUME NEW r \in Requests, Enqueue(r) PROVE CalmInv'
    <2>1. /\ row[r].state = "none" /\ row' = [row EXCEPT ![r] = NewRow]
          /\ UNCHANGED <<todo, job, poll, dte, snap>>
      BY <1>3 DEF Enqueue
    <2>2. row'[r] = NewRow /\ \A q \in Requests : q # r => row'[q] = row[q]
      BY <1>1, <2>1
    <2>3. NewRow.state \notin Reported
      BY DEF NewRow, NoRow, Reported
    <2>4. Calm(r) => Free(r)
      BY <2>1, UnclaimedIsFree DEF Reported
    <2>5. Taken(r)
      BY <2>1, <2>2, <2>3, <2>4 DEF Taken, Calm
    <2> QED
      BY <1>2, <2>1, <2>2, <2>4, <2>5 DEF Calm
  <1>4. ASSUME NEW r \in Requests, SnapshotRead(r) PROVE CalmInv'
    <2> DEFINE n == [pc |-> "read", copy |-> row[r]]
    <2>1. /\ snap[r].pc = "todo" /\ snap' = [snap EXCEPT ![r] = n]
          /\ UNCHANGED <<todo, job, poll, dte, row>>
      BY <1>4 DEF SnapshotRead
    <2>2. n.copy = row[r] /\ n.pc = "read"
      OBVIOUS
    <2> HIDE DEF n
    <2>3. snap'[r] = n /\ \A q \in Requests : q # r => snap'[q] = snap[q]
      BY <1>1, <2>1
    <2>4. Calm(r) /\ Same(r)
      BY <2>1, <2>2, <2>3 DEF Same, Calm
    <2> QED
      BY <1>2, <2>1, <2>3, <2>4 DEF Taken
  <1>5. ASSUME NEW r \in Requests, SnapshotWrite(r) PROVE CalmInv'
    <2> DEFINE n == [pc |-> "done", copy |-> NoRow]
    <2>1. /\ snap' = [snap EXCEPT ![r] = n] /\ row' = [row EXCEPT ![r] = snap[r].copy]
          /\ UNCHANGED <<todo, job, poll, dte>>
      BY <1>5 DEF SnapshotWrite
    <2>2. n.pc = "done"
      OBVIOUS
    <2> HIDE DEF n
    <2>3. /\ snap'[r] = n
          /\ \A q \in Requests : q # r => row'[q] = row[q] /\ snap'[q] = snap[q]
      BY <1>1, <2>1
    <2>4. ~Calm(r)'
      BY <2>2, <2>3 DEF Calm
    <2> QED
      BY <1>2, <2>1, <2>3, <2>4 DEF Taken
  <1>6. ASSUME NEW r \in Requests, LeaseExpires(r) PROVE CalmInv'
    <2>1. /\ row[r].state = "processing" /\ row' = [row EXCEPT ![r].due = TRUE]
          /\ UNCHANGED <<todo, job, poll, dte, snap>>
      BY <1>6 DEF LeaseExpires
    <2>2. /\ row'[r].state = "processing"
          /\ \A q \in Requests : q # r => row'[q] = row[q]
      BY <1>1, <2>1 DEF Row
    <2>3. Calm(r) => Free(r)
      BY <1>6, <2>1 DEF HandlerFirst, Calm, Free, Reported
    <2>4. Taken(r)
      BY <2>1, <2>2, <2>3 DEF Taken, Calm, Reported
    <2> QED
      BY <1>2, <2>1, <2>2, <2>3, <2>4 DEF Calm
  <1>7. ASSUME NEW w \in Workers, NEW S \in SUBSET Requests, Claim(w, S) PROVE CalmInv'
    <2>1. /\ job[w].pc = "idle" /\ todo[w] = {} /\ \A q \in S : Due(q)
          /\ todo' = [todo EXCEPT ![w] = S]
          /\ row' = [q \in Requests |->
                       IF q \in S THEN [row[q] EXCEPT !.state = "processing", !.due = FALSE]
                                  ELSE row[q]]
          /\ UNCHANGED <<job, poll, dte, snap>>
      BY <1>7 DEF Claim
    <2>2. /\ \A q \in S : row'[q].state = "processing" /\ ~row'[q].due
          /\ \A q \in Requests \ S : row'[q] = row[q]
          /\ todo'[w] = S /\ \A v \in Workers : v # w => todo'[v] = todo[v]
      BY <1>1, <2>1 DEF Row
    <2>3. \A q \in S : Calm(q) => Free(q)
      <3> SUFFICES ASSUME NEW q \in S, Calm(q) PROVE Free(q)
        OBVIOUS
      <3>1. q \in Requests /\ (row[q].state = "queued" \/ (row[q].state = "processing" /\ row[q].due))
        BY <2>1 DEF Due
      <3> QED
        BY <3>1, UnclaimedIsFree DEF Reported
    <2>4. \A q : Calm(q)' = Calm(q)
      BY <2>1 DEF Calm
    <2>5. \A q \in Requests : Taken(q)
      BY <2>1, <2>2, <2>3, <2>4 DEF Taken, Same, Reported
    <2>6. job[w].req = NoReq
      BY <2>1 DEF CalmStep, CalmInv, JobCalm
    <2>7. ASSUME NEW v \in Workers, NEW q \in Requests PROVE TodoCalm(v, q)'
      <3>1. CASE v = w
        BY <2>1, <2>2, <2>6, <3>1, NullsAssumption DEF TodoCalm
      <3>2. CASE v # w /\ q \in S
        BY <2>2, <2>3, <2>4, <3>2 DEF TodoCalm, Free, Held
      <3>3. CASE v # w /\ q \notin S
        BY <1>1, <2>1, <2>2, <2>4, <3>3 DEF TodoCalm
      <3> QED
        BY <3>1, <3>2, <3>3
    <2>8. HeldApart'
      <3>1. \A v \in Workers : v # w => Held(v)' = Held(v)
        BY <2>1, <2>2 DEF Held
      <3>2. Held(w)' = S
        BY <2>1, <2>2, <2>6 DEF Held
      <3>3. \A v \in Workers : v # w => \A q \in S \cap Held(v) : ~Calm(q)
        BY <2>3 DEF Free
      <3> QED
        BY <1>1, <2>4, <3>1, <3>2, <3>3 DEF HeldApart
    <2> QED
      BY <2>1, <2>5, <2>7, <2>8, TakenCalm
  <1> QED
    BY <1>3, <1>4, <1>5, <1>6, <1>7

-----------------------------------------------------------------------------
\* A worker's step that only changes what the worker remembers.
LEMMA WorkerMoves ==
  ASSUME CalmStep, NEW w \in Workers, job[w].pc # "idle",
         UNCHANGED <<row, dte, todo, poll, snap>>,
         \A v \in Workers : v # w => job'[v] = job[v],
         job'[w].req \in {job[w].req, NoReq}, JobCalm(w)'
  PROVE  CalmInv'
  <1>1. Only(job[w].req)
    BY DEF Only
  <1>2. Calm(job[w].req) => RowWorked(job[w].req)
    BY CalmAlone DEF RowWorked, Reported, Resolved
  <1> QED
    BY <1>1, <1>2, WorkerCalm

LEMMA FinishCalm ==
  ASSUME TypeOK, NEW w \in Workers, Finish(w)
  PROVE  /\ JobCalm(w)' /\ job'[w].req = NoReq
         /\ \A v \in Workers : v # w => job'[v] = job[v]
  <1>1. job'[w] = IdleJob /\ \A v \in Workers : v # w => job'[v] = job[v]
    BY JobBecomes DEF Finish
  <1> QED
    BY <1>1 DEF JobCalm, IdleJob

\* A worker that goes on to another step with what it remembers.
LEMMA GotoCalm ==
  ASSUME CalmStep, NEW w \in Workers, job[w].pc # "idle", row' = row, dte' = dte, snap' = snap,
         NEW step \in {"retry", "mark", "revert", "submit", "quarantine"}, Goto(w, step),
         job[w].pending # {} => step \in {"revert", "quarantine"},
         job[w].pc \in {"prepare", "retry"} => step = "retry",
         step = "submit" /\ Calm(job[w].req) => 0 < dte[job[w].fresh.dteId].trackId
  PROVE  /\ JobCalm(w)' /\ job'[w].req = job[w].req
         /\ \A v \in Workers : v # w => job'[v] = job[v]
  <1>1. job[w] \in Job /\ JobCalm(w)
    BY DEF CalmStep, RefsInv, TypeOK, CalmInv
  <1> DEFINE j == [job[w] EXCEPT !.pc = step]
  <1>2. job'[w] = j /\ \A v \in Workers : v # w => job'[v] = job[v]
    BY DEF Goto, CalmStep, RefsInv, TypeOK
  <1>3. /\ j.pc = step /\ j.req = job[w].req /\ j.fresh = job[w].fresh /\ j.track = job[w].track
        /\ j.pending = job[w].pending
    BY <1>1 DEF Job
  <1> HIDE DEF j
  <1> QED
    BY <1>1, <1>2, <1>3 DEF JobCalm, Calm

\* What applyState does to the rows.
LEMMA AppliedRows ==
  ASSUME TypeOK, NEW r \in Requests, NEW c \in Row, NEW new, ApplyState(r, c, new)
  PROVE  /\ \A q \in Requests : q # r => row'[q] = row[q]
         /\ \/ row' = row
            \/ <<row[r].state, new>> \in Allowed /\ row'[r].state = new /\ row'[r].dteId = c.dteId
  BY DEF ApplyState, TypeOK, Row

\* What a busy worker knows.
LEMMA Busy ==
  ASSUME CalmStep, NEW w \in Workers, job[w].pc # "idle"
  PROVE  /\ job[w] \in Job /\ job[w].fresh \in Row /\ job[w].req \in Requests /\ TypeOK
         /\ JobCalm(w) /\ JobOK(w) /\ CopyOK(job[w].req, job[w].fresh)
         /\ Calm(job[w].req) => row[job[w].req].state = "processing"
  <1>1. JobCalm(w) /\ JobOK(w) /\ JobReport(w) /\ job[w] \in Job /\ TypeOK
    BY DEF CalmStep, RefsInv, TypeOK, CalmInv, ReportInv
  <1> QED
    BY <1>1 DEF JobOK, JobReport, JobCalm, Job

\* scheduleRetry and the applyState that ends each path.
LEMMA SettleCalm ==
  ASSUME CalmStep, NEW w \in Workers,
         Retry(w) \/ Finalize(w) \/ Submit(w) \/ Quarantine(w)
  PROVE  CalmInv'
  <1> DEFINE c == job[w].fresh
  <1>1. /\ job[w].pc # "idle" /\ UNCHANGED <<dte, todo, poll, snap>> /\ Finish(w)
    BY DEF Retry, Finalize, Submit, Quarantine, Settle
  <1>2. PICK r \in Requests : r = job[w].req
    BY <1>1, Busy
  <1>3. /\ c \in Row /\ TypeOK /\ JobCalm(w) /\ JobOK(w)
        /\ Calm(r) => row[r].state = "processing"
    BY <1>1, <1>2, Busy
  <1>4. ASSUME NEW new, ApplyState(r, c, new),
               Calm(r) => /\ new \notin Resolved
                          /\ new \in Reported => c.dteId # NoDte /\ 0 < dte[c.dteId].trackId
        PROVE  Only(r) /\ (Calm(r) => RowWorked(r))
    <2> HIDE DEF c
    <2>1. /\ \A q \in Requests : q # r => row'[q] = row[q]
          /\ row' = row \/ (row'[r].state = new /\ row'[r].dteId = c.dteId)
      BY <1>3, <1>4, AppliedRows
    <2> QED
      BY <1>1, <1>3, <1>4, <2>1 DEF Only, RowWorked, Reported, Resolved
  <1>5. ASSUME Retry(w) PROVE Only(r) /\ (Calm(r) => RowWorked(r))
    <2> DEFINE tried == [c EXCEPT !.attempts = @ + 1]
    <2>1. tried \in Row /\ tried.state = c.state
      BY <1>3 DEF Row
    <2>2. ScheduleRetry(r, c)
      BY <1>2, <1>5 DEF Retry
    <2>3. CASE tried.attempts >= MaxAttempts
      <3>1. ApplyState(r, tried, "failed")
        BY <2>2, <2>3 DEF ScheduleRetry
      <3> HIDE DEF tried
      <3>2. /\ \A q \in Requests : q # r => row'[q] = row[q]
            /\ row' = row \/ row'[r].state = "failed"
        BY <1>3, <2>1, <3>1, AppliedRows
      <3> QED
        BY <1>1, <1>3, <3>2 DEF Only, RowWorked, Reported, Resolved
    <2>4. CASE ~(tried.attempts >= MaxAttempts)
      <3> DEFINE n == [tried EXCEPT !.due = FALSE]
      <3>1. row' = [row EXCEPT ![r] = n]
        BY <2>2, <2>4 DEF ScheduleRetry
      <3>2. n.state = c.state
        BY <2>1 DEF Row
      <3> HIDE DEF n
      <3>3. row'[r] = n /\ \A q \in Requests : q # r => row'[q] = row[q]
        BY <1>3, <3>1 DEF TypeOK
      <3>4. Calm(r) => c.state = "processing"
        BY <1>1, <1>2, <1>3 DEF JobCalm
      <3> QED
        BY <1>1, <3>2, <3>3, <3>4 DEF Only, RowWorked, Reported, Resolved
    <2> QED
      BY <2>3, <2>4
  <1>6. ASSUME Finalize(w) PROVE Only(r) /\ (Calm(r) => RowWorked(r))
    <2>1. PICK s \in Final : Settle(w, "finalize", mapDteStatusToPublic[s])
      BY <1>6 DEF Finalize
    <2>2. job[w].pc = "finalize" /\ ApplyState(r, c, mapDteStatusToPublic[s])
      BY <1>2, <2>1 DEF Settle
    <2>3. ~Calm(r)
      BY <1>2, <1>3, <2>2 DEF JobCalm
    <2> QED
      BY <1>4, <2>2, <2>3
  <1>7. ASSUME Submit(w) PROVE Only(r) /\ (Calm(r) => RowWorked(r))
    <2>1. job[w].pc = "submit" /\ ApplyState(r, c, "submitted")
      BY <1>2, <1>7 DEF Submit, Settle
    <2>2. c.dteId # NoDte /\ (Calm(r) => 0 < dte[c.dteId].trackId)
      BY <1>2, <1>3, <2>1, NullsAssumption DEF JobCalm, JobOK
    <2> QED
      BY <1>4, <2>1, <2>2 DEF Resolved
  <1>8. ASSUME Quarantine(w) PROVE Only(r) /\ (Calm(r) => RowWorked(r))
    <2>1. ApplyState(r, c, "failed")
      BY <1>2, <1>8 DEF Quarantine, Settle
    <2> QED
      BY <1>4, <2>1 DEF Resolved, Reported
  <1>9. /\ JobCalm(w)' /\ job'[w].req = NoReq
        /\ \A v \in Workers : v # w => job'[v] = job[v]
    BY <1>1, <1>3, FinishCalm
  <1>10. Only(r) /\ (Calm(r) => RowWorked(r))
    BY <1>5, <1>6, <1>7, <1>8
  <1> HIDE DEF c
  <1> QED
    BY <1>1, <1>2, <1>9, <1>10, WorkerCalm

\* Loading a row, preparing its document and reading it.
LEMMA LoadCalm ==
  ASSUME CalmStep, NEW w \in Workers, NEW r \in Requests, Load(w, r)
  PROVE  CalmInv'
  <1> DEFINE j == [IdleJob EXCEPT !.pc = IF row[r].dteId = NoDte THEN "prepare" ELSE "existing",
                                  !.req = r, !.fresh = row[r]]
  <1>1. /\ job[w].pc = "idle" /\ r \in todo[w] /\ todo' = [todo EXCEPT ![w] = @ \ {r}]
        /\ job' = [job EXCEPT ![w] = j] /\ UNCHANGED <<row, dte, poll, snap>>
    BY DEF Load
  <1>2. /\ j.pc \in {"prepare", "existing"} /\ j.req = r /\ j.fresh = row[r] /\ j.pending = {}
    BY DEF IdleJob
  <1> HIDE DEF j
  <1>3. TypeOK /\ JobCalm(w) /\ HeldApart /\ \A v \in Workers, q \in Requests : TodoCalm(v, q)
    BY DEF CalmStep, RefsInv, CalmInv
  <1>4. /\ job'[w] = j /\ \A v \in Workers : v # w => job'[v] = job[v]
        /\ todo'[w] = todo[w] \ {r} /\ \A v \in Workers : v # w => todo'[v] = todo[v]
    BY <1>1, <1>3 DEF TypeOK
  <1>5. \A q : Calm(q)' = Calm(q)
    BY <1>1 DEF Calm
  <1>6. /\ \A q \in Requests : RowCalm(q)'
        /\ \A d \in DteIds : DocCalm(d)'
        /\ \A v \in Workers : v # w => JobCalm(v)'
        /\ \A p \in Pollers : PollCalm(p)'
    BY <1>1, <1>4, QuietCalm
  <1>7. JobCalm(w)'
    <2>1. TodoCalm(w, r)
      BY <1>3
    <2> QED
      BY <1>1, <1>2, <1>4, <1>5, <2>1 DEF JobCalm, TodoCalm
  <1>8. ASSUME NEW v \in Workers, NEW q \in Requests PROVE TodoCalm(v, q)'
    BY <1>1, <1>2, <1>3, <1>4, <1>5 DEF TodoCalm
  <1>9. HeldApart'
    <2>1. job[w].req = NoReq
      BY <1>1, <1>3 DEF JobCalm
    <2>2. \A v \in Workers : Held(v)' \subseteq Held(v)
      BY <1>1, <1>2, <1>4, <2>1 DEF Held
    <2> QED
      BY <1>3, <1>5, <2>2 DEF HeldApart
  <1> QED
    BY <1>6, <1>7, <1>8, <1>9 DEF CalmInv

LEMMA PrepareCalm ==
  ASSUME CalmStep, NEW w \in Workers, Prepare(w)
  PROVE  CalmInv'
  <1>1. /\ job[w].pc = "prepare" /\ UNCHANGED <<todo, poll, snap>>
    BY DEF Prepare
  <1>2. PICK r \in Requests : r = job[w].req
    BY <1>1, Busy
  <1>3. /\ TypeOK /\ job[w] \in Job /\ JobCalm(w) /\ row[r] \in Row
        /\ Calm(r) => row[r].state = "processing"
    BY <1>1, <1>2, Busy DEF TypeOK
  <1>4. job[w].pending = {}
    BY <1>1, <1>3 DEF JobCalm
  <1>5. /\ Only(r)
        /\ row'[r].state = row[r].state /\ (~row[r].due => ~row'[r].due)
        /\ \A d \in DteIds : dte'[d] = dte[d] \/ DocWorked(d)
    <2>1. CASE UNCHANGED <<row, dte>>
      BY <1>1, <2>1 DEF Only
    <2>2. ASSUME NEW d \in DteIds,
                 dte' = [dte EXCEPT ![d] = [NoDoc EXCEPT !.status = "FIRMADO", !.owner = r]],
                 row' = [row EXCEPT ![r].dteId = d]
          PROVE  <1>5!1 /\ <1>5!2 /\ <1>5!3
      <3>1. /\ row'[r].state = row[r].state /\ (~row[r].due => ~row'[r].due)
            /\ \A q \in Requests : q # r => row'[q] = row[q]
        BY <1>3, <2>2 DEF TypeOK, Row
      <3>2. /\ dte'[d].status = "FIRMADO" /\ dte'[d].owner = r
            /\ \A e \in DteIds : e # d => dte'[e] = dte[e]
        BY <1>3, <2>2 DEF TypeOK, NoDoc
      <3>3. DocWorked(d)
        BY <3>2 DEF DocWorked, Final
      <3> QED
        BY <1>1, <3>1, <3>2, <3>3 DEF Only
    <2> QED
      BY <1>2, <2>1, <2>2 DEF Prepare
  <1>6. /\ JobCalm(w)' /\ job'[w].req = r
        /\ \A v \in Workers : v # w => job'[v] = job[v]
    <2> DEFINE j == [job[w] EXCEPT !.pc = "mark", !.fresh = row'[r]]
               k == [job[w] EXCEPT !.pc = "retry"]
    <2>1. job' = [job EXCEPT ![w] = j] \/ job' = [job EXCEPT ![w] = k]
      BY <1>2 DEF Prepare, Goto
    <2>2. /\ j.pc = "mark" /\ j.fresh = row'[r] /\ j.req = r /\ j.pending = {}
          /\ k.pc = "retry" /\ k.fresh = job[w].fresh /\ k.req = r /\ k.pending = {}
      BY <1>2, <1>3, <1>4 DEF Job
    <2> HIDE DEF j, k
    <2>3. /\ job'[w] = j \/ job'[w] = k
          /\ \A v \in Workers : v # w => job'[v] = job[v]
      BY <1>3, <2>1 DEF TypeOK
    <2>4. Calm(r)' => Calm(r)
      BY <1>1 DEF Calm
    <2>5. Calm(r) => row[r].state = "processing" /\ ~row[r].due /\ job[w].fresh.state = "processing"
      BY <1>1, <1>2, <1>3 DEF JobCalm
    <2>6. Calm(r)' =>
            /\ row'[r].state = "processing" /\ ~row'[r].due
            /\ job[w].fresh.state = "processing"
      BY <1>5, <2>4, <2>5
    <2>7. CASE job'[w] = j
      <3>1. /\ job'[w].pc = "mark" /\ job'[w].fresh = row'[r] /\ job'[w].req = r
            /\ job'[w].pending = {}
        BY <2>2, <2>7
      <3> QED
        BY <2>3, <2>6, <3>1 DEF JobCalm
    <2>8. CASE job'[w] = k
      <3>1. /\ job'[w].pc = "retry" /\ job'[w].fresh = job[w].fresh /\ job'[w].req = r
            /\ job'[w].pending = {}
        BY <2>2, <2>8
      <3> QED
        BY <2>3, <2>6, <3>1 DEF JobCalm
    <2> QED
      BY <2>2, <2>3, <2>7, <2>8
  <1>7. Calm(r) => RowWorked(r)
    BY <1>3, <1>5 DEF RowWorked, Reported, Resolved
  <1> QED
    BY <1>1, <1>2, <1>5, <1>6, <1>7, WorkerCalm

LEMMA ExistingCalm ==
  ASSUME CalmStep, NEW w \in Workers, PrepareFails(w) \/ Existing(w)
  PROVE  CalmInv'
  <1>1. job[w].pc \in {"prepare", "existing"} /\ UNCHANGED <<row, dte, todo, poll, snap>>
    BY DEF PrepareFails, Existing
  <1>2. /\ TypeOK /\ job[w] \in Job /\ JobCalm(w) /\ JobOK(w)
        /\ CopyOK(job[w].req, job[w].fresh)
    BY <1>1, Busy
  <1>3. job[w].pending = {}
    BY <1>1, <1>2 DEF JobCalm
  <1>4. /\ JobCalm(w)' /\ job'[w].req = job[w].req
        /\ \A v \in Workers : v # w => job'[v] = job[v]
    <2>1. CASE PrepareFails(w)
      BY <1>1, <1>3, <2>1, GotoCalm DEF PrepareFails
    <2>2. CASE Existing(w)
      <3>1. PICK d \in DteIds : d = job[w].fresh.dteId
        BY <2>2, <1>2 DEF Existing, JobOK
      <3>2. dte[d] \in Dte /\ dte[d].owner = job[w].req /\ job[w].pc = "existing"
        BY <1>2, <2>2, <3>1, NullsAssumption DEF CopyOK, TypeOK, Existing
      <3>3. CASE dte[d].status \in Final
        <4>1. ~Calm(job[w].req)
          BY <1>1, <3>2, <3>3, CalmAlone
        <4> DEFINE j == [job[w] EXCEPT
                           !.pc = IF job[w].fresh.state = "processing" THEN "resume" ELSE "finalize",
                           !.seen = dte[d].status]
        <4>2. job' = [job EXCEPT ![w] = j]
          BY <2>2, <3>1, <3>3 DEF Existing
        <4>3. j.pc \in {"resume", "finalize"} /\ j.req = job[w].req /\ j.pending = {}
          BY <1>2, <1>3 DEF Job
        <4> HIDE DEF j
        <4>4. job'[w] = j /\ \A v \in Workers : v # w => job'[v] = job[v]
          BY <1>2, <4>2 DEF TypeOK
        <4> QED
          BY <1>1, <4>1, <4>3, <4>4 DEF JobCalm, Calm
      <3>4. CASE dte[d].status \notin Final
        <4>1. Goto(w, IF dte[d].trackId # 0 THEN "submit" ELSE "mark")
          BY <2>2, <3>1, <3>4 DEF Existing
        <4>2. dte[d].trackId \in Nat
          BY <3>2 DEF Dte
        <4>3. CASE dte[d].trackId # 0
          <5>1. Goto(w, "submit") /\ 0 < dte[d].trackId
            BY <4>1, <4>2, <4>3
          <5> QED
            BY <1>1, <1>3, <3>1, <3>2, <5>1, GotoCalm
        <4>4. CASE dte[d].trackId = 0
          <5>1. Goto(w, "mark")
            BY <4>1, <4>4
          <5> QED
            BY <1>1, <1>3, <3>2, <5>1, GotoCalm
        <4> QED
          BY <4>3, <4>4
      <3> QED
        BY <3>3, <3>4
    <2> QED
      BY <2>1, <2>2
  <1> QED
    BY <1>1, <1>4, WorkerMoves

LEMMA ResumeCalm ==
  ASSUME CalmStep, NEW w \in Workers, Resume(w)
  PROVE  CalmInv'
  <1> DEFINE c == job[w].fresh
             j == [job[w] EXCEPT !.pc = "finalize", !.fresh = [c EXCEPT !.state = "submitted"]]
  <1>1. /\ job[w].pc = "resume" /\ UNCHANGED <<dte, todo, poll, snap>>
        /\ job' = [job EXCEPT ![w] = j] \/ Finish(w)
    BY DEF Resume
  <1>2. PICK r \in Requests : r = job[w].req
    BY <1>1, Busy
  <1>3. TypeOK /\ c \in Row /\ job[w] \in Job /\ JobCalm(w)
    BY <1>1, Busy
  <1>4. ~Calm(r) /\ ~Calm(r)' /\ job[w].pending = {}
    BY <1>1, <1>2, <1>3 DEF JobCalm, Calm
  <1>5. ApplyState(r, c, "submitted")
    BY <1>2 DEF Resume
  <1>6. j.pc = "finalize" /\ j.req = r /\ j.pending = {}
    BY <1>2, <1>3, <1>4 DEF Job
  <1> HIDE DEF c, j
  <1>7. Only(r)
    <2>1. \A q \in Requests : q # r => row'[q] = row[q]
      BY <1>3, <1>5, AppliedRows
    <2> QED
      BY <1>1, <2>1 DEF Only
  <1>8. /\ JobCalm(w)' /\ job'[w].req \in {r, NoReq}
        /\ \A v \in Workers : v # w => job'[v] = job[v]
    <2>1. CASE job' = [job EXCEPT ![w] = j]
      <3>1. job'[w] = j /\ \A v \in Workers : v # w => job'[v] = job[v]
        BY <1>3, <2>1 DEF TypeOK
      <3> QED
        BY <1>4, <1>6, <3>1 DEF JobCalm
    <2>2. CASE Finish(w)
      BY <1>3, <2>2, FinishCalm
    <2> QED
      BY <1>1, <2>1, <2>2
  <1> QED
    BY <1>1, <1>2, <1>4, <1>7, <1>8, WorkerCalm

\* The fence, and emit.transmit up to the token.
LEMMA TransmitCalm ==
  ASSUME CalmStep, NEW w \in Workers, Mark(w) \/ ReadDte(w)
  PROVE  CalmInv'
  <1>1. job[w].pc \in {"mark", "read"} /\ UNCHANGED <<dte, todo, poll, snap>>
    BY DEF Mark, ReadDte
  <1>2. PICK r \in Requests : r = job[w].req
    BY <1>1, Busy
  <1>3. /\ TypeOK /\ job[w] \in Job /\ job[w].fresh \in Row /\ JobCalm(w) /\ row[r] \in Row
        /\ Calm(r) => row[r].state = "processing"
    BY <1>1, <1>2, Busy DEF TypeOK
  <1>4. /\ job[w].pending = {} /\ (Calm(r)' => Calm(r))
        /\ Calm(r) => /\ row[r].state = "processing" /\ ~row[r].due
                      /\ job[w].fresh.state = "processing"
                      /\ job[w].fresh.dteId = row[r].dteId
    BY <1>1, <1>2, <1>3 DEF JobCalm, Calm
  <1>5. CASE row' = row
    <2>1. CASE Goto(w, "quarantine")
      BY <1>1, <1>4, <1>5, <2>1, GotoCalm, WorkerMoves
    <2>2. CASE ~Goto(w, "quarantine")
      <3> DEFINE j == [job[w] EXCEPT !.pc = "upload", !.track = dte[job[w].fresh.dteId].trackId]
                 k == [job[w] EXCEPT !.pc = "read", !.fresh = [@ EXCEPT !.started = TRUE]]
      <3>1. job' = [job EXCEPT ![w] = j] \/ job' = [job EXCEPT ![w] = k]
        BY <2>2, <1>2 DEF Mark, ReadDte
      <3>2. /\ j.pc = "upload" /\ j.fresh = job[w].fresh /\ j.req = r /\ j.pending = {}
            /\ k.pc = "read" /\ k.fresh.state = job[w].fresh.state
            /\ k.fresh.dteId = job[w].fresh.dteId /\ k.req = r /\ k.pending = {}
        BY <1>2, <1>3, <1>4 DEF Job, Row
      <3> HIDE DEF j, k
      <3>3. /\ job'[w] = j \/ job'[w] = k
            /\ \A v \in Workers : v # w => job'[v] = job[v]
        BY <1>3, <3>1 DEF TypeOK
      <3>4. JobCalm(w)'
        BY <1>4, <1>5, <3>2, <3>3 DEF JobCalm
      <3> QED
        BY <1>1, <1>2, <1>5, <3>2, <3>3, <3>4, WorkerMoves
    <2> QED
      BY <2>1, <2>2
  <1>6. CASE row' # row
    <2> DEFINE k == [job[w] EXCEPT !.pc = "read", !.fresh = [@ EXCEPT !.started = TRUE]]
    <2>1. row' = [row EXCEPT ![r].started = TRUE] /\ job' = [job EXCEPT ![w] = k]
      BY <1>2, <1>6 DEF Mark, ReadDte
    <2>2. /\ k.pc = "read" /\ k.fresh.state = job[w].fresh.state
          /\ k.fresh.dteId = job[w].fresh.dteId /\ k.req = r /\ k.pending = {}
      BY <1>2, <1>3, <1>4 DEF Job, Row
    <2> HIDE DEF k
    <2>3. /\ job'[w] = k /\ \A v \in Workers : v # w => job'[v] = job[v]
      BY <1>3, <2>1 DEF TypeOK
    <2>4. /\ row'[r].state = row[r].state /\ row'[r].dteId = row[r].dteId
          /\ ~row[r].due => ~row'[r].due
          /\ \A q \in Requests : q # r => row'[q] = row[q]
      BY <1>3, <2>1 DEF TypeOK, Row
    <2>5. JobCalm(w)'
      BY <1>4, <2>2, <2>3, <2>4 DEF JobCalm
    <2>6. Only(r) /\ (Calm(r) => RowWorked(r))
      BY <1>1, <1>4, <2>4 DEF Only, RowWorked, Reported, Resolved
    <2> QED
      BY <1>1, <1>2, <2>2, <2>3, <2>5, <2>6, WorkerCalm
  <1> QED
    BY <1>5, <1>6

LEMMA UploadCalm ==
  ASSUME CalmStep, NEW w \in Workers, Upload(w)
  PROVE  CalmInv'
  <1>1. job[w].pc = "upload" /\ UNCHANGED <<row, dte, todo, poll, snap>>
    BY DEF Upload
  <1>2. PICK r \in Requests : r = job[w].req
    BY <1>1, Busy
  <1>3. TypeOK /\ job[w] \in Job /\ JobCalm(w) /\ JobOK(w)
    BY <1>1, Busy
  <1>4. PICK n \in Nat : n = Len(sii[job[w].fresh.dteId])
    BY <1>1, <1>3 DEF JobOK, TypeOK
  <1>5. job[w].pending = {} /\ (Calm(r)' => Calm(r))
    BY <1>1, <1>3 DEF JobCalm, Calm
  <1>6. CASE Goto(w, "revert")
    BY <1>1, <1>5, <1>6, GotoCalm, WorkerMoves
  <1>7. CASE ~Goto(w, "revert")
    <2> DEFINE j == [job[w] EXCEPT !.pc = "persist", !.track = n + 1, !.pending = Writes]
               k == [job[w] EXCEPT !.tries = @ + 1]
    <2>1. job' = [job EXCEPT ![w] = j] \/ job' = [job EXCEPT ![w] = k]
      BY <1>4, <1>7 DEF Upload
    <2>2. /\ j.pc = "persist" /\ j.fresh = job[w].fresh /\ j.req = r /\ j.pending = Writes
          /\ j.track = n + 1
          /\ k.pc = "upload" /\ k.fresh = job[w].fresh /\ k.req = r /\ k.pending = {}
      BY <1>1, <1>2, <1>3, <1>5 DEF Job
    <2> HIDE DEF j, k
    <2>3. /\ job'[w] = j \/ job'[w] = k
          /\ \A v \in Workers : v # w => job'[v] = job[v]
      BY <1>3, <2>1 DEF TypeOK
    <2>4. Calm(r)' => /\ row'[r].state = "processing" /\ ~row'[r].due
                      /\ job[w].fresh.state = "processing"
                      /\ job[w].fresh.dteId = row'[r].dteId
      BY <1>1, <1>2, <1>3, <1>5 DEF JobCalm
    <2>5. JobCalm(w)'
      <3>1. CASE job'[w] = j
        BY <1>4, <2>2, <2>4, <3>1 DEF JobCalm, Writes
      <3>2. CASE job'[w] = k
        BY <2>2, <2>4, <3>2 DEF JobCalm
      <3> QED
        BY <2>3, <3>1, <3>2
    <2> QED
      BY <1>1, <1>2, <2>2, <2>3, <2>5, WorkerMoves
  <1> QED
    BY <1>6, <1>7

\* The three writes of emit.transmit, and the write back.
LEMMA PersistCalm ==
  ASSUME CalmStep, NEW w \in Workers, NEW write \in Writes, Persist(w, write)
  PROVE  CalmInv'
  <1> DEFINE rest == job[w].pending \ {write}
             j == [job[w] EXCEPT !.pending = rest, !.pc = IF rest = {} THEN "submit" ELSE "persist"]
             doc == Wrote(dte[job[w].fresh.dteId], job[w].track, write)
  <1>1. /\ job[w].pc = "persist" /\ write \in job[w].pending
        /\ job' = [job EXCEPT ![w] = j] /\ dte' = [dte EXCEPT ![job[w].fresh.dteId] = doc]
        /\ UNCHANGED <<row, todo, poll, snap>>
    BY DEF Persist
  <1>2. PICK r \in Requests : r = job[w].req
    BY <1>1, Busy
  <1>3. /\ TypeOK /\ job[w] \in Job /\ JobCalm(w) /\ JobOK(w) /\ CopyOK(r, job[w].fresh)
        /\ Calm(r) => row[r].state = "processing"
    BY <1>1, <1>2, Busy
  <1>4. PICK d \in DteIds : d = job[w].fresh.dteId
    BY <1>1, <1>3 DEF JobOK
  <1>5. dte[d] \in Dte /\ dte[d].owner = r /\ dte[d].status # "none" /\ DocCalm(d)
    BY <1>3, <1>4, NullsAssumption DEF CopyOK, TypeOK, CalmStep, CalmInv
  <1>6. 0 < job[w].track
    BY <1>1, <1>3 DEF JobCalm
  <1>7. /\ doc.owner = r
        /\ \/ write = "dte" /\ doc.status = "ENVIADO" /\ doc.trackId = job[w].track
           \/ write # "dte" /\ doc.status = dte[d].status /\ doc.trackId = dte[d].trackId
    BY <1>4, <1>5 DEF Wrote, Writes, Dte
  <1>8. /\ j.pc = IF rest = {} THEN "submit" ELSE "persist"
        /\ j.fresh = job[w].fresh /\ j.req = r /\ j.track = job[w].track /\ j.pending = rest
    BY <1>2, <1>3 DEF Job
  <1> HIDE DEF j, doc
  <1>9. /\ job'[w] = j /\ \A v \in Workers : v # w => job'[v] = job[v]
        /\ dte'[d] = doc /\ \A e \in DteIds : e # d => dte'[e] = dte[e]
    BY <1>1, <1>3, <1>4 DEF TypeOK
  <1>10. DocWorked(d) /\ Only(r)
    <2>1. DocWorked(d)
      BY <1>5, <1>6, <1>7, <1>9 DEF DocWorked, DocCalm, Final
    <2>2. doc.status # "none"
      BY <1>5, <1>7
    <2> QED
      BY <1>1, <1>7, <1>9, <2>1, <2>2 DEF Only
  <1>11. /\ Calm(r)' => Calm(r)
         /\ Calm(r) => /\ row[r].state = "processing" /\ ~row[r].due
                       /\ job[w].fresh.state = "processing"
                       /\ d = row[r].dteId
                       /\ "dte" \notin job[w].pending => dte[d].trackId = job[w].track
    BY <1>1, <1>2, <1>3, <1>4 DEF JobCalm, Calm
  <1>12. Calm(r)' /\ "dte" \notin rest => dte'[d].trackId = job[w].track
    BY <1>7, <1>9, <1>11
  <1>13. JobCalm(w)'
    BY <1>1, <1>4, <1>6, <1>8, <1>9, <1>11, <1>12 DEF JobCalm
  <1>14. Calm(r) => RowWorked(r)
    BY <1>1, <1>3 DEF RowWorked, Reported, Resolved
  <1> QED
    BY <1>1, <1>2, <1>8, <1>9, <1>10, <1>13, <1>14, WorkerCalm

LEMMA RevertCalm ==
  ASSUME CalmStep, NEW w \in Workers, Revert(w)
  PROVE  CalmInv'
  <1>1. /\ job[w].pc = "revert" /\ Goto(w, "quarantine")
        /\ UNCHANGED <<row, todo, poll, snap>>
    BY DEF Revert
  <1>2. PICK r \in Requests : r = job[w].req
    BY <1>1, Busy
  <1>3. /\ TypeOK /\ job[w] \in Job /\ JobCalm(w) /\ JobOK(w) /\ CopyOK(r, job[w].fresh)
        /\ Calm(r) => row[r].state = "processing"
    BY <1>1, <1>2, Busy
  <1>4. PICK d \in DteIds : d = job[w].fresh.dteId
    BY <1>1, <1>3 DEF JobOK
  <1>5. dte[d] \in Dte /\ dte[d].owner = r /\ dte[d].status # "none"
    BY <1>3, <1>4, NullsAssumption DEF CopyOK, TypeOK
  <1>6. Only(r) /\ \A e \in DteIds : dte'[e] = dte[e] \/ DocWorked(e)
    <2>1. CASE dte' = dte
      BY <1>1, <2>1 DEF Only
    <2>2. CASE dte' # dte
      <3> DEFINE e == job[w].fresh.dteId
                 back == [dte[e] EXCEPT !.status = "BORRADOR", !.trackId = job[w].track]
                 Doc(late) == [back EXCEPT !.status = IF "dte" \in late THEN "ENVIADO" ELSE @,
                                           !.submissions = IF "submission" \in late
                                                             THEN @ \cup {job[w].track} ELSE @]
      <3>1. PICK late \in SUBSET job[w].pending : dte' = [dte EXCEPT ![e] = Doc(late)]
        BY <2>2 DEF Revert
      <3>2. /\ Doc(late).owner = r /\ Doc(late).trackId = job[w].track
            /\ Doc(late).status = IF "dte" \in late THEN "ENVIADO" ELSE "BORRADOR"
        BY <1>4, <1>5 DEF Dte
      <3>3. PICK doc : doc = Doc(late)
        OBVIOUS
      <3>4. /\ dte' = [dte EXCEPT ![d] = doc]
            /\ doc.owner = r /\ doc.trackId = job[w].track
            /\ doc.status = IF "dte" \in late THEN "ENVIADO" ELSE "BORRADOR"
        BY <1>4, <3>1, <3>2, <3>3
      <3> HIDE DEF Doc, e
      <3>5. dte'[d] = doc /\ \A x \in DteIds : x # d => dte'[x] = dte[x]
        BY <1>3, <3>4 DEF TypeOK
      <3>6. "dte" \in late => 0 < job[w].track
        BY <1>3 DEF JobCalm
      <3>7. DocWorked(d)
        BY <3>4, <3>5, <3>6 DEF DocWorked, Final
      <3>8. doc.status # "none"
        BY <3>4
      <3> QED
        BY <1>1, <3>4, <3>5, <3>7, <3>8 DEF Only
    <2> QED
      BY <2>1, <2>2
  <1>7. /\ JobCalm(w)' /\ job'[w].req = r
        /\ \A v \in Workers : v # w => job'[v] = job[v]
    <2> DEFINE j == [job[w] EXCEPT !.pc = "quarantine"]
    <2>1. j.pc = "quarantine" /\ j.fresh = job[w].fresh /\ j.req = r /\ j.track = job[w].track
          /\ j.pending = job[w].pending
      BY <1>2, <1>3 DEF Job
    <2>2. job'[w] = j /\ \A v \in Workers : v # w => job'[v] = job[v]
      BY <1>1, <1>3 DEF Goto, TypeOK
    <2> HIDE DEF j
    <2>3. (Calm(r)' => Calm(r)) /\ (job[w].pending # {} => 0 < job[w].track)
      BY <1>1, <1>3 DEF Calm, JobCalm
    <2>4. Calm(r) => /\ row'[r].state = "processing" /\ ~row'[r].due
                     /\ job[w].fresh.state = "processing"
                     /\ job[w].fresh.dteId = row'[r].dteId
      BY <1>1, <1>2, <1>3 DEF JobCalm
    <2> QED
      BY <2>1, <2>2, <2>3, <2>4 DEF JobCalm
  <1>8. Calm(r) => RowWorked(r)
    BY <1>1, <1>3 DEF RowWorked, Reported, Resolved
  <1> QED
    BY <1>1, <1>2, <1>6, <1>7, <1>8, WorkerCalm

\* Failed writes, errors outside the try blocks, crashes and the SII.
LEMMA FailureCalm ==
  ASSUME CalmStep,
         \/ \E w \in Workers : \/ \E write \in Writes : PersistFails(w, write)
                               \/ Crash(w) \/ Abandon(w)
         \/ \E d \in DteIds, v \in Final : \E k \in 1..Len(sii[d]) : SiiDecides(d, k, v)
  PROVE  CalmInv'
  <1>1. TypeOK /\ CalmInv
    BY DEF CalmStep, RefsInv
  <1>2. ASSUME NEW w \in Workers, NEW write \in Writes, PersistFails(w, write) PROVE CalmInv'
    <2> DEFINE j == [job[w] EXCEPT !.pending = @ \ {write}, !.pc = "revert"]
    <2>1. /\ job[w].pc = "persist" /\ job' = [job EXCEPT ![w] = j]
          /\ UNCHANGED <<row, dte, todo, poll, snap>>
      BY <1>2 DEF PersistFails
    <2>2. job[w] \in Job /\ JobCalm(w)
      BY <2>1, Busy
    <2>3. /\ j.pc = "revert" /\ j.fresh = job[w].fresh /\ j.req = job[w].req
          /\ j.track = job[w].track
      BY <2>2 DEF Job
    <2> HIDE DEF j
    <2>4. job'[w] = j /\ \A v \in Workers : v # w => job'[v] = job[v]
      BY <1>1, <2>1 DEF TypeOK
    <2>5. 0 < job[w].track /\ \A q : Calm(q)' = Calm(q)
      BY <2>1, <2>2 DEF JobCalm, Calm
    <2>6. JobCalm(w)'
      BY <2>1, <2>2, <2>3, <2>4, <2>5 DEF JobCalm
    <2> QED
      BY <2>1, <2>3, <2>4, <2>6, WorkerMoves
  <1>3. ASSUME NEW w \in Workers, Abandon(w) PROVE CalmInv'
    <2>1. job[w].pc # "idle" /\ Finish(w) /\ UNCHANGED <<row, dte, todo, poll, snap>>
      BY <1>3 DEF Abandon
    <2> QED
      BY <1>1, <2>1, FinishCalm, WorkerMoves
  <1>4. ASSUME NEW w \in Workers, Crash(w) PROVE CalmInv'
    <2>1. /\ Finish(w) /\ todo' = [todo EXCEPT ![w] = {}] /\ UNCHANGED <<row, dte, poll, snap>>
      BY <1>4 DEF Crash, Finish
    <2>2. /\ JobCalm(w)' /\ job'[w].req = NoReq
          /\ \A v \in Workers : v # w => job'[v] = job[v]
          /\ todo'[w] = {} /\ \A v \in Workers : v # w => todo'[v] = todo[v]
      BY <1>1, <2>1, FinishCalm DEF TypeOK
    <2>3. /\ \A q \in Requests : RowCalm(q)'
          /\ \A d \in DteIds : DocCalm(d)'
          /\ \A v \in Workers : v # w => JobCalm(v)'
          /\ \A p \in Pollers : PollCalm(p)'
      BY <2>1, <2>2, QuietCalm
    <2>4. \A q : Calm(q)' = Calm(q)
      BY <2>1 DEF Calm
    <2>5. ASSUME NEW v \in Workers, NEW q \in Requests PROVE TodoCalm(v, q)'
      <3>1. TodoCalm(v, q)
        BY <1>1 DEF CalmInv
      <3> QED
        BY <2>1, <2>2, <2>4, <3>1 DEF TodoCalm
    <2>6. HeldApart'
      <3>1. \A v \in Workers : Held(v)' \subseteq Held(v)
        BY <2>2 DEF Held
      <3> QED
        BY <1>1, <2>4, <3>1 DEF CalmInv, HeldApart
    <2> QED
      BY <2>2, <2>3, <2>5, <2>6 DEF CalmInv
  <1>5. ASSUME UNCHANGED <<row, dte, job, todo, poll, snap>> PROVE CalmInv'
    <2>1. /\ \A q \in Requests : RowCalm(q)'
          /\ \A d \in DteIds : DocCalm(d)'
          /\ \A v \in Workers : JobCalm(v)'
          /\ \A p \in Pollers : PollCalm(p)'
      BY <1>5, QuietCalm
    <2>2. HeldApart' /\ \A v \in Workers, q \in Requests : TodoCalm(v, q)'
      BY <1>1, <1>5 DEF CalmInv, HeldApart, TodoCalm, Held, Calm
    <2> QED
      BY <2>1, <2>2 DEF CalmInv
  <1> QED
    BY <1>2, <1>3, <1>4, <1>5 DEF SiiDecides
-----------------------------------------------------------------------------
\* What a poller at work knows.
LEMMA Polling ==
  ASSUME CalmStep, NEW p \in Pollers, poll[p].pc # "idle"
  PROVE  LET d == poll[p].copy.dteId IN
         /\ poll[p] \in Poll /\ poll[p].copy \in Row /\ poll[p].req \in Requests /\ TypeOK
         /\ PollCalm(p) /\ PollOK(p)
         /\ d \in DteIds /\ dte[d] \in Dte /\ DocCalm(d)
         /\ dte[d].status # "none" /\ dte[d].owner = poll[p].req
  <1>1. PollCalm(p) /\ PollOK(p) /\ PollReport(p) /\ poll[p] \in Poll /\ TypeOK
    BY DEF CalmStep, RefsInv, TypeOK, CalmInv, ReportInv
  <1>2. poll[p].copy.dteId \in DteIds /\ CopyOK(poll[p].req, poll[p].copy)
    BY <1>1 DEF PollOK, PollReport
  <1>3. \A d \in DteIds : DocCalm(d) /\ dte[d] \in Dte
    BY DEF CalmStep, CalmInv, RefsInv, TypeOK
  <1> QED
    BY <1>1, <1>2, <1>3, NullsAssumption DEF PollOK, Poll, CopyOK

\* A poller's step that writes neither row nor document.
LEMMA PollMoves ==
  ASSUME CalmStep, NEW p \in Pollers, PollCalm(p)',
         UNCHANGED <<row, dte, job, todo, snap>>,
         \A o \in Pollers : o # p => poll'[o] = poll[o]
  PROVE  CalmInv'
  <1>1. /\ \A q \in Requests : RowCalm(q)'
        /\ \A d \in DteIds : DocCalm(d)'
        /\ \A v \in Workers : JobCalm(v)'
        /\ \A o \in Pollers : PollCalm(o)'
    BY QuietCalm
  <1>2. HeldApart' /\ \A v \in Workers, q \in Requests : TodoCalm(v, q)'
    BY DEF CalmStep, CalmInv, HeldApart, TodoCalm, Held, Calm
  <1> QED
    BY <1>1, <1>2 DEF CalmInv

\* Listing, reading, asking and finding.
LEMMA PollAskCalm ==
  ASSUME CalmStep, NEW p \in Pollers,
         \/ \E r \in Requests : PollStart(p, r)
         \/ PollRead(p) \/ PollAsk(p) \/ PollFind(p) \/ PollFails(p)
  PROVE  CalmInv'
  <1>1. /\ UNCHANGED <<row, dte, job, todo, snap>> /\ TypeOK /\ TypeOK' /\ Grown
        /\ \A q : Calm(q)' = Calm(q)
    BY DEF PollStart, PollRead, PollAsk, PollFind, PollFails, CalmStep, Onward, Calm
  <1>2. ASSUME NEW j, poll' = [poll EXCEPT ![p] = j]
        PROVE  poll'[p] = j /\ \A o \in Pollers : o # p => poll'[o] = poll[o]
    BY <1>1, <1>2 DEF TypeOK
  <1>3. ASSUME PollEnds(p) PROVE CalmInv'
    <2>1. poll'[p] = IdlePoll /\ \A o \in Pollers : o # p => poll'[o] = poll[o]
      BY <1>2, <1>3 DEF PollEnds
    <2>2. PollCalm(p)'
      BY <2>1 DEF PollCalm, IdlePoll
    <2> QED
      BY <1>1, <2>1, <2>2, PollMoves
  <1>4. ASSUME NEW r \in Requests, PollStart(p, r) PROVE CalmInv'
    <2> DEFINE j == [IdlePoll EXCEPT !.pc = "read", !.req = r, !.copy = row[r]]
    <2>1. poll' = [poll EXCEPT ![p] = j] /\ row[r].state \in {"submitted", "observed"}
      BY <1>4 DEF PollStart
    <2>2. j.pc = "read" /\ j.req = r /\ j.copy = row[r]
      BY DEF IdlePoll
    <2> HIDE DEF j
    <2>3. poll'[p] = j /\ \A o \in Pollers : o # p => poll'[o] = poll[o]
      BY <1>2, <2>1
    <2>4. PollCalm(p)'
      <3>1. PollVerdict(p)'
        BY <2>2, <2>3 DEF PollVerdict
      <3> QED
        BY <1>1, <2>1, <2>2, <2>3, <3>1 DEF PollCalm, Reported
    <2> QED
      BY <1>1, <2>3, <2>4, PollMoves
  <1>5. ASSUME poll[p].pc # "idle",
               NEW j, poll' = [poll EXCEPT ![p] = j], j.req = poll[p].req, j.copy = poll[p].copy,
               Calm(poll[p].req) /\ PollVerdict(p) => PollVerdict(p)'
        PROVE  CalmInv'
    <2>1. poll'[p] = j /\ \A o \in Pollers : o # p => poll'[o] = poll[o]
      BY <1>2, <1>5
    <2>2. PollCalm(p)
      BY DEF CalmStep, CalmInv
    <2>3. PollCalm(p)'
      BY <1>1, <1>5, <2>1, <2>2 DEF PollCalm
    <2> QED
      BY <1>1, <2>1, <2>3, PollMoves
  <1>6. ASSUME PollRead(p) PROVE CalmInv'
    <2>1. CASE PollEnds(p)
      BY <1>3, <2>1
    <2>2. CASE ~PollEnds(p)
      <3> DEFINE j == [poll[p] EXCEPT !.pc = "ask", !.track = dte[poll[p].copy.dteId].trackId]
      <3>1. poll[p].pc = "read" /\ poll' = [poll EXCEPT ![p] = j]
        BY <1>6, <2>2 DEF PollRead
      <3>2. /\ j.pc = "ask" /\ j.req = poll[p].req /\ j.copy = poll[p].copy
            /\ j.track = dte[poll[p].copy.dteId].trackId
        BY <3>1, Polling DEF Poll
      <3> HIDE DEF j
      <3>3. poll'[p] = j
        BY <1>2, <3>1
      <3>4. PollVerdict(p)'
        BY <1>1, <3>2, <3>3 DEF PollVerdict
      <3> QED
        BY <1>5, <3>1, <3>2, <3>4
    <2> QED
      BY <2>1, <2>2
  <1>7. ASSUME PollAsk(p) PROVE CalmInv'
    <2>1. CASE PollEnds(p)
      BY <1>3, <2>1
    <2>2. CASE ~PollEnds(p)
      <3>1. poll[p].pc = "ask"
        BY <1>7 DEF PollAsk
      <3>2. PICK d \in DteIds : d = poll[p].copy.dteId
        BY <3>1, Polling
      <3>3. PICK t \in Nat : t = poll[p].track
        BY <3>1, Polling DEF Poll
      <3>4. t \in 1..Len(sii[d])
        <4>1. 0 < t /\ t <= Len(sii[d])
          BY <3>1, <3>2, <3>3, Polling DEF PollOK
        <4>2. Len(sii[d]) \in Nat
          BY <1>1 DEF TypeOK
        <4> QED
          BY <4>1, <4>2
      <3>5. PICK v : v = sii[d][t]
        OBVIOUS
      <3> DEFINE j == [poll[p] EXCEPT !.pc = "find", !.answer = v]
      <3>6. poll' = [poll EXCEPT ![p] = j] /\ sii' = sii
        BY <1>7, <2>2, <3>2, <3>3, <3>5 DEF PollAsk
      <3>7. /\ j.pc = "find" /\ j.req = poll[p].req /\ j.copy = poll[p].copy
            /\ j.track = t /\ j.answer = v
        BY <3>1, <3>3, Polling DEF Poll
      <3> HIDE DEF j
      <3>8. poll'[p] = j
        BY <1>2, <3>6
      <3>9. Sure(d, t, v)'
        BY <3>4, <3>5, <3>6 DEF Sure
      <3>10. PollVerdict(p) => PollVerdict(p)'
        BY <1>1, <3>1, <3>2, <3>3, <3>7, <3>8, <3>9 DEF PollVerdict
      <3> QED
        BY <1>5, <3>1, <3>6, <3>7, <3>10
    <2> QED
      BY <2>1, <2>2
  <1>8. ASSUME PollFind(p) PROVE CalmInv'
    <2>1. poll[p].pc = "find" /\ sii' = sii
      BY <1>8 DEF PollFind
    <2>2. PICK d \in DteIds : d = poll[p].copy.dteId
      BY <2>1, Polling
    <2>3. dte[d].owner = poll[p].req /\ dte[d].status # "none" /\ DocCalm(d)
      BY <2>1, <2>2, Polling
    <2>4. CASE dte[d].trackId = poll[p].track
      <3> DEFINE j == [poll[p] EXCEPT !.pc = "write", !.seen = dte[d].status]
      <3>1. poll' = [poll EXCEPT ![p] = j]
        BY <1>8, <2>2, <2>4 DEF PollFind
      <3>2. /\ j.pc = "write" /\ j.req = poll[p].req /\ j.copy = poll[p].copy
            /\ j.track = poll[p].track /\ j.answer = poll[p].answer /\ j.seen = dte[d].status
        BY <2>1, Polling DEF Poll
      <3> HIDE DEF j
      <3>3. poll'[p] = j
        BY <1>2, <3>1
      <3>4. Calm(poll[p].req) => Sure(d, poll[p].track, dte[d].status)
        <4>1. CASE dte[d].status \in Final
          BY <2>3, <2>4, <4>1 DEF DocCalm, DocVerdict
        <4>2. CASE dte[d].status \notin Final
          BY <4>2 DEF Sure, Final, Last
        <4> QED
          BY <4>1, <4>2
      <3>5. \A t, v : Sure(d, t, v)' <=> Sure(d, t, v)
        BY <2>1 DEF Sure
      <3>6. Calm(poll[p].req) /\ PollVerdict(p) => PollVerdict(p)'
        BY <1>1, <2>1, <2>2, <3>2, <3>3, <3>4, <3>5 DEF PollVerdict
      <3> QED
        BY <1>5, <2>1, <3>1, <3>2, <3>6
    <2>5. CASE dte[d].trackId # poll[p].track
      <3> DEFINE j == [poll[p] EXCEPT !.pc = "apply"]
      <3>1. poll' = [poll EXCEPT ![p] = j]
        BY <1>8, <2>2, <2>5 DEF PollFind, PollGoto
      <3>2. /\ j.pc = "apply" /\ j.req = poll[p].req /\ j.copy = poll[p].copy
            /\ j.track = poll[p].track /\ j.answer = poll[p].answer
        BY <2>1, Polling DEF Poll
      <3> HIDE DEF j
      <3>3. poll'[p] = j
        BY <1>2, <3>1
      <3>4. ~PollVerdict(p)
        BY <2>1, <2>2, <2>5 DEF PollVerdict
      <3> QED
        BY <1>5, <2>1, <3>1, <3>2, <3>4
    <2> QED
      BY <2>4, <2>5
  <1> QED
    BY <1>3, <1>4, <1>6, <1>7, <1>8 DEF PollFails

\* The request of a calm poll is nobody's.
LEMMA PolledAlone ==
  ASSUME CalmStep, NEW p \in Pollers, poll[p].pc # "idle", Calm(poll[p].req)
  PROVE  LET r == poll[p].req IN
         /\ row[r].state \in Reported /\ row[r].dteId = poll[p].copy.dteId
         /\ \A v \in Workers : (job[v].pc # "idle" => job[v].req # r) /\ r \notin todo[v]
  <1>1. PICK r \in Requests : r = poll[p].req
    BY Polling
  <1>2. row[r].state \in Reported /\ row[r].dteId = poll[p].copy.dteId
    BY <1>1, Polling DEF PollCalm
  <1>3. \A v \in Workers : (job[v].pc # "idle" => job[v].req # r) /\ r \notin todo[v]
    BY <1>1, <1>2 DEF CalmStep, CalmInv, JobCalm, TodoCalm, Reported
  <1> QED
    BY <1>1, <1>2, <1>3

\* A poller's step on its request and the request's documents.
LEMMA PollCalmStep ==
  ASSUME CalmStep, NEW p \in Pollers, poll[p].pc # "idle",
         NEW r \in Requests, r = poll[p].req, Only(r),
         UNCHANGED <<job, todo, snap>>,
         \A o \in Pollers : poll[o].pc # "idle" /\ poll[o].req = r /\ Calm(r) => PollCalm(o)',
         \A o \in Pollers : o # p => poll'[o] = poll[o],
         poll'[p].pc # "idle" => poll'[p].req = r,
         Calm(r) => RowCalm(r)',
         \A d \in DteIds : dte'[d] # dte[d] \/ dte[d].owner = r => DocCalm(d)'
  PROVE  CalmInv'
  <1>1. poll[p].req = r
    OBVIOUS
  <1>2. \A q : Calm(q)' = Calm(q)
    BY DEF Calm
  <1>3. \A q \in Requests : q # r => Same(q) /\ row'[q] = row[q]
    BY <1>1, OnlySame DEF Only
  <1>4. Calm(r) => \A v \in Workers : (job[v].pc # "idle" => job[v].req # r) /\ r \notin todo[v]
    BY <1>1, PolledAlone
  <1>5. ASSUME NEW v \in Workers PROVE JobCalm(v)'
    <2>1. JobCalm(v) /\ JobOK(v)
      BY DEF CalmStep, CalmInv, RefsInv
    <2>2. CASE job[v].pc = "idle" \/ job[v].req # r
      <3>1. job[v].pc # "idle" => Same(job[v].req)
        BY <1>3, <2>1, <2>2 DEF JobOK
      <3> QED
        BY <3>1, SameJob
    <2>3. CASE job[v].pc # "idle" /\ job[v].req = r
      <3>1. ~Calm(r)
        BY <1>4, <2>3
      <3> QED
        BY <1>2, <2>1, <2>3, <3>1 DEF JobCalm
    <2> QED
      BY <2>2, <2>3
  <1>6. ASSUME NEW v \in Workers, NEW q \in Requests PROVE TodoCalm(v, q)'
    <2>1. TodoCalm(v, q)
      BY DEF CalmStep, CalmInv
    <2> QED
      BY <1>2, <1>3, <1>4, <2>1 DEF TodoCalm
  <1>7. HeldApart'
    BY <1>2 DEF CalmStep, CalmInv, HeldApart, Held
  <1>8. ASSUME NEW o \in Pollers PROVE PollCalm(o)'
    <2>1. PollOK(o)
      BY DEF CalmStep, RefsInv
    <2>2. CASE poll[o].pc # "idle" /\ poll[o].req = r
      <3>1. CASE Calm(r)
        BY <1>1, <2>2, <3>1
      <3>2. CASE ~Calm(r)
        BY <1>1, <1>2, <2>2, <3>2 DEF PollCalm
      <3> QED
        BY <3>1, <3>2
    <2>3. CASE ~(poll[o].pc # "idle" /\ poll[o].req = r)
      <3>1. poll'[o] = poll[o] /\ (poll[o].pc # "idle" => Same(poll[o].req))
        BY <1>1, <1>3, <2>1, <2>3 DEF PollOK
      <3> QED
        BY <3>1, SamePoll
    <2> QED
      BY <2>2, <2>3
  <1>9. ASSUME NEW q \in Requests PROVE RowCalm(q)'
    <2>1. CASE q # r
      BY <1>3, <2>1, SameRow
    <2>2. CASE q = r
      BY <1>1, <1>2, <2>2 DEF RowCalm
    <2> QED
      BY <2>1, <2>2
  <1>10. ASSUME NEW d \in DteIds PROVE DocCalm(d)'
    <2>1. CASE dte'[d] # dte[d] \/ dte[d].owner = r
      BY <1>1, <2>1
    <2>2. CASE dte'[d] = dte[d] /\ dte[d].owner # r
      <3>1. dte[d].status # "none" => Same(dte[d].owner)
        BY <1>3, <2>2 DEF CalmStep, CalmInv, DocCalm
      <3> QED
        BY <2>2, <3>1, SameDoc
    <2> QED
      BY <2>1, <2>2
  <1> QED
    BY <1>5, <1>6, <1>7, <1>8, <1>9, <1>10 DEF CalmInv

\* The poller writes the document back from what it found.
LEMMA PollWriteCalm ==
  ASSUME CalmStep, NEW p \in Pollers, PollWrite(p)
  PROVE  CalmInv'
  <1>1. /\ poll[p].pc = "write" /\ UNCHANGED <<row, sii, job, todo, snap>> /\ PollGoto(p, "apply")
        /\ \A q : Calm(q)' = Calm(q)
    BY DEF PollWrite, Calm
  <1>2. PICK r \in Requests : r = poll[p].req
    BY <1>1, Polling
  <1>3. PICK d \in DteIds : d = poll[p].copy.dteId
    BY <1>1, Polling
  <1>4. /\ poll[p] \in Poll /\ TypeOK /\ PollCalm(p) /\ PollOK(p) /\ dte[d] \in Dte
        /\ dte[d].status # "none" /\ dte[d].owner = r
    BY <1>1, <1>2, <1>3, Polling
  <1>5. PICK t \in Nat : t = poll[p].track
    BY <1>4 DEF Poll
  <1>6. PICK s : s = IF poll[p].answer \in Final THEN poll[p].answer ELSE poll[p].seen
    OBVIOUS
  <1>7. /\ dte'[d].status = s /\ dte'[d].trackId = t /\ dte'[d].owner = r
        /\ \A e \in DteIds : e # d => dte'[e] = dte[e]
    <2> DEFINE doc == [dte[d] EXCEPT !.status = s, !.trackId = t]
    <2>1. dte' = [dte EXCEPT ![d] = doc]
      BY <1>3, <1>5, <1>6 DEF PollWrite
    <2>2. doc.status = s /\ doc.trackId = t /\ doc.owner = r
      BY <1>4 DEF Dte
    <2> HIDE DEF doc
    <2> QED
      BY <1>4, <2>1, <2>2 DEF TypeOK
  <1>8. 0 < t
    BY <1>1, <1>4, <1>5 DEF PollOK
  <1>9. Calm(r) => /\ row[r].state \in Reported /\ row[r].dteId = d
                   /\ dte[d].trackId = t /\ Sure(d, t, s)
    BY <1>1, <1>2, <1>3, <1>4, <1>5, <1>6 DEF PollCalm, PollVerdict
  <1>10. poll'[p] = [poll[p] EXCEPT !.pc = "apply"] /\ \A o \in Pollers : o # p => poll'[o] = poll[o]
    BY <1>1, <1>4 DEF PollGoto, TypeOK
  <1>11. PICK j : j = [poll[p] EXCEPT !.pc = "apply"]
    OBVIOUS
  <1>12. /\ poll'[p] = j /\ j.pc = "apply" /\ j.req = r /\ j.copy = poll[p].copy
         /\ j.track = poll[p].track /\ j.answer = poll[p].answer
    BY <1>2, <1>4, <1>10, <1>11 DEF Poll
  <1>13. \A x, k, v : Sure(x, k, v)' <=> Sure(x, k, v)
    BY <1>1 DEF Sure
  <1>14. Only(r)
    <2>1. s # "none"
      BY <1>1, <1>4, <1>6 DEF CalmStep, ReportInv, PollReport, Final
    <2> QED
      BY <1>1, <1>7, <2>1 DEF Only
  <1>15. ASSUME NEW o \in Pollers, poll[o].pc # "idle", poll[o].req = r, Calm(r) PROVE PollCalm(o)'
    <2>1. PollCalm(o) /\ poll[o].copy.dteId = d
      BY <1>9, <1>15 DEF CalmStep, CalmInv, PollCalm
    <2>2. /\ poll'[o].req = r /\ poll'[o].copy.dteId = d /\ poll'[o].track = poll[o].track
          /\ poll'[o].answer = poll[o].answer
          /\ poll'[o] = poll[o] \/ (poll[o].pc = "write" /\ poll'[o].pc = "apply")
      BY <1>1, <1>10, <1>12, <1>15, <2>1
    <2>3. PollVerdict(o)
      BY <1>15, <2>1 DEF PollCalm
    <2>4. PollVerdict(o)'
      BY <1>7, <1>9, <1>13, <1>15, <2>1, <2>2, <2>3 DEF PollVerdict
    <2> QED
      BY <1>1, <1>9, <1>15, <2>2, <2>4 DEF PollCalm
  <1>16. Calm(r) => RowCalm(r)'
    <2> SUFFICES ASSUME Calm(r) PROVE RowCalm(r)'
      OBVIOUS
    <2>1. RowCalm(r)
      BY DEF CalmStep, CalmInv
    <2>2. RowVerdict(r)'
      BY <1>1, <1>7, <1>9, <1>13, <2>1 DEF RowCalm, RowVerdict
    <2> QED
      BY <1>1, <1>7, <1>8, <1>9, <2>1, <2>2, NullsAssumption DEF RowCalm
  <1>17. ASSUME NEW e \in DteIds PROVE DocCalm(e)'
    <2>1. CASE e = d
      BY <1>1, <1>7, <1>8, <1>9, <1>13, <2>1 DEF DocCalm, DocVerdict
    <2>2. CASE e # d
      <3>1. DocCalm(e)
        BY DEF CalmStep, CalmInv
      <3> QED
        BY <1>1, <1>7, <1>13, <2>2, <3>1 DEF DocCalm, DocVerdict
    <2> QED
      BY <2>1, <2>2
  <1> QED
    BY <1>1, <1>2, <1>10, <1>12, <1>14, <1>15, <1>16, <1>17, PollCalmStep

\* A resolved document sets the public state.
LEMMA PollApplyCalm ==
  ASSUME CalmStep, NEW p \in Pollers, PollApply(p)
  PROVE  CalmInv'
  <1>1. /\ poll[p].pc = "apply" /\ UNCHANGED <<dte, sii, job, todo, snap>> /\ PollEnds(p)
        /\ \A q : Calm(q)' = Calm(q)
    BY DEF PollApply, Calm
  <1>2. PICK r \in Requests : r = poll[p].req
    BY <1>1, Polling
  <1>3. PICK d \in DteIds : d = poll[p].copy.dteId
    BY <1>1, Polling
  <1>4. PICK c \in Row : c = poll[p].copy
    BY <1>1, Polling
  <1>5. /\ TypeOK /\ PollCalm(p) /\ dte[d].owner = r /\ DocCalm(d)
    BY <1>1, <1>2, <1>3, Polling
  <1>6. poll'[p] = IdlePoll /\ \A o \in Pollers : o # p => poll'[o] = poll[o]
    BY <1>1, <1>5 DEF PollEnds, TypeOK
  <1>7. \A x, k, v : Sure(x, k, v)' <=> Sure(x, k, v)
    BY <1>1 DEF Sure
  <1>8. /\ \A q \in Requests : q # r => row'[q] = row[q]
        /\ \/ row' = row
           \/ \E v \in Final : /\ dte[d].status = v
                               /\ <<row[r].state, mapDteStatusToPublic[v]>> \in Allowed
                               /\ row'[r].state = mapDteStatusToPublic[v] /\ row'[r].dteId = d
    <2>1. CASE dte[d].status \in Final
      <3>1. PICK v \in Final : v = dte[d].status
        BY <2>1
      <3>2. PICK new : new = mapDteStatusToPublic[v]
        OBVIOUS
      <3>3. ApplyState(r, c, new)
        BY <1>2, <1>3, <1>4, <2>1, <3>1, <3>2 DEF PollApply
      <3>4. /\ \A q \in Requests : q # r => row'[q] = row[q]
            /\ \/ row' = row
               \/ <<row[r].state, new>> \in Allowed /\ row'[r].state = new /\ row'[r].dteId = c.dteId
        BY <1>5, <3>3, AppliedRows
      <3> QED
        BY <1>3, <1>4, <3>1, <3>2, <3>4
    <2>2. CASE dte[d].status \notin Final
      BY <1>3, <2>2 DEF PollApply
    <2> QED
      BY <2>1, <2>2
  <1>9. Only(r)
    BY <1>1, <1>8 DEF Only
  <1>10. Calm(r) => row[r].state \in Reported /\ row[r].dteId = d
    BY <1>1, <1>2, <1>3, PolledAlone
  <1>11. Calm(r) => row'[r].state \in Reported /\ row'[r].dteId = d
    <2>1. \A v \in Final : mapDteStatusToPublic[v] \in Reported
      BY DEF Final, mapDteStatusToPublic, DteStatus, Reported
    <2> QED
      BY <1>8, <1>10, <2>1
  <1>12. ASSUME NEW o \in Pollers, poll[o].pc # "idle", poll[o].req = r, Calm(r) PROVE PollCalm(o)'
    <2>1. CASE o = p
      BY <1>6, <2>1 DEF PollCalm, IdlePoll
    <2>2. CASE o # p
      <3>1. PollCalm(o)
        BY DEF CalmStep, CalmInv
      <3>2. poll'[o] = poll[o] /\ poll[o].copy.dteId = d /\ PollVerdict(o)
        BY <1>6, <1>10, <1>12, <2>2, <3>1 DEF PollCalm
      <3>3. PollVerdict(o)'
        BY <1>1, <1>7, <3>2 DEF PollVerdict
      <3> QED
        BY <1>11, <1>12, <3>2, <3>3 DEF PollCalm
    <2> QED
      BY <2>1, <2>2
  <1>13. Calm(r) => RowCalm(r)'
    <2> SUFFICES ASSUME Calm(r) PROVE RowCalm(r)'
      OBVIOUS
    <2>1. RowCalm(r)
      BY DEF CalmStep, CalmInv
    <2>2. CASE row' = row
      <3>1. RowVerdict(r)'
        BY <1>1, <1>7, <2>1, <2>2 DEF RowCalm, RowVerdict
      <3> QED
        BY <1>1, <2>1, <2>2, <3>1 DEF RowCalm
    <2>3. CASE row' # row
      <3>1. PICK v \in Final : /\ dte[d].status = v
                               /\ <<row[r].state, mapDteStatusToPublic[v]>> \in Allowed
                               /\ row'[r].state = mapDteStatusToPublic[v] /\ row'[r].dteId = d
        BY <1>8, <2>3
      <3>2. Sure(d, dte[d].trackId, v) /\ 0 < dte[d].trackId
        BY <1>5, <3>1 DEF DocCalm, DocVerdict
      <3>3. /\ row'[r].state = "accepted" => v = "ACEPTADO"
            /\ row'[r].state = "rejected" => v = "RECHAZADO"
        BY <3>1 DEF Final, mapDteStatusToPublic, DteStatus
      <3>4. RowVerdict(r)'
        BY <1>1, <1>7, <3>1, <3>2, <3>3 DEF RowVerdict
      <3>5. row[r].state \notin Resolved
        BY <3>1 DEF Allowed, Resolved
      <3>6. snap[r].pc = "read" =>
              snap[r].copy.state \notin Resolved
              /\ (snap[r].copy.state \in Reported => snap[r].copy.dteId = d)
        BY <1>10, <2>1, <3>5 DEF RowCalm
      <3> QED
        BY <1>1, <1>11, <3>2, <3>4, <3>6, NullsAssumption DEF RowCalm
    <2> QED
      BY <2>2, <2>3
  <1>14. ASSUME NEW e \in DteIds, dte[e].owner = r PROVE DocCalm(e)'
    <2>1. DocCalm(e)
      BY DEF CalmStep, CalmInv
    <2> QED
      BY <1>1, <1>7, <1>11, <1>14, <2>1 DEF DocCalm, DocVerdict
  <1> QED
    BY <1>1, <1>2, <1>6, <1>9, <1>12, <1>13, <1>14, PollCalmStep DEF IdlePoll
-----------------------------------------------------------------------------
LEMMA NextCalm ==
  ASSUME RefsInv, ReportInv, CalmInv, [Next]_vars, HandlerFirst
  PROVE  CalmInv'
  <1>1. CalmStep
    BY StepsGoOnward DEF CalmStep
  <1>2. CASE UNCHANGED vars
    <2>1. /\ \A q \in Requests : RowCalm(q)'
          /\ \A d \in DteIds : DocCalm(d)'
          /\ \A v \in Workers : JobCalm(v)'
          /\ \A p \in Pollers : PollCalm(p)'
      BY <1>1, <1>2, QuietCalm DEF vars
    <2>2. HeldApart' /\ \A v \in Workers, q \in Requests : TodoCalm(v, q)'
      BY <1>2 DEF CalmInv, HeldApart, TodoCalm, Held, Calm, vars
    <2> QED
      BY <2>1, <2>2 DEF CalmInv
  <1>3. CASE Next
    <2>1. ASSUME NEW w \in Workers, WorkerStep(w) PROVE CalmInv'
      BY <1>1, <2>1, LoadCalm, PrepareCalm, ExistingCalm, SettleCalm, ResumeCalm, TransmitCalm,
         UploadCalm, RevertCalm, PersistCalm, FailureCalm DEF WorkerStep
    <2>2. ASSUME NEW p \in Pollers, PollStep(p) PROVE CalmInv'
      BY <1>1, <2>2, PollAskCalm, PollWriteCalm, PollApplyCalm DEF PollStep
    <2> QED
      BY <1>1, <1>3, <2>1, <2>2, QueueCalm, FailureCalm, PollAskCalm DEF Next
  <1> QED
    BY <1>2, <1>3

\* What the answer says, from the row's copy and the document read after it.
LEMMA AnswersHold == RefsInv /\ ReportInv /\ CalmInv => StatusIsTrue
  <1> SUFFICES ASSUME RefsInv, ReportInv, CalmInv PROVE StatusIsTrue
    OBVIOUS
  <1> SUFFICES ASSUME NEW r \in Requests, snap[r].pc = "read",
                      NEW c \in Row, c = snap[r].copy, effectiveState(c) \in Reported
               PROVE  /\ c.dteId \in Prepared
                      /\ dte[c.dteId].trackId \in DOMAIN sii[c.dteId]
                      /\ effectiveState(c) = "accepted" =>
                           sii[c.dteId][dte[c.dteId].trackId] = "ACEPTADO"
                      /\ effectiveState(c) = "rejected" =>
                           sii[c.dteId][dte[c.dteId].trackId] = "RECHAZADO"
    <2>1. ASSUME NEW c \in Copies
          PROVE  \E r \in Requests : snap[r].pc = "read" /\ c = snap[r].copy /\ c \in Row
      <3>1. PICK r \in Requests : snap[r].pc = "read" /\ c = snap[r].copy
        BY DEF Copies
      <3>2. snap[r] \in Snap
        BY DEF RefsInv, TypeOK
      <3> QED
        BY <3>1, <3>2 DEF Snap
    <2> QED
      BY <2>1, NullsAssumption DEF StatusIsTrue, buildStatus, Prepared
  <1>1. Calm(r) /\ RowCalm(r) /\ CopyOK(r, c)
    BY DEF Calm, CalmInv, ReportInv, RowReport
  <1>2. /\ c.state \in Reported => /\ row[r].state \in Reported /\ row[r].dteId = c.dteId
                                   /\ c.dteId # NoDte /\ 0 < dte[c.dteId].trackId
        /\ c.state \in Resolved => row[r].state = c.state
    BY <1>1 DEF RowCalm
  <1>3. c.dteId # NoDte
    BY <1>2 DEF effectiveState
  <1>4. PICK d \in DteIds : d = c.dteId
    BY <1>3 DEF Row
  <1>5. /\ dte[d].status # "none" /\ dte[d].owner = r /\ DocCalm(d) /\ DocOK(d) /\ dte[d] \in Dte
        /\ Len(sii[d]) \in Nat /\ DOMAIN sii[d] = 1..Len(sii[d])
    BY <1>1, <1>3, <1>4 DEF CopyOK, CalmInv, RefsInv, TypeOK
  <1>6. \/ effectiveState(c) = c.state /\ c.state \in Reported
        \/ /\ effectiveState(c) = mapDteStatusToPublic[dte[d].status]
           /\ mapDteStatusToPublic[dte[d].status] \in Reported
    BY <1>4 DEF effectiveState
  <1>7. mapDteStatusToPublic[dte[d].status] \in Reported => dte[d].status \in {"ENVIADO"} \cup Final
    BY <1>5 DEF mapDteStatusToPublic, DteStatus, Dte, Reported, Final
  <1>8. 0 < dte[d].trackId /\ dte[d].trackId \in Nat
    BY <1>2, <1>4, <1>5, <1>6, <1>7 DEF DocCalm, Dte
  <1>9. dte[d].trackId \in DOMAIN sii[d]
    BY <1>5, <1>8 DEF DocOK
  <1>10. /\ effectiveState(c) = "accepted" => Sure(d, dte[d].trackId, "ACEPTADO")
         /\ effectiveState(c) = "rejected" => Sure(d, dte[d].trackId, "RECHAZADO")
    <2>1. CASE effectiveState(c) = c.state /\ c.state \in Reported
      BY <1>1, <1>2, <1>4, <2>1 DEF RowCalm, RowVerdict, Resolved
    <2>2. CASE effectiveState(c) = mapDteStatusToPublic[dte[d].status]
      <3>1. /\ effectiveState(c) = "accepted" => dte[d].status = "ACEPTADO"
            /\ effectiveState(c) = "rejected" => dte[d].status = "RECHAZADO"
        BY <1>5, <2>2 DEF mapDteStatusToPublic, DteStatus, Dte, Final
      <3>2. dte[d].status \in Final => Sure(d, dte[d].trackId, dte[d].status)
        BY <1>1, <1>5 DEF DocCalm, DocVerdict
      <3> QED
        BY <3>1, <3>2 DEF Final
    <2> QED
      BY <1>6, <2>1, <2>2
  <1> QED
    BY <1>4, <1>5, <1>9, <1>10 DEF Sure, Last, Prepared

\* With every fault of the environment, as long as no lease runs out under its
\* holder before the 202 handler is through: whatever the workers and pollers do
\* between the two reads of GET /dtes/:id, an answer of submitted or later names
\* a TrackID of the SII, and a verdict is the SII's (dtes.controller's getStatus).
THEOREM StatusAnswersHold == Spec /\ [][HandlerFirst]_vars => []StatusIsTrue
  <1>1. RefsInv /\ ReportInv /\ CalmInv /\ [Next]_vars /\ [HandlerFirst]_vars
          => RefsInv' /\ ReportInv' /\ CalmInv'
    <2> SUFFICES ASSUME RefsInv, ReportInv, CalmInv, [Next]_vars, [HandlerFirst]_vars
                 PROVE  RefsInv' /\ ReportInv' /\ CalmInv'
      OBVIOUS
    <2>1. RefsInv' /\ ReportInv'
      BY NextReports
    <2>2. CASE HandlerFirst
      BY <2>1, <2>2, NextCalm
    <2>3. CASE UNCHANGED vars
      <3>1. HandlerFirst
        BY <2>3 DEF HandlerFirst, LeaseExpires, vars, RefsInv, TypeOK, Row
      <3> QED
        BY <2>1, <3>1, NextCalm
    <2> QED
      BY <2>2, <2>3
  <1> QED
    BY <1>1, InitRefs, InitReports, InitCalm, AnswersHold, PTL DEF Spec
=============================================================================
