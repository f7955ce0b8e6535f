# A TLA+ model of the tax-document API

The program is a NestJS service that receives B2B requests to issue Chilean
electronic tax documents (DTE), gives each a folio from a range authorised by
the tax authority (a CAF), signs it, sends it to the authority (SII), polls for
the verdict and reports the outcome by a status endpoint and by webhooks. The web
process, the worker process and the cron endpoint all run the same processing
code, at the same time, and share only PostgreSQL. That is where the difficulty
lies: a legal document must not be numbered twice or sent twice, and every
processor works on copies of rows that others are changing.

Paths below are relative to the repository's `src/`.

## 1. Inventory

| Component | State | Operations | Talks to |
|---|---|---|---|
| Durable queue, claimer (`integration-queue.claimer`) | `integration_requests.state`, `next_attempt_at` | `claimDue`: lock, take up to N due rows, lease of 600 s | processors |
| Request processor (`integration-processor.service`) | copies of rows between awaits | `processDue`, `process`, `transmitOrFinalize`, `transmit`, `quarantineTransmission`, `pollSubmitted`, RCOF twins | everything below |
| State machine (`integration-state.service`) | state, history, attempts | `applyState` (row lock, outbox in the same transaction), `scheduleRetry` (no lock) | webhooks |
| Emission (`emit-dte.use-case`) | `dte_documents`, `sii_submissions`, audit | `prepare` (reserve, sign, create), `transmit` (upload, three parallel writes, write-back on error) | folio store, SII |
| Status query (`query-dte-status.use-case`) | document status | `execute`: submission, SII, document by TrackID, write-back | SII |
| SII client (`sii-soap.client`) | none | upload and query with timeout and up to three POSTs | SII |
| Folio and CAF store (`tenant-config.service`, `caf.service`) | `config_json.cafs` per tenant, caches | `uploadCaf`, `reserveFolioAtomic`, signature, profile and threshold updates | emission |
| Intake (`integration-request.service`, controllers' helper) | requests, idempotency keys, 202 snapshot | `enqueue`, `storeResponseSnapshot`, then a kick of `processDue(1)` | queue |
| Request status (`dtes.controller`, `buildStatus`) | none | reads the row, then its document | queue, emission |
| Payloads and totals (DTOs, `validatePayloadAndTotals`, `dte-xml.engine`, `discount.engine`) | none | validate, total, build, print, consolidate | intake, emission, RCOF |
| Webhooks (`integration-webhook.service`) | endpoints, events, deliveries | register, dispatch, claim, deliver, retry, redeliver | clients |
| RCOF (`generate-rcof.use-case`) | `rcof_submissions` | consolidate a day, sign, transmit, poll; daily trigger | SII |
| Credentials | `integration_credentials` | create, rotate (24 h overlap), revoke | HMAC guard |
| HMAC and cron guards | nonces, rate counters | verify, consume nonce, purge | intake, cron |
| Worker loop, orchestrator | current run, last RCOF date | tick every minute: process, poll, deliver, purge | all |
| Caches (config, signature, SII token) | per-process maps with expiry | fill, invalidate | folio store, SII |
| Branding | versioned profiles | update, ensure at emission | emission |
| Persistence layer | none | generic repository (`update` = read, merge, save, no lock), `tenantTransaction` | all |
| XML text, PDF, signatures, ciphers, artifacts, metrics, provisioning | none or write-once | formatting and cryptography | |

What makes each correct:

- *Queue, processor, emission*: one document (folio) per request; at most one
  transmission, durably fenced; every request settles.
- *State machine*: the public state moves forward only; each notifiable state is
  announced, once, when entered; verdicts are the SII's.
- *Folio store*: folios on documents are exactly the ones the CAFs account for.
- *Webhooks*: at-least-once with bounded attempts. *RCOF*: one submission per
  (tenant, day, sequence). *Credentials*: an active administrator remains.
  *Guards*: a nonce is accepted once. *Caches*: staleness bounded by the expiry.
  *Status*: never says more than the SII did. *Intake*: a repeated call gets the
  first one's answer. *Settings*: no writer loses another's change.
  *Documents*: one total per document, from the 202 to the report of the day.

The hard behaviours, each at its line, are under `hazards` in `PROJECT.json`.
The main ones: a copy read before an await is written back whole after it
(`scheduleRetry`, `applyState`, the generic `update`); a lease that runs out
under a live holder; crashes between the marker, the upload and the three
parallel writes; an answer of the SII that is lost, retried or overtaken by a
newer one.

## 2. Modules

| Module | What it is |
|---|---|
| `RequestPipeline` | queue, processor, state machine, emission's transmission, SII client, status query: one module, because their interleavings are the subject |
| `RequestStatus` | extends it: the status endpoint, composed over every fault |
| `RequestLifecycle` | abstract specification: what a client of the API is promised about a request |
| `FolioReservation` | CAF ranges, their uploads and the reservations, as concurrent transactions of one tenant |
| `FolioStatus` | extends it: the stock and the tracing of folios shown to an administrator |
| `WebhookOutbox` | endpoints, events, deliveries and the deliverers that claim, post and record them |
| `Rcof` | the report of a day: the requests that share it, transmission, polling |
| `Intake` | `enqueue` against the unique indexes, and the daily trigger of the RCOF |
| `IdempotentIntake` | abstract specification: the idempotency rules, atomically |
| `Access` | credentials, HMAC guard, cron guard, nonces, rate limit |
| `TenantSettings` | the tenant's configuration row, its caches in two processes, tokens, branding, and what an emission reads of them |
| `Documents` | payload validation, discounts, totals, the amounts of the XML, its checks, the print model, the consolidation of a day |
| `MC...` | instances for TLC |
| `...Proofs` | theorems, checked by TLAPS: folios and their stock, pipeline, webhooks, RCOF, intake, access, settings, documents |

A call of the generic `update` reads a row and later writes it back merged. It is
two steps where another writer of the row is expected to be at work:
`storeResponseSnapshot` (the 202 handler starts a processor), the RCOF row (two
requests share it) and credentials (every call touches `lastUsedAt`). Elsewhere
it is one.

### RequestPipeline

State: `row` (the columns of `integration_requests` that control anything:
state, dteId, the transmission marker, attempts, whether `next_attempt_at` has
passed), `dte` (status, TrackID, which TrackIDs have a `sii_submissions` row),
`sii` (external: the envelopes received per document, with their verdicts),
`job` / `todo` (what a running `processDue` holds), `poll` (what a running
`pollSubmitted` holds), `snap` (the 202 handler's update), `outbox` (states of
the webhook events), and two history variables (`sessions`, `failures`; also the
field `owner` of a document).

A step is one database transaction or one call to the SII. So `Prepare` is the
whole of `prepareAndLink`, which runs under the row lock, but `Existing`,
`Resume` and `Finalize` are three steps, and a poll is six (list, read, ask,
find, write, apply). `job[w].fresh` is the object `fresh` that the code hands
from function to function; that it may be stale is what most of the properties
are about. Actions follow the code:

| Action | Code |
|---|---|
| `Enqueue`, `SnapshotRead`, `SnapshotWrite` | `enqueue`'s insert; `storeResponseSnapshot` through the generic `update` |
| `Claim`, `LeaseExpires` | `claimDue`; the clock reaching `next_attempt_at` |
| `Load` | `process` up to the test of `dteId` |
| `Prepare`, `PrepareFails`, `Retry` | `prepareAndLink` and the lookup after it; rollback; `handleProcessingError` and `scheduleRetry` |
| `Existing`, `Resume`, `Finalize` | `transmitOrFinalize` |
| `Mark` | the fence of `transmit` |
| `ReadDte`, `Upload`, `Persist`, `PersistFails`, `Revert` | `emit.transmit` |
| `Submit`, `Quarantine` | the `applyState` calls that end a transmission |
| `PollStart` .. `PollApply`, `PollFails` | `pollSubmitted` and the status query |
| `Crash`, `Abandon` | the process dies; an error reaches `processDue`'s catch |
| `SiiDecides` | external |

`return this.transmit(...)` and `return applyState(...)` without `await` inside a
`try` are not caught by it: such a rejection reaches `processDue`, which is
`Abandon`, or, for a refused transition, a `Settle` that changes nothing.

The constant `Faults` selects what the environment may do beyond crashes, lost
answers and database errors: `prepare` (the preparing transaction fails),
`lookup` (the read after its commit fails), `lease` (a claim runs out under a
live holder), `snapshot` (processors act inside the 202 handler's update).
Without the last three, claims are *exclusive*; with them the code breaks
promises its comments and documents make (section 5), and `pipeline_races` asks
what still holds.

### RequestLifecycle

States go `queued`, `processing`, then `submitted` or `failed`, then the verdict,
with `observed` before `accepted` or `rejected`; the step that enters a
notifiable state appends it to `announced`. `submitted -> failed` and
`failed -> processing`, which the code's table allows, are not promised: the
first would take back a report, the second is manual.

### FolioReservation

`cafs` (ranges with last used folio and place in the array), `dtes`, the
advisory lock, and per transaction its uncommitted view. `Begin` takes the lock
and reads (both `reserveFolioAtomic` and `mutateConfig` lock first), `Reserve`
advances the first open range, `Create` is the rest of `prepare` with the commit,
`Upload` is `uploadCaf`'s mutation with its commit, `Rollback` any failure.
`prepare` is only called inside the processor's `tenantTransaction`
(`EmitDteUseCase.execute`, which would not be, has no caller outside tests).
Other users of `mutateConfig` leave the ranges as they are, which is a `Begin`
followed by a `Rollback` here.

### WebhookOutbox

`endpoint`, `event`, `delivery` are the three tables of one tenant; `todo` and
`run` what a running `deliverDue` holds (the batch its claim returned, with the
attempt numbers of that moment, and the delivery it is at); `redo` a manual
redelivery; `tries` and `got` record which POSTs were attempted and which
reached the client. `emitEvent` is one step, since `persistState` calls it in the
transaction of the state change; it is what an entry of `RequestPipeline`'s
`outbox` stands for. `claimDueDeliveries` leases a batch, then each delivery goes
through `Take`, `ReadEndpoint`, `Post` and `Record` (or `MarkFailed`), with
`Breaks` and `Catch` for errors outside the inner `try`. `redeliver` creates its
rows one transaction at a time. `LeaseOverrun` lets the 10 minute claim run out
under a live holder, and the backoff of a retry pass while an earlier holder is
still at it; both remember the delivery in `late`, since such a holder's record may
reopen a settled row or strand it: the properties that need exclusive claims speak
of the other deliveries. `SecretLost` (external) makes an endpoint's
secret unreadable.

### RequestStatus, FolioStatus

Both put a reader on top of a module whose processes go on meanwhile.
`buildStatus` is a function of the row it was given and of the documents as they
are *now*; the row may be any copy somebody read earlier (`Copies`).
`getFolioStatus` counts with a configuration `seen` that was read any number of
commits ago and with the documents of the moment.

### Rcof

`req` (the queue's rows of kind rcof for one date and sequence), `rcof` (the one
`rcof_submissions` row the unique index allows), `sii`, `job` and `poll` (what
workers and pollers remember, with the copy their `update` read). The daily
request and a client's may share the row. There is no fence: `UploadFails`
leaves envelopes at the SII whose TrackID nobody stores, and `MarkFailed`
writes `failed` whatever the row says by then. Claims are exclusive here.

### Intake, IdempotentIntake

`Lookup`, `LookupRef`, `Create`, `Raced`, `RacedRef` and `StoreSnapshot` are the
queries of `enqueue` in order; client calls, the worker's daily run and the cron
endpoint's interleave at each of them. `day`, `receipts` and `lastRcofDate` are the
daily trigger's state; `skipped` records the days whose error `rcofDaily` kept for
its log. A request of the daily run has the key `rcof-daily:<date>:1`, which no
client is assumed to use. `IdempotentIntake` says the same in two atomic actions:
take a request whose key and reference are free, and answer what the taken
requests justify.

### Access

A message is a signed call that the network may deliver late and more than once;
a handler is a running call. `Receive`, `FindNonce`, `InsertNonce` and `Admit` are
the HMAC guard, `CronCall` the cron guard, `TouchRead` and `TouchWrite` the update
of `lastUsedAt` nobody waits for; `Create`, `Rotate`, `RotateCreate`, `RotateLimit`,
`Revoke`, `RevokeCheck`, `RevokeWrite` the administration, one step per query.
With `Overlap = FALSE` no call reads a credential between another's read and
write of one; with `TRUE` nothing is assumed.

### TenantSettings

`log` holds the committed values of the `tenant_config` row, oldest first, and a
cached copy is the number of the value it holds, so that its age can be asked for.
Administrators (web process) lock, read afresh, mutate, commit, then drop the
process's copies; readers fill the caches from what they read earlier
(`ReadRow`, `Store`); an emission (worker) holds the advisory lock from `Reserve`
to `Commit`, and drops its process's copy before the commit. Branding versions
are inserted outside the lock and conflict on their unique index.
`saveSignature`, `uploadCaf` and branding have their own mutation; the tax
profile, software provider, thresholds and opt-ins are one (`saveOther`), since
they replace their own part of the row only.

### Documents

A batch of payloads is posted, validated, given a folio, built, checked and sent;
the module is about amounts. `engineTotals` is the shared calculation,
`serverTotals` what the 202 answers, `buildDte` what is signed, `preflight` what
`sii-xsd.validator` lets through, `buildDtePrintModel` what is printed,
`consolidateDay` and `folioRanges` what the RCOF reports. Amounts are pesos,
quantities multiples of 1/2, percentages whole numbers.

## 3. Runs

| Run | Instance | Shows |
|---|---|---|
| `folio_reservation` | 3 transactions, 2 types, files that repeat, adjoin and overlap, 4 uploads | `FoliosAccounted`, `NeverReissued`, `NeverGivenBack`; `StockReportsHold`: from a configuration of any age the stock is never overstated, an alert comes before exhaustion, a document is traced to one CAF. Deadlock is checked: every transaction can end |
| `pipeline_exclusive` | 2 requests, documents, workers, batches of 2, 1 failure | one document (`OneDtePerRequest`), durable fence, one transmission; `ImplementsLifecycle` |
| `pipeline_polling` | 1 request, 2 workers, 2 pollers, 2 POSTs, 2 failures, fairness | reports are backed by the SII, verdicts faithful, no event twice; every request settles, every verdict arrives |
| `pipeline_races` | all four faults, 2 workers, 1 poller, 1 failure | even then: announced verdicts are the SII's, no notifiable state goes unannounced, the status endpoint is true |
| `webhook_delivery` | 1 event, 1 endpoint, 2 deliveries, 2 deliverers, batches of 2, 1 crash, error or overrun lease, fairness | dead means tried, delivered means received; no delivery stranded, posted without bound, or reopened; every one whose secret can be read ends |
| `rcof` | the daily request (2 attempts) and a client's (1), 1 poller, 1 failure, fairness | reports and verdicts are backed; a repeated transmission is paid for by a failure; every request settles; one stays submitted for ever only under a row marked failed |
| `intake` | 3 calls, 2 keys, 3 bodies of which 2 share a reference, 2 slots, 3 days, 2 errors | `IdempotentSpec`: the intake implements the atomic rules; `DayIsReported` |
| `access` | 3 credentials, 2 messages, 2 handlers, `Overlap = FALSE` | a message is let in once; an active administrator remains; lives only shorten |
| `settings` | 3 administrators, 1 reader, 1 emission, clock of 4 | copies expire; no mutation is lost; the branding stays; a version fails only among three others; a reserved folio finds its CAF |
| `documents` | 8,937 batches of payloads | one total per document; gross prices drift at most 0.595 a line and 0.5; what is refused late; what is stored can be printed; the report of a day is exact |
| `second_folio_after_lookup` | violation | the retry after a failed lookup forgets the document: second folio |
| `admins_lock_out` | violation, `Overlap = TRUE` | two administrators revoke each other |

Bounds. `MaxAttempts` is 2 (5 in the code): one retry and the exhausted case.
`MaxUploads` is 1 where repeats do not matter, 2 where they do. One or two
failures are enough to crash each of two holders at any step. Two workers and
two pollers give every pairwise race; a second request matters only for batches
and for documents being mixed up, so it is in the `exclusive` run. In the folio
instance the ranges have two folios: first and last folio, exhaustion and the
move to the next range all occur. Webhooks have two attempts (6 in the code): one
retry and the dead letter; the two deliveries are an event's and its
redelivery's, and interact as two subscribers' would. Three calls are a winner
and two losers; three days are enough for a day to be reported late and for the
one after it to be reported as well. Windows and TTLs of one or two ticks, with a clock that
outlives each of them, give the edge of every expiry. Three administrators
exhaust `createNextVersion`'s three attempts.

Three runs look at part of the product of independent activities, by a
(action) constraint of their MC module. `intake` (`Apart`): client calls and daily
runs never meet, their keys differ and a daily request has no reference, so a
behaviour has one kind or the other; the proofs below have no such restriction.
`settings` (`Apart`): caching with two administrators, or branding with three,
which reads no cache; readers in one process at a time, since processes share no
cache. `pipeline_races` (`HandlerFirst`): a lease (10 minutes) runs out under its
worker only once the 202 handler, a few queries long, is through; the theorem on
`StatusIsTrue` has this for a hypothesis, those on the run's other properties have none.

Symmetry is used in safety runs only. `CHECK_DEADLOCK FALSE` everywhere but in
the folio run: once every request, delivery or call is settled, or the clock has
reached its bound, the system is rightly at rest. The largest runs are
`pipeline_races` (5.9 million states, two minutes), `settings` (2.3 million) and
`access` (2.1 million). Every inductive invariant of section 4 was model-checked on
these instances before it was proved, and so was the `TypeOK` of every module.

Fairness (`pipeline_polling`, `webhook_delivery`, `rcof`). A running call goes on
(weak fairness of each worker's, poller's and deliverer's steps: Node's event
loop, and finite timeouts on every HTTP call); the clock passes
`next_attempt_at`; the minute tick keeps claiming the oldest due rows and polling,
so no request is passed over for ever (strong fairness per request); the SII ends
its processing. Polling takes at most 20 requests per tenant, so fairness of
polling presumes fewer open ones; stuck submissions count towards that limit (a
listed hazard). Crashes are bounded by `MaxFailures`: a request that kills its
process every time is claimed for ever, since a crash does not count as an
attempt.

## 4. Proofs

Everything below is proved by TLAPS for any constants that satisfy the modules'
named assumptions (null values outside the sets, positive bounds, CAF files with
`0 < from <= to`, administrators and emissions distinct calls, payloads of the
types of the DTOs): any number of requests, documents, workers, pollers,
transactions, files, calls, credentials, messages, payloads, lines, days and
failures.

*FolioReservation.* `InductiveInvariant` proves
`IInv`: types; loaded ranges are disjoint and well-formed, with their last used
folio inside; only the lock's holder is active; its view is the committed state,
or, once it has reserved, that state with one open range advanced by the folio
its document carries; and `FoliosAccounted`. The last alone is not
inductive, for `Create` commits what `Reserve` computed earlier. The lemmas on
`Consumed` (advancing a range adds one folio, replacing one by the same range
adds none) carry the argument. From it follow `TypeCorrect`,
`FoliosAreAccounted`, `NeverReissuesFolio` and `UsedFoliosStay`.

*FolioStatus.* `StockIsTrue` needs one thing more (`SeenInv`): the copy of the
configuration a report counts with, of whatever age, is finitely many disjoint
ranges, each still loaded (`Kept`) with no fewer used folios than the copy says. So
what the copy adds up to exceeds what the documents have used by no more than what
the loaded ranges can still give.

*Sums.* The stock, a document's totals and a report are `MapThenSumSet`, a fold
written as a recursive function. That such a function exists for a finite set, that
its value does not depend on the element chosen first (`SumRemove`), and what it
adds up to over disjoint parts, are proved here: each by induction on the size of
the set, stated as the absence of a least counterexample (`LeastNumber`), which
needs no induction theorem with an operator for a parameter.

*RequestPipeline, every fault.* `RefsInvariant` proves `RefsInv`: types, and
that every reference a row, a worker or a poller holds is to a document or a
TrackID that exists. Types alone are not inductive: a poll reads
`sii[d][track]`, which has a type only if the SII received that many envelopes.
`TypeCorrect` follows.

*RequestPipeline, exclusive claims* (hypothesis `Exclusive`:
`Faults \subseteq {"prepare"}`). `ExclusiveClaims` proves `ExclInv`, which adds:
each request has at most one holder; a busy worker's copy is the row, in state
processing and not due; behind the fence the row is marked, and before the first
POST nothing was sent; a poller's request is reported, and its copy keeps the
row's document and marker; a document is linked from its owner's row, is received
only if the row is marked, and is resolved only if the row is reported. `NoSecondFolio`,
`FenceIsDurable`, `TransmittedOnce` and `ReportsAreBacked` follow. The
hypothesis is not a convenience: each fault it excludes breaks one of these
properties (section 5), and the remaining one (`prepare`), crashes, lost answers
and partly failed writes are all included.

*RequestPipeline, what clients are told while claims are exclusive*
(the second half of `RequestPipelineProofs`). `PipelineImplementsLifecycle` takes every step of the
pipeline from `ExclInv` to the step of `RequestLifecycle` that the request makes:
a claim enters processing, `Submit` reports, `PollApply` resolves; a copy that is
written back is the row, so no state is taken back with it. `AnnouncedOnce` needs
only the lifecycle: the states a request enters after an announcement rank higher
(`Rank`, `Story`), so that none is announced again. `VerdictsAreFaithful` adds
`VerdictInv`: a document's TrackID, once reported, does not change, and what a
poller received, remembers or wrote is the verdict of the envelope it asked about.

*RequestPipeline, what clients are told under every fault.* With leases that run
out and the 202 handler's update in between, whole rows are written back from
copies of any age, so nothing can be said of the row alone. `ReportInvariant`
proves `ReportInv`: every copy of a row, in a worker, a poller or the handler,
has its notifiable state among the events and its document owned by the request
(`CopyOK`); every verdict remembered by a poller, stored in a document or announced
was given by the SII to a document of that request (`Backed`). Events, prepared
documents and envelopes are never taken back (`Onward`), so what holds of a copy
holds of it for ever, and writing it back does no harm to these properties.
`StatesAreAnnounced` and `AnnouncementsAreTrue` follow.

*RequestStatus.* `StatusAnswersHold` has one hypothesis, `HandlerFirst`: no lease
runs out under its holder while the request's 202 handler is still between its read
and its write. All other faults are included, and leases run out freely afterwards.
`CalmInv` is `ExclInv` and `VerdictInv` request by request, guarded by `Calm` (the
handler is not through) and without what a lost lookup breaks: a calm request has one
holder, a polled one was reported with the poller's document, a resolved document
belongs to a reported request, and whatever the handler's old copy reports the row
still says. With `ReportInv`, which tells whose document every copy names, a step on
one request leaves the others' parts alone (`Same`). The hypothesis is needed: with
three overlapping claims, one may erase the link and the marker of a row already
accepted, and another, waiting at the fence, then sends the same document again,
so that an older copy says accepted of the new TrackID.

*WebhookOutbox, every fault.* `AttemptsAreReal` proves `CountInv`: types; the
attempt number in a row, in a claimed batch and in a running delivery is at most
the number of POSTs attempted, strictly less when the outcome is about to be
recorded; a 2xx answer waiting to be recorded came from a client that was reached.
`TypeCorrect` and `OutcomesReal` follow, with no hypothesis on the leases: a late
record writes an attempt number that is old, never one that is too high.

*WebhookOutbox, claims.* `ClaimsAreCounted` proves `ClaimInv` with it: what each
deliverer holds (`HolderOK`) and, per delivery, a predicate `Row` over the row's
status and attempt, the number of holders, of holders that have posted, of POSTs
and of failures. While the lease never ran out (`Exclusive`) there is at most one
holder, whose copy is the row, and the POSTs are at most the attempts, the
failures and the one not yet recorded; afterwards (`Shared`) each failure
pays for one backoff table at most. `NothingStranded`, `PostsAreBounded` and
`EndedStays` follow. Counting holders is what makes it inductive: with one
deliverer fewer at the row, the bound must hold for those that stay.

*Rcof.* `RcofInvariant` proves `ReportInv` with the types: every copy of the row,
stored or remembered, has a TrackID the SII issued and a verdict the SII gave,
or none (`Known`); a claimed request has one worker and stays in processing until
its submit; a reported request is linked and the SII holds an envelope; and
the transmissions of a request are at most its failures, one more once a
transmission has succeeded and nothing has gone wrong since (`Paid`).
`TypeCorrect`, `ReportsAreBacked` and `TransmissionsAreBounded` follow. Several
requests may share the row and each may be transmitted again; there is no
hypothesis.

*Intake.* `Invariance` proves `IInv`: types; rows unique by key and by reference;
each call where its input says; a refused insert has a winner, which stays, since
rows are never removed (`RaceInv`: this is why the loser never answers with an
error); every answer is justified by a row; and `DayIsReported`. From it
`ImplementsIdempotent` maps every step of the intake to a step of
`IdempotentIntake` or to a stutter (an insert is `Take`, an answer `Reply`), and
`DailyIsReported` and `RepetitionsAgree` follow. The assumptions are that no
client uses a daily key and that the null input is not an input.

*Access, any overlap.* `TypeCorrect` proves `BaseInv`: types, and that a message a
handler serves and a row it writes back exist. `NonceAcceptedOnce` adds `NonceInv`:
a message let in at a later second than its signature's, or by the cron guard,
still has its nonce or has left its window, and at most one handler is between the
insert and the rate limit for it. The clock
does not move while a handler is between its window check and its rate limit
(`Tick`: 300 seconds against two queries).

*Access, `~Overlap`.* `AnAdminRemains` and `LivesShorten` come from `CredInv`: at
most one handler is between a read and a write of a credential, and its copy is
the row. The hypothesis is needed: `admins_lock_out` refutes the first without it.

*TenantSettings, time.* `NoCopyOutlives` proves `TimeInv` with the types: each
cached configuration, signature and token, and what each reader holds between its
steps, is good until an instant that is at most its TTL after the value was
replaced (`GoodUntil`); a signature filled from a cached configuration adds the two
TTLs. An entry's own expiry is not enough, for a reader may store a copy
that was read before a commit after that commit's invalidation.

*TenantSettings, the lock.* `NoMutationLost`, `FolioHasCaf`, `BrandAgreed` and
`GivesUpOnlyWhenCrowded` come from `LockInv`: only the lock's holder is between its
read and its commit, and what it has read is the current row; each committed value
keeps what the earlier ones had (`Keeps`); an emission's steps agree with the row
it advanced; each lost attempt at a branding version met one more version; the
active profile is an administrator's once an administrator's was confirmed. The
assumption that administrators and emissions are distinct calls is the model's
way to name the holder of one lock; it excludes no behaviour.

*Documents.* `DocumentsSafe` proves `DocInv`: a payload past the intake is `Sound`
(it has lines, the receiver its type asks for, lines whose discount is not more than
their price), the totals kept with it are the ones answered, each row of
`dte_documents` is the document `buildDte` makes of its payload for some folio and
day, and no two of a type share a folio. What the five checked properties say
follows from `DocInv` alone. `OneTotal`: the engine's totals, the signed ones and a
reader's are sums of the same lines, and the discount in the XML is left out only
when it takes nothing. `GrossIsClose`: rounding a line errs by at most half
a peso of net, so 119/200 of gross; the errors add up line by line (`SumsClose`), and
the VAT is rounded once. `RefusedLateForTwoReasons`: without retentions the tags that are
written add up, and those left out are nothing (`PreflightHolds`). `StoredPrints`.
`ReportsExact`: the loop of `folioRanges` keeps, after each folio, closed maximal
runs and an open one (`Passed`); days partition the boletas, so the sums over days
add up to the sum over documents (`SumParts`).
`BatchesAssumption` says what JSON and the DTOs' types let through: the rules on the
fields are the model's (`CreateIntegrationDteDto`), so payloads that break them are
included.

Only model-checked:

- liveness (`EveryRequestSettles`, `EveryVerdictArrives`, `ReadableDeliveryEnds`,
  `EveryRcofSettles`, `OnlyFailedMarkStrands`), which needs fairness and `ENABLED`,
  outside this prover.

Every safety invariant and action property that a passing run checks is a theorem.

## 5. Findings and exposures

Two runs expect a violation; the lines and the statements they contradict are
under `findings` in `PROJECT.json`. `second_folio_after_lookup`: a read that fails
after the preparing commit sends the copy from before it to `scheduleRetry`, which
erases the link. `admins_lock_out`: the check for the last administrator and the
update are separate statements without a lock.

Behaviours of the code that the models contain, that the properties are worded
around or exclude by a hypothesis, and that have no run of their own:

- the 202 handler's `update` can write back a row from before the link: a second
  folio (fault `snapshot`);
- a worker whose lease ran out writes back a copy without the marker, and the next
  claim transmits again, as does a third worker that waits at the fence with the
  first document (fault `lease`);
- the SII client repeats a POST whose answer was lost, though
  `BUSINESS_RULES.md:35` wants an ambiguous transmission not repeated;
- a crash among the three parallel writes of a transmission can leave a TrackID
  without its submission row, and the request submitted for ever;
- a webhook whose secret cannot be decrypted is retried without counting the
  attempt (`ReadableDeliveryEnds` speaks of the others);
- with overlapping calls, a late `lastUsedAt` write can bring back a revoked
  credential (`LivesOnlyShorten` is for calls that do not overlap);
- an RCOF marked failed by a late worker is never polled again
  (`OnlyFailedMarkStrands`);
- `rcofDaily` swallows a tenant's error and the day is not tried again by the
  worker (`skipped` in `DayIsReported`);
- the nonce of an API call let in within the second of its signature expires a
  fraction of a second before its window (`AcceptedOnce`);
- documents: a boleta without receiver is accepted, and the NOT NULL column refuses
  it; a document with retentions never passes the check before the upload (known:
  `TECHNICAL_DEBT.md:17`, D-006); an omitted `pricingMode` is NET in the engine
  though the DTO describes GROSS; a negative retention is not refused and makes the
  202's total differ from the signed one; gross prices may drift by more than the
  $1 tolerance over several lines; the RCOF's amounts include annulled boletas.

## 6. Not modelled, and plan

External, from how the code uses them: the SII's processing of an envelope, the
death of a process, the loss of a webhook secret. Left out: text, layout,
cryptography and encodings; artifacts and their signed URLs (reads and a keyed
hash); PDF layout; API contract, health, metrics, logging; row-level security
(every modelled operation works within one tenant); migrations and scripts (run
once by an operator or in CI; the indexes they create are modelled where they are
used); the in-memory fallbacks for tests; the audit log's content; the optional
`xmllint` step; image and colour checks of the branding; the purchase and sales
book and queries by document of the SII client, which no modelled flow calls;
`saveSimulatedExpiringSignature`, which has no caller. Two hazards have no
property: the window of 20 polled requests, which needs more requests than TLC
can hold, and a request that kills its process for ever, since crashes are bounded.

Of the plan of the proofs nothing is left but liveness, which stays with TLC.
