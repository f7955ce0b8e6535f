---------------------------- MODULE RequestStatus ----------------------------
(***************************************************************************)
(* GET /dtes/:id over the pipeline: the request's row is read first, its   *)
(* document afterwards, and the answer is put together from both.          *)
(*                                                                         *)
(* Code: dtes.controller.ts (getStatus), integration-request.service.ts    *)
(* (buildStatus).                                                          *)
(***************************************************************************)
EXTENDS RequestPipeline

\* The rows read earlier: the copy a 202 handler holds stands for what any caller,
\* this one included, read at some time before.
Copies == {snap[r].copy : r \in {q \in Requests : snap[q].pc = "read"}}

\* Mutant: a request being processed counts as submitted once it has a document.
effectiveEager(c) ==
  IF c.dteId # NoDte /\ c.state = "processing" THEN "submitted" ELSE c.state

\* A document that is further than its request, which was still alive when it
\* was read, decides.
effectiveState(c) ==
  IF /\ c.dteId # NoDte /\ c.state \in {"submitted", "processing"}
     /\ mapDteStatusToPublic[dte[c.dteId].status] # "processing"
    THEN mapDteStatusToPublic[dte[c.dteId].status]
    ELSE c.state

buildStatus(c) ==
  [status |-> effectiveState(c), dte |-> c.dteId,
   trackId |-> IF c.dteId = NoDte THEN 0 ELSE dte[c.dteId].trackId]

\* "La consulta es la fuente de verdad del integrador": whenever between the two
\* reads the workers and pollers move on, an answer of submitted or later names a
\* TrackID the SII issued, and a verdict is the SII's for that TrackID.
StatusIsTrue ==
  \A c \in Copies : LET answer == buildStatus(c) IN
  answer.status \in Reported =>
    /\ answer.dte \in Prepared
    /\ answer.trackId \in DOMAIN sii[answer.dte]
    /\ answer.status = "accepted" => sii[answer.dte][answer.trackId] = "ACEPTADO"
    /\ answer.status = "rejected" => sii[answer.dte][answer.trackId] = "RECHAZADO"

\* An assumption on the environment: the 600 s lease of a claim does not run out
\* under its holder while the 202 handler is still between its read and its write
\* of the row (or has not come to them).
HandlerFirst ==
  \A r \in Requests : snap[r].pc # "done" =>
    \A w \in Workers : r \in Held(w) => ~LeaseExpires(r)
===============================================================================
