----------------------------- MODULE FolioStatus -----------------------------
(***************************************************************************)
(* The stock of folios a tenant is shown while uploads and reservations go *)
(* on: getFolioStatus reads the configuration (a cached copy or the row)   *)
(* and only then the documents, outside the advisory lock, so the two      *)
(* reads may be any number of commits apart.                               *)
(*                                                                         *)
(* Code: framework/sii/tenant-config.service.ts (getFolioStatus and        *)
(* getFolioTraceability).                                                  *)
(***************************************************************************)
EXTENDS FolioReservation, FiniteSets, FiniteSetsExt

VARIABLE
  seen    \* the CAFs of the configuration the query read

statusVars == <<vars, seen>>

StatusInit == Init /\ seen = {}

\* getFolioStatus reads the configuration; the documents are read later.
ReadConfig ==
  /\ seen' = cafs
  /\ UNCHANGED vars

StatusNext ==
  \/ Next /\ UNCHANGED seen
  \/ ReadConfig

StatusSpec == StatusInit /\ [][StatusNext]_statusVars

matchingCafs(S, type) == {c \in S : c.type = type}
totalAuthorized(S, type) ==
  MapThenSumSet(LAMBDA c : c.rangeTo - c.rangeFrom + 1, matchingCafs(S, type))

\* Mutant: the first folio of a range is not counted as used.
countInCafOpen(c) == Cardinality({d \in dtes : d[1] = c.type /\ d[2] > c.rangeFrom
                                                /\ d[2] <= c.rangeTo})

\* Documents of the type whose folio lies in the CAF's range.
countInCaf(c) == Cardinality({d \in dtes : d[1] = c.type /\ d[2] >= c.rangeFrom
                                            /\ d[2] <= c.rangeTo})

remaining(S, type) ==
  totalAuthorized(S, type)
    - MapThenSumSet(LAMBDA c : countInCaf(c), matchingCafs(S, type))

\* Critical without a CAF, without folios or with 5% of them left; a warning at
\* the default threshold of 20%.
alert(S, type) ==
  LET left == remaining(S, type)  total == totalAuthorized(S, type) IN
  IF matchingCafs(S, type) = {} \/ left <= 0 \/ 20 * left <= total THEN "CRITICO"
  ELSE IF 5 * left <= total THEN "ADVERTENCIA"
  ELSE "SALUDABLE"

\* getFolioTraceability names the CAF of a document.
cafOf(S, d) == {c \in S : c.type = d[1] /\ d[2] >= c.rangeFrom /\ d[2] <= c.rangeTo}
-----------------------------------------------------------------------------
\* The folios reserveFolioAtomic can still give.
Available(type) == UNION {(c.lastUsed + 1)..c.rangeTo : c \in Open(cafs, type)}

\* getFolioStatus never promises a folio that reserveFolioAtomic cannot give,
\* however old the configuration it counted with, and with the committed
\* configuration it counts them exactly.
StockNeverOverstated ==
  \A type \in Types :
    /\ remaining(seen, type) <= Cardinality(Available(type))
    /\ remaining(cafs, type) = Cardinality(Available(type))

\* An alert below critical means the next reservation of the type succeeds once
\* the lock is free; a type without open CAF is always shown as critical.
AlertBeforeExhausted ==
  \A type \in Types :
    alert(seen, type) # "CRITICO" => Open(cafs, type) # {}

\* Every document is traced to one CAF of the committed configuration, and to no
\* other by an older copy of it.
TracedToOneCaf ==
  \A d \in dtes : /\ Cardinality(cafOf(cafs, d)) = 1
                  /\ \A c \in cafOf(seen, d) : \E e \in cafOf(cafs, d) : SameRange(c, e)

\* What getFolioStatus and getFolioTraceability tell an administrator, from a
\* copy of the configuration as old as the cache allows, while transactions
\* reserve and upload.
StockReportsHold == StockNeverOverstated /\ AlertBeforeExhausted /\ TracedToOneCaf
===============================================================================
