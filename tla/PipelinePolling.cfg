SPECIFICATION FairSpec
CONSTANTS
  Requests = {r1}
  DteIds = {d1}
  Workers = {w1, w2}
  Pollers = {p1, p2}
  NoReq = NoReq
  NoDte = NoDte
  MaxAttempts = 2
  MaxUploads = 2
  BatchSize = 1
  MaxFailures = 2
  Faults = {"prepare"}
CHECK_DEADLOCK FALSE
PROPERTIES EveryRequestSettles EveryVerdictArrives
INVARIANTS ReportedWasReceived VerdictFaithful NoDuplicateEvents
