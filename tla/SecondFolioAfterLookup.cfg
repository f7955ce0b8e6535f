SPECIFICATION Spec
CONSTANTS
  Requests = {r1}
  DteIds = {d1, d2}
  Workers = {w1}
  Pollers = {}
  NoReq = NoReq
  NoDte = NoDte
  MaxAttempts = 3
  MaxUploads = 1
  BatchSize = 1
  MaxFailures = 0
  Faults = {"lookup"}
CHECK_DEADLOCK FALSE
INVARIANTS OneDtePerRequest
