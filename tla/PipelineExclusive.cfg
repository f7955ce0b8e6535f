SPECIFICATION Spec
CONSTANTS
  Requests = {r1, r2}
  DteIds = {d1, d2}
  Workers = {w1, w2}
  Pollers = {p1}
  NoReq = NoReq
  NoDte = NoDte
  MaxAttempts = 2
  MaxUploads = 1
  BatchSize = 2
  MaxFailures = 1
  Faults = {"prepare"}
SYMMETRY Symmetry
CHECK_DEADLOCK FALSE
INVARIANTS OneDtePerRequest FenceDurable OneTransmission
PROPERTY ImplementsLifecycle
