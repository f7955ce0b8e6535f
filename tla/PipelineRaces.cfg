SPECIFICATION Spec
CONSTANTS
  Requests = {r1}
  DteIds = {d1}
  Workers = {w1, w2}
  Pollers = {p1}
  NoReq = NoReq
  NoDte = NoDte
  MaxAttempts = 2
  MaxUploads = 1
  BatchSize = 1
  MaxFailures = 1
  Faults = {"lease", "lookup", "snapshot", "prepare"}
SYMMETRY Symmetry
CHECK_DEADLOCK FALSE
INVARIANTS AnnouncedIsTrue EveryStateAnnounced 
ACTION_CONSTRAINT HandlerFirst
