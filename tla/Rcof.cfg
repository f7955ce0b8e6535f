SPECIFICATION FairSpec
CONSTANTS
  daily = daily
  manual = manual
  Requests <- MCRequests
  MaxAttempts <- MCMaxAttempts
  Pollers = {p1}
  NoReq = NoReq
  MaxUploads = 1
  MaxFailures = 1
CHECK_DEADLOCK FALSE
INVARIANTS ReportsAreTrue BoundedTransmissions
PROPERTIES EveryRcofSettles OnlyFailedMarkStrands
