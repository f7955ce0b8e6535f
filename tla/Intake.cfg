SPECIFICATION Spec
CONSTANTS
  Clients = {c1, c2, c3}
  Worker = worker
  Cron = cron
  Slots <- MCSlots
  Keys = {k1, k2}
  Bodies = {b1, b2, b3}
  b1 = b1
  b2 = b2
  b3 = b3
  r1 = r1
  NoRef = NoRef
  RefOf <- MCRefOf
  NoInput = NoInput
  MaxDay = 3
  MaxErrors = 2
CONSTRAINT Apart
SYMMETRY Symmetry
CHECK_DEADLOCK FALSE
INVARIANTS DayIsReported
PROPERTIES IdempotentSpec
