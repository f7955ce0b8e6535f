SPECIFICATION Spec
CONSTANTS
  Creds = {c1, c2}
  Messages = {m1, m2, m3}
  Handlers = {h1, h2}
  NoCred = NoCred
  NoMsg = NoMsg
  Window = 1
  Grace = 1
  RateWindow = 1
  Limit = 3
  MaxTime = 0
  Overlap = TRUE
SYMMETRY Symmetry
CHECK_DEADLOCK FALSE
PROPERTIES AdminRemains
