SPECIFICATION Spec
CONSTANTS
  Creds = {c1, c2, c3}
  Messages = {m1, m2}
  Handlers = {h1, h2}
  NoCred = NoCred
  NoMsg = NoMsg
  Window = 1
  Grace = 1
  RateWindow = 1
  Limit = 1
  MaxTime = 2
  Overlap = FALSE
SYMMETRY Symmetry
CHECK_DEADLOCK FALSE
 
PROPERTIES AdminRemains 
