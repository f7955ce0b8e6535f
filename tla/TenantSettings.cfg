SPECIFICATION Spec
CONSTANTS
  Admins = {a1, a2, a3}
  Readers = {r1}
  Emitters = {e1}
  Nobody = Nobody
  ConfigTTL = 1
  SignatureTTL = 1
  TokenTTL = 2
  SiiValidity = 3
  MaxTries = 3
  MaxTime = 4
CONSTRAINT Apart
SYMMETRY Symmetry
CHECK_DEADLOCK FALSE
INVARIANTS CopiesExpire NothingLost BrandIsKept FailsOnlyWhenCrowded ReservedHasCaf
