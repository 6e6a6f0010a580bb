CONSTANTS
  k1 = k1
  k2 = k2
  r1 = r1
  r2 = r2
  r3 = r3
  Key = {k1, k2}
  Request = {r1, r2, r3}
  MaxClaims = 2
SPECIFICATION Spec
SYMMETRY Symmetry
INVARIANTS
  OneActivePerKey
  AcknowledgedIsStored
  FailedLeavesNothing
  EveryClaimIsFindable
PROPERTIES
  IdsAreStable
