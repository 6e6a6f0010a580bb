CONSTANTS
  k1 = k1
  r1 = r1
  r2 = r2
  r3 = r3
  Key = {k1}
  Request = {r1, r2, r3}
  MaxClaims = 1
SPECIFICATION Spec
INVARIANTS
  TagsAreMerged
