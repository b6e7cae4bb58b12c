SPECIFICATION Spec
CONSTANTS
  Requests = {r1, r2, r3}
  Items = {i1, i2}
  Limit = 2
  Minutes = 1
SYMMETRY RequestSymmetry
INVARIANTS
  RefusedJustly
  LimitedInTurn
PROPERTY LostOnlyToStaleWriter
CHECK_DEADLOCK FALSE
