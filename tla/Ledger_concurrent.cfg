SPECIFICATION Spec
CONSTANTS
  Ops <- MCQuarantines
  Rollbacks = {r1, r2}
  Requests <- MCChoices
  EarlyRollback = TRUE
  MaxCrashes = 1
  MaxJoins = 0
  MaxTouches = 0
  MaxFaults = 1
  MaxMishaps = 1
SYMMETRY MCSymmetry
INVARIANTS
  RollbacksAreTrue
  QuarantineTraceable
CHECK_DEADLOCK FALSE
