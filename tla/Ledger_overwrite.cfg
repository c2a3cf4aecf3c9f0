SPECIFICATION Spec
CONSTANTS
  Ops <- MCRename
  Rollbacks = {r1}
  Requests <- MCNone
  EarlyRollback = FALSE
  MaxCrashes = 0
  MaxJoins = 0
  MaxTouches = 1
  MaxFaults = 0
  MaxMishaps = 2
PROPERTIES
  RollbackNeverOverwrites
CHECK_DEADLOCK FALSE
