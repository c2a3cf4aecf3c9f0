SPECIFICATION FairSpec
CONSTANTS
  Ops <- MCMixed
  Rollbacks = {r1}
  Requests <- MCNone
  EarlyRollback = FALSE
  MaxCrashes = 2
  MaxJoins = 1
  MaxTouches = 1
  MaxFaults = 0
  MaxMishaps = 2
INVARIANTS
  TypeOK
  NoFileLost
  FilesReachable
  HistoryIsTrue
PROPERTIES
  StrangersKept
  WorkEnds
CHECK_DEADLOCK FALSE
