SPECIFICATION Spec
CONSTANTS
  N = 3
  Kind <- MCMixedKind
  Orig <- MCMixedOrig
  Rule <- MCMixedRule
  Ai <- MCMixedAi
  EditNames = {"x", "b1"}
  Slots = {1, 2}
  Overlap = FALSE
  MaxTasks = 4
  MaxTouches = 0
INVARIANTS
  TypeOK
  RunIsPreviewed
PROPERTIES
  UserWorkStays
CHECK_DEADLOCK FALSE
