SPECIFICATION Spec
CONSTANTS
  N = 2
  Kind <- MCVideosKind
  Orig <- MCPairOrig
  Rule <- MCPairRule
  Ai <- MCPairAi
  EditNames = {"x", "y"}
  Slots = {1, 2}
  Overlap = TRUE
  MaxTasks = 3
  MaxTouches = 0
INVARIANTS
  RunIsPreviewed
CHECK_DEADLOCK FALSE
