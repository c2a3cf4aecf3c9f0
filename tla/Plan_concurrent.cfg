SPECIFICATION Spec
CONSTANTS
  N = 2
  Kind <- MCPairKind
  Orig <- MCPairOrig
  Rule <- MCPairRule
  Ai <- MCPairAi
  EditNames = {"x"}
  Slots = {1, 2}
  Overlap = TRUE
  MaxTasks = 2
  MaxTouches = 1
INVARIANTS
  SelectedIsExecutable
  SelectedByUser
  RunIsSound
CHECK_DEADLOCK FALSE
