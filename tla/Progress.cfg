\* Three runs over a registry of one entry: enough for an entry to be pruned
\* while others run, and to be made again by a later update.
SPECIFICATION FairSpec
CONSTANTS
  Runs = {1, 2, 3}
  MaxEntries = 1
  MaxItems = 1
  MaxClock = 1
  MaxFaults = 1
INVARIANTS
  TypeOK
  PruningIsFair
  AnswersAreTrue
PROPERTIES
  NeverBack
  PollingEnds
CHECK_DEADLOCK FALSE
