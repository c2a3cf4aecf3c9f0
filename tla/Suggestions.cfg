\* Two calls over three items: chunks of one, two and three, and a chunk of three
\* is cut into one and two.
SPECIFICATION Spec
CONSTANTS
  Calls = {c1, c2}
  N = 3
  k1 = k1
  k2 = k2
  Keys <- MCKeys
  KeyOf <- MCKeyOf
  Requests <- MCRequests
  Modes <- MCModes
  Sizes <- MCSizes
SYMMETRY CallSymmetry
INVARIANTS
  TypeOK
  EachItemOnce
  OnlyCulprits
  CacheIsJudged
  RequestsBounded
CHECK_DEADLOCK FALSE
