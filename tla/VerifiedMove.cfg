\* The move inside one volume or across two, on Windows; every write of the user
\* but the one between the last hash of the source and its unlink.
CONSTANTS
  Chunk = {c1, c2}
  MaxChunks = 2
  MaxWrites = 2
  Absent = Absent
  RenameReplaces = FALSE
  LateWrites = FALSE
SPECIFICATION Spec
INVARIANTS
  TypeOK
  NoLoss
  FailureKeepsSource
  NothingLeftBehind
PROPERTIES
  ForeignFilesKept
  ImplementsAtomicMove
CHECK_DEADLOCK FALSE
