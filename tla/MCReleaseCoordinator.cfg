SPECIFICATION Either
CONSTANTS
  Edits = 0
  Readers = FALSE
  Ticks = TRUE
  Faults = {"store", "call", "death"}
INVARIANTS EitherTypeOK RecordsAreTrue StartupSettles WorkspaceFollowsRelease
PROPERTY FailingTaskEnds
CHECK_DEADLOCK FALSE
