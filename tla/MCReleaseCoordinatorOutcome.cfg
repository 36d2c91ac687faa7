SPECIFICATION Spec
CONSTANTS
  Edits = 0
  Readers = TRUE
  Ticks = FALSE
  Faults = {}
INVARIANT SucceededIsPublished
CHECK_DEADLOCK FALSE
