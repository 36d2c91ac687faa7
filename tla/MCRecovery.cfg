SPECIFICATION AnySpec
CONSTANTS
  Clocks = {"ui", "agent"}
  Faults = {"store", "call", "request", "death"}
  MaxWork = 2
  Budget = 4
  MinimumComplete = 1
  MaximumComplete = 2
  MaximumTotalBytes = 5
  MaxInt64 = 11
  MaxBackups = 4
  Sizes = {0, 1, 4}
INVARIANTS AnyTypeOK RestoresAreTrue StartsSafely RecoveryIsTold PlanIsRight
PROPERTIES SettledStaysSettled
CHECK_DEADLOCK FALSE
