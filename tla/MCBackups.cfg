SPECIFICATION Spec
CONSTANTS
  Existing = 2
  MaxBackups = 3
  Runs = {r1, r2}
  MinimumComplete = 1
  Faults = {"store", "agent"}
  MaxCrashes = 2
SYMMETRY Symmetry
INVARIANTS TypeOK RetentionIsSafe LeaseIsTheOwners
