SPECIFICATION MCSpec
CONSTANTS
  Certs = {c1, c2}
  Tasks = {t1, t2}
  NoVersion = NoVersion
  Slots = 2
  OwnerLimit = 2
  Faults = {"store", "vault", "acme", "dns", "reply", "release", "doubt", "death", "stop", "timeout", "damage"}
  Edits = 1
  Budget = 2
SYMMETRY Symmetry
INVARIANTS TypeOK ChallengesAreCleaned InUseIsKept
PROPERTIES RowsTellTheTruth
CHECK_DEADLOCK FALSE
