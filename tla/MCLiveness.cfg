SPECIFICATION FairAll
CONSTANTS
  MaxRestarts = 2
  MaxStarts = 3
  Runs = {r1}
INVARIANT RestartsOnce
PROPERTIES TasksEnd ServesAgain
CHECK_DEADLOCK FALSE
