SPECIFICATION AnySpec
CONSTANTS
  Clients = {x1, x2}
  Names = {"admin"}
  Window = 1
  Block = 2
  Limit = 2
  SourceLimit = 2
  Idle = 2
  Absolute = 3
  TouchEvery = 1
  Horizon = 4
  Tokens = {k1}
  Accounts = {a1}
  Credentials = {d1}
  MaxServers = 2
  MaxNames = 3
  MaxLocations = 3
SYMMETRY Symmetry
INVARIANTS AnyTypeOK TestsAreOwned SecretsHold ShutdownIsOrderly PredictionHolds
PROPERTIES SessionsHold StreamsTell
CHECK_DEADLOCK FALSE
