SPECIFICATION Spec
CONSTANTS
  site = site
  oldInclude = oldInclude
  newInclude = newInclude
  before = before
  after = after
  none = none
  Paths <- MCPaths
  Contents <- MCContents
  Absent <- none
  Production <- MCProduction
  Draft <- MCDraft
  Valid <- MCValid
  EditPoints = {}
  NginxRefuses = FALSE
INVARIANT RolledBackServesProduction
