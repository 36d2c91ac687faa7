SPECIFICATION AnySpec
CONSTANTS
  Clients = {x1, x2}
  Titles <- GroupNames
  MemberFiles = {"f"}
  MaxGroups = 2
  MaxTotalMembers = 1
  MaxRevision = 3
SYMMETRY Symmetry
INVARIANTS AnyTypeOK DraftEndures GroupsAgree FilesAreAsMeant
PROPERTIES NoEditIsLost StructureIsKept
CHECK_DEADLOCK FALSE
