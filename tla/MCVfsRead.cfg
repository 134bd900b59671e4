CONSTANTS
  MaxCommands = 5
  MaxNodes = 5
  MaxData = 2
  MaySudo = TRUE
  Words <- MCWords
  TopDirs <- MCTopDirs
  Paths <- MCPaths
  NewPaths <- MCNewPaths
  Hidden <- MCHidden
  Glued <- MCGlued
SPECIFICATION ReadSpec
INVARIANTS
  TreeIsSound
  HangNeedsLostDirectory
  PwdLeadsBack
  ListsEverythingOnce
PROPERTIES
  PrivilegeIsNeeded
  LostOnlyByHomeOrCycle
  FoundWherePut
CHECK_DEADLOCK FALSE
