CONSTANTS
  MaxNodes = 9
  MaxData = 1
  MaxCalls = 3
  MaySudo = TRUE
  Words <- MCWords
  TopDirs <- MCTopDirs
  Paths <- MCPaths
  NewPaths <- MCPaths
  Script <- MCScript
  Sources <- MCSources
  Dests <- MCDests
SPECIFICATION CopySpec
INVARIANTS
  CopyIsFaithful
  CallsFollowSource
PROPERTY
  CopyNeedsPrivilege
CHECK_DEADLOCK FALSE
