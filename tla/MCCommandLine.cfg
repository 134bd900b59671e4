SPECIFICATION Spec
CONSTANTS
  MaxBlocks = 7
  Start = 2
  Words <- MCWords
  Lines <- MCLines
INVARIANTS
  BlocksAreOwned
  
CHECK_DEADLOCK FALSE
