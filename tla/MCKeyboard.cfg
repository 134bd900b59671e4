CONSTANTS
  Users <- Typists
  MaxWire = 3
  MaxLine = 2
SPECIFICATION KeyboardSpec
INVARIANT
  ModifiersFollowKeys
PROPERTY
  ModifiersLetGo
CHECK_DEADLOCK FALSE
