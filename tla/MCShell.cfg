CONSTANTS
  HISTORY_SIZE = 2
  LIFETIME = 2
  Lines <- MCLines
  MaxCommands = 4
  MaxTicks = 4
SPECIFICATION Spec
INVARIANTS TypeOK RootExpires
PROPERTY RecallsWhatWasTyped
CHECK_DEADLOCK FALSE
