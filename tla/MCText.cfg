CONSTANTS
  SIZE = 6
  HISTORY_SIZE = 2
  Keys <- MCKeys
  MaxLines = 3
  MaxRecorded = 1
  MaxNumber = 5000
SPECIFICATION Spec
INVARIANTS
  PiecesFit
  LoadsWhatWasRecorded
  TextsMeanWhatTheySay
CHECK_DEADLOCK FALSE
