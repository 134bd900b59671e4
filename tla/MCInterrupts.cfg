SPECIFICATION Spec
CONSTANTS
  Lines <- MCLines
  Programs <- MCPrograms
  Exceptions <- MCExceptions
  MaxKeys = 2
  TICKS = 2
INVARIANTS
  DispatchIsSound
  BootIsInOrder
PROPERTIES
  HaltIsForGood
  KeysAreRead
  ClockRuns
CHECK_DEADLOCK FALSE
