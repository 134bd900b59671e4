CONSTANTS
  HDR = 24
  SLACK = 16
  PAGE_SIZE = 88
  HEAP_START = 880
  HEAP_MAX = 1056
  Sizes = {0, 40, 120}
  FRAMES = 3
SPECIFICATION Spec
INVARIANTS
  BlocksAreSound
  GrowthIsBounded
PROPERTY
  AbstractSpec
CHECK_DEADLOCK FALSE
