CONSTANTS
  PAGE_SIZE = 4
  LOW_LEN = 8
  KERNEL_LEN = 8
  MemoryMaps <- MCMaps
SPECIFICATION Spec
INVARIANTS
  PagesArePrivate
  HandsOutAvailable
  BitmapIsExact
PROPERTY
  CountFollowsBits
