SPECIFICATION Spec
CONSTANTS
  FANOUT = 8
  BOOT_L1 = 4
  FIRST_FREE = 10
  MEMTEST = 25
  USER_CODE = 20
  USER_STACK = 32
  STACK_PAGES = 2
  HEAP_START = 40
  HEAP_MAX = 58
  BOOT_HEAP = 3
  MemorySizes <- Machines
  Cached <- CachedPages
INVARIANTS
  TlbCoherent
  FramesAreAccounted
  KernelSeesMemory
  StopsOnlyForATable
PROPERTY
  MapsAsAsked
CHECK_DEADLOCK FALSE
