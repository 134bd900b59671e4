CONSTANTS
  PAGE_SIZE = 4096
  LOW_LEN = 1048576
  KERNEL_LEN = 2097152
  MemoryMaps <- Machine8MiB
  BITMAP = 3145728
  HDR = 24
SPECIFICATION HeapSpec
INVARIANT ReservedIsNotFree
CHECK_DEADLOCK FALSE
