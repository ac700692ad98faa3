SPECIFICATION BootSpec
CONSTANTS
  Hdr = 24
  HeapSize = 28672
  Word = 1000000
  Sizes <- MCSizes
INVARIANT AllocationsAreMapped
CHECK_DEADLOCK FALSE
