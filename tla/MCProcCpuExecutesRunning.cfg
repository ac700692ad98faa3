SPECIFICATION Spec
CONSTANTS
  Hdr = 24
  HeapSize = 28672
  Word = 1000000
  ProcSize = 248
  KStackSize = 4096
  PhdrSize = 168
  BootSizes <- BootRequests
INVARIANT CpuExecutesRunning
CHECK_DEADLOCK FALSE
