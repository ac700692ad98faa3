SPECIFICATION Spec
CONSTANTS
  Hdr = 1
  HeapSize = 15
  Word = 64
  ProcSize = 1
  KStackSize = 2
  PhdrSize = 1
  BootSizes <- MCBoot
INVARIANTS
  TypeOK
  CpuMatchesRunning
  QueueIsComplete
  KernelStacksArePrivate
  
PROPERTIES
  AloneUndisturbed
  EverybodyScheduled
CHECK_DEADLOCK FALSE
