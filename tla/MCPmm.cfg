SPECIFICATION Spec
CONSTANTS
  PageSize = 4
  BitsPerByte = 2
  NHeapPages = 2
  MemMaps <- MCMaps
INVARIANTS
  TypeOK
  OwnedAreMarked
  BitmapSurvives
  NothingLeaks
  WindowIsPrivate
PROPERTIES
  ImplementsAllocator
CHECK_DEADLOCK FALSE
