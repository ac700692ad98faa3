SPECIFICATION Spec
CONSTANTS
  Hdr = 2
  HeapSize = 6
  Word = 64
  Sizes <- MCSizes
INVARIANTS
  TypeOK
  AllocationsAreDisjoint
  NeverPanics
PROPERTIES
  ImplementsArena
CHECK_DEADLOCK FALSE
