SPECIFICATION Spec
CONSTANTS
  Hdr = 1
  HeapSize = 13
  Word = 64
  MaxName = 3
  NodeSize = 1
  Dir <- MCDir
  Paths <- MCPaths
  Texts <- MCTexts
  Lens <- MCLens
INVARIANTS
  TypeOK
  
  BufferIsPrivate
  AppendedReadsBack
CHECK_DEADLOCK FALSE
