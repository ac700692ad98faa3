SPECIFICATION Spec
CONSTANTS
  Index <- MCIndex
  Frame <- MCFrame
  BootRoot = 8
  BootMem <- MCBootMem
  BootFree <- MCFree
  Areas <- MCAreas
  MaxSpaces = 2
  Watched <- MCWatched
INVARIANTS
  TypeOK
  TablesArePrivate
  NothingDangles
  
PROPERTIES
  OthersUntouched
  
CHECK_DEADLOCK FALSE
