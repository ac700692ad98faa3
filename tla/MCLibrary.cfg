SPECIFICATION Spec
CONSTANTS
  MaxName = 3
  MaxPath = 8
  Letters <- NameLetters
  Folders <- MountedFolders
  IntMax = 127
  BlockSize = 4
  PathMax = 1
  MaxFiles = 3
  Characters <- FileLetters
  Named <- FileNamed
  FileSizes <- AboutABlock
  SizeDigits = 2
  Fillers <- LikeHeaders
  PageSize = 4
  Top = 40
  Headers <- OneFieldWrong
  Entries = {4}
  Segments <- Loadable
  File <- Numbered
  FrameCounts = {12, 100}
  MaxPhdrs = 3
  Buses = 2
  Slots = 2
  Funcs = 2
  ByteSize = 4
  Spaces <- DeviceSpaces
  MaxDevices = 2
INVARIANTS
  PathsAreFound
  NumbersReadBack
  InitrdFinds
  
  PciFinds
CHECK_DEADLOCK FALSE
