SPECIFICATION Spec
CONSTANTS
    W = 6
    H = 8
    Stride = 7
    FontW = 2
    FontH = 2
    Gap = 1
    Margin = 2
    Word = 64
    Messages <- MCMessages
    Puts <- MCPuts
    Win <- MCWin
    MaxPrints = 3
INVARIANTS
    ScreenSafe
    PanicIsReadable
    LineIsComplete
PROPERTIES
    LoggingEnds
CHECK_DEADLOCK FALSE
