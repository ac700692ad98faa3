SPECIFICATION Spec
CONSTANTS
    Firmware <- MCFirmware
    LastPin = 2
    TimerPin <- MCTimerPin
    Span <- MCSpan
    Heap = {9, 26}
    Proc = {1, 2}

    
PROPERTIES
    FaultsAreReported
    BootEnds
    TimerKeepsComing
