SPECIFICATION PlotWindowsSpec
CONSTANTS
    w1 = w1
    w2 = w2
    w3 = w3
    Windows <- ThreeWindows
    Data <- OneNumber
    Printed <- Rounded
    Limits <- OneOrThree
    InitialLimit = 3
    Day = 2
    MaxNow = 0
    MaxFrames = 3
    MaxStarts = 1
CHECK_DEADLOCK FALSE
SYMMETRY Symmetric
INVARIANT
    UniqueIds
