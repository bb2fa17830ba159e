SPECIFICATION PlotWindowsSpec
CONSTANTS
    w1 = w1
    w2 = w2
    w3 = w3
    Windows <- TwoWindows
    Data <- OneNumber
    Printed <- Rounded
    Limits <- OneOrThree
    InitialLimit = 3
    Day = 2
    MaxNow = 2
    MaxFrames = 3
    MaxStarts = 2
CHECK_DEADLOCK FALSE
SYMMETRY Symmetric
INVARIANTS
    PlotWindowsTypeOK
    ShownWasRecorded
PROPERTIES
    PlotFollowsRecording
    ImplementsArchive
    QuietFilesStay
