SPECIFICATION MonitorSpec
CONSTANTS
    c1 = c1
    c2 = c2
    Conns <- TwoConns
    NullConn = NullConn
    Senders <- OneConn
    MaxChunks = 1
    MaxResets = 1
    MaxOpen = 2
    ResetThrows = FALSE
CHECK_DEADLOCK FALSE
INVARIANTS
    MonitorTypeOK
    ServesUntilStopped
    CountNeverAhead
PROPERTIES
    ThreadEndsBeforeMain
    ImplementsDisplay
    QuitEndsProgram
    PlotAppears
    StaleWindowGoes
