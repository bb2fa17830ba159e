SPECIFICATION Spec
CONSTANTS
    c1 = c1
    c2 = c2
    Conns <- TwoConns
    Senders <- TwoConns
    MaxChunks = 2
    MaxResets = 2
    MaxOpen = 2
    ResetThrows = TRUE
CHECK_DEADLOCK FALSE
INVARIANTS
    TypeOK
    CountIsExact
    RegisteredIsWatched
    KeepsListening
PROPERTIES
    ImplementsRegistry
    DisconnectIsNoticed
