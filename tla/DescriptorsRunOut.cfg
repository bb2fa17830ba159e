SPECIFICATION Spec
CONSTANTS
    c1 = c1
    c2 = c2
    Conns <- TwoConns
    Senders <- TwoConns
    MaxChunks = 1
    MaxResets = 0
    MaxOpen = 1
    ResetThrows = TRUE
CHECK_DEADLOCK FALSE
PROPERTIES
    ClosedConnectionsMakeRoom
