SPECIFICATION Spec
CONSTANTS
    c1 = c1
    c2 = c2
    Conns <- OneConn
    Senders <- OneConn
    MaxChunks = 1
    MaxResets = 1
    MaxOpen = 1
    ResetThrows = TRUE
CHECK_DEADLOCK FALSE
PROPERTIES
    SurvivesDisconnect
