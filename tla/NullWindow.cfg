SPECIFICATION MonitorSpec
CONSTANTS
    c1 = c1
    c2 = c2
    Conns <- TwoConns
    NullConn = NullConn
    Senders <- TwoConns
    MaxChunks = 0
    MaxResets = 0
    MaxOpen = 2
    ResetThrows = TRUE
CHECK_DEADLOCK FALSE
PROPERTIES
    ConnectionGetsWindow
