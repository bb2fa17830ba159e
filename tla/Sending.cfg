SPECIFICATION SendingSpec
CONSTANTS
    Width <- Lengths
    Capacity = 5
    MaxReads = 3
CHECK_DEADLOCK FALSE
INVARIANTS
    SendingTypeOK
    PlacesInOrder
    NeverOlderThanAsked
PROPERTIES
    WritesProgress
