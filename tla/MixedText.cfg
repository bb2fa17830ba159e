SPECIFICATION ExchangeSpec
CONSTANTS
    Width <- LongShort
    Size = 3
CHECK_DEADLOCK FALSE
INVARIANTS
    PlotsOneSample
