SPECIFICATION ExchangeSpec
CONSTANTS
    Width <- LongShortLong
    Size = 3
CHECK_DEADLOCK FALSE
INVARIANTS
    ExchangeTypeOK
    SettledText
    OneAnswerPerSample
PROPERTIES
    EverySampleAnswered
    OutputCatchesUp
