SPECIFICATION PidSpec
CONSTANTS
    Errors <- SmallErrors
    Sliders <- NoSliders
    SliderErrors <- ErrorSliders
    InitialGains <- SmallGains
    BestError = 99
    WindupLimit = 40
    MaxErrorsSize = 2
    MaxFrames = 6
CHECK_DEADLOCK FALSE
INVARIANTS
    PidTypeOK
    IntegralBounded
    SumIsOfRecent
    TurnsEnd
    TunedGainsStay
