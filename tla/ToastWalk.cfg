SPECIFICATION ToastsSpec
CONSTANTS
    Limit = 1
    Fade = 1
    DismissTimes <- ShortAndLong
    MaxToasts = 4
    MaxNow = 5
CHECK_DEADLOCK FALSE
INVARIANTS
    ToastsTypeOK
PROPERTIES
    OnlyExpiredRemoved
    WalkShowsOldest
    RemovesAsManyAsItLeaves
    ExpiredLeave
