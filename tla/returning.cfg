SPECIFICATION FairSpec
CONSTANTS
    Window = 2
    PoolWindow = 4
    MessageWindow = 2
    MaxPromotions = 1
    Threshold = 2
    MaxCited = 2
    MaxMessages = 4
    MaxThoughts = 3
    MaxTime = 3
    MaxInterruptions = 1
CHECK_DEADLOCK FALSE
INVARIANTS
    TypeOK
    PromotedOnce
    AbsenceTrue
    AbsencesRecorded
PROPERTIES
    Surfaces
