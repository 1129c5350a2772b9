SPECIFICATION FairSpec
CONSTANTS
    Loops = {l1, l2, l3}
    Callers = {c1, c2}
    NoLoop = NoLoop
CHECK_DEADLOCK FALSE
INVARIANTS
    TypeOK
    OneBeat
    LoopOwned
PROPERTIES
    MessageSeen
    StopsUnlessRestarted
