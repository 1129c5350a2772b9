SPECIFICATION FairSpec
CONSTANTS
    SelfThreads = {s1}
    Topics = {u1}
    None = None
    MaxWorldThreads = 1
    Recent = 3
    Window = 2
    MaxLight = 1
    MaxAlien = 1
    MaxAccident = 0
    MaxDeep = 1
    Cooldown = 1
    Day = 2
    MaxImpressions = 1
    MaxInterruptions = 1
CHECK_DEADLOCK FALSE
INVARIANTS
    TypeOK
    DailyCaps
    OneLeftoverEach
PROPERTIES
    IdleThreadsRest
