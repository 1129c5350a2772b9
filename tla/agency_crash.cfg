SPECIFICATION FairSpec
CONSTANTS
    Tasks = {t1, t2}
    NoTask = NoTask
    Idents = {a, b}
    NoIdent = NoIdent
    Keys = {}
    NoKey = NoKey
    DeedScan = 20
    IntentScan = 5
    Window = 0
    MaxDeeds = 2
    MaxNoise = 0
    MaxTime = 0
    MaxCrashes = 3
    MaxFaults = 1
CHECK_DEADLOCK FALSE
INVARIANTS
    TypeOK
    OneTerminal
    OneStart
    OneAnchor
PROPERTIES
    EveryDeedEnds
    RefinesLifecycle
