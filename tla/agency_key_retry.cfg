SPECIFICATION Spec
CONSTANTS
    Tasks = {t1, t2}
    NoTask = NoTask
    Idents = {a}
    NoIdent = NoIdent
    Keys = {k}
    NoKey = NoKey
    DeedScan = 20
    IntentScan = 5
    Window = 0
    MaxDeeds = 2
    MaxNoise = 0
    MaxTime = 1
    MaxCrashes = 0
    MaxFaults = 0
CHECK_DEADLOCK FALSE
INVARIANTS
    KeyStable
