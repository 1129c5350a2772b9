SPECIFICATION Spec
CONSTANTS
    Tasks = {t1, t2, t3}
    NoTask = NoTask
    Idents = {a}
    NoIdent = NoIdent
    Keys = {k}
    NoKey = NoKey
    DeedScan = 4
    IntentScan = 2
    Window = 1
    MaxDeeds = 3
    MaxNoise = 1
    MaxTime = 2
    MaxCrashes = 1
    MaxFaults = 1
SYMMETRY Symmetry
CHECK_DEADLOCK FALSE
INVARIANTS
    ScanHonest
    SerialDeeds
    InFlightIsLive
    NoRepeatedDeed
    KeyRecordedOnce
PROPERTIES
    RecoveryCloses
