SPECIFICATION FairSpec
CONSTANTS
    Day = 6
    Night = {4, 5, 0}
    Morning = {1}
    ActiveUser = 2
    ActiveMeaningful = 2
    QuietAfter = 2
    DrowsyAfter = 3
    SleepAfter = 4
    ConsolidationInterval = 2
    ActiveWake = 2
    QuietWake = 3
    DrowsyWake = 3
    DensityFull = 1
    BaseThreads = 2
    MaxThreads = 3
    MaxFaults = 1
    MaxCrashes = 1
CHECK_DEADLOCK FALSE
INVARIANTS
    TypeOK
    StateRecorded
    PromptWake
PROPERTIES
    NightEnds
    Rests
