SPECIFICATION Spec
CONSTANTS
    Day = 6
    Night = {4, 5, 0}
    Morning = {1}
    ActiveUser = 2
    ActiveMeaningful = 2
    QuietAfter = 2
    DrowsyAfter = 3
    SleepAfter = 4
    ConsolidationInterval = 2
    ActiveWake = 2
    QuietWake = 3
    DrowsyWake = 3
    DensityFull = 1
    BaseThreads = 2
    MaxThreads = 3
    MaxFaults = 0
    MaxCrashes = 0
CHECK_DEADLOCK FALSE
PROPERTIES
    NightStable
