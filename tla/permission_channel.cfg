SPECIFICATION FairSpec
CONSTANTS
    Asks = {q1, q2}
    NoAsk = NoAsk
    Owners = {o1, o2}
    PipeSize = 1
    Chunk = 2
    Lengths = {1, 2}
    MaxRuns = 2
    MaxPosts = 2
    MaxFaults = 1
CHECK_DEADLOCK FALSE
INVARIANTS
    TypeOK
    AllowIsOwners
    AsksPairUp
    RunLeavesNothing
PROPERTIES
    PipeDrains
    AnswerReaches
