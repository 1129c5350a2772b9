SPECIFICATION Spec
CONSTANTS
    Topics = {"tea"}
    Sources = {"paper"}
    Memories = {"experience.created"}
    Conversations = {}
    DormantAfter = 1
    Threshold = 1
    MessageWindow = 2
    MaxCandidates = 2
    MinRevisits = 2
    MinSources = 2
    MinSpan = 1
    MaxImpressions = 1
    MaxQuestions = 2
    MaxMeetings = 2
    MaxMessages = 3
    MaxTime = 4
    MaxInterruptions = 1
CHECK_DEADLOCK FALSE
INVARIANTS
    TypeOK
    ToldOnce
    ToldStaysDead
