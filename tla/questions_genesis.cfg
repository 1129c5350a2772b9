SPECIFICATION Spec
CONSTANTS
    Topics = {"tea"}
    Sources = {"paper", "forum"}
    Memories = {"experience.created"}
    Conversations = {}
    DormantAfter = 2
    Threshold = 1
    MessageWindow = 2
    MaxCandidates = 2
    MinRevisits = 2
    MinSources = 2
    MinSpan = 2
    MaxImpressions = 1
    MaxQuestions = 1
    MaxMeetings = 2
    MaxMessages = 0
    MaxTime = 3
    MaxInterruptions = 0
CHECK_DEADLOCK FALSE
PROPERTIES
    GenesisFound
