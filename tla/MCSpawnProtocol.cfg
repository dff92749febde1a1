SPECIFICATION FairSpec
CONSTANTS
    MaxCalls = 3
    MaxDepth = 2
    MaxFaults = 1
    SeqMod = 4
    Answers <- MCAnswers
    None = None
INVARIANTS
    FailsForACause
PROPERTIES
    CallSpec
    CallsReturn
    ServerStops
CHECK_DEADLOCK FALSE
