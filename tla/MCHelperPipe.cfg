SPECIFICATION FairSpec
CONSTANTS
    MaxCalls = 3
    MaxFaults = 2
    SeqMod = 2
    Errors = {e0, e1}
    Success = e0
    None = None
INVARIANTS
    Synchronous
    ForeignCodeIsolated
    FailsForOwnFault
PROPERTIES
    CallSpec
    CallsReturn
CHECK_DEADLOCK FALSE
