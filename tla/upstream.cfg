SPECIFICATION FairSpec
CONSTANTS
    Requests <- MCRequests
    Objects <- MCObjects
    HonoursKeys = TRUE
    MaxTries = 2
    MaxAttempts = 2
    None = None
INVARIANTS KeyedPaidOnce ScriptedHasResult
PROPERTIES  StepEnds
CHECK_DEADLOCK FALSE
