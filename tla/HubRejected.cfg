CONSTANTS
    MaxRetries = forever
    Forever = forever
    MayReject = TRUE
    MaxFrames = 3
    MaxOutages = 2
    RetryCap = 2
CHECK_DEADLOCK FALSE
SPECIFICATION Spec
INVARIANTS
    RetriesForever
