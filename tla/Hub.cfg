CONSTANTS
    MaxRetries = 1
    Forever = forever
    MayReject = TRUE
    MaxFrames = 3
    MaxOutages = 2
    RetryCap = 2
CHECK_DEADLOCK FALSE
SPECIFICATION FairSpec
INVARIANTS
    TypeOK
    DroppedOnlyIfCut
    GivesUpAtLimit
PROPERTIES
    VisionForward
    FramesShown
    Reconnects
