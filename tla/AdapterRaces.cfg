CONSTANTS
    Tasks = {t1, t2}
    InitialTask = none
    Stop = stop
    Garbage = garbage
    None = none
    StartDelay = 1
    ExecSeconds = 2
    Captures = {TRUE, FALSE}
    Updatable = {TRUE, FALSE}
    Resets = {TRUE}
    MaxTime = 4
    MaxInstructions = 3
    QuietAfter = 3
    Prompt = FALSE
SPECIFICATION Spec
INVARIANTS
    TypeOK
    StopBound
    NoResidue
    StepsInWindow
    SyncAfterFlush
PROPERTIES
    DelayRespected
    ImplementsGate
