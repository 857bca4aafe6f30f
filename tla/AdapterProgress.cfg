CONSTANTS
    Tasks = {t1}
    InitialTask = idle_task
    Stop = stop
    Garbage = garbage
    None = none
    StartDelay = 1
    ExecSeconds = 2
    Captures = {TRUE, FALSE}
    Updatable = {TRUE, FALSE}
    Resets = {TRUE, FALSE}
    MaxTime = 6
    MaxInstructions = 2
    QuietAfter = 2
    Prompt = TRUE
    MaxSetback = 1
SPECIFICATION FaultySpec
INVARIANTS
    SetbackBoundsDrive
    SilentUnlessFree
PROPERTIES
    LeaksOnlyIfDirty
    OwnTask
    StopTakesHold
    WaitEnds
    WindowCloses
    DeafComesToRest
    ExitsClean
