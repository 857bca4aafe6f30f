CONSTANTS
    Tasks = {t1, t2}
    InitialTask = idle_task
    Stop = stop
    Garbage = garbage
    None = none
    StartDelay = 1
    ExecSeconds = 2
    Captures = {TRUE}
    Updatable = {TRUE}
    Resets = {TRUE}
    MaxTime = 4
    MaxInstructions = 3
    QuietAfter = 3
    Prompt = FALSE
SPECIFICATION Spec
PROPERTIES
    OnlyStopCancels
