CONSTANTS
    MaxInputs = 4
    Delayed = TRUE
    MaxBreaks = 2
SPECIFICATION FairSpec
INVARIANTS
    TypeOK
    LaterThanStops
PROPERTIES
    OneWindow
    ComesToRest
