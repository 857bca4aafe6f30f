CONSTANTS
    MaxInputs = 3
    Texts = {{}, {"stop"}, {"trash"}, {"stop", "trash"}}
    Starts = {"bound", "absent", "fails"}
    CloseMayFail = TRUE
    HubMayFail = TRUE
SPECIFICATION FairSpec
INVARIANTS
    TypeOK
    AssertsOnlyOnClose
    ReleasedAtEnd
PROPERTIES
    ImplementsOutbox
    BusyClears
