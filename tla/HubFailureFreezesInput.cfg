CONSTANTS
    MaxInputs = 2
    Texts = {{}, {"stop"}, {"trash"}, {"stop", "trash"}}
    Starts = {"bound"}
    CloseMayFail = FALSE
    HubMayFail = TRUE
SPECIFICATION FairSpec
PROPERTIES
    InputComesBack
