CONSTANTS
    MaxInputs = 2
    Texts = {{}, {"stop"}, {"trash"}, {"stop", "trash"}}
    Starts = {"bound"}
    CloseMayFail = FALSE
    HubMayFail = FALSE
SPECIFICATION FairSpec
PROPERTIES
    StopIsPublished
