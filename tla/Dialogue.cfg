CONSTANTS
    Cup = cup
    Odd = odd
    Labels = {cup, odd}
    Missing = missing
    Blank = blank
    Names = {cup}
    KnownLabels = {cup}
    StopText = stop
    TrashText = trash_gathering
    StopInstruction = stop
    Sentences = {stop, trash_gathering, given}
    NotText = no_text
    Absent = absent
    Null = null
    NotObject = no_object
    Upper <- MCUpper
    StopDefault <- MCStopDefault
    TrashDefault <- MCTrashDefault
    Cases <- MCCases
SPECIFICATION Spec
INVARIANTS
    CommandsAreValid
    BadRepliesStop
    HeardAsSaid
PROPERTIES
    KeptExactly
