\* Somebody writes a note between the listing and the edit.
CONSTANTS
    i52 = i52
    i63 = i63
    a = a
    b = b
    None = None
    Order <- MCOrder
    CaseSets <- MCCaseSets
    HumanMoves = {"annotate"}
    NotePlaces = {1, 5}
    MaxRuns = 2
    MaxReruns = 0
    MaxDeaths = 0
    MaxActs = 1
SPECIFICATION Spec
PROPERTIES
    NotesAlwaysSurvive
CHECK_DEADLOCK FALSE
