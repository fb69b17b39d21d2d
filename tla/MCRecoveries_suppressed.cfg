\* A set of cases is closed, another is open, and the first recovers again.
CONSTANTS
    i52 = i52
    i63 = i63
    a = a
    b = b
    None = None
    Order <- MCOneOrder
    CaseSets <- MCCaseSets
    HumanMoves = {"close"}
    NotePlaces = {1, 5}
    MaxRuns = 3
    MaxReruns = 0
    MaxDeaths = 0
    MaxActs = 1
SPECIFICATION Spec
PROPERTIES
    SuppressedStaysSilent
CHECK_DEADLOCK FALSE
