\* People act and reopen at any time; jobs die, are queued and run again.
CONSTANTS
    i52 = i52
    i63 = i63
    a = a
    b = b
    None = None
    Order <- MCOrder
    CaseSets <- MCCaseSets
    HumanMoves = {"annotate", "close", "reopen", "retitle", "erase"}
    NotePlaces = {1, 5}
    MaxRuns = 2
    MaxReruns = 1
    MaxDeaths = 1
    MaxActs = 2
SPECIFICATION Spec
INVARIANTS
    TypeOK
    OneOpenNotification
PROPERTIES
    NotesSurvive
    ClosedIsFinal
    EndedMeansTold
    NewsOnly
    JobEnds
CHECK_DEADLOCK FALSE
