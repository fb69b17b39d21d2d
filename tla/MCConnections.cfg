SPECIFICATION Spec
CONSTANTS
    Tokens <- MCTokens
    Environments <- MCEnvironments
    Libraries <- MCLibraries
    Lists <- MCLists
    MaxSmall = 3
INVARIANTS
    TypeOK
    ConformanceIsExact
    SameSettings
    DriverIsTheLibrary
    ParityIsExact
    ReportsAreComplete
PROPERTY ReadingEnds
CHECK_DEADLOCK FALSE
