\* Three tests on one server, in any order, each with up to three calls that
\* fail, and two kills.
CONSTANTS
    Members <- MCMembers
    Locals <- MCLocals
    None = None
    MaxProcesses = 3
    MaxFaults = 3
    MaxKills = 2
SPECIFICATION Spec
INVARIANTS
    TypeOK
    RedHasReason
    NoDanglingAddresses
    LeavesNothing
    GreenMeansClean
    CommitsOnlyOnRequest
CHECK_DEADLOCK FALSE
