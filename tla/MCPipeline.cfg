\* A run of either kind, in which compare.py meets a CTest run that goes wrong, or none.
CONSTANTS
    connect = connect
    wide = wide
    huge = huge
    issue1 = issue1
    issue2 = issue2
    why = why
    None = None
    Connection = connect
    Issues = {issue1, issue2}
    Reasons = {why}
    Inventory <- MCInventory
    Registries <- MCKnown
    Modes = {"pinned", "audit"}
    Outcomes = {"passed", "failed", "skipped"}
    MaxInvocations = 1
    MaxTimeouts = 0
    MaxFaults = 1
    MaxAttempts = 3
SPECIFICATION RunSpec
INVARIANTS
    RunTypeOK
    GreenIsEarned
    RedHasCause
    AuditIsAccurate
    FiledIsTrue
    RejectedForCause
    AuditsReachReport
