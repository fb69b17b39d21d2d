\* A CTest run that times out leaves a test executable behind.
CONSTANTS
    connect = connect
    wide = wide
    huge = huge
    issue1 = issue1
    issue2 = issue2
    why = why
    None = None
    Connection = connect
    Issues = {issue1, issue2}
    Reasons = {why}
    Inventory <- MCSmallInventory
    Registries <- MCNoneKnown
    Modes = {"pinned"}
    Outcomes = {"passed"}
    MaxInvocations = 1
    MaxTimeouts = 1
    MaxFaults = 0
SPECIFICATION Spec
INVARIANTS
    EvidenceOfThisDriver
CHECK_DEADLOCK FALSE
