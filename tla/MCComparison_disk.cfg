\* Two invocations over the same directories, with a CTest run that goes wrong,
\* one that times out, and its orphan.
CONSTANTS
    connect = connect
    wide = wide
    huge = huge
    issue1 = issue1
    issue2 = issue2
    why = why
    None = None
    Connection = connect
    Issues = {issue1, issue2}
    Reasons = {why}
    Inventory <- MCSmallInventory
    Registries <- MCOneRegistry
    Modes = {"pinned", "audit"}
    Outcomes = {"passed", "crashed"}
    MaxInvocations = 2
    MaxTimeouts = 1
    MaxFaults = 1
SPECIFICATION Spec
INVARIANTS
    TypeOK
    FreshEvidenceWins
PROPERTIES
    KeepsPromise
CHECK_DEADLOCK FALSE
