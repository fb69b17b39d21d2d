\* Two reviewers, one after another or at once, and people who resolve groups and
\* close issues.
CONSTANTS
    connection = connection
    t1 = t1
    t2 = t2
    i1 = i1
    i2 = i2
    pull = pull
    None = None
    Broken = Broken
    Connection = connection
    Issues <- MCIssues
    Reasons = {"reviewed"}
    Reviewers = {r1, r2}
    Inventory <- MCInventory
    Pulls <- MCPulls
    Committed <- MCCommitted
    MaxInvocations = 2
    MaxEdits = 2
    MaxCrashes = 1
SPECIFICATION Spec
SYMMETRY MCSymmetry
INVARIANTS
    TypeOK
    ReadinessAlwaysRuns
    OnlyObservedFailures
    RegistryLoads
    EntriesAreTracked
PROPERTIES
    IssuesAreRecorded
CHECK_DEADLOCK FALSE
