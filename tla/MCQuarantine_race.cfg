\* Two reviewers record the same case.
CONSTANTS
    connection = connection
    t1 = t1
    t2 = t2
    i1 = i1
    i2 = i2
    pull = pull
    None = None
    Broken = Broken
    Connection = connection
    Issues <- MCIssues
    Reasons = {"reviewed"}
    Reviewers = {r1, r2}
    Inventory <- MCInventory
    Pulls <- MCPulls
    Committed <- MCCommitted
    MaxInvocations = 2
    MaxEdits = 0
    MaxCrashes = 0
SPECIFICATION Spec
INVARIANTS
    RegistryAlwaysLoads
CHECK_DEADLOCK FALSE
