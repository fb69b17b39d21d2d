SPECIFICATION Spec
CONSTANTS
    Tokens <- MCTokens
    Environments <- MCEnvironments
    Libraries <- MCLibraries
    Lists <- MCLists
    MaxSmall = 3
INVARIANT SameCredentials
CHECK_DEADLOCK FALSE
