---------------------------- MODULE MCQuarantine ----------------------------
(* Values for the constants of Quarantine: a readiness test and two others, *)
(* two numbers for issues, one for a pull request.                          *)
EXTENDS Quarantine, TLC

CONSTANTS connection, t1, t2, i1, i2, pull

MCSymmetry == Permutations(Reviewers)

MCInventory == {connection, t1, t2}
MCIssues == {i1, i2}
MCPulls == {pull}

MCCommitted == [d \in Drivers |->
    IF d = Reference THEN <<[issue |-> i1, reason |-> "reviewed", tests |-> <<t1>>]>>
    ELSE <<>>]
=============================================================================
