------------------------------ MODULE Registry ------------------------------
(***************************************************************************)
(* odbc-conformance/known-failures.json and load_exclusions of compare.py.  *)
(*                                                                         *)
(* A registry gives every driver a sequence of groups; a group is an issue, *)
(* a reason and the list of the tests it excludes.  load_exclusions either  *)
(* raises ValueError or returns, per driver, the excluded tests with their  *)
(* issue.  Here Loads is the predicate "does not raise", and Excluded and   *)
(* IssueOf are what the result is used for.                                *)
(*                                                                         *)
(* compare.py loads the registry against the CTest inventory, quarantine.py *)
(* and report_recoveries.py against the test names of a comparison.json, so *)
(* the names are a parameter.                                              *)
(***************************************************************************)
EXTENDS Naturals, Sequences, SequencesExt

CONSTANTS
    Connection,  \* the readiness test, OdbcConformance.Connection
    Issues,      \* issue URLs of the repository, the ones its pattern accepts
    Reasons      \* reasons that are not blank

Reference == "msodbcsql18"
Rust == "mssql-rs"
Drivers == {Reference, Rust}

-----------------------------------------------------------------------------
(* What a registry says, whether or not it loads.                          *)

Excluded(registry, d) ==
    UNION {ToSet(registry[d][i].tests) : i \in DOMAIN registry[d]}

IssueOf(registry, d, t) ==
    registry[d][CHOOSE i \in DOMAIN registry[d] :
                    t \in ToSet(registry[d][i].tests)].issue

(***************************************************************************)
(* The checks of the loader, in the order the code makes them.             *)
(***************************************************************************)
GroupIsJustified(group) ==
    /\ group.issue \in Issues
    /\ group.reason \in Reasons
    /\ group.tests # <<>>

\* No name twice for one driver, neither in two groups nor within one.
NamedOnce(groups) ==
    \A i, j \in DOMAIN groups :
        \A k \in DOMAIN groups[i].tests, l \in DOMAIN groups[j].tests :
            groups[i].tests[k] = groups[j].tests[l] => i = j /\ k = l

Loads(registry, names) ==
    /\ DOMAIN registry = Drivers
    /\ \A d \in Drivers :
        /\ \A i \in DOMAIN registry[d] : GroupIsJustified(registry[d][i])
        /\ Excluded(registry, d) \subseteq names
        /\ NamedOnce(registry[d])
        /\ Connection \notin Excluded(registry, d)
        /\ Excluded(registry, d) # names
=============================================================================
