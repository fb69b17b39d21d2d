----------------------------- MODULE TestSuite -----------------------------
(***************************************************************************)
(* The executable odbc-conformance, which holds the tests of conformance.cpp *)
(* and both parity suites: CTest runs one process after another, each for    *)
(* one test, on one server.                                                *)
(***************************************************************************)
EXTENDS OdbcTest

\* The buffers that the tests name.
ASSUME TestBuffersAssumption ==
    /\ {"storage", "buffer_"} \subseteq Members
    /\ {"left", "right", "value", "buffers", "fetched", "status", "rows", "values", "after"}
            \subseteq Locals

Conformance == INSTANCE ConformanceTests
Parity == INSTANCE ParityTests

Tests == Conformance!Tests \cup Parity!Tests

SetUpOf(t) == IF t \in Conformance!Tests THEN Conformance!SetUpOf(t) ELSE Parity!SuiteSetUp

BodyOf(t) == IF t \in Conformance!Tests THEN Conformance!BodyOf(t) ELSE Parity!BodyOf(t)

TearDownOf(t) == IF t \in Conformance!Tests THEN Conformance!TearDown ELSE Parity!TearDown

Next ==
    \/ \E t \in Tests : Start(t, SetUpOf(t))
    \/ Skip \/ Succeed \/ Fail \/ Kill
    \/ EnterBody(BodyOf(test)) \/ EnterTearDown(TearDownOf(test)) \/ End

Spec == Init /\ [][Next]_vars

-----------------------------------------------------------------------------
(* The types of the variables.                                             *)
TypeOK ==
    /\ odbc.live \subseteq Handles
    /\ odbc.cursor \in 0..3 \cup {None}
    /\ \A a \in odbc.addresses :
          a[1] \in {"column", "parameter", "attribute"} /\ a[2] \in Buffers
    /\ tables \subseteq 1..MaxProcesses
    /\ fixture.held \subseteq Handles
    /\ fixture.metadata_table \in 1..MaxProcesses \cup {None}
    /\ phase \in {"none", "setup", "body", "teardown", "ended", "killed"}
    /\ test \in Tests \cup {None}
    /\ faults \in 0..MaxFaults /\ processes \in 0..MaxProcesses /\ kills \in 0..MaxKills

(* A test of conformance.cpp that passes has cleaned up: the fixture checks  *)
(* each call of its TearDown, which the one of the parity suites does not.  *)
GreenMeansClean ==
    (phase = "ended" /\ ~failed /\ test \in Conformance!Tests) => Clean
=============================================================================
