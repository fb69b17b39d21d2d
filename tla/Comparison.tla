----------------------------- MODULE Comparison -----------------------------
(***************************************************************************)
(* odbc-conformance/compare.py: one inventory of tests run through both     *)
(* drivers, one after the other, and the verdict on the pair.              *)
(*                                                                         *)
(* A behaviour is a sequence of invocations that share a build directory    *)
(* and an output directory.  What survives from one invocation to the next  *)
(* is the disk: CTest's report and the copied GoogleTest XML of each driver *)
(* (output directory), the XML each test writes (build directory) and       *)
(* comparison.json.  Everything else is state of the running process.      *)
(*                                                                         *)
(* CTest and the test executables are external: they run any way they can,  *)
(* and the ghost variable truth remembers how each test of the current      *)
(* invocation really ended, for the properties to compare with what         *)
(* compare.py concludes.                                                   *)
(***************************************************************************)
EXTENDS Registry, FiniteSets

CONSTANTS
    Inventory,       \* the discovered tests, in CTest's order
    Registries,      \* contents known-failures.json may have
    Modes,           \* modes the operator may use
    Outcomes,        \* ends of a test the external CTest may produce
    MaxInvocations,  \* bound: invocations of compare.py
    MaxTimeouts,     \* bound: CTest runs that exceed their 1200 seconds
    MaxFaults,       \* bound: CTest runs that go wrong in another way
    None             \* no file, no record

Tests == ToSet(Inventory)

AllModes == {"pinned", "include", "audit"}

\* A test can end with an XML (passed, failed, skipped) or without one: the
\* executable died ("crashed") or could not be started ("notrun").
AllOutcomes == {"passed", "failed", "skipped", "crashed", "notrun"}
WritesXml(o) == o \in {"passed", "failed", "skipped"}

Statuses == {"passed", "failed", "skipped", "disabled"}

\* Exit codes of CTest that main and audit_results tell apart: success, some
\* test failed, anything else (a crash, an interrupt, a usage error).
ExitCodes == {0, 8, 1}

ASSUME InventoryAssumption ==
    /\ Inventory \in Seq(Tests)
    /\ \A i, j \in DOMAIN Inventory : Inventory[i] = Inventory[j] => i = j
    /\ Connection \in Tests

ASSUME ComparisonAssumption ==
    /\ Modes \subseteq AllModes
    /\ Outcomes \subseteq AllOutcomes
    /\ MaxInvocations \in Nat
    /\ MaxTimeouts \in Nat
    /\ MaxFaults \in Nat

VARIABLES
    (* the disk *)
    ctestXml,    \* per driver: output/<driver>/ctest.xml
    buildXml,    \* per test: the XML the test executable writes
    evidence,    \* per driver and test: output/<driver>/gtest/<test>.xml
    published,   \* output/comparison.json

    (* the process running compare.py *)
    pc,
    invocation,  \* number of the invocation, 0 before the first one
    mode,
    registry,    \* what load_exclusions accepted
    driver,      \* the driver main's loop is at
    exit,        \* CTest's exit code for that driver
    cases,       \* its results, from read_results to the end of run_driver
    runs,        \* main's dictionary of finished drivers
    audit,       \* audit_results' classification, None in the other modes
    verdict,     \* how the invocation ended

    (* the environment *)
    orphans,     \* test executables that outlived a killed CTest
    timeouts,    \* CTest runs that exceeded their time so far
    faults,      \* CTest runs that went wrong in another way so far
    truth        \* per driver and test: how the test really ended

vars == <<ctestXml, buildXml, evidence, published, pc, invocation, mode,
          registry, driver, exit, cases, runs, audit, verdict, orphans,
          timeouts, faults, truth>>

-----------------------------------------------------------------------------
(* Operators of compare.py.                                                *)

\* read_results' status of a testcase element: a failure or error wins, then
\* a skipped element or a "notrun" status.
Classify(o) ==
    IF o \in {"failed", "crashed"} THEN "failed"
    ELSE IF o \in {"skipped", "notrun"} THEN "skipped"
    ELSE "passed"

\* selection_indices: 1-based positions, so that test names need no regex.
\* Mutant: the tests that are left are counted, not the inventory.
SelectionIndicesOfRest(omitted) == 1..Cardinality(Tests \ omitted)

SelectionIndices(omitted) ==
    {i \in DOMAIN Inventory : Inventory[i] \notin omitted}

\* Mutant: the audit forgets to run the quarantined Rust tests.
IncludeKnownNotInAudit(d) == d \in Drivers /\ mode = "include"

IncludeKnown(d) == mode = "include" \/ (mode = "audit" /\ d = Rust)

Omitted(d) == IF IncludeKnown(d) THEN {} ELSE Excluded(registry, d)
Expected(d) == Tests \ Omitted(d)

\* What CTest is asked to run: -I with the indices when something is omitted.
Selected(d) ==
    IF Omitted(d) = {} THEN Tests
    ELSE {Inventory[i] : i \in SelectionIndices(Omitted(d))}

\* read_results accepts a report of exactly the expected tests, each once.
Readable(report, d) ==
    /\ report.wellFormed
    /\ DOMAIN report.cases = Expected(d)

\* A report that does not parse, or names a test twice.
Unreadable == [wellFormed |-> FALSE, cases |-> <<>>]

\* Mutant: omitted tests are left out of the results.
ResultsOfExpectedOnly(report, d) == [t \in Expected(d) |-> Classify(report.cases[t])]

\* The results of a driver: read from the report, and "disabled" if omitted.
Results(report, d) ==
    [t \in Expected(d) \cup Omitted(d) |->
        IF t \in Omitted(d) THEN "disabled" ELSE Classify(report.cases[t])]

\* What the except clause of main records; it has no "tests".
ErrorRun == [error |-> TRUE, exit |-> 2, tests |-> <<>>]

FinishedRuns == [error : {FALSE}, exit : ExitCodes, tests : [Tests -> Statuses]]

\* An XML file is known by the run that wrote it.
XmlTags == [driver : Drivers, invocation : Nat]

ASSUME NoneAssumption ==
    None # ErrorRun /\ None \notin FinishedRuns /\ None \notin XmlTags

(***************************************************************************)
(* audit_results.                                                          *)
(***************************************************************************)
Bad(status) == status \in {"failed", "skipped"}

SomeBad(run) == \E t \in DOMAIN run.tests : Bad(run.tests[t])

\* Mutant: a quarantined Rust test counts as known on both drivers.
KnownOnBoth(d, t) == d \in Drivers /\ t \in Excluded(registry, Rust)

Known(d, t) == d = Rust /\ t \in Excluded(registry, d)

\* Mutant: CTest's 8, "some test failed", is taken for a broken run.
InfrastructureErrorStrict(run) == run.error \/ run.exit # 0

InfrastructureError(run) ==
    \/ run.error
    \/ run.exit \notin {0, 8}
    \/ run.exit # 0 /\ ~SomeBad(run)

\* Cases of the drivers that produced results, as <<driver, test>>.
Audited ==
    {c \in Drivers \X Tests :
        ~runs[c[1]].error /\ c[2] \in DOMAIN runs[c[1]].tests}

StatusOf(d, t) ==
    IF t \in DOMAIN runs[d].tests THEN runs[d].tests[t] ELSE "missing"

AuditResults == [
    recoveries |->
        {[test |-> c[2],
          issue |-> IssueOf(registry, Rust, c[2]),
          reference |-> StatusOf(Reference, c[2])] :
            c \in {a \in Audited : Known(a[1], a[2])
                                   /\ StatusOf(a[1], a[2]) = "passed"}},
    expected |->
        {c[2] : c \in {a \in Audited : Known(a[1], a[2])
                                       /\ StatusOf(a[1], a[2]) = "failed"}},
    unexpected |->
        {a \in Audited :
            /\ ~(Known(a[1], a[2]) /\ StatusOf(a[1], a[2]) \in {"passed", "failed"})
            /\ StatusOf(a[1], a[2]) \notin {"passed", "disabled"}},
    infrastructure |-> {d \in Drivers : InfrastructureError(runs[d])}]

\* Mutant: a driver whose run raised does not count outside audits.
ExitStatusOfTests ==
    IF mode = "audit"
    THEN audit.infrastructure # {} \/ audit.unexpected # {}
    ELSE \E d \in Drivers : SomeBad(runs[d])

\* main's return value: in audit mode from the audit, otherwise from the runs.
ExitStatus ==
    IF mode = "audit"
    THEN audit.infrastructure # {} \/ audit.unexpected # {}
    ELSE \E d \in Drivers : runs[d].exit # 0 \/ SomeBad(runs[d])

-----------------------------------------------------------------------------
(* Initial state: empty build and output directories.                      *)

Init ==
    /\ ctestXml = [d \in Drivers |-> None]
    /\ buildXml = [t \in Tests |-> None]
    /\ evidence = [d \in Drivers |-> [t \in Tests |-> None]]
    /\ published = None
    /\ pc = "idle"
    /\ invocation = 0
    /\ mode = "pinned"
    /\ registry = [d \in Drivers |-> <<>>]
    /\ driver = Reference
    /\ exit = 0
    /\ cases = <<>>
    /\ runs = [d \in Drivers |-> None]
    /\ audit = None
    /\ verdict = "none"
    /\ orphans = {}
    /\ timeouts = 0
    /\ faults = 0
    /\ truth = [d \in Drivers |-> [t \in Tests |-> "unstarted"]]

-----------------------------------------------------------------------------
(* main, up to the loop over the drivers.                                  *)

\* The file holds reg and the checks pass: the loop starts at the reference.
\* source tells whether the metadata names a resolved upstream main.
Begin(m, reg, source) ==
    /\ pc = "idle"
    /\ invocation < MaxInvocations
    /\ Loads(reg, Tests)
    /\ m = "audit" => source = "main"
    /\ pc' = "prepare"
    /\ invocation' = invocation + 1
    /\ mode' = m
    /\ registry' = reg
    /\ driver' = Reference
    /\ exit' = 0
    /\ cases' = <<>>
    /\ runs' = [d \in Drivers |-> None]
    /\ audit' = None
    /\ verdict' = "none"
    /\ truth' = [d \in Drivers |-> [t \in Tests |-> "unstarted"]]
    /\ UNCHANGED <<ctestXml, buildXml, evidence, published, orphans, timeouts, faults>>

\* load_exclusions raises, or parser.error: the process ends before any test.
Refuse(m, reg, source) ==
    /\ pc = "idle"
    /\ invocation < MaxInvocations
    /\ ~Loads(reg, Tests) \/ (m = "audit" /\ source # "main")
    /\ invocation' = invocation + 1
    /\ mode' = m
    /\ runs' = [d \in Drivers |-> None]
    /\ audit' = None
    /\ verdict' = "refused"
    /\ truth' = [d \in Drivers |-> [t \in Tests |-> "unstarted"]]
    /\ UNCHANGED <<ctestXml, buildXml, evidence, published, pc, registry,
                   driver, exit, cases, orphans, timeouts, faults>>

-----------------------------------------------------------------------------
(* run_driver and the except clause of main around it.                     *)

\* runs[driver] is set and the loop moves on, to the audit after the last one.
Record(run) ==
    /\ runs' = [runs EXCEPT ![driver] = run]
    /\ cases' = <<>>
    /\ exit' = 0
    /\ IF driver = Reference
       THEN driver' = Rust /\ pc' = "prepare"
       ELSE driver' = driver /\ pc' = "audit"

\* Mutant: CTest's report of an earlier invocation is not unlinked.
PrepareKeepsReport ==
    /\ pc = "prepare"
    /\ pc' = "ctest"
    /\ buildXml' = [t \in Tests |-> None]
    /\ UNCHANGED <<ctestXml, evidence, published, invocation, mode, registry,
                   driver, exit, cases, runs, audit, verdict, orphans, timeouts,
                   faults, truth>>

\* Stale files go: the driver's CTest report and the XML of every test.
Prepare ==
    /\ pc = "prepare"
    /\ pc' = "ctest"
    /\ ctestXml' = [ctestXml EXCEPT ![driver] = None]
    /\ buildXml' = [t \in Tests |-> None]
    /\ UNCHANGED <<evidence, published, invocation, mode, registry, driver,
                   exit, cases, runs, audit, verdict, orphans, timeouts, faults, truth>>

\* A refused environment, or an OSError after some of the files are gone.
PrepareFails ==
    /\ pc = "prepare"
    /\ Record(ErrorRun)
    /\ \E gone \in SUBSET Tests, reportGone \in BOOLEAN :
        /\ gone # {} => reportGone
        /\ ctestXml' = IF reportGone THEN [ctestXml EXCEPT ![driver] = None]
                       ELSE ctestXml
        /\ buildXml' = [t \in Tests |-> IF t \in gone THEN None ELSE buildXml[t]]
    /\ UNCHANGED <<evidence, published, invocation, mode, registry, audit,
                   verdict, orphans, timeouts, faults, truth>>

\* Tests of ran end as in ends, and leave their XML in the build directory.
TestsRun(ran, ends) ==
    /\ truth' = [truth EXCEPT ![driver] =
                    [t \in Tests |-> IF t \in ran THEN ends[t] ELSE @[t]]]
    /\ buildXml' = [t \in Tests |->
                    IF t \in ran /\ WritesXml(ends[t])
                    THEN [driver |-> driver, invocation |-> invocation]
                    ELSE buildXml[t]]

\* External: CTest runs the selection, reports every test and exits 0 or 8.
CtestCompletes ==
    /\ pc = "ctest"
    /\ \E ends \in [Selected(driver) -> Outcomes] :
        /\ TestsRun(Selected(driver), ends)
        /\ ctestXml' = [ctestXml EXCEPT ![driver] =
                            [wellFormed |-> TRUE, cases |-> ends]]
        /\ exit' = IF \A t \in Selected(driver) : ends[t] \in {"passed", "skipped"}
                   THEN 0 ELSE 8
    /\ pc' = "read"
    /\ UNCHANGED <<evidence, published, invocation, mode, registry, driver,
                   cases, runs, audit, verdict, orphans, timeouts, faults>>

\* External: CTest goes wrong.  It runs some tests, exits any way, and its
\* report is not written, unreadable, or about what ran, selected or not; a report
\* never tells a lie about a test it names.
CtestMisbehaves ==
    /\ pc = "ctest"
    /\ faults < MaxFaults
    /\ faults' = faults + 1
    /\ \E ran \in SUBSET Tests :
        \E ends \in [ran -> Outcomes] :
            /\ TestsRun(ran, ends)
            /\ \E report \in {ctestXml[driver], Unreadable,
                              [wellFormed |-> TRUE, cases |-> ends]} :
                ctestXml' = [ctestXml EXCEPT ![driver] = report]
    /\ \E code \in ExitCodes : exit' = code
    /\ pc' = "read"
    /\ UNCHANGED <<evidence, published, invocation, mode, registry, driver,
                   cases, runs, audit, verdict, orphans, timeouts>>

\* subprocess.run gives up after 1200 seconds and kills ctest, but not the test
\* executable ctest had started: that one runs on.
CtestTimesOut ==
    /\ pc = "ctest"
    /\ timeouts < MaxTimeouts
    /\ timeouts' = timeouts + 1
    /\ \E hung \in Selected(driver) :
        \E ran \in SUBSET (Selected(driver) \ {hung}) :
            \E ends \in [ran -> Outcomes] :
                /\ TestsRun(ran, ends)
                /\ orphans' = orphans \cup
                    {[driver |-> driver, invocation |-> invocation, test |-> hung]}
    /\ Record(ErrorRun)
    /\ UNCHANGED <<ctestXml, evidence, published, invocation, mode, registry,
                   audit, verdict, faults>>

\* External: an orphan ends and writes its XML where its test always does.
OrphanEnds(o) ==
    /\ o \in orphans
    /\ orphans' = orphans \ {o}
    /\ buildXml' = [buildXml EXCEPT ![o.test] =
                        [driver |-> o.driver, invocation |-> o.invocation]]
    /\ UNCHANGED <<ctestXml, evidence, published, pc, invocation, mode, registry,
                   driver, exit, cases, runs, audit, verdict, timeouts, faults, truth>>

\* No report raises RuntimeError, an unreadable one ParseError or ValueError.
ReadReport ==
    /\ pc = "read"
    /\ LET report == ctestXml[driver] IN
        IF report # None /\ Readable(report, driver)
        THEN /\ cases' = Results(report, driver)
             /\ pc' = "copy"
             /\ UNCHANGED <<driver, exit, runs>>
        ELSE Record(ErrorRun)
    /\ UNCHANGED <<ctestXml, buildXml, evidence, published, invocation, mode,
                   registry, audit, verdict, orphans, timeouts, faults, truth>>

\* Mutant: an existing copy is not overwritten.
CopiedOnce(tests) ==
    evidence' = [evidence EXCEPT ![driver] =
        [t \in Tests |-> IF t \in tests /\ buildXml[t] # None /\ @[t] = None
                         THEN buildXml[t] ELSE @[t]]]

\* The XML of the expected tests that have one, copied over older copies.
Copied(tests) ==
    evidence' = [evidence EXCEPT ![driver] =
        [t \in Tests |-> IF t \in tests /\ buildXml[t] # None
                         THEN buildXml[t] ELSE @[t]]]

CopyEvidence ==
    /\ pc = "copy"
    /\ Copied(Expected(driver))
    /\ Record([error |-> FALSE, exit |-> exit, tests |-> cases])
    /\ UNCHANGED <<ctestXml, buildXml, published, invocation, mode, registry,
                   audit, verdict, orphans, timeouts, faults, truth>>

\* An OSError while copying (a full disk): the results are lost.
CopyFails ==
    /\ pc = "copy"
    /\ \E done \in SUBSET Expected(driver) : Copied(done)
    /\ Record(ErrorRun)
    /\ UNCHANGED <<ctestXml, buildXml, published, invocation, mode, registry,
                   audit, verdict, orphans, timeouts, faults, truth>>

-----------------------------------------------------------------------------
(* main, after the loop.                                                   *)

Audit ==
    /\ pc = "audit"
    /\ pc' = "write"
    /\ audit' = IF mode = "audit" THEN AuditResults ELSE None
    /\ UNCHANGED <<ctestXml, buildXml, evidence, published, invocation, mode,
                   registry, driver, exit, cases, runs, verdict, orphans,
                   timeouts, faults, truth>>

\* write_comparison ends with comparison.json; then main returns.
Conclude ==
    /\ pc = "write"
    /\ pc' = "idle"
    /\ published' = [invocation |-> invocation, whole |-> TRUE]
    /\ verdict' = IF ExitStatus THEN "red" ELSE "green"
    /\ UNCHANGED <<ctestXml, buildXml, evidence, invocation, mode, registry,
                   driver, exit, cases, runs, audit, orphans, timeouts, faults, truth>>

\* The process dies: it is killed, or raises what main does not catch, which
\* for write_comparison is anything and may leave half a comparison.json.
Dies ==
    /\ pc # "idle"
    /\ pc' = "idle"
    /\ verdict' = "died"
    /\ \/ UNCHANGED published
       \/ pc = "write" /\ published' = [invocation |-> invocation, whole |-> FALSE]
    /\ UNCHANGED <<ctestXml, buildXml, evidence, invocation, mode, registry,
                   driver, exit, cases, runs, audit, orphans, timeouts, faults, truth>>

-----------------------------------------------------------------------------
Ctest == CtestCompletes \/ CtestMisbehaves \/ CtestTimesOut

\* The steps an invocation takes by itself.
Step == Prepare \/ PrepareFails \/ Ctest \/ ReadReport \/ CopyEvidence
        \/ CopyFails \/ Audit \/ Conclude

Next ==
    \/ \E m \in Modes, reg \in Registries, source \in {"main", "pinned"} :
        Begin(m, reg, source) \/ Refuse(m, reg, source)
    \/ Step
    \/ \E o \in orphans : OrphanEnds(o)
    \/ Dies

\* An invocation that has begun keeps going: CTest is bounded by a timeout.
Fairness == WF_vars(Step)

Spec == Init /\ [][Next]_vars /\ Fairness

-----------------------------------------------------------------------------
(* Properties.                                                             *)

(***************************************************************************)
(* Ends of test t on driver d that need no attention in the current mode:   *)
(* passing, always; anything, for a test excluded for the driver, unless    *)
(* the mode asks for it to run.  The audit asks for the Rust driver's, and  *)
(* then expects them to fail; --include-known-failures asks for all.        *)
(***************************************************************************)
Ends == AllOutcomes \cup {"unstarted"}

Tolerance(d, t) ==
    IF t \notin Excluded(registry, d) \/ mode = "include" THEN {"passed"}
    ELSE IF mode = "audit" /\ d = Rust THEN {"passed", "failed", "crashed"}
    ELSE Ends

Tolerable(d, t) == truth[d][t] \in Tolerance(d, t)

RunType(run) ==
    \/ run = None
    \/ run = ErrorRun
    \/ run \in FinishedRuns

ReportType(report) ==
    \/ report = None
    \/ /\ DOMAIN report = {"wellFormed", "cases"}
       /\ report.wellFormed \in BOOLEAN
       /\ DOMAIN report.cases \subseteq Tests
       /\ \A t \in DOMAIN report.cases : report.cases[t] \in Outcomes

(* The types of the state: the process, its records and what is on disk. *)
TypeOK ==
    /\ DOMAIN ctestXml = Drivers /\ \A d \in Drivers : ReportType(ctestXml[d])
    /\ buildXml \in [Tests -> XmlTags \cup {None}]
    /\ evidence \in [Drivers -> [Tests -> XmlTags \cup {None}]]
    /\ published \in [invocation : Nat, whole : BOOLEAN] \cup {None}
    /\ pc \in {"idle", "prepare", "ctest", "read", "copy", "audit", "write"}
    /\ invocation \in 0..MaxInvocations
    /\ mode \in AllModes
    /\ driver \in Drivers
    /\ exit \in ExitCodes
    /\ pc = "copy" => cases \in [Tests -> Statuses]
    /\ DOMAIN runs = Drivers /\ \A d \in Drivers : RunType(runs[d])
    /\ verdict \in {"none", "green", "red", "refused", "died"}
    /\ orphans \subseteq [driver : Drivers, invocation : Nat, test : Tests]
    /\ timeouts \in 0..MaxTimeouts
    /\ faults \in 0..MaxFaults
    /\ truth \in [Drivers -> [Tests -> Ends]]

(* compare.py exits 0 only if every test of the inventory really ended, in  *)
(* this invocation and on each driver, in a way the mode and the registry   *)
(* tolerate: no missing, stale, partial or misread report, no CTest failure *)
(* and no error of one driver is ever taken for success.                   *)
GreenIsEarned ==
    verdict = "green" => \A d \in Drivers, t \in Tests : Tolerable(d, t)

(* compare.py exits 1 only for a reason: a driver's run that raised, a CTest *)
(* exit code that does not follow from how the tests ended, or an end that   *)
(* is not tolerated.  In particular a known failure that fails as tracked    *)
(* never turns an audit red, although CTest then exits with 8.              *)
(* Nor does a run raise for what it asked CTest to run: the report of a CTest *)
(* that did as it was told is one that read_results accepts.               *)
ExitFollows(d) ==
    runs[d].exit = IF \E t \in Expected(d) : truth[d][t] \notin {"passed", "skipped"}
                   THEN 8 ELSE 0

ReadsWhatItRan == pc = "read" /\ faults = 0 => Readable(ctestXml[driver], driver)

RedHasCause ==
    /\ verdict = "red" =>
        \E d \in Drivers : \/ runs[d].error
                          \/ ~ExitFollows(d)
                          \/ \E t \in Tests : ~Tolerable(d, t)
    /\ ReadsWhatItRan

(* The audit's classes tell what happened: the recoveries are exactly the   *)
(* excluded Rust tests that passed, the expected failures exactly those that *)
(* failed, every other bad end of a test is unexpected and nothing else is, *)
(* and a recovery is reported with what the reference driver really did.    *)
(* A driver has an infrastructure error where its run raised, CTest ended   *)
(* with a code of its own, or it ended with 8 though each test passed.      *)
ReallyRecovered ==
    {t \in Excluded(registry, Rust) : ~runs[Rust].error /\ truth[Rust][t] = "passed"}

AuditIsAccurate ==
    audit # None =>
        /\ {r.test : r \in audit.recoveries} = ReallyRecovered
        /\ audit.expected = {t \in Excluded(registry, Rust) :
                ~runs[Rust].error /\ truth[Rust][t] \in {"failed", "crashed"}}
        /\ audit.unexpected =
                {c \in Drivers \X Tests : /\ ~runs[c[1]].error
                                         /\ ~Tolerable(c[1], c[2])}
        /\ \A r \in audit.recoveries :
                \/ runs[Reference].error /\ r.reference = "missing"
                \/ r.test \in Excluded(registry, Reference) /\ r.reference = "disabled"
                \/ r.reference = Classify(truth[Reference][r.test])
        /\ audit.infrastructure =
                {d \in Drivers : \/ runs[d].error
                                 \/ runs[d].exit \notin {0, 8}
                                 \/ /\ runs[d].exit = 8
                                    /\ \A t \in Expected(d) : truth[d][t] = "passed"}

(* The copied GoogleTest XML of a finished driver: where the test wrote one *)
(* in this invocation, the copy is that one, not a leftover, unless a CTest *)
(* run had timed out and may have left an executable that writes later.     *)
FreshEvidenceWins ==
    timeouts = 0 => \A d \in Drivers, t \in Tests :
        (runs[d] # None /\ ~runs[d].error /\ t \in Expected(d) /\ WritesXml(truth[d][t]))
            => evidence[d][t] = [driver |-> d, invocation |-> invocation]

(* Each driver gets its own GoogleTest XML reports: what a finished driver  *)
(* keeps as evidence was written by a test run against that driver.        *)
EvidenceOfThisDriver ==
    \A d \in Drivers, t \in Tests :
        evidence[d][t] # None => evidence[d][t].driver = d

(* The comparison implements what it promises.                             *)
Promise == INSTANCE ComparisonPromise WITH
    phase <- IF pc = "idle" THEN "idle" ELSE "running",
    tolerance <- [d \in Drivers |-> [t \in Tests |-> Tolerance(d, t)]],
    reality <- truth,
    tried <- {d \in Drivers : runs[d] # None}

(* Both drivers get their turn, an invocation ends, and green is earned:    *)
(* every step is a step of ComparisonPromise, and an invocation concludes.  *)
KeepsPromise == Promise!Spec
=============================================================================
