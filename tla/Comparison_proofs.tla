-------------------------- MODULE Comparison_proofs --------------------------
(***************************************************************************)
(* TLAPS proofs about Comparison, for every inventory, every set of         *)
(* registries and every bound: the state is well typed, a green verdict is  *)
(* earned, a red one has a cause, the audit's classes are what happened and *)
(* the copied XML is of this invocation.                                   *)
(***************************************************************************)
EXTENDS Comparison, TLAPS

-----------------------------------------------------------------------------
(* CTest is asked to run the tests that are not omitted, and these only:    *)
(* positions in the inventory select what names would have selected.       *)
THEOREM SelectionIsExact ==
    \A omitted : {Inventory[i] : i \in SelectionIndices(omitted)} = Tests \ omitted
  BY DEF SelectionIndices, Tests, ToSet

LEMMA SelectedIsExpected == \A d \in Drivers : Selected(d) = Expected(d)
  BY SelectionIsExact DEF Selected, Expected

-----------------------------------------------------------------------------
(* The inductive invariant.                                                *)

\* Results of d that say what happened: an omitted test is disabled, any
\* other one really ran and is classified by its end.
Faithful(d, tests) ==
    \A t \in Tests :
        IF t \in Omitted(d) THEN tests[t] = "disabled"
        ELSE truth[d][t] \in AllOutcomes /\ tests[t] = Classify(truth[d][t])

\* The registry in use is one that loads.
RegistryInv ==
    \A d \in Drivers : Excluded(registry, d) \subseteq Tests \ {Connection}

\* The loop visits the reference first, and records a driver as it leaves it.
OrderInv ==
    /\ pc \in {"prepare", "ctest", "read", "copy"} =>
        /\ runs[driver] = None
        /\ driver = Reference => runs[Rust] = None
        /\ driver = Rust => runs[Reference] # None
    /\ pc \in {"audit", "write"} => \A d \in Drivers : runs[d] # None
    /\ pc # "idle" => verdict = "none"

\* No CTest report is left when CTest starts, so that the one that is read
\* tells how the tests of this run ended.
ReportInv ==
    /\ pc = "ctest" => ctestXml[driver] = None
    /\ pc = "read" /\ ctestXml[driver] # None =>
        \A t \in DOMAIN ctestXml[driver].cases :
            ctestXml[driver].cases[t] = truth[driver][t]

ResultsInv ==
    /\ pc = "copy" => Faithful(driver, cases)
    /\ \A d \in Drivers : runs[d] # None /\ ~runs[d].error => Faithful(d, runs[d].tests)

\* An audit that finds nothing to report leaves nothing to report.
AuditInv ==
    (pc = "write" /\ mode = "audit" /\ audit.infrastructure = {} /\ audit.unexpected = {})
        => \A d \in Drivers, t \in Tests : Tolerable(d, t)

LoopInv == OrderInv /\ ReportInv /\ ResultsInv /\ AuditInv /\ GreenIsEarned

IInv == TypeOK /\ RegistryInv /\ LoopInv

-----------------------------------------------------------------------------
TypeInv == TypeOK /\ RegistryInv

LEMMA TypeInit == Init => TypeInv
<1> SUFFICES ASSUME Init PROVE TypeInv
  OBVIOUS
<1>1. RegistryInv
  BY DEF Init, RegistryInv, Excluded, Drivers
<1>2. TypeOK
  BY ComparisonAssumption
  DEF Init, TypeOK, ReportType, RunType, Ends, AllModes, ExitCodes, Drivers
<1> QED
  BY <1>1, <1>2 DEF TypeInv

\* What Record leaves of the loop's state is well typed.
LEMMA RecordType ==
  ASSUME TypeOK, NEW run, RunType(run), Record(run)
  PROVE  /\ DOMAIN runs' = Drivers /\ \A d \in Drivers : RunType(runs'[d])
         /\ pc' \in {"prepare", "audit"}
         /\ driver' \in Drivers
         /\ exit' \in ExitCodes
  BY DEF TypeOK, Record, Drivers, ExitCodes

\* What the tests leave is well typed.
LEMMA TestsRunType ==
  ASSUME TypeOK, NEW ran \in SUBSET Tests, NEW ends \in [ran -> Outcomes],
         TestsRun(ran, ends)
  PROVE  /\ truth' \in [Drivers -> [Tests -> Ends]]
         /\ buildXml' \in [Tests -> XmlTags \cup {None}]
<1>1. \A t \in ran : ends[t] \in Ends
  BY ComparisonAssumption DEF Ends
<1>2. truth' \in [Drivers -> [Tests -> Ends]]
  BY <1>1 DEF TypeOK, TestsRun
<1>3. [driver |-> driver, invocation |-> invocation] \in XmlTags
  BY DEF TypeOK, XmlTags
<1>4. buildXml' \in [Tests -> XmlTags \cup {None}]
  BY <1>3 DEF TypeOK, TestsRun
<1> QED
  BY <1>2, <1>4

LEMMA ErrorRunType == RunType(ErrorRun)
  BY DEF RunType

LEMMA TypeStep == TypeInv /\ [Next]_vars => TypeInv'
<1> SUFFICES ASSUME TypeOK, RegistryInv, [Next]_vars PROVE TypeOK' /\ RegistryInv'
  BY DEF TypeInv
<1>1. ASSUME NEW m \in Modes, NEW reg \in Registries, NEW source \in {"main", "pinned"},
             Begin(m, reg, source)
      PROVE  TypeOK' /\ RegistryInv'
  <2>1. RegistryInv'
    BY <1>1 DEF Begin, RegistryInv, Loads, Excluded
  <2>2. mode' \in AllModes /\ invocation' \in 0..MaxInvocations
    BY <1>1, ComparisonAssumption DEF Begin, TypeOK
  <2>3. truth' \in [Drivers -> [Tests -> Ends]]
    BY <1>1 DEF Begin, Ends
  <2> QED
    BY <1>1, <2>1, <2>2, <2>3 DEF Begin, TypeOK, RunType, Drivers, ExitCodes
<1>2. ASSUME NEW m \in Modes, NEW reg \in Registries, NEW source \in {"main", "pinned"},
             Refuse(m, reg, source)
      PROVE  TypeOK' /\ RegistryInv'
  <2>1. mode' \in AllModes /\ invocation' \in 0..MaxInvocations
    BY <1>2, ComparisonAssumption DEF Refuse, TypeOK
  <2>2. truth' \in [Drivers -> [Tests -> Ends]]
    BY <1>2 DEF Refuse, Ends
  <2> QED
    BY <1>2, <2>1, <2>2 DEF Refuse, TypeOK, RegistryInv, RunType
<1>3. ASSUME Prepare PROVE TypeOK' /\ RegistryInv'
  BY <1>3 DEF Prepare, TypeOK, RegistryInv, ReportType, RunType
<1>4. ASSUME PrepareFails PROVE TypeOK' /\ RegistryInv'
  <2>1. PICK gone \in SUBSET Tests, reportGone \in BOOLEAN :
          /\ ctestXml' = IF reportGone THEN [ctestXml EXCEPT ![driver] = None] ELSE ctestXml
          /\ buildXml' = [t \in Tests |-> IF t \in gone THEN None ELSE buildXml[t]]
    BY <1>4 DEF PrepareFails
  <2>2. DOMAIN ctestXml' = Drivers /\ \A d \in Drivers : ReportType(ctestXml'[d])
    BY <2>1 DEF TypeOK, ReportType
  <2>3. buildXml' \in [Tests -> XmlTags \cup {None}]
    BY <2>1 DEF TypeOK
  <2> QED
    BY <1>4, <2>2, <2>3, RecordType, ErrorRunType DEF PrepareFails, TypeOK, RegistryInv
<1>5. ASSUME CtestCompletes PROVE TypeOK' /\ RegistryInv'
  <2> DEFINE S == Selected(driver)
  <2>1. PICK ends \in [S -> Outcomes] :
          /\ TestsRun(S, ends)
          /\ ctestXml' = [ctestXml EXCEPT ![driver] = [wellFormed |-> TRUE, cases |-> ends]]
          /\ exit' \in {0, 8}
    BY <1>5 DEF CtestCompletes
  <2>2. S \subseteq Tests
    BY SelectedIsExpected DEF TypeOK, Expected
  <2>3. truth' \in [Drivers -> [Tests -> Ends]] /\ buildXml' \in [Tests -> XmlTags \cup {None}]
    BY <2>1, <2>2, TestsRunType
  <2>4. ReportType([wellFormed |-> TRUE, cases |-> ends])
    BY <2>2 DEF ReportType
  <2>5. DOMAIN ctestXml' = Drivers /\ \A d \in Drivers : ReportType(ctestXml'[d])
    BY <2>1, <2>4 DEF TypeOK
  <2> QED
    BY <1>5, <2>1, <2>3, <2>5 DEF CtestCompletes, TypeOK, RegistryInv, ExitCodes
<1>6. ASSUME CtestMisbehaves PROVE TypeOK' /\ RegistryInv'
  <2>1. PICK ran \in SUBSET Tests : \E ends \in [ran -> Outcomes] :
          /\ TestsRun(ran, ends)
          /\ \E report \in {ctestXml[driver], Unreadable, [wellFormed |-> TRUE, cases |-> ends]} :
                ctestXml' = [ctestXml EXCEPT ![driver] = report]
    BY <1>6 DEF CtestMisbehaves
  <2>2. PICK ends \in [ran -> Outcomes] :
          /\ TestsRun(ran, ends)
          /\ \E report \in {ctestXml[driver], Unreadable, [wellFormed |-> TRUE, cases |-> ends]} :
                ctestXml' = [ctestXml EXCEPT ![driver] = report]
    BY <2>1
  <2>3. truth' \in [Drivers -> [Tests -> Ends]] /\ buildXml' \in [Tests -> XmlTags \cup {None}]
    BY <2>2, TestsRunType
  <2>4. /\ ReportType(ctestXml[driver]) /\ ReportType(Unreadable)
        /\ ReportType([wellFormed |-> TRUE, cases |-> ends])
    BY DEF ReportType, Unreadable, TypeOK
  <2>5. DOMAIN ctestXml' = Drivers /\ \A d \in Drivers : ReportType(ctestXml'[d])
    BY <2>2, <2>4 DEF TypeOK
  <2>6. faults' \in 0..MaxFaults
    BY <1>6, ComparisonAssumption DEF CtestMisbehaves, TypeOK
  <2> QED
    BY <1>6, <2>3, <2>5, <2>6 DEF CtestMisbehaves, TypeOK, RegistryInv
<1>7. ASSUME CtestTimesOut PROVE TypeOK' /\ RegistryInv'
  <2> DEFINE Orphan(hung) == [driver |-> driver, invocation |-> invocation, test |-> hung]
  <2>1. PICK hung \in Selected(driver) :
          \E ran \in SUBSET (Selected(driver) \ {hung}) :
            \E ends \in [ran -> Outcomes] :
              TestsRun(ran, ends) /\ orphans' = orphans \cup {Orphan(hung)}
    BY <1>7 DEF CtestTimesOut
  <2>2. Selected(driver) \subseteq Tests
    BY SelectedIsExpected DEF TypeOK, Expected
  <2>3. truth' \in [Drivers -> [Tests -> Ends]] /\ buildXml' \in [Tests -> XmlTags \cup {None}]
    BY <2>1, <2>2, TestsRunType
  <2>4. orphans' \subseteq [driver : Drivers, invocation : Nat, test : Tests]
    BY <2>1, <2>2 DEF TypeOK
  <2>5. timeouts' \in 0..MaxTimeouts
    BY <1>7, ComparisonAssumption DEF CtestTimesOut, TypeOK
  <2> QED
    BY <1>7, <2>3, <2>4, <2>5, RecordType, ErrorRunType DEF CtestTimesOut, TypeOK, RegistryInv
<1>8. ASSUME ReadReport PROVE TypeOK' /\ RegistryInv'
  <2> DEFINE report == ctestXml[driver]
  <2>1. CASE report # None /\ Readable(report, driver)
    <3>1. Results(report, driver) \in [Tests -> Statuses]
      BY DEF Results, Expected, Omitted, RegistryInv, TypeOK, Statuses, Classify
    <3> QED
      BY <1>8, <2>1, <3>1 DEF ReadReport, TypeOK, RegistryInv
  <2>2. CASE ~(report # None /\ Readable(report, driver))
    BY <1>8, <2>2, RecordType, ErrorRunType DEF ReadReport, TypeOK, RegistryInv
  <2> QED
    BY <2>1, <2>2
<1>9. ASSUME NEW tests, Copied(tests)
      PROVE  evidence' \in [Drivers -> [Tests -> XmlTags \cup {None}]]
  BY <1>9 DEF Copied, TypeOK
<1>10. ASSUME CopyEvidence PROVE TypeOK' /\ RegistryInv'
  <2>1. RunType([error |-> FALSE, exit |-> exit, tests |-> cases])
    BY <1>10 DEF CopyEvidence, RunType, FinishedRuns, TypeOK
  <2> QED
    BY <1>9, <1>10, <2>1, RecordType DEF CopyEvidence, TypeOK, RegistryInv
<1>11. ASSUME CopyFails PROVE TypeOK' /\ RegistryInv'
  BY <1>9, <1>11, RecordType, ErrorRunType DEF CopyFails, TypeOK, RegistryInv
<1>12. ASSUME Audit PROVE TypeOK' /\ RegistryInv'
  BY <1>12 DEF Audit, TypeOK, RegistryInv, ReportType, RunType
<1>13. ASSUME Conclude PROVE TypeOK' /\ RegistryInv'
  <2>1. published' \in [invocation : Nat, whole : BOOLEAN] \cup {None}
    BY <1>13 DEF Conclude, TypeOK
  <2> QED
    BY <1>13, <2>1 DEF Conclude, TypeOK, RegistryInv, ReportType, RunType
<1>14. ASSUME NEW o \in orphans, OrphanEnds(o) PROVE TypeOK' /\ RegistryInv'
  BY <1>14 DEF OrphanEnds, TypeOK, RegistryInv, ReportType, RunType, XmlTags
<1>15. ASSUME Dies PROVE TypeOK' /\ RegistryInv'
  <2>1. published' \in [invocation : Nat, whole : BOOLEAN] \cup {None}
    <3>1. [invocation |-> invocation, whole |-> FALSE] \in [invocation : Nat, whole : BOOLEAN]
      BY DEF TypeOK
    <3>2. published' = published
          \/ published' = [invocation |-> invocation, whole |-> FALSE]
      BY <1>15 DEF Dies
    <3>3. CASE published' = published
      BY <3>3 DEF TypeOK
    <3>4. CASE published' = [invocation |-> invocation, whole |-> FALSE]
      BY <3>1, <3>4
    <3> QED
      BY <3>2, <3>3, <3>4
  <2> QED
    BY <1>15, <2>1 DEF Dies, TypeOK, RegistryInv, ReportType, RunType
<1>16. CASE UNCHANGED vars
  BY <1>16 DEF vars, TypeOK, RegistryInv, ReportType, RunType
<1> QED
  BY <1>1, <1>2, <1>3, <1>4, <1>5, <1>6, <1>7, <1>8, <1>10, <1>11, <1>12,
     <1>13, <1>14, <1>15, <1>16 DEF Next, Step, Ctest

(* The state is well typed, however CTest and the tests behave. *)
THEOREM TypeCorrect == Spec => []TypeOK
<1>1. Spec => []TypeInv
  BY TypeInit, TypeStep, PTL DEF Spec
<1> QED
  BY <1>1, PTL DEF TypeInv

-----------------------------------------------------------------------------
(* What the loop does to LoopInv.                                          *)

LEMMA LoopInit == Init => LoopInv
  BY NoneAssumption
  DEF Init, LoopInv, OrderInv, ReportInv, ResultsInv, AuditInv, GreenIsEarned, Drivers

\* A driver is recorded: with an error, or with results that are faithful.
LEMMA RecordInv ==
  ASSUME TypeInv, OrderInv, ResultsInv, NEW run, run # None, Record(run),
         pc \in {"prepare", "ctest", "read", "copy"},
         run.error \/ (truth' = truth /\ Faithful(driver, run.tests)),
         \A d \in Drivers \ {driver} : truth'[d] = truth[d],
         UNCHANGED <<mode, registry, verdict>>
  PROVE  LoopInv'
<1>1. OrderInv'
  BY DEF OrderInv, Record, Drivers, TypeInv, TypeOK
<1>2. \A d \in Drivers : runs'[d] = IF d = driver THEN run ELSE runs[d]
  BY DEF Record, TypeInv, TypeOK
<1>3. ASSUME NEW d \in Drivers, runs'[d] # None, ~runs'[d].error
      PROVE  Faithful(d, runs[d].tests)'
  <2>1. CASE d = driver
    BY <1>2, <1>3, <2>1 DEF Faithful, Omitted, IncludeKnown, Excluded
  <2>2. CASE d # driver
    BY <1>2, <1>3, <2>2 DEF ResultsInv, Faithful, Omitted, IncludeKnown, Excluded
  <2> QED
    BY <2>1, <2>2
<1>4. pc' \in {"prepare", "audit"} /\ verdict' = "none"
  BY DEF Record, OrderInv
<1> QED
  BY <1>1, <1>3, <1>4 DEF LoopInv, ReportInv, ResultsInv, AuditInv, GreenIsEarned

\* The tests of the current driver run: the results recorded stay faithful.
LEMMA TestsRunInv ==
  ASSUME TypeInv, LoopInv, pc = "ctest", NEW ran \in SUBSET Tests,
         NEW ends \in [ran -> Outcomes], TestsRun(ran, ends)
  PROVE  /\ \A d \in Drivers \ {driver} : truth'[d] = truth[d]
         /\ \A t \in ran : truth'[driver][t] = ends[t]
  BY DEF TestsRun, TypeInv, TypeOK

LEMMA CtestInv ==
  ASSUME TypeInv, LoopInv, pc = "ctest", pc' = "read",
         UNCHANGED <<mode, registry, driver, runs, verdict>>,
         \A d \in Drivers \ {driver} : truth'[d] = truth[d],
         ctestXml'[driver] # None => \A t \in DOMAIN ctestXml'[driver].cases :
            ctestXml'[driver].cases[t] = truth'[driver][t]
  PROVE  LoopInv'
<1>1. OrderInv'
  BY DEF LoopInv, OrderInv
<1>2. ReportInv'
  BY DEF ReportInv
<1>3. ASSUME NEW d \in Drivers, runs'[d] # None, ~runs'[d].error
      PROVE  Faithful(d, runs[d].tests)'
  <2>1. d # driver
    BY <1>3 DEF LoopInv, OrderInv
  <2> QED
    BY <1>3, <2>1 DEF LoopInv, ResultsInv, Faithful, Omitted, IncludeKnown, Excluded
<1> QED
  BY <1>1, <1>2, <1>3 DEF LoopInv, OrderInv, ResultsInv, AuditInv, GreenIsEarned

\* A status of a faithful result tells how the test ended.
LEMMA StatusTells ==
  ASSUME NEW d \in Drivers, NEW t \in Tests, NEW tests, Faithful(d, tests)
  PROVE  /\ tests[t] = "disabled" => t \in Omitted(d)
         /\ tests[t] = "passed" => truth[d][t] = "passed"
         /\ tests[t] = "failed" => truth[d][t] \in {"failed", "crashed"}
  BY DEF Faithful, Classify, AllOutcomes

\* A passing or disabled result needs no attention.
LEMMA QuietIsTolerable ==
  ASSUME TypeInv, NEW d \in Drivers, NEW t \in Tests, NEW tests, Faithful(d, tests),
         tests[t] \in {"passed", "disabled"}
  PROVE  Tolerable(d, t)
<1>1. CASE tests[t] = "passed"
  BY <1>1, StatusTells DEF Tolerable, Tolerance, Ends, AllOutcomes
<1>2. CASE tests[t] = "disabled"
  <2>1. t \in Omitted(d)
    BY <1>2, StatusTells
  <2> QED
    BY <2>1 DEF Omitted, IncludeKnown, Tolerable, Tolerance, TypeInv, TypeOK
<1> QED
  BY <1>1, <1>2

LEMMA LoopStep == TypeInv /\ LoopInv /\ [Next]_vars => LoopInv'
<1> SUFFICES ASSUME TypeInv, LoopInv, [Next]_vars PROVE LoopInv'
  OBVIOUS
<1> USE DEF LoopInv
<1>1. ASSUME NEW m \in Modes, NEW reg \in Registries, NEW source \in {"main", "pinned"},
             Begin(m, reg, source)
      PROVE  LoopInv'
  BY <1>1 DEF Begin, OrderInv, ReportInv, ResultsInv, AuditInv, GreenIsEarned,
              Drivers, Reference, Rust
<1>2. ASSUME NEW m \in Modes, NEW reg \in Registries, NEW source \in {"main", "pinned"},
             Refuse(m, reg, source)
      PROVE  LoopInv'
  BY <1>2 DEF Refuse, OrderInv, ReportInv, ResultsInv, AuditInv, GreenIsEarned
<1>3. ASSUME Prepare PROVE LoopInv'
  <2>1. OrderInv'
    BY <1>3 DEF Prepare, OrderInv
  <2>2. ReportInv'
    BY <1>3 DEF Prepare, ReportInv, TypeInv, TypeOK
  <2>3. ResultsInv'
    BY <1>3 DEF Prepare, ResultsInv, Faithful, Omitted, IncludeKnown, Excluded
  <2> QED
    BY <1>3, <2>1, <2>2, <2>3 DEF Prepare, OrderInv, AuditInv, GreenIsEarned
<1>4. ASSUME PrepareFails PROVE LoopInv'
  BY <1>4, RecordInv, NoneAssumption DEF PrepareFails, ErrorRun
<1>5. ASSUME CtestCompletes PROVE LoopInv'
  <2> DEFINE S == Selected(driver)
  <2>1. PICK ends \in [S -> Outcomes] :
          /\ TestsRun(S, ends)
          /\ ctestXml' = [ctestXml EXCEPT ![driver] = [wellFormed |-> TRUE, cases |-> ends]]
    BY <1>5 DEF CtestCompletes
  <2>2. S \in SUBSET Tests
    BY SelectedIsExpected DEF TypeInv, TypeOK, Expected
  <2>3. ctestXml'[driver].cases = ends
    BY <2>1 DEF TypeInv, TypeOK
  <2> QED
    BY <1>5, <2>1, <2>2, <2>3, TestsRunInv, CtestInv DEF CtestCompletes
<1>6. ASSUME CtestMisbehaves PROVE LoopInv'
  <2>1. PICK ran \in SUBSET Tests : \E ends \in [ran -> Outcomes] :
          /\ TestsRun(ran, ends)
          /\ \E report \in {ctestXml[driver], Unreadable, [wellFormed |-> TRUE, cases |-> ends]} :
                ctestXml' = [ctestXml EXCEPT ![driver] = report]
    BY <1>6 DEF CtestMisbehaves
  <2>2. PICK ends \in [ran -> Outcomes] :
          /\ TestsRun(ran, ends)
          /\ \E report \in {ctestXml[driver], Unreadable, [wellFormed |-> TRUE, cases |-> ends]} :
                ctestXml' = [ctestXml EXCEPT ![driver] = report]
    BY <2>1
  <2>3. /\ \A d \in Drivers \ {driver} : truth'[d] = truth[d]
        /\ \A t \in ran : truth'[driver][t] = ends[t]
    BY <1>6, <2>2, TestsRunInv DEF CtestMisbehaves
  <2>4. ctestXml'[driver] # None => \A t \in DOMAIN ctestXml'[driver].cases :
            ctestXml'[driver].cases[t] = truth'[driver][t]
    BY <1>6, <2>2, <2>3 DEF CtestMisbehaves, ReportInv, Unreadable, TypeInv, TypeOK
  <2> QED
    BY <1>6, <2>3, <2>4, CtestInv DEF CtestMisbehaves
<1>7. ASSUME CtestTimesOut PROVE LoopInv'
  <2>1. PICK hung \in Selected(driver) :
          \E ran \in SUBSET (Selected(driver) \ {hung}) :
            \E ends \in [ran -> Outcomes] : TestsRun(ran, ends)
    BY <1>7 DEF CtestTimesOut
  <2>2. Selected(driver) \subseteq Tests
    BY SelectedIsExpected DEF TypeInv, TypeOK, Expected
  <2>3. \A d \in Drivers \ {driver} : truth'[d] = truth[d]
    BY <1>7, <2>1, <2>2, TestsRunInv DEF CtestTimesOut
  <2> QED
    BY <1>7, <2>3, RecordInv, NoneAssumption DEF CtestTimesOut, ErrorRun
<1>8. ASSUME ReadReport PROVE LoopInv'
  <2> DEFINE report == ctestXml[driver]
  <2>1. CASE report # None /\ Readable(report, driver)
    <3>1. \A t \in Expected(driver) : report.cases[t] = truth[driver][t]
                                      /\ report.cases[t] \in AllOutcomes
      BY <1>8, <2>1, ComparisonAssumption
      DEF ReadReport, Readable, ReportInv, TypeInv, TypeOK, ReportType
    <3>2. Faithful(driver, Results(report, driver))
      BY <3>1 DEF Faithful, Results, Expected
    <3>3. Faithful(driver, cases)'
      BY <1>8, <2>1, <3>2 DEF ReadReport, Faithful, Omitted, IncludeKnown, Excluded
    <3>4. \A d \in Drivers : runs[d] # None /\ ~runs[d].error =>
            Faithful(d, runs[d].tests)'
      BY <1>8, <2>1 DEF ReadReport, ResultsInv, Faithful, Omitted, IncludeKnown, Excluded
    <3>5. ResultsInv'
      BY <1>8, <2>1, <3>3, <3>4 DEF ReadReport, ResultsInv
    <3> QED
      BY <1>8, <2>1, <3>5 DEF ReadReport, OrderInv, ReportInv, AuditInv, GreenIsEarned
  <2>2. CASE ~(report # None /\ Readable(report, driver))
    BY <1>8, <2>2, RecordInv, NoneAssumption DEF ReadReport, ErrorRun
  <2> QED
    BY <2>1, <2>2
<1>9. ASSUME CopyEvidence PROVE LoopInv'
  <2> DEFINE run == [error |-> FALSE, exit |-> exit, tests |-> cases]
  <2>1. run \in FinishedRuns
    BY <1>9 DEF CopyEvidence, FinishedRuns, TypeInv, TypeOK
  <2>2. run # None
    BY <2>1, NoneAssumption
  <2>3. run.tests = cases /\ Faithful(driver, cases)
    BY <1>9 DEF CopyEvidence, ResultsInv
  <2> QED
    BY <1>9, <2>2, <2>3, RecordInv DEF CopyEvidence
<1>10. ASSUME CopyFails PROVE LoopInv'
  BY <1>10, RecordInv, NoneAssumption DEF CopyFails, ErrorRun
<1>11. ASSUME Audit PROVE LoopInv'
  <2>1. OrderInv' /\ ReportInv' /\ GreenIsEarned'
    BY <1>11 DEF Audit, OrderInv, ReportInv, GreenIsEarned
  <2>2. ResultsInv'
    BY <1>11 DEF Audit, ResultsInv, Faithful, Omitted, IncludeKnown, Excluded
  <2>3. ASSUME mode = "audit", AuditResults.infrastructure = {},
               AuditResults.unexpected = {}, NEW d \in Drivers, NEW t \in Tests
        PROVE  Tolerable(d, t)
    <3>1. ~InfrastructureError(runs[d])
      BY <2>3 DEF AuditResults
    <3>2. runs[d] \in FinishedRuns
      BY <1>11, <3>1 DEF Audit, InfrastructureError, OrderInv, ErrorRun, RunType,
                         TypeInv, TypeOK
    <3>3. <<d, t>> \in Audited /\ StatusOf(d, t) = runs[d].tests[t]
      BY <3>2 DEF Audited, StatusOf, FinishedRuns
    <3>4. Faithful(d, runs[d].tests)
      BY <1>11, <3>1 DEF Audit, InfrastructureError, OrderInv, ResultsInv
    <3>5. \/ Known(d, t) /\ runs[d].tests[t] \in {"passed", "failed"}
          \/ runs[d].tests[t] \in {"passed", "disabled"}
      BY <2>3, <3>3 DEF AuditResults
    <3>6. CASE Known(d, t) /\ runs[d].tests[t] = "failed"
      BY <2>3, <3>4, <3>6, StatusTells DEF Known, Tolerable, Tolerance
    <3>7. CASE runs[d].tests[t] \in {"passed", "disabled"}
      BY <3>4, <3>7, QuietIsTolerable
    <3> QED
      BY <3>5, <3>6, <3>7
  <2>4. AuditInv'
    BY <1>11, <2>3 DEF Audit, AuditInv, Tolerable, Tolerance, Excluded
  <2> QED
    BY <2>1, <2>2, <2>4
<1>12. ASSUME Conclude PROVE LoopInv'
  <2>1. OrderInv' /\ ReportInv' /\ AuditInv'
    BY <1>12 DEF Conclude, OrderInv, ReportInv, AuditInv
  <2>2. ResultsInv'
    BY <1>12 DEF Conclude, ResultsInv, Faithful, Omitted, IncludeKnown, Excluded
  <2>3. ASSUME ~ExitStatus, NEW d \in Drivers, NEW t \in Tests
        PROVE  Tolerable(d, t)
    <3>1. CASE mode = "audit"
      BY <1>12, <2>3, <3>1 DEF Conclude, ExitStatus, AuditInv
    <3>2. CASE mode # "audit"
      <4>1. runs[d].exit = 0 /\ ~SomeBad(runs[d])
        BY <2>3, <3>2 DEF ExitStatus
      <4>2. runs[d] \in FinishedRuns
        BY <1>12, <4>1 DEF Conclude, OrderInv, ErrorRun, RunType, TypeInv, TypeOK
      <4>3. runs[d].tests[t] \in {"passed", "disabled"}
        BY <4>1, <4>2 DEF SomeBad, Bad, FinishedRuns, Statuses
      <4>4. Faithful(d, runs[d].tests)
        BY <1>12, <4>2 DEF Conclude, OrderInv, ResultsInv, FinishedRuns
      <4> QED
        BY <4>3, <4>4, QuietIsTolerable
    <3> QED
      BY <3>1, <3>2
  <2>4. GreenIsEarned'
    BY <1>12, <2>3 DEF Conclude, GreenIsEarned, Tolerable, Tolerance, Excluded
  <2> QED
    BY <2>1, <2>2, <2>4
<1>13. ASSUME NEW o \in orphans, OrphanEnds(o) PROVE LoopInv'
  BY <1>13 DEF OrphanEnds, OrderInv, ReportInv, ResultsInv, AuditInv, GreenIsEarned,
               Faithful, Omitted, IncludeKnown, Excluded, Tolerable, Tolerance
<1>14. ASSUME Dies PROVE LoopInv'
  BY <1>14 DEF Dies, OrderInv, ReportInv, ResultsInv, AuditInv, GreenIsEarned,
               Faithful, Omitted, IncludeKnown, Excluded
<1>15. CASE UNCHANGED vars
  BY <1>15 DEF vars, OrderInv, ReportInv, ResultsInv, AuditInv, GreenIsEarned,
               Faithful, Omitted, IncludeKnown, Excluded, Tolerable, Tolerance
<1> QED
  BY <1>1, <1>2, <1>3, <1>4, <1>5, <1>6, <1>7, <1>8, <1>9, <1>10, <1>11, <1>12,
     <1>13, <1>14, <1>15 DEF Next, Step, Ctest

LEMMA Invariant == Spec => []IInv
<1>1. TypeInv /\ LoopInv /\ [Next]_vars => TypeInv' /\ LoopInv'
  BY TypeStep, LoopStep
<1>2. Init => TypeInv /\ LoopInv
  BY TypeInit, LoopInit
<1>3. TypeInv /\ LoopInv => IInv
  BY DEF TypeInv, IInv
<1> QED
  BY <1>1, <1>2, <1>3, PTL DEF Spec

(* compare.py exits 0 only if every test of the inventory really ended in a *)
(* tolerated way on both drivers: whatever CTest reports, exits with or     *)
(* leaves behind, for every inventory, registry and number of invocations.  *)
THEOREM GreenIsEarnedAlways == Spec => []GreenIsEarned
<1>1. IInv => GreenIsEarned
  BY DEF IInv, LoopInv
<1> QED
  BY Invariant, <1>1, PTL

(* In particular a green comparison means that the readiness test passed on *)
(* both drivers: no registry that loads can excuse it.                     *)
GreenMeansConnected ==
    verdict = "green" => \A d \in Drivers : truth[d][Connection] = "passed"

THEOREM GreenMeansConnectedAlways == Spec => []GreenMeansConnected
<1>1. IInv => GreenMeansConnected
  <2>1. ASSUME IInv, NEW d \in Drivers PROVE Tolerance(d, Connection) = {"passed"}
    BY <2>1 DEF IInv, RegistryInv, Tolerance
  <2> QED
    BY <2>1, InventoryAssumption
    DEF IInv, LoopInv, GreenIsEarned, GreenMeansConnected, Tolerable
<1> QED
  BY Invariant, <1>1, PTL

-----------------------------------------------------------------------------
(* The comparison implements the safety part of ComparisonPromise.         *)

LEMMA ToleranceType ==
  ASSUME RegistryInv
  PROVE  Promise!TolerancesOK
<1>1. \A d \in Drivers, t \in Tests : Tolerance(d, t) \in SUBSET Ends
  BY DEF Tolerance, Ends, AllOutcomes
<1>2. \A d \in Drivers : Tolerance(d, Connection) = {"passed"}
  BY DEF RegistryInv, Tolerance
<1> QED
  BY <1>1, <1>2, InventoryAssumption DEF Promise!TolerancesOK

LEMMA PromiseInit == Init => Promise!Init
<1> SUFFICES ASSUME Init PROVE Promise!Init
  OBVIOUS
<1>1. RegistryInv
  BY TypeInit DEF TypeInv
<1>2. {d \in Drivers : runs[d] # None} = {}
  BY DEF Init
<1> QED
  BY <1>1, <1>2, ToleranceType DEF Init, Promise!Init, Promise!Untouched

\* Tolerance changes only with the mode and the registry.
LEMMA SameTolerance ==
  ASSUME UNCHANGED <<mode, registry>>
  PROVE  [d \in Drivers |-> [t \in Tests |-> Tolerance(d, t)]]'
            = [d \in Drivers |-> [t \in Tests |-> Tolerance(d, t)]]
  BY DEF Tolerance, Excluded

\* A step of run_driver is a step of the turn of its driver.
LEMMA PromiseTry ==
  ASSUME IInv, IInv', pc \in {"prepare", "ctest", "read", "copy"}, pc' # "idle",
         UNCHANGED <<mode, registry, verdict>>,
         \A d \in Drivers \ {driver} : truth'[d] = truth[d] /\ runs'[d] = runs[d]
  PROVE  Promise!Try(driver)
<1>1. driver \in Drivers /\ runs[driver] = None
  BY DEF IInv, TypeOK, LoopInv, OrderInv
<1>2. {d \in Drivers : runs[d] # None}' \in
        {{d \in Drivers : runs[d] # None}, {d \in Drivers : runs[d] # None} \cup {driver}}
  BY <1>1
<1>3. truth' \in [Drivers -> [Tests -> Ends]]
  BY DEF IInv, TypeOK
<1> QED
  BY <1>1, <1>2, <1>3, SameTolerance DEF Promise!Try, Promise!Realities

LEMMA RecordTouches ==
  ASSUME IInv, NEW run, Record(run)
  PROVE  pc' # "idle" /\ \A d \in Drivers \ {driver} : runs'[d] = runs[d]
  BY DEF Record, IInv, TypeOK

LEMMA TestsRunTouches ==
  ASSUME IInv, NEW ran, NEW ends, TestsRun(ran, ends)
  PROVE  \A d \in Drivers \ {driver} : truth'[d] = truth[d]
  BY DEF TestsRun, IInv, TypeOK

LEMMA PromiseStep == IInv /\ IInv' /\ [Next]_vars => [Promise!Next]_(Promise!vars)
<1> SUFFICES ASSUME IInv, IInv', [Next]_vars PROVE [Promise!Next]_(Promise!vars)
  OBVIOUS
<1>1. ASSUME NEW m \in Modes, NEW reg \in Registries, NEW source \in {"main", "pinned"},
             Begin(m, reg, source)
      PROVE  Promise!Start
  <2>1. Promise!TolerancesOK'
    BY ToleranceType, PTL DEF IInv
  <2>2. {d \in Drivers : runs[d] # None}' = {}
    BY <1>1 DEF Begin
  <2> QED
    BY <1>1, <2>1, <2>2 DEF Begin, Promise!Start, Promise!Untouched
<1>2. ASSUME NEW m \in Modes, NEW reg \in Registries, NEW source \in {"main", "pinned"},
             Refuse(m, reg, source)
      PROVE  Promise!Refuse
  <2>1. {d \in Drivers : runs[d] # None}' = {}
    BY <1>2 DEF Refuse
  <2> QED
    BY <1>2, <2>1 DEF Refuse, Promise!Refuse, Promise!Untouched
<1>3. ASSUME Prepare \/ PrepareFails \/ Ctest \/ ReadReport \/ CopyEvidence \/ CopyFails
      PROVE  Promise!Try(driver)
  <2>2. CASE Prepare
    BY <2>2, PromiseTry DEF Prepare
  <2>3. CASE PrepareFails
    BY <2>3, PromiseTry, RecordTouches DEF PrepareFails
  <2>4. CASE CtestCompletes
    BY <2>4, PromiseTry, TestsRunTouches DEF CtestCompletes
  <2>5. CASE CtestMisbehaves
    BY <2>5, PromiseTry, TestsRunTouches DEF CtestMisbehaves
  <2>6. CASE CtestTimesOut
    BY <2>6, PromiseTry, RecordTouches, TestsRunTouches DEF CtestTimesOut
  <2>7. CASE ReadReport
    <3>1. pc' # "idle" /\ \A d \in Drivers \ {driver} : runs'[d] = runs[d]
      BY <2>7, RecordTouches DEF ReadReport
    <3> QED
      BY <2>7, <3>1, PromiseTry DEF ReadReport
  <2>8. CASE CopyEvidence
    BY <2>8, PromiseTry, RecordTouches DEF CopyEvidence
  <2>9. CASE CopyFails
    BY <2>9, PromiseTry, RecordTouches DEF CopyFails
  <2> QED
    BY <1>3, <2>2, <2>3, <2>4, <2>5, <2>6, <2>7, <2>8, <2>9 DEF Ctest
<1>4. ASSUME Conclude PROVE Promise!Conclude
  <2>1. {d \in Drivers : runs[d] # None} = Drivers
    BY <1>4 DEF Conclude, IInv, LoopInv, OrderInv
  <2>2. {d \in Drivers : runs[d] # None}' = {d \in Drivers : runs[d] # None}
    BY <1>4 DEF Conclude
  <2>3. verdict' = "green" => Promise!Tolerable
    BY <1>4 DEF Conclude, IInv, LoopInv, GreenIsEarned, Tolerable, Tolerance, Excluded,
                Promise!Tolerable
  <2> QED
    BY <1>4, <2>1, <2>2, <2>3, SameTolerance DEF Conclude, Promise!Conclude
<1>5. ASSUME Dies PROVE Promise!Die
  <2>1. {d \in Drivers : runs[d] # None}' = {d \in Drivers : runs[d] # None}
    BY <1>5 DEF Dies
  <2> QED
    BY <1>5, <2>1, SameTolerance DEF Dies, Promise!Die
<1>6. ASSUME Audit \/ (\E o \in orphans : OrphanEnds(o)) \/ UNCHANGED vars
      PROVE  UNCHANGED Promise!vars
  <2>1. /\ UNCHANGED <<mode, registry, runs, truth, verdict>>
        /\ pc' = pc \/ (pc # "idle" /\ pc' # "idle")
    BY <1>6 DEF Audit, OrphanEnds, vars
  <2>2. {d \in Drivers : runs[d] # None}' = {d \in Drivers : runs[d] # None}
    BY <2>1
  <2> QED
    BY <2>1, <2>2, SameTolerance DEF Promise!vars
<1>7. driver \in Drivers
  BY DEF IInv, TypeOK
<1>8. ASSUME Promise!Try(driver) PROVE Promise!Next
  <2>1. \E d \in Drivers : Promise!Try(d)
    BY <1>7, <1>8 DEF Promise!Try
  <2> QED
    BY <2>1 DEF Promise!Next
<1>9. CASE Step
  BY <1>3, <1>4, <1>6, <1>8, <1>9 DEF Step, Promise!Next
<1>10. CASE Next
  BY <1>1, <1>2, <1>5, <1>6, <1>9, <1>10 DEF Next, Promise!Next
<1> QED
  BY <1>6, <1>10

(* Every behaviour of compare.py is one of ComparisonPromise: both drivers  *)
(* get their turn before the verdict, and green is given only when earned. *)
THEOREM ComparisonKeepsPromise == Spec => Promise!Safety
<1>1. IInv /\ IInv' /\ [Next]_vars => [Promise!Next]_(Promise!vars)
  BY PromiseStep
<1> QED
  BY PromiseInit, <1>1, Invariant, PTL DEF Spec, Promise!Safety

-----------------------------------------------------------------------------
(* The audit and the cause of a red verdict.                               *)

\* The audit is made in audit mode, after both drivers had their turn, and
\* what it was made from does not change while it is kept.
KeptInv ==
    /\ audit # None =>
        /\ pc \in {"write", "idle"}
        /\ mode = "audit"
        /\ audit = AuditResults
        /\ \A d \in Drivers : runs[d] # None
    /\ pc = "write" /\ mode = "audit" => audit = AuditResults

RecordsInv == KeptInv /\ RedHasCause

LEMMA RecordsInit == Init => RecordsInv
  BY DEF Init, RecordsInv, KeptInv, RedHasCause, ReadsWhatItRan

\* The class of a case depends on the runs and the registry only.
LEMMA SameAudit ==
  ASSUME UNCHANGED <<runs, registry>>
  PROVE  AuditResults' = AuditResults
  BY DEF AuditResults, Audited, Known, StatusOf, Excluded, IssueOf,
         InfrastructureError, SomeBad

\* A result other than passed or disabled is of a test that was expected, and
\* did not pass.
LEMMA BadTells ==
  ASSUME NEW d \in Drivers, NEW t \in Tests, NEW tests, Faithful(d, tests)
  PROVE  /\ tests[t] \in {"passed", "failed", "skipped", "disabled"}
         /\ Bad(tests[t]) => t \notin Omitted(d) /\ truth[d][t] # "passed"
         /\ tests[t] = "skipped" => truth[d][t] \in {"skipped", "notrun"}
         /\ tests[t] = "disabled" <=> t \in Omitted(d)
         /\ tests[t] = "passed" <=> t \notin Omitted(d) /\ truth[d][t] = "passed"
         /\ tests[t] = "failed" <=>
                t \notin Omitted(d) /\ truth[d][t] \in {"failed", "crashed"}
  BY DEF Faithful, Classify, AllOutcomes, Bad

\* The results of a driver whose run did not raise.
LEMMA ResultsOf ==
  ASSUME IInv, NEW d \in Drivers, runs[d] # None, ~runs[d].error
  PROVE  /\ DOMAIN runs[d].tests = Tests
         /\ Faithful(d, runs[d].tests)
         /\ runs[d].exit \in ExitCodes
<1>1. runs[d] \in FinishedRuns
  BY DEF IInv, TypeOK, RunType, ErrorRun
<1>2. Faithful(d, runs[d].tests)
  BY DEF IInv, LoopInv, ResultsInv
<1> QED
  BY <1>1, <1>2 DEF FinishedRuns

\* A bad result of an expected test is tolerated of a known failure only.
LEMMA BadIsIntolerable ==
  ASSUME IInv, NEW d \in Drivers, NEW t \in Tests, t \notin Omitted(d),
         truth[d][t] # "passed",
         ~(mode = "audit" /\ Known(d, t) /\ truth[d][t] \in {"failed", "crashed"})
  PROVE  ~Tolerable(d, t)
  BY DEF IInv, TypeOK, AllModes, Omitted, IncludeKnown, Tolerable, Tolerance, Known,
         Drivers, Reference, Rust

\* CTest's 0 and 8 tell whether some expected test has a bad end.
LEMMA CauseOfExit ==
  ASSUME IInv, NEW d \in Drivers, runs[d] # None, ~runs[d].error,
         InfrastructureError(runs[d])
  PROVE  ~ExitFollows(d)
<1>1. CASE runs[d].exit \notin {0, 8}
  BY <1>1 DEF ExitFollows
<1>2. CASE runs[d].exit = 8 /\ ~SomeBad(runs[d])
  <2>1. \A t \in Expected(d) : truth[d][t] \in {"passed", "skipped"}
    <3> SUFFICES ASSUME NEW t \in Expected(d) PROVE truth[d][t] = "passed"
      OBVIOUS
    <3>1. t \in Tests /\ t \notin Omitted(d)
      BY DEF Expected
    <3>2. ~Bad(runs[d].tests[t])
      BY <1>2, <3>1, ResultsOf DEF SomeBad
    <3> QED
      BY <3>1, <3>2, ResultsOf, BadTells DEF Bad
  <2> QED
    BY <1>2, <2>1 DEF ExitFollows
<1> QED
  BY <1>1, <1>2, ResultsOf DEF InfrastructureError, ExitCodes

\* Cause(d) is what RedHasCause asks for.
Cause(d) == runs[d].error \/ ~ExitFollows(d) \/ \E t \in Tests : ~Tolerable(d, t)

LEMMA RedIsCaused ==
  ASSUME IInv, KeptInv, pc = "write", ExitStatus
  PROVE  \E d \in Drivers : Cause(d)
<1>1. \A d \in Drivers : runs[d] # None
  BY DEF IInv, LoopInv, OrderInv
<1>2. CASE mode = "audit"
  <2>1. audit = AuditResults
    BY <1>2 DEF KeptInv
  <2>2. ASSUME NEW d \in Drivers, InfrastructureError(runs[d]) PROVE Cause(d)
    BY <1>1, <2>2, CauseOfExit DEF Cause
  <2>3. ASSUME NEW c \in Audited,
               ~(Known(c[1], c[2]) /\ StatusOf(c[1], c[2]) \in {"passed", "failed"}),
               StatusOf(c[1], c[2]) \notin {"passed", "disabled"}
        PROVE  c[1] \in Drivers /\ Cause(c[1])
    <3> DEFINE d == c[1]
               t == c[2]
    <3>1. d \in Drivers /\ t \in Tests /\ ~runs[d].error
      BY <2>3 DEF Audited
    <3>2. Faithful(d, runs[d].tests) /\ StatusOf(d, t) = runs[d].tests[t]
      BY <1>1, <3>1, ResultsOf DEF StatusOf
    <3>3. /\ t \notin Omitted(d) /\ truth[d][t] # "passed"
          /\ ~(Known(d, t) /\ truth[d][t] \in {"failed", "crashed"})
      <4> HIDE DEF d, t
      <4> QED
        BY <2>3, <3>1, <3>2, BadTells DEF Bad, d, t
    <3> HIDE DEF d, t
    <3>4. ~Tolerable(d, t)
      BY <3>1, <3>3, BadIsIntolerable
    <3> QED
      BY <3>1, <3>4 DEF Cause, d
  <2> QED
    BY <1>2, <2>1, <2>2, <2>3 DEF ExitStatus, AuditResults
<1>3. CASE mode # "audit"
  <2>1. PICK d \in Drivers : runs[d].exit # 0 \/ SomeBad(runs[d])
    BY <1>3 DEF ExitStatus
  <2>2. CASE runs[d].error
    BY <2>2 DEF Cause
  <2>3. CASE ~runs[d].error /\ SomeBad(runs[d])
    <3>1. PICK t \in Tests : Bad(runs[d].tests[t])
      BY <1>1, <2>3, ResultsOf DEF SomeBad
    <3>2. t \notin Omitted(d) /\ truth[d][t] # "passed"
      BY <1>1, <2>3, <3>1, ResultsOf, BadTells
    <3>3. ~Tolerable(d, t)
      BY <1>3, <3>2, BadIsIntolerable
    <3> QED
      BY <3>3 DEF Cause
  <2>4. CASE ~runs[d].error /\ ~SomeBad(runs[d])
    <3>1. InfrastructureError(runs[d])
      BY <2>1, <2>4 DEF InfrastructureError
    <3> QED
      BY <1>1, <2>4, <3>1, CauseOfExit DEF Cause
  <2> QED
    BY <2>2, <2>3, <2>4
<1> QED
  BY <1>2, <1>3

\* The cause stays while the runs, the ends and what is tolerated do.
LEMMA SameCause ==
  ASSUME UNCHANGED <<mode, registry, runs, truth>>
  PROVE  \A d \in Drivers : Cause(d)' <=> Cause(d)
  BY DEF Cause, ExitFollows, Expected, Omitted, IncludeKnown, Excluded, Tolerable, Tolerance

\* CTest was told to run what is expected of it.
LEMMA CompleteIsRead ==
  ASSUME TypeInv, CtestCompletes
  PROVE  ReadsWhatItRan'
<1>1. PICK ends \in [Selected(driver) -> Outcomes] :
        ctestXml' = [ctestXml EXCEPT ![driver] = [wellFormed |-> TRUE, cases |-> ends]]
  BY DEF CtestCompletes
<1>2. driver \in DOMAIN ctestXml /\ driver \in Drivers
  BY DEF TypeInv, TypeOK
<1>3. ctestXml'[driver] = [wellFormed |-> TRUE, cases |-> ends]
  BY <1>1, <1>2
<1>4. DOMAIN ends = Expected(driver)
  BY <1>1, <1>2, SelectedIsExpected
<1>5. Expected(driver)' = Expected(driver) /\ driver' = driver
  BY DEF CtestCompletes, Expected, Omitted, IncludeKnown, Excluded
<1> QED
  BY <1>3, <1>4, <1>5 DEF ReadsWhatItRan, Readable

\* The steps of the loop neither have an audit nor a verdict.
LEMMA LoopRecords ==
  ASSUME IInv, RecordsInv, pc \in {"prepare", "ctest", "read", "copy"},
         pc' \notin {"write"}, UNCHANGED <<audit, verdict>>, ReadsWhatItRan'
  PROVE  RecordsInv'
  BY DEF IInv, LoopInv, OrderInv, RecordsInv, KeptInv, RedHasCause

LEMMA RecordsStep == IInv /\ RecordsInv /\ [Next]_vars => RecordsInv'
<1> SUFFICES ASSUME IInv, RecordsInv, [Next]_vars PROVE RecordsInv'
  OBVIOUS
<1>1. ASSUME NEW m \in Modes, NEW reg \in Registries, NEW source \in {"main", "pinned"},
             Begin(m, reg, source) \/ Refuse(m, reg, source)
      PROVE  RecordsInv'
  <2>1. audit' = None /\ verdict' # "red" /\ pc' # "write"
    BY <1>1 DEF Begin, Refuse
  <2>2. ReadsWhatItRan'
    <3>1. CASE Begin(m, reg, source)
      BY <3>1 DEF Begin, ReadsWhatItRan
    <3>2. CASE Refuse(m, reg, source)
      BY <3>2 DEF Refuse, ReadsWhatItRan, RecordsInv, RedHasCause
    <3> QED
      BY <1>1, <3>1, <3>2
  <2> QED
    BY <2>1, <2>2 DEF RecordsInv, KeptInv, RedHasCause
<1>2. CASE Prepare
  BY <1>2, LoopRecords DEF Prepare, ReadsWhatItRan
<1>3. CASE PrepareFails
  BY <1>3, LoopRecords DEF PrepareFails, ReadsWhatItRan, Record
<1>4. CASE CtestCompletes
  BY <1>4, CompleteIsRead, LoopRecords DEF CtestCompletes, IInv, TypeInv
<1>5. CASE CtestMisbehaves
  <2>1. faults' # 0
    BY <1>5 DEF CtestMisbehaves, IInv, TypeOK
  <2> QED
    BY <1>5, <2>1, LoopRecords DEF CtestMisbehaves, ReadsWhatItRan
<1>6. CASE CtestTimesOut
  BY <1>6, LoopRecords DEF CtestTimesOut, ReadsWhatItRan, Record
<1>7. CASE ReadReport
  BY <1>7, LoopRecords DEF ReadReport, ReadsWhatItRan, Record
<1>8. CASE CopyEvidence
  BY <1>8, LoopRecords DEF CopyEvidence, ReadsWhatItRan, Record
<1>9. CASE CopyFails
  BY <1>9, LoopRecords DEF CopyFails, ReadsWhatItRan, Record
<1>10. CASE Audit
  <2>1. AuditResults' = AuditResults
    BY <1>10, SameAudit DEF Audit
  <2>2. \A d \in Drivers : runs[d] # None
    BY <1>10 DEF Audit, IInv, LoopInv, OrderInv
  <2>3. verdict' = "none"
    BY <1>10 DEF Audit, IInv, LoopInv, OrderInv
  <2> QED
    BY <1>10, <2>1, <2>2, <2>3 DEF Audit, RecordsInv, KeptInv, RedHasCause, ReadsWhatItRan
<1>11. CASE Conclude
  <2>1. AuditResults' = AuditResults
    BY <1>11, SameAudit DEF Conclude
  <2>2. KeptInv'
    BY <1>11, <2>1 DEF Conclude, RecordsInv, KeptInv
  <2>3. ASSUME ExitStatus PROVE \E d \in Drivers : Cause(d)'
    BY <1>11, <2>3, RedIsCaused, SameCause DEF Conclude, RecordsInv
  <2> QED
    BY <1>11, <2>2, <2>3 DEF Conclude, RecordsInv, RedHasCause, Cause, ReadsWhatItRan
<1>12. ASSUME Dies \/ (\E o \in orphans : OrphanEnds(o)) \/ UNCHANGED vars
      PROVE  RecordsInv'
  <2>1. /\ UNCHANGED <<mode, registry, runs, truth, audit>>
        /\ pc' = pc \/ pc' = "idle"
        /\ verdict' = verdict \/ verdict' = "died"
    BY <1>12 DEF Dies, OrphanEnds, vars
  <2>2. AuditResults' = AuditResults
    BY <2>1, SameAudit
  <2>3. KeptInv'
    BY <2>1, <2>2 DEF RecordsInv, KeptInv
  <2>4. \A d \in Drivers : Cause(d)' <=> Cause(d)
    BY <2>1, SameCause
  <2>5. pc' = "read" => UNCHANGED <<pc, faults, ctestXml, driver>>
    BY <1>12 DEF Dies, OrphanEnds, vars
  <2>6. \A d \in Drivers : Expected(d)' = Expected(d)
    BY <2>1 DEF Expected, Omitted, IncludeKnown, Excluded
  <2>7. ReadsWhatItRan'
    BY <2>5, <2>6 DEF ReadsWhatItRan, Readable, RecordsInv, RedHasCause, IInv, TypeOK
  <2> QED
    BY <2>1, <2>3, <2>4, <2>7 DEF RecordsInv, RedHasCause, Cause
<1> QED
  BY <1>1, <1>2, <1>3, <1>4, <1>5, <1>6, <1>7, <1>8, <1>9, <1>10, <1>11, <1>12
  DEF Next, Step, Ctest

LEMMA RecordsInvariant == Spec => [](IInv /\ RecordsInv)
<1>1. Spec => []RecordsInv
  BY RecordsInit, RecordsStep, Invariant, PTL DEF Spec
<1> QED
  BY <1>1, Invariant, PTL

(* compare.py exits 1 only for a cause, for every inventory, registry and   *)
(* mode, and whatever goes wrong with CTest.                               *)
THEOREM RedHasCauseAlways == Spec => []RedHasCause
  BY RecordsInvariant, PTL DEF RecordsInv

-----------------------------------------------------------------------------
(* The audit's classes.                                                    *)

\* In an audit no test is omitted on the Rust driver, and the excluded ones on
\* the reference.
LEMMA AuditOmits ==
  ASSUME mode = "audit"
  PROVE  Omitted(Rust) = {} /\ Omitted(Reference) = Excluded(registry, Reference)
  BY DEF Omitted, IncludeKnown, Reference, Rust

\* An audited case is any test of a driver whose run did not raise.
LEMMA AuditedIs ==
  ASSUME IInv, \A d \in Drivers : runs[d] # None
  PROVE  \A d \in Drivers, t \in Tests :
            /\ <<d, t>> \in Audited <=> ~runs[d].error
            /\ ~runs[d].error => Faithful(d, runs[d].tests)
                                 /\ StatusOf(d, t) = runs[d].tests[t]
  BY ResultsOf DEF Audited, StatusOf

\* The known cases with a given status are the excluded Rust tests with it.
LEMMA KnownWith ==
  ASSUME IInv, mode = "audit", \A d \in Drivers : runs[d] # None, NEW status
  PROVE  {c[2] : c \in {a \in Audited : Known(a[1], a[2]) /\ StatusOf(a[1], a[2]) = status}}
            = {t \in Excluded(registry, Rust) :
                    ~runs[Rust].error /\ runs[Rust].tests[t] = status}
<1> DEFINE L == {a \in Audited : Known(a[1], a[2]) /\ StatusOf(a[1], a[2]) = status}
<1>1. Rust \in Drivers /\ Excluded(registry, Rust) \subseteq Tests
  BY DEF IInv, RegistryInv, Drivers
<1>2. ASSUME NEW t \in Excluded(registry, Rust), ~runs[Rust].error,
             runs[Rust].tests[t] = status
      PROVE  <<Rust, t>> \in L /\ t = <<Rust, t>>[2]
  BY <1>1, <1>2, AuditedIs DEF Known
<1>3. ASSUME NEW c \in L
      PROVE  /\ c[2] \in Excluded(registry, Rust)
             /\ ~runs[Rust].error /\ runs[Rust].tests[c[2]] = status
  <2>1. c[1] = Rust /\ c[2] \in Excluded(registry, Rust) /\ StatusOf(c[1], c[2]) = status
    BY DEF Known
  <2>2. ~runs[Rust].error
    BY <2>1 DEF Audited
  <2> QED
    BY <1>1, <2>1, <2>2, AuditedIs
<1> DEFINE E == {t \in Excluded(registry, Rust) :
                    ~runs[Rust].error /\ runs[Rust].tests[t] = status}
<1>4. {c[2] : c \in L} \subseteq E
  BY <1>3
<1>5. E \subseteq {c[2] : c \in L}
  <2> SUFFICES ASSUME NEW t \in E PROVE t \in {c[2] : c \in L}
    OBVIOUS
  <2>1. <<Rust, t>> \in L /\ t = <<Rust, t>>[2]
    BY <1>2
  <2> HIDE DEF L
  <2> QED
    BY <2>1
<1> QED
  BY <1>4, <1>5

LEMMA AuditTells == IInv /\ KeptInv => AuditIsAccurate
<1> SUFFICES ASSUME IInv, KeptInv, audit # None PROVE AuditIsAccurate
  BY DEF AuditIsAccurate
<1>1. mode = "audit" /\ audit = AuditResults /\ \A d \in Drivers : runs[d] # None
  BY DEF KeptInv
<1>2. Rust \in Drivers /\ Reference \in Drivers /\ Rust # Reference
  BY DEF Drivers, Rust, Reference
<1>3. \A d \in Drivers : Excluded(registry, d) \subseteq Tests
  BY DEF IInv, RegistryInv
<1>4. ASSUME ~runs[Rust].error, NEW t \in Tests
      PROVE  /\ runs[Rust].tests[t] = "passed" <=> truth[Rust][t] = "passed"
             /\ runs[Rust].tests[t] = "failed" <=> truth[Rust][t] \in {"failed", "crashed"}
  BY <1>1, <1>2, <1>4, ResultsOf, BadTells, AuditOmits
<1> DEFINE KnownAs(status) ==
        {a \in Audited : Known(a[1], a[2]) /\ StatusOf(a[1], a[2]) = status}
<1>5. {r.test : r \in audit.recoveries} = {c[2] : c \in KnownAs("passed")}
  <2> DEFINE Recovery(t) == [test |-> t, issue |-> IssueOf(registry, Rust, t),
                             reference |-> StatusOf(Reference, t)]
  <2>1. audit.recoveries = {Recovery(c[2]) : c \in KnownAs("passed")}
    BY <1>1 DEF AuditResults
  <2>2. \A c \in KnownAs("passed") : Recovery(c[2]).test = c[2]
    OBVIOUS
  <2> HIDE DEF KnownAs, Recovery
  <2>3. \A r \in audit.recoveries : r.test \in {c[2] : c \in KnownAs("passed")}
    BY <2>1, <2>2
  <2>4. ASSUME NEW c \in KnownAs("passed") PROVE c[2] \in {r.test : r \in audit.recoveries}
    <3>1. Recovery(c[2]) \in audit.recoveries /\ Recovery(c[2]).test = c[2]
      BY <2>1, <2>2
    <3> QED
      BY <3>1
  <2> QED
    BY <2>3, <2>4
<1>6. {r.test : r \in audit.recoveries} = ReallyRecovered
  BY <1>1, <1>2, <1>3, <1>4, <1>5, KnownWith DEF ReallyRecovered
<1>7. audit.expected = {t \in Excluded(registry, Rust) :
                            ~runs[Rust].error /\ truth[Rust][t] \in {"failed", "crashed"}}
  <2>1. audit.expected = {c[2] : c \in KnownAs("failed")}
    BY <1>1 DEF AuditResults
  <2>2. {c[2] : c \in KnownAs("failed")} = {t \in Excluded(registry, Rust) :
                            ~runs[Rust].error /\ runs[Rust].tests[t] = "failed"}
    BY <1>1, KnownWith
  <2> HIDE DEF KnownAs
  <2> QED
    BY <1>2, <1>3, <1>4, <2>1, <2>2
<1>8. ASSUME NEW d \in Drivers, NEW t \in Tests
      PROVE  <<d, t>> \in audit.unexpected <=> ~runs[d].error /\ ~Tolerable(d, t)
  <2>1. <<d, t>> \in audit.unexpected <=>
            /\ ~runs[d].error
            /\ ~(Known(d, t) /\ StatusOf(d, t) \in {"passed", "failed"})
            /\ StatusOf(d, t) \notin {"passed", "disabled"}
    BY <1>1, AuditedIs DEF AuditResults
  <2>2. CASE ~runs[d].error
    <3>1. Faithful(d, runs[d].tests) /\ StatusOf(d, t) = runs[d].tests[t]
      BY <1>1, <2>2, AuditedIs
    <3>2. CASE t \in Omitted(d)
      <4>1. t \in Excluded(registry, d) /\ d # Rust
        BY <1>1, <3>2, AuditOmits DEF Drivers
      <4>2. Tolerable(d, t)
        BY <1>1, <4>1 DEF IInv, TypeOK, Tolerable, Tolerance
      <4> QED
        BY <2>1, <3>1, <3>2, <4>2, BadTells
    <3>3. CASE t \notin Omitted(d) /\ truth[d][t] = "passed"
      <4>1. Tolerable(d, t)
        BY <3>3 DEF Tolerable, Tolerance, Ends, AllOutcomes
      <4> QED
        BY <2>1, <3>1, <3>3, <4>1, BadTells
    <3>4. CASE t \notin Omitted(d) /\ truth[d][t] # "passed"
      <4>1. CASE Known(d, t) /\ truth[d][t] \in {"failed", "crashed"}
        <5>1. Tolerable(d, t)
          BY <1>1, <4>1 DEF Tolerable, Tolerance, Known
        <5> QED
          BY <2>1, <3>1, <3>4, <4>1, <5>1, BadTells
      <4>2. CASE ~(Known(d, t) /\ truth[d][t] \in {"failed", "crashed"})
        <5>1. ~Tolerable(d, t)
          BY <3>4, <4>2, BadIsIntolerable
        <5> QED
          BY <2>1, <2>2, <3>1, <3>4, <4>2, <5>1, BadTells
      <4> QED
        BY <4>1, <4>2
    <3> QED
      BY <3>2, <3>3, <3>4
  <2> QED
    BY <2>1, <2>2
<1>9. audit.unexpected \subseteq Drivers \X Tests
  BY <1>1 DEF AuditResults, Audited
<1>10. audit.unexpected =
            {c \in Drivers \X Tests : ~runs[c[1]].error /\ ~Tolerable(c[1], c[2])}
  BY <1>8, <1>9
<1>11. ASSUME NEW r \in audit.recoveries
       PROVE  \/ runs[Reference].error /\ r.reference = "missing"
              \/ r.test \in Excluded(registry, Reference) /\ r.reference = "disabled"
              \/ r.reference = Classify(truth[Reference][r.test])
  <2>1. r.reference = StatusOf(Reference, r.test)
    BY <1>1 DEF AuditResults
  <2>2. r.test \in Tests
    BY <1>2, <1>3, <1>6 DEF ReallyRecovered
  <2>3. CASE runs[Reference].error
    <3>1. runs[Reference] = ErrorRun
      BY <1>1, <1>2, <2>3 DEF IInv, TypeOK, RunType, FinishedRuns
    <3> QED
      BY <2>1, <2>3, <3>1 DEF StatusOf, ErrorRun
  <2>4. CASE ~runs[Reference].error
    <3>1. /\ Faithful(Reference, runs[Reference].tests)
          /\ r.reference = runs[Reference].tests[r.test]
      BY <1>1, <1>2, <2>1, <2>2, <2>4, AuditedIs
    <3> QED
      BY <1>1, <2>2, <3>1, AuditOmits DEF Faithful
  <2> QED
    BY <2>3, <2>4
<1>12. ASSUME NEW d \in Drivers
       PROVE  InfrastructureError(runs[d]) <=>
                \/ runs[d].error
                \/ runs[d].exit \notin {0, 8}
                \/ runs[d].exit = 8 /\ \A t \in Expected(d) : truth[d][t] = "passed"
  <2>1. CASE runs[d].error
    BY <2>1 DEF InfrastructureError
  <2>2. CASE ~runs[d].error
    <3>1. Faithful(d, runs[d].tests) /\ DOMAIN runs[d].tests = Tests
      BY <1>1, <2>2, ResultsOf
    <3>2. ASSUME NEW t \in Tests
          PROVE  Bad(runs[d].tests[t]) <=> t \in Expected(d) /\ truth[d][t] # "passed"
      BY <3>1, <3>2, BadTells DEF Expected, Bad
    <3>3. SomeBad(runs[d]) <=> ~\A t \in Expected(d) : truth[d][t] = "passed"
      BY <3>1, <3>2 DEF SomeBad, Expected
    <3> QED
      BY <2>2, <3>3 DEF InfrastructureError
  <2> QED
    BY <2>1, <2>2
<1>13. audit.infrastructure = {d \in Drivers : InfrastructureError(runs[d])}
  BY <1>1 DEF AuditResults
<1> QED
  BY <1>6, <1>7, <1>10, <1>11, <1>12, <1>13 DEF AuditIsAccurate

(* The audit's classes are what happened, for every inventory and registry, *)
(* and whatever goes wrong with CTest.                                     *)
THEOREM AuditIsAccurateAlways == Spec => []AuditIsAccurate
  BY RecordsInvariant, AuditTells, PTL DEF RecordsInv

-----------------------------------------------------------------------------
(* The evidence.                                                           *)

Tag(d) == [driver |-> d, invocation |-> invocation]

\* Nothing of a driver has run before its turn; without time-outs nothing is
\* left behind, so that after CTest the XML of a test is of this run.
WritesInv ==
    /\ pc \in {"prepare", "ctest"} => \A t \in Tests : truth[driver][t] = "unstarted"
    /\ pc \in {"prepare", "ctest", "read", "copy"} /\ driver = Reference =>
        \A t \in Tests : truth[Rust][t] = "unstarted"
    /\ timeouts = 0 => orphans = {}
    /\ timeouts = 0 /\ pc \in {"read", "copy"} =>
        \A t \in Tests : WritesXml(truth[driver][t]) => buildXml[t] = Tag(driver)

EvidenceInv == WritesInv /\ FreshEvidenceWins

LEMMA EvidenceInit == Init => EvidenceInv
  BY DEF Init, EvidenceInv, WritesInv, FreshEvidenceWins

\* Recording an error: the evidence of the other driver stays.
LEMMA ErrorKeepsEvidence ==
  ASSUME IInv, EvidenceInv, pc \in {"prepare", "ctest", "read", "copy"}, Record(ErrorRun),
         UNCHANGED <<mode, registry, invocation>>,
         \A d \in Drivers \ {driver} : evidence'[d] = evidence[d] /\ truth'[d] = truth[d],
         timeouts' = 0 => timeouts = 0 /\ orphans' = orphans
  PROVE  EvidenceInv'
<1>1. \A d \in Drivers : runs'[d] = IF d = driver THEN ErrorRun ELSE runs[d]
  BY DEF Record, IInv, TypeOK
<1>2. FreshEvidenceWins'
  BY <1>1 DEF EvidenceInv, FreshEvidenceWins, Expected, Omitted, IncludeKnown, Excluded, ErrorRun
<1>3. WritesInv'
  <2>1. CASE driver = Reference
    <3>1. Rust \in Drivers \ {driver} /\ driver' = Rust /\ pc' = "prepare"
      BY <2>1 DEF Record, Drivers, Rust, Reference
    <3> QED
      BY <2>1, <3>1 DEF EvidenceInv, WritesInv, Rust, Reference
  <2>2. CASE driver # Reference
    BY <2>2 DEF Record, EvidenceInv, WritesInv
  <2> QED
    BY <2>1, <2>2
<1> QED
  BY <1>2, <1>3 DEF EvidenceInv

\* CTest's steps: what ran has written its XML.
LEMMA CtestKeepsEvidence ==
  ASSUME IInv, EvidenceInv, pc = "ctest", pc' = "read", NEW ran \in SUBSET Tests,
         NEW ends \in [ran -> Outcomes], TestsRun(ran, ends),
         UNCHANGED <<mode, registry, invocation, driver, runs, evidence, timeouts, orphans>>
  PROVE  EvidenceInv'
<1>1. \A d \in Drivers \ {driver} : truth'[d] = truth[d]
  BY TestsRunTouches
<1>2. driver \in Drivers /\ runs[driver] = None
  BY DEF IInv, TypeOK, LoopInv, OrderInv
<1>3. FreshEvidenceWins'
  BY <1>1, <1>2 DEF EvidenceInv, FreshEvidenceWins, Expected, Omitted, IncludeKnown, Excluded
<1>4. \A t \in Tests : truth'[driver][t] = IF t \in ran THEN ends[t] ELSE "unstarted"
  BY DEF TestsRun, IInv, TypeOK, EvidenceInv, WritesInv
<1>5. ASSUME NEW t \in Tests, WritesXml(truth'[driver][t]) PROVE buildXml'[t] = Tag(driver)
  BY <1>4, <1>5 DEF TestsRun, WritesXml, Tag
<1>6. driver = Reference => truth'[Rust] = truth[Rust]
  BY <1>1 DEF Drivers, Rust, Reference
<1>7. WritesInv'
  BY <1>5, <1>6 DEF EvidenceInv, WritesInv, Tag
<1> QED
  BY <1>3, <1>7 DEF EvidenceInv

LEMMA EvidenceStep == IInv /\ EvidenceInv /\ [Next]_vars => EvidenceInv'
<1> SUFFICES ASSUME IInv, EvidenceInv, [Next]_vars PROVE EvidenceInv'
  OBVIOUS
<1> USE DEF EvidenceInv
<1>1. ASSUME NEW m \in Modes, NEW reg \in Registries, NEW source \in {"main", "pinned"},
             Begin(m, reg, source)
      PROVE  EvidenceInv'
  BY <1>1 DEF Begin, WritesInv, FreshEvidenceWins, Drivers, Reference, Rust
<1>2. ASSUME NEW m \in Modes, NEW reg \in Registries, NEW source \in {"main", "pinned"},
             Refuse(m, reg, source)
      PROVE  EvidenceInv'
  BY <1>2 DEF Refuse, WritesInv, FreshEvidenceWins
<1>3. CASE Prepare
  BY <1>3 DEF Prepare, WritesInv, FreshEvidenceWins, Expected, Omitted, IncludeKnown, Excluded
<1>4. CASE PrepareFails
  BY <1>4, ErrorKeepsEvidence DEF PrepareFails
<1>5. CASE CtestCompletes
  <2>1. Selected(driver) \in SUBSET Tests
    BY SelectedIsExpected DEF IInv, TypeOK, Expected
  <2>2. PICK ends \in [Selected(driver) -> Outcomes] : TestsRun(Selected(driver), ends)
    BY <1>5 DEF CtestCompletes
  <2> QED
    BY <1>5, <2>1, <2>2, CtestKeepsEvidence DEF CtestCompletes
<1>6. CASE CtestMisbehaves
  <2>1. PICK ran \in SUBSET Tests : \E ends \in [ran -> Outcomes] : TestsRun(ran, ends)
    BY <1>6 DEF CtestMisbehaves
  <2>2. PICK ends \in [ran -> Outcomes] : TestsRun(ran, ends)
    BY <2>1
  <2> QED
    BY <1>6, <2>2, CtestKeepsEvidence DEF CtestMisbehaves
<1>7. CASE CtestTimesOut
  <2>1. timeouts' # 0
    BY <1>7, ComparisonAssumption DEF CtestTimesOut, IInv, TypeOK
  <2>2. \A d \in Drivers \ {driver} : truth'[d] = truth[d]
    BY <1>7, TestsRunTouches DEF CtestTimesOut
  <2> QED
    BY <1>7, <2>1, <2>2, ErrorKeepsEvidence DEF CtestTimesOut
<1>8. CASE ReadReport
  <2>1. CASE Record(ErrorRun)
    BY <1>8, <2>1, ErrorKeepsEvidence DEF ReadReport
  <2>2. CASE pc' = "copy" /\ UNCHANGED <<driver, exit, runs>>
    BY <1>8, <2>2
    DEF ReadReport, WritesInv, Tag, FreshEvidenceWins, Expected, Omitted, IncludeKnown, Excluded
  <2> QED
    BY <1>8, <2>1, <2>2 DEF ReadReport
<1>9. CASE CopyEvidence
  <2>1. driver \in Drivers
    BY DEF IInv, TypeOK
  <2>2. /\ \A d \in Drivers \ {driver} : evidence'[d] = evidence[d] /\ runs'[d] = runs[d]
        /\ \A t \in Expected(driver) : buildXml[t] # None => evidence'[driver][t] = buildXml[t]
    BY <1>9, <2>1 DEF CopyEvidence, Copied, Record, IInv, TypeOK, Expected
  <2>3. Tag(driver) # None
    BY <2>1, NoneAssumption DEF Tag, XmlTags, IInv, TypeOK
  <2>4. \A t \in Tests : t \in Expected(driver) /\ WritesXml(truth[driver][t]) /\ timeouts = 0
            => evidence'[driver][t] = Tag(driver)
    BY <1>9, <2>2, <2>3 DEF CopyEvidence, WritesInv
  <2>5. FreshEvidenceWins'
    BY <1>9, <2>1, <2>2, <2>4
    DEF CopyEvidence, FreshEvidenceWins, Tag, Expected, Omitted, IncludeKnown, Excluded
  <2>6. WritesInv'
    BY <1>9 DEF CopyEvidence, Record, WritesInv, Drivers, Rust, Reference
  <2> QED
    BY <2>5, <2>6
<1>10. CASE CopyFails
  <2>1. \A d \in Drivers \ {driver} : evidence'[d] = evidence[d]
    BY <1>10 DEF CopyFails, Copied, IInv, TypeOK
  <2> QED
    BY <1>10, <2>1, ErrorKeepsEvidence DEF CopyFails
<1>11. CASE Audit \/ Conclude \/ Dies \/ UNCHANGED vars
  <2>1. /\ UNCHANGED <<mode, registry, invocation, runs, truth, evidence, timeouts, orphans, driver, buildXml>>
        /\ pc' = pc \/ pc' \in {"write", "idle"}
    BY <1>11 DEF Audit, Conclude, Dies, vars
  <2> QED
    BY <2>1 DEF WritesInv, Tag, FreshEvidenceWins, Expected, Omitted, IncludeKnown, Excluded
<1>12. ASSUME NEW o \in orphans, OrphanEnds(o) PROVE EvidenceInv'
  BY <1>12 DEF OrphanEnds, WritesInv, FreshEvidenceWins, Expected, Omitted, IncludeKnown, Excluded
<1> QED
  BY <1>1, <1>2, <1>3, <1>4, <1>5, <1>6, <1>7, <1>8, <1>9, <1>10, <1>11, <1>12
  DEF Next, Step, Ctest

(* Where a test wrote its XML in this invocation, a finished driver keeps   *)
(* that one and not a leftover, unless a CTest run had timed out: for every *)
(* inventory, registry, number of invocations and deaths between them.     *)
THEOREM FreshEvidenceAlways == Spec => []FreshEvidenceWins
<1>1. Spec => []EvidenceInv
  BY EvidenceInit, EvidenceStep, Invariant, PTL DEF Spec
<1> QED
  BY <1>1, PTL DEF EvidenceInv

-----------------------------------------------------------------------------
(* The end of an invocation.                                               *)

\* Steps from pc to the end, without the turn of the other driver.
StepsFrom == [idle |-> 0, write |-> 1, audit |-> 2, copy |-> 3, read |-> 4, ctest |-> 5,
              prepare |-> 6]

OnATurn == pc \in {"prepare", "ctest", "read", "copy"}

\* A driver's turn has four steps at most.
StepsLeft == StepsFrom[pc] + (IF OnATurn /\ driver = Reference THEN 4 ELSE 0)

LEMMA StepsLeftIs ==
    ASSUME TypeOK
    PROVE  /\ pc = "idle" => StepsLeft = 0
           /\ pc = "write" => StepsLeft = 1
           /\ pc = "audit" => StepsLeft = 2
           /\ OnATurn /\ driver = Rust => StepsLeft = StepsFrom[pc]
           /\ OnATurn /\ driver = Reference => StepsLeft = StepsFrom[pc] + 4
           /\ pc # "idle" => StepsLeft > 0
           /\ StepsLeft \in 0..10
<1>1. Reference # Rust /\ driver \in {Reference, Rust}
  BY DEF TypeOK, Drivers, Reference, Rust
<1> QED BY <1>1 DEF TypeOK, StepsLeft, StepsFrom, OnATurn

\* A turn ends: the other driver's begins, or the audit.
LEMMA TurnEnds ==
    ASSUME TypeOK, TypeOK', OnATurn, NEW run, Record(run)
    PROVE  StepsLeft' < StepsLeft
<1>1. Reference # Rust /\ driver \in {Reference, Rust}
  BY DEF TypeOK, Drivers, Reference, Rust
<1> QED BY <1>1 DEF Record, TypeOK, StepsLeft, StepsFrom, OnATurn

LEMMA InvocationComesNearer ==
    ASSUME TypeOK, TypeOK', Step \/ Dies
    PROVE  StepsLeft' < StepsLeft
<1>1. CASE PrepareFails \/ CtestTimesOut \/ CopyEvidence \/ CopyFails
  BY <1>1, TurnEnds DEF PrepareFails, CtestTimesOut, CopyEvidence, CopyFails, OnATurn
<1>2. CASE Prepare \/ CtestCompletes \/ CtestMisbehaves
  BY <1>2 DEF Prepare, CtestCompletes, CtestMisbehaves, StepsLeft, StepsFrom, OnATurn
<1>3. CASE ReadReport
  <2>1. pc = "read"
    BY <1>3 DEF ReadReport
  <2>2. Record(ErrorRun) \/ (pc' = "copy" /\ UNCHANGED driver)
    BY <1>3 DEF ReadReport
  <2> QED BY <2>1, <2>2, TurnEnds DEF StepsLeft, StepsFrom, OnATurn
<1>4. CASE Audit \/ Conclude \/ Dies
  BY <1>4 DEF Audit, Conclude, Dies, TypeOK, StepsLeft, StepsFrom, OnATurn
<1> QED BY <1>1, <1>2, <1>3, <1>4 DEF Step, Ctest

(* Every step of compare.py brings an invocation nearer to its end, whatever *)
(* CTest does and wherever an error is raised: two turns of four steps, the  *)
(* audit and the reports.  What orphans do does not hold it up.  It is what   *)
(* the liveness of KeepsPromise rests on, besides that an invocation goes on. *)
THEOREM InvocationsComeNearer ==
    Spec => /\ [](StepsLeft \in 0..10)
            /\ [][Step \/ Dies => StepsLeft' < StepsLeft]_vars
            /\ [][pc # "idle" => StepsLeft' <= StepsLeft]_vars
<1>1. TypeOK => StepsLeft \in 0..10
  BY StepsLeftIs
<1>2. TypeOK /\ TypeOK' /\ [Next]_vars => [Step \/ Dies => StepsLeft' < StepsLeft]_vars
  BY InvocationComesNearer
<1>3. TypeOK /\ TypeOK' /\ StepsLeft \in 0..10 /\ (StepsLeft \in 0..10)' /\ [Next]_vars
        => [pc # "idle" => StepsLeft' <= StepsLeft]_vars
  <2> SUFFICES ASSUME TypeOK, TypeOK', StepsLeft \in 0..10, StepsLeft' \in 0..10, Next,
                      pc # "idle"
               PROVE  StepsLeft' <= StepsLeft
    OBVIOUS
  <2>1. StepsLeft \in 0..10 /\ StepsLeft' \in 0..10
    OBVIOUS
  <2>2. CASE Step \/ Dies
    BY <2>1, <2>2, InvocationComesNearer
  <2>3. CASE \E o \in orphans : OrphanEnds(o)
    <3>1. StepsLeft' = StepsLeft
      BY <2>3 DEF OrphanEnds, StepsLeft, OnATurn
    <3> QED BY <2>1, <3>1
  <2> QED BY <2>2, <2>3 DEF Next, Begin, Refuse
<1> QED BY <1>1, <1>2, <1>3, TypeCorrect, PTL DEF Spec
=============================================================================
