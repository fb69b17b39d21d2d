--------------------------- MODULE Pipeline_proofs ---------------------------
(***************************************************************************)
(* TLAPS proofs about Pipeline, for every inventory, every set of           *)
(* registries, every number of readiness attempts and of CTest runs that go *)
(* wrong: what the second job files is true, it rejects a report only for a *)
(* cause, and a concluded audit reaches it.                                *)
(***************************************************************************)
EXTENDS Pipeline, Comparison_proofs

-----------------------------------------------------------------------------
(* compare.py in the workflow: IInv and RecordsInv, and what follows from   *)
(* its being run once.                                                     *)

\* Nothing is there before the invocation, whose mode follows the workflow's
\* kind and whose registry loaded if a test was run.
OnceInv ==
    /\ invocation = 0 =>
        pc = "idle" /\ verdict = "none" /\ audit = None /\ published = None
    /\ invocation # 0 => mode = (IF upstream THEN "audit" ELSE "pinned")
    /\ pc # "idle" \/ audit # None \/ published # None => Loads(registry, Tests)

\* A verdict comes with comparison.json, a whole one with everything in it.
PublishedInv ==
    /\ verdict \in {"green", "red"} => published # None
    /\ published # None => pc = "idle"
    /\ published # None /\ published.whole =>
        /\ \A d \in Drivers : runs[d] # None
        /\ mode = "audit" => audit # None

CoreInv == IInv /\ RecordsInv /\ OnceInv /\ PublishedInv

\* What a step of the workflow does to the state of compare.py.
Starts ==
    \E reg \in Registries :
        LET m == IF upstream THEN "audit" ELSE "pinned"
            source == IF upstream THEN "main" ELSE "pinned" IN
        Begin(m, reg, source) \/ Refuse(m, reg, source)

CoreNext == (invocation = 0 /\ Starts) \/ Step \/ Dies \/ UNCHANGED vars

LEMMA StepsOfCore == [RunNext]_<<vars, workflow>> => CoreNext /\ upstream' = upstream
  BY DEF RunNext, JobStep, Build, Attempt, StartComparison, Compare, CompareEnds, Summary,
     Upload, UploadFails, SkipReport, ReportFails, ReadReportOfAudit, CompareDies, Cancel,
     RunnerLost, Over, StepFails, workflow, CoreNext, Starts

LEMMA CoreIsComparison == upstream \in BOOLEAN /\ CoreNext => [Next]_vars
<1> SUFFICES ASSUME Starts PROVE Next
  BY DEF CoreNext, Next
<1>1. PICK reg \in Registries :
            LET m == IF upstream THEN "audit" ELSE "pinned"
                source == IF upstream THEN "main" ELSE "pinned" IN
            Begin(m, reg, source) \/ Refuse(m, reg, source)
  BY DEF Starts
<1>2. (IF upstream THEN "audit" ELSE "pinned") \in Modes
  BY KindsAssumption
<1>3. (IF upstream THEN "main" ELSE "pinned") \in {"main", "pinned"}
  OBVIOUS
<1> QED
  BY <1>1, <1>2, <1>3 DEF Next

\* The issue of an excluded test is the one of a group that loaded.
LEMMA IssueIsOne ==
  ASSUME Loads(registry, Tests), NEW t \in Excluded(registry, Rust)
  PROVE  IssueOf(registry, Rust, t) \in Issues
<1> DEFINE P(i) == t \in ToSet(registry[Rust][i].tests)
<1>1. \E i \in DOMAIN registry[Rust] : P(i)
  BY DEF Excluded
<1> DEFINE i == CHOOSE j \in DOMAIN registry[Rust] : P(j)
<1>2. i \in DOMAIN registry[Rust]
  <2> HIDE DEF P
  <2> QED
    BY <1>1
<1>3. registry[Rust][i].issue \in Issues
  BY <1>2 DEF Loads, GroupIsJustified, Drivers
<1> QED
  BY <1>3 DEF IssueOf

\* The status of a case is one of those of FinishedRuns, or missing.
LEMMA StatusType ==
  ASSUME IInv, \A d \in Drivers : runs[d] # None
  PROVE  \A d \in Drivers, t \in Tests : StatusOf(d, t) \in Statuses \cup {"missing"}
<1> SUFFICES ASSUME NEW d \in Drivers, NEW t \in Tests
             PROVE  StatusOf(d, t) \in Statuses \cup {"missing"}
  OBVIOUS
<1>1. runs[d] = ErrorRun \/ runs[d] \in FinishedRuns
  BY DEF IInv, TypeOK, RunType
<1>2. CASE runs[d] = ErrorRun
  BY <1>2 DEF ErrorRun, StatusOf
<1>3. CASE runs[d] \in FinishedRuns
  <2>1. runs[d].tests \in [Tests -> Statuses]
    BY <1>3 DEF FinishedRuns
  <2> QED
    BY <2>1 DEF StatusOf
<1> QED
  BY <1>1, <1>2, <1>3

LEMMA AuditType ==
  ASSUME IInv, Loads(registry, Tests), \A d \in Drivers : runs[d] # None
  PROVE  AuditResults \in AuditRecords /\ AuditResults # None
<1>1. Rust \in Drivers /\ Reference \in Drivers
  BY DEF Drivers
<1> DEFINE Recovery(c) == [test |-> c[2], issue |-> IssueOf(registry, Rust, c[2]),
                           reference |-> StatusOf(Reference, c[2])]
           RecordsOf == [test : Tests, issue : Issues, reference : Statuses \cup {"missing"}]
<1>2. ASSUME NEW c \in Audited, Known(c[1], c[2]) PROVE Recovery(c) \in RecordsOf
  <2>1. c[2] \in Tests /\ c[2] \in Excluded(registry, Rust)
    BY <1>2 DEF Audited, Known
  <2> QED
    BY <1>1, <2>1, IssueIsOne, StatusType
<1>3. AuditResults.recoveries \subseteq RecordsOf
  <2> HIDE DEF RecordsOf, Recovery
  <2>1. AuditResults.recoveries =
            {Recovery(c) : c \in {a \in Audited : Known(a[1], a[2])
                                                   /\ StatusOf(a[1], a[2]) = "passed"}}
    BY DEF AuditResults, Recovery
  <2> QED
    BY <1>2, <2>1
<1>4. AuditResults.expected \subseteq Tests
  BY DEF AuditResults, Audited
<1>5. AuditResults.unexpected \subseteq Drivers \X Tests
  BY DEF AuditResults, Audited
<1>6. AuditResults.infrastructure \subseteq Drivers
  BY DEF AuditResults
<1>7. AuditResults \in AuditRecords
  BY <1>3, <1>4, <1>5, <1>6 DEF AuditResults, AuditRecords
<1> QED
  BY <1>7, FilesAssumption

LEMMA CoreInit == RunInit => CoreInv
<1> SUFFICES ASSUME RunInit PROVE CoreInv
  OBVIOUS
<1>1. IInv /\ RecordsInv
  BY TypeInit, LoopInit, RecordsInit DEF RunInit, TypeInv, IInv
<1>2. OnceInv /\ PublishedInv
  BY DEF RunInit, Init, OnceInv, PublishedInv
<1> QED
  BY <1>1, <1>2 DEF CoreInv
LEMMA CoreStep ==
  ASSUME CoreInv, upstream \in BOOLEAN, CoreNext, upstream' = upstream
  PROVE  CoreInv'
<1>1. [Next]_vars
  BY CoreIsComparison
<1>2. IInv'
  BY <1>1, TypeStep, LoopStep DEF CoreInv, IInv, TypeInv
<1>3. RecordsInv'
  BY <1>1, RecordsStep DEF CoreInv
<1>4. CASE invocation = 0 /\ Starts
  <2>1. PICK reg \in Registries :
            LET m == IF upstream THEN "audit" ELSE "pinned"
                source == IF upstream THEN "main" ELSE "pinned" IN
            Begin(m, reg, source) \/ Refuse(m, reg, source)
    BY <1>4 DEF Starts
  <2>2. invocation' # 0 /\ mode' = (IF upstream THEN "audit" ELSE "pinned")
    BY <1>4, <2>1 DEF Begin, Refuse
  <2>3. audit' = None /\ published' = None /\ verdict' \in {"none", "refused"}
    BY <1>4, <2>1 DEF Begin, Refuse, CoreInv, OnceInv
  <2>4. pc' = "idle" \/ Loads(registry, Tests)'
    BY <1>4, <2>1 DEF Begin, Refuse, CoreInv, OnceInv
  <2>5. OnceInv'
    BY <2>2, <2>3, <2>4 DEF OnceInv
  <2>6. PublishedInv'
    BY <2>3 DEF PublishedInv
  <2> QED
    BY <1>2, <1>3, <2>5, <2>6 DEF CoreInv
<1>5. CASE Step
  <2>1. pc # "idle" /\ Loads(registry, Tests) /\ published = None
    BY <1>5 DEF Step, Prepare, PrepareFails, Ctest, CtestCompletes, CtestMisbehaves,
       CtestTimesOut, ReadReport, CopyEvidence, CopyFails, Audit, Conclude,
       CoreInv, OnceInv, PublishedInv
  <2>2. UNCHANGED <<invocation, mode, registry>>
    BY <1>5 DEF Step, Prepare, PrepareFails, Ctest, CtestCompletes, CtestMisbehaves,
       CtestTimesOut, ReadReport, CopyEvidence, CopyFails, Audit, Conclude
  <2>3. Loads(registry, Tests)'
    BY <2>1, <2>2 DEF Loads, Excluded, NamedOnce
  <2>4. OnceInv'
    BY <2>1, <2>2, <2>3 DEF CoreInv, OnceInv
  <2>5. CASE Conclude
    <3>1. published' = [invocation |-> invocation, whole |-> TRUE]
      BY <2>5 DEF Conclude
    <3>2. published' # None
      <4>1. invocation \in 0..MaxInvocations
        BY DEF CoreInv, IInv, TypeOK
      <4>2. published' \in [invocation : Nat, whole : BOOLEAN]
        BY <3>1, <4>1, ComparisonAssumption
      <4> QED
        BY <4>2, FilesAssumption
    <3>3. \A d \in Drivers : runs[d] # None
      BY <2>5 DEF Conclude, CoreInv, IInv, LoopInv, OrderInv
    <3>4. mode = "audit" => audit # None
      BY <2>1, <2>5, <3>3, AuditType DEF Conclude, CoreInv, RecordsInv, KeptInv
    <3> QED
      BY <2>5, <3>2, <3>3, <3>4, <1>2, <1>3, <2>4 DEF Conclude, CoreInv, PublishedInv
  <2>6. CASE ~Conclude
    <3>1. UNCHANGED <<published, verdict>>
      BY <1>5, <2>6 DEF Step, Prepare, PrepareFails, Ctest, CtestCompletes, CtestMisbehaves,
         CtestTimesOut, ReadReport, CopyEvidence, CopyFails, Audit
    <3>2. PublishedInv'
      BY <2>1, <3>1 DEF CoreInv, PublishedInv
    <3> QED
      BY <1>2, <1>3, <2>4, <3>2 DEF CoreInv
  <2> QED
    BY <2>5, <2>6
<1>6. CASE Dies
  <2>1. Loads(registry, Tests)'
    BY <1>6 DEF Dies, CoreInv, OnceInv, Loads, Excluded, NamedOnce
  <2>2. OnceInv'
    BY <1>6, <2>1 DEF Dies, CoreInv, OnceInv
  <2>3. published' = None \/ ~published'.whole
    BY <1>6 DEF Dies, CoreInv, PublishedInv
  <2>4. PublishedInv'
    BY <1>6, <2>3 DEF Dies, PublishedInv
  <2> QED
    BY <1>2, <1>3, <2>2, <2>4 DEF CoreInv
<1>7. CASE UNCHANGED vars
  <2>1. Loads(registry, Tests)' <=> Loads(registry, Tests)
    BY <1>7 DEF vars, Loads, Excluded, NamedOnce
  <2>2. OnceInv'
    BY <1>7, <2>1 DEF vars, CoreInv, OnceInv
  <2>3. PublishedInv'
    BY <1>7 DEF vars, CoreInv, PublishedInv
  <2> QED
    BY <1>2, <1>3, <2>2, <2>3 DEF CoreInv
<1> QED
  BY <1>4, <1>5, <1>6, <1>7 DEF CoreNext
-----------------------------------------------------------------------------
(* The jobs around compare.py.                                             *)

\* All of RunTypeOK but the groups.
JobType ==
    /\ upstream \in BOOLEAN /\ success \in BOOLEAN /\ auditReport \in BOOLEAN
    /\ step \in {"build", "wait", "compare", "summary", "upload", "report", "over"}
    /\ attempts \in 0..(MaxAttempts - 1)
    /\ artifact \in {"none", "whole", "half"}
    /\ reporting \in {"none", "skipped", "failed", "rejected", "accepted"}
    /\ lost \in BOOLEAN

\* The artifact is comparison.json, an audit that is concluded makes the output
\* of the job unless something is lost, and the end of the second job is the end.
HandoverInv ==
    /\ artifact # "none" =>
        /\ step \in {"report", "over"}
        /\ published # None /\ (artifact = "whole" <=> published.whole)
    /\ (step \in {"upload", "report"} /\ upstream /\ verdict \in {"green", "red"} /\ ~lost)
        => auditReport
    /\ reporting # "none" => step = "over"
    /\ reporting # "accepted" => groups = <<>>

GroupsType ==
    /\ DOMAIN groups \subseteq Issues
    /\ \A i \in DOMAIN groups : groups[i] \subseteq Tests /\ groups[i] # {}

JobInv == JobType /\ HandoverInv

\* Once the conformance job is over, compare.py takes no step.
LEMMA OverForCompare ==
  [RunNext]_<<vars, workflow>> /\ step \in {"summary", "upload", "report", "over"}
    => UNCHANGED vars
  BY DEF RunNext, JobStep, Build, Attempt, StartComparison, Compare, CompareEnds, Summary,
     Upload, UploadFails, SkipReport, ReportFails, ReadReportOfAudit, CompareDies, Cancel,
     RunnerLost, Over

LEMMA JobInit == RunInit => JobInv
<1> SUFFICES ASSUME RunInit PROVE JobInv
  OBVIOUS
<1>1. attempts \in 0..(MaxAttempts - 1)
  BY AttemptsAssumption DEF RunInit
<1>2. JobType
  BY <1>1 DEF RunInit, JobType
<1>3. HandoverInv
  BY DEF RunInit, HandoverInv
<1> QED
  BY <1>2, <1>3 DEF JobInv

LEMMA JobTypeStep == JobType /\ [RunNext]_<<vars, workflow>> => JobType'
<1> SUFFICES ASSUME JobType, [RunNext]_<<vars, workflow>> PROVE JobType'
  OBVIOUS
<1>1. CASE Build \/ Attempt \/ Cancel \/ RunnerLost
  <2>1. attempts' \in 0..(MaxAttempts - 1)
    BY <1>1, AttemptsAssumption DEF JobType, Build, Attempt, Cancel, RunnerLost
  <2> QED
    BY <1>1, <2>1 DEF JobType, Build, Attempt, Cancel, RunnerLost, StepFails
<1>2. CASE StartComparison \/ Compare \/ CompareDies \/ Over \/ UNCHANGED <<vars, workflow>>
  BY <1>2 DEF JobType, StartComparison, Compare, CompareDies, Over, workflow
<1>3. CASE CompareEnds \/ Summary
  BY <1>3 DEF JobType, CompareEnds, Summary
<1>4. CASE Upload \/ UploadFails
  BY <1>4 DEF JobType, Upload, UploadFails
<1>5. CASE SkipReport \/ ReportFails \/ ReadReportOfAudit
  BY <1>5 DEF JobType, SkipReport, ReportFails, ReadReportOfAudit
<1> QED
  BY <1>1, <1>2, <1>3, <1>4, <1>5 DEF RunNext, JobStep

LEMMA HandoverStep ==
  ASSUME CoreInv, JobInv, [RunNext]_<<vars, workflow>>
  PROVE  HandoverInv'
<1>1. CASE Build \/ Attempt
  BY <1>1 DEF JobInv, HandoverInv, Build, Attempt, StepFails
<1>2. CASE StartComparison \/ Compare \/ CompareDies
  BY <1>2 DEF JobInv, HandoverInv, StartComparison, Compare, CompareDies, workflow
<1>3. CASE Cancel \/ RunnerLost \/ CompareEnds
  BY <1>3 DEF JobInv, HandoverInv, Cancel, RunnerLost, CompareEnds, StepFails
<1>4. CASE Summary
  BY <1>4 DEF JobInv, HandoverInv, Summary, vars, CoreInv, PublishedInv
<1>5. CASE Upload
  BY <1>5 DEF JobInv, HandoverInv, Upload, vars
<1>6. CASE UploadFails \/ SkipReport \/ ReportFails
  BY <1>6 DEF JobInv, HandoverInv, UploadFails, SkipReport, ReportFails, vars
<1>7. CASE ReadReportOfAudit
  BY <1>7 DEF JobInv, HandoverInv, ReadReportOfAudit, vars
<1>8. CASE Over \/ UNCHANGED <<vars, workflow>>
  BY <1>8 DEF JobInv, HandoverInv, Over, vars, workflow
<1> QED
  BY <1>1, <1>2, <1>3, <1>4, <1>5, <1>6, <1>7, <1>8 DEF RunNext, JobStep
-----------------------------------------------------------------------------
(* What recovery_groups returns, and when it raises.                       *)

\* A recovery of the audit is of an excluded test that passed, with its issue.
LEMMA RecoveryTells ==
  ASSUME CoreInv, audit # None, ~runs[Rust].error
  PROVE  /\ \A r \in audit.recoveries : r.issue = IssueOf(registry, Rust, r.test)
         /\ {r.test : r \in audit.recoveries} = {t \in Excluded(registry, Rust) :
                                                    truth[Rust][t] = "passed"}
<1>1. audit = AuditResults
  BY DEF CoreInv, RecordsInv, KeptInv
<1>2. \A r \in AuditResults.recoveries : r.issue = IssueOf(registry, Rust, r.test)
  BY DEF AuditResults
<1>3. AuditIsAccurate
  BY AuditTells DEF CoreInv, RecordsInv
<1> QED
  BY <1>1, <1>2, <1>3 DEF AuditIsAccurate, ReallyRecovered

\* The groups have the recovered tests of every issue, and no other issue.
LEMMA GroupsTell ==
  ASSUME CoreInv, audit # None, ~runs[Rust].error
  PROVE  /\ DOMAIN RecoveryGroups = {r.issue : r \in audit.recoveries}
         /\ \A i \in DOMAIN RecoveryGroups :
                RecoveryGroups[i] = ReallyRecoveredOf(i) /\ RecoveryGroups[i] # {}
         /\ \A i : i \notin DOMAIN RecoveryGroups => ReallyRecoveredOf(i) = {}
<1> DEFINE R == audit.recoveries
           Of(i) == {r.test : r \in {s \in R : s.issue = i}}
<1>1. DOMAIN RecoveryGroups = {r.issue : r \in R}
  BY DEF RecoveryGroups
<1>2. \A i \in DOMAIN RecoveryGroups : RecoveryGroups[i] = Of(i)
  BY DEF RecoveryGroups
<1>3. ASSUME NEW i PROVE Of(i) = ReallyRecoveredOf(i)
  <2>1. ASSUME NEW r \in R, r.issue = i PROVE r.test \in ReallyRecoveredOf(i)
    BY <2>1, RecoveryTells DEF ReallyRecoveredOf
  <2>2. ASSUME NEW t \in ReallyRecoveredOf(i) PROVE \E r \in R : r.test = t /\ r.issue = i
    <3>1. t \in {r.test : r \in R}
      BY RecoveryTells DEF ReallyRecoveredOf
    <3>2. PICK r \in R : r.test = t
      BY <3>1
    <3> QED
      BY <3>2, RecoveryTells DEF ReallyRecoveredOf
  <2> HIDE DEF R
  <2> QED
    BY <2>1, <2>2
<1>4. \A i \in DOMAIN RecoveryGroups : Of(i) # {}
  <2> HIDE DEF R
  <2> QED
    BY <1>1
<1>5. \A i : i \notin DOMAIN RecoveryGroups => Of(i) = {}
  <2> HIDE DEF R
  <2> QED
    BY <1>1
<1> HIDE DEF Of
<1> QED
  BY <1>1, <1>2, <1>3, <1>4, <1>5

\* Whatever is accepted is of issues and tests.
LEMMA GroupsAreTyped ==
  ASSUME CoreInv, audit # None, ~runs[Rust].error
  PROVE  /\ DOMAIN RecoveryGroups \subseteq Issues
         /\ \A i \in DOMAIN RecoveryGroups :
                RecoveryGroups[i] \subseteq Tests /\ RecoveryGroups[i] # {}
<1>1. Loads(registry, Tests)
  BY DEF CoreInv, OnceInv
<1>2. Excluded(registry, Rust) \subseteq Tests
  BY <1>1 DEF Loads, Drivers
<1>3. ASSUME NEW r \in audit.recoveries PROVE r.issue \in Issues
  <2>1. r.test \in {s.test : s \in audit.recoveries}
    OBVIOUS
  <2>2. r.test \in Excluded(registry, Rust)
    BY <2>1, RecoveryTells
  <2>3. r.issue = IssueOf(registry, Rust, r.test)
    BY RecoveryTells
  <2> QED
    BY <1>1, <2>2, <2>3, IssueIsOne
<1>4. \A i : ReallyRecoveredOf(i) \subseteq Tests
  BY <1>2 DEF ReallyRecoveredOf
<1> QED
  BY <1>3, <1>4, GroupsTell

\* A run is complete only if the driver reached the server.
LEMMA CompleteTells ==
  ASSUME CoreInv, NEW d \in Drivers, runs[d] # None,
         RunIsComplete(runs[d], d, DOMAIN runs[Rust].tests)
  PROVE  ~runs[d].error /\ truth[d][Connection] = "passed"
<1>1. ~runs[d].error /\ runs[d].tests[Connection] = "passed"
  BY DEF RunIsComplete
<1>2. Faithful(d, runs[d].tests)
  BY <1>1, ResultsOf DEF CoreInv
<1> QED
  BY <1>1, <1>2, BadTells, InventoryAssumption

\* FiledIsTrue of the moment in which a report is accepted.
LEMMA AcceptedIsTrue ==
  ASSUME CoreInv, JobInv, ReadReportOfAudit, Accepts
  PROVE  FiledIsTrue' /\ GroupsType'
<1>1. audit # None /\ \A d \in Drivers : runs[d] # None
  BY DEF Accepts, CoreInv, RecordsInv, KeptInv
<1>2. \A d \in Drivers : ~runs[d].error /\ truth[d][Connection] = "passed"
  BY <1>1, CompleteTells DEF Accepts
<1>3. ~runs[Rust].error
  BY <1>2 DEF Drivers
<1>4. upstream /\ groups' = RecoveryGroups /\ UNCHANGED <<registry, truth, upstream>>
  BY DEF ReadReportOfAudit, ReportIsDue, vars
<1>5. \A i : ReallyRecoveredOf(i)' = ReallyRecoveredOf(i)
  BY <1>4 DEF ReallyRecoveredOf, Excluded, IssueOf
<1>6. \A i \in Issues :
        IF ReallyRecoveredOf(i) = {} THEN i \notin DOMAIN RecoveryGroups
        ELSE i \in DOMAIN RecoveryGroups /\ RecoveryGroups[i] = ReallyRecoveredOf(i)
  BY <1>1, <1>3, GroupsTell
<1>7. FiledIsTrue'
  BY <1>2, <1>4, <1>5, <1>6 DEF FiledIsTrue
<1>8. GroupsType'
  BY <1>1, <1>3, <1>4, GroupsAreTyped DEF GroupsType
<1> QED
  BY <1>7, <1>8

\* RejectedForCause is about a driver.
CauseToReject(d) ==
    runs[d].error \/ ~ExitFollows(d) \/ truth[d][Connection] # "passed"

\* A driver without such a cause has a complete run, which is no infrastructure
\* error.
LEMMA NoCauseIsComplete ==
  ASSUME CoreInv, mode = "audit", NEW d \in Drivers, runs[d] # None, ~CauseToReject(d)
  PROVE  RunIsComplete(runs[d], d, Tests) /\ ~InfrastructureError(runs[d])
<1>1. /\ ~runs[d].error /\ ExitFollows(d) /\ truth[d][Connection] = "passed"
  BY DEF CauseToReject
<1>2. DOMAIN runs[d].tests = Tests /\ Faithful(d, runs[d].tests)
  BY <1>1, ResultsOf DEF CoreInv
<1>3. Connection \in Tests /\ Connection \notin Omitted(d)
  BY InventoryAssumption DEF CoreInv, IInv, RegistryInv, Omitted
<1>4. runs[d].tests[Connection] = "passed"
  BY <1>1, <1>2, <1>3, BadTells
<1>5. \A t \in Tests : runs[d].tests[t] \in Allowed(d)
  <2> SUFFICES ASSUME NEW t \in Tests PROVE runs[d].tests[t] \in Allowed(d)
    OBVIOUS
  <2>1. runs[d].tests[t] \in {"passed", "failed", "skipped", "disabled"}
    BY <1>2, BadTells
  <2>2. d = Rust => runs[d].tests[t] # "disabled"
    BY <1>2, BadTells, AuditOmits
  <2> QED
    BY <2>1, <2>2 DEF Allowed, Drivers
<1>6. ~InfrastructureError(runs[d])
  <2>1. runs[d].exit \in {0, 8}
    BY <1>1 DEF ExitFollows
  <2>2. ASSUME runs[d].exit # 0 PROVE SomeBad(runs[d])
    <3>1. PICK t \in Expected(d) : truth[d][t] \notin {"passed", "skipped"}
      BY <1>1, <2>2 DEF ExitFollows
    <3>2. t \in Tests /\ t \notin Omitted(d)
      BY <3>1 DEF Expected
    <3>3. Bad(runs[d].tests[t])
      BY <1>2, <3>1, <3>2 DEF Faithful, Classify, AllOutcomes, Bad
    <3> QED
      BY <1>2, <3>2, <3>3 DEF SomeBad
  <2> QED
    BY <1>1, <2>1, <2>2 DEF InfrastructureError
<1> QED
  BY <1>1, <1>2, <1>3, <1>4, <1>5, <1>6 DEF RunIsComplete

\* A report that recovery_groups raises on has a cause.
LEMMA RejectedHasCause ==
  ASSUME CoreInv, JobInv, ReadReportOfAudit, ~Accepts, artifact # "half"
  PROVE  \E d \in Drivers : CauseToReject(d)
<1> SUFFICES ASSUME \A d \in Drivers : ~CauseToReject(d) PROVE FALSE
  OBVIOUS
<1>1. artifact = "whole" /\ upstream
  BY DEF ReadReportOfAudit, ReportIsDue, JobInv, JobType
<1>2. published # None /\ published.whole
  BY <1>1 DEF JobInv, HandoverInv
<1>3. invocation # 0 /\ mode = "audit" /\ Loads(registry, Tests)
  BY <1>1, <1>2 DEF CoreInv, OnceInv
<1>4. audit # None /\ \A d \in Drivers : runs[d] # None
  BY <1>2, <1>3 DEF CoreInv, PublishedInv
<1>5. audit = AuditResults
  BY <1>4 DEF CoreInv, RecordsInv, KeptInv
<1>6. \A d \in Drivers : RunIsComplete(runs[d], d, Tests) /\ ~InfrastructureError(runs[d])
  BY <1>3, <1>4, NoCauseIsComplete
<1>7. audit.infrastructure = {}
  BY <1>5, <1>6 DEF AuditResults
<1>8. DOMAIN runs[Rust].tests = Tests
  BY <1>6 DEF RunIsComplete, Drivers
<1> QED
  BY <1>1, <1>3, <1>4, <1>5, <1>6, <1>7, <1>8 DEF Accepts
-----------------------------------------------------------------------------
(* The invariant, and the theorems.                                        *)

FilingInv == GroupsType /\ FiledIsTrue /\ RejectedForCause

PipelineInv == CoreInv /\ JobInv /\ FilingInv /\ AuditsReachReport

LEMMA SameReport ==
  ASSUME FilingInv, UNCHANGED <<vars, upstream, artifact, reporting, groups>>
  PROVE  FilingInv'
<1>1. /\ \A i : ReallyRecoveredOf(i)' = ReallyRecoveredOf(i)
      /\ \A d \in Drivers : ExitFollows(d)' <=> ExitFollows(d)
  BY DEF vars, ReallyRecoveredOf, Excluded, IssueOf, ExitFollows, Expected, Omitted,
     IncludeKnown
<1>2. GroupsType'
  BY DEF FilingInv, GroupsType
<1>3. FiledIsTrue'
  BY <1>1 DEF vars, FilingInv, FiledIsTrue
<1>4. RejectedForCause'
  BY <1>1 DEF vars, FilingInv, RejectedForCause
<1> QED
  BY <1>2, <1>3, <1>4 DEF FilingInv

LEMMA ReportStep ==
  ASSUME CoreInv, JobInv, FilingInv, [RunNext]_<<vars, workflow>>
  PROVE  FilingInv'
<1>1. CASE ReadReportOfAudit
  <2>1. CASE Accepts
    <3>1. reporting' = "accepted"
      BY <1>1, <2>1 DEF ReadReportOfAudit
    <3> QED
      BY <1>1, <2>1, <3>1, AcceptedIsTrue DEF FilingInv, RejectedForCause
  <2>2. CASE ~Accepts
    <3>1. /\ reporting' = "rejected" /\ groups' = groups
          /\ artifact' = artifact /\ UNCHANGED vars
      BY <1>1, <2>2 DEF ReadReportOfAudit
    <3>2. \A d \in Drivers : ExitFollows(d)' <=> ExitFollows(d)
      BY <3>1 DEF vars, ExitFollows, Expected, Omitted, IncludeKnown, Excluded
    <3>3. RejectedForCause'
      BY <1>1, <2>2, <3>1, <3>2, RejectedHasCause DEF vars, RejectedForCause, CauseToReject
    <3>4. GroupsType' /\ FiledIsTrue'
      BY <3>1 DEF FilingInv, GroupsType, FiledIsTrue
    <3> QED
      BY <3>3, <3>4 DEF FilingInv
  <2> QED
    BY <2>1, <2>2
<1>2. CASE step = "over"
  <2>1. UNCHANGED <<vars, upstream, artifact, reporting, groups>>
    BY <1>2, OverForCompare DEF RunNext, JobStep, Build, Attempt, StartComparison, Compare,
       CompareEnds, Summary, Upload, UploadFails, SkipReport, ReportFails,
       ReadReportOfAudit, CompareDies, Cancel, RunnerLost, Over, workflow
  <2> QED
    BY <2>1, SameReport
<1>3. CASE step # "over" /\ ~ReadReportOfAudit
  <2>1. reporting' \in {"none", "skipped", "failed"} /\ groups' = groups
    BY <1>3 DEF JobInv, HandoverInv, RunNext, JobStep, Build, Attempt, StartComparison,
       Compare, CompareEnds, Summary, Upload, UploadFails, SkipReport, ReportFails,
       CompareDies, Cancel, RunnerLost, Over, workflow
  <2> QED
    BY <2>1 DEF FilingInv, GroupsType, FiledIsTrue, RejectedForCause
<1> QED
  BY <1>1, <1>2, <1>3

\* Only a report that is not due is skipped, and one of a concluded audit is due.
LEMMA ReachStep ==
  ASSUME JobInv, AuditsReachReport, [RunNext]_<<vars, workflow>>
  PROVE  AuditsReachReport'
<1>1. CASE SkipReport
  BY <1>1 DEF SkipReport, ReportIsDue, JobInv, HandoverInv, AuditsReachReport, vars
<1>2. CASE ReportFails \/ ReadReportOfAudit
  BY <1>2 DEF ReportFails, ReadReportOfAudit, AuditsReachReport
<1>3. CASE Over \/ UNCHANGED <<vars, workflow>>
  BY <1>3 DEF Over, AuditsReachReport, vars, workflow
<1>4. CASE StartComparison \/ Compare \/ CompareDies
  BY <1>4 DEF StartComparison, Compare, CompareDies, AuditsReachReport, workflow
<1>5. CASE Build \/ Attempt \/ CompareEnds \/ Summary \/ Upload \/ UploadFails \/ Cancel \/ RunnerLost
  BY <1>5 DEF Build, Attempt, CompareEnds, Summary, Upload, UploadFails, Cancel,
     RunnerLost, StepFails, AuditsReachReport
<1> QED
  BY <1>1, <1>2, <1>3, <1>4, <1>5 DEF RunNext, JobStep

LEMMA PipelineInit == RunInit => PipelineInv
<1> SUFFICES ASSUME RunInit PROVE FilingInv /\ AuditsReachReport
  BY CoreInit, JobInit DEF PipelineInv
<1> QED
  BY DEF RunInit, FilingInv, GroupsType, FiledIsTrue, RejectedForCause, AuditsReachReport

LEMMA PipelineStep == PipelineInv /\ [RunNext]_<<vars, workflow>> => PipelineInv'
<1> SUFFICES ASSUME PipelineInv, [RunNext]_<<vars, workflow>> PROVE PipelineInv'
  OBVIOUS
<1>1. CoreInv'
  BY StepsOfCore, CoreStep DEF PipelineInv, JobInv, JobType
<1>2. JobInv'
  BY JobTypeStep, HandoverStep DEF PipelineInv, JobInv
<1>3. FilingInv'
  BY ReportStep DEF PipelineInv
<1>4. AuditsReachReport'
  BY ReachStep DEF PipelineInv
<1> QED
  BY <1>1, <1>2, <1>3, <1>4 DEF PipelineInv

LEMMA PipelineInvariant == RunSpec => []PipelineInv
  BY PipelineInit, PipelineStep, PTL DEF RunSpec

(* The workflow's state is well typed; what recovery_groups returns is of   *)
(* issues and tests, as Recoveries expects.                                *)
THEOREM RunTypeCorrect == RunSpec => []RunTypeOK
<1>1. PipelineInv => RunTypeOK
  BY DEF PipelineInv, JobInv, JobType, FilingInv, GroupsType, RunTypeOK
<1> QED
  BY <1>1, PipelineInvariant, PTL

(* What the second job files is what happened in the first: every issue     *)
(* gets exactly its quarantined tests that really passed, in a run in which *)
(* both drivers had reached the server, for every inventory and registry.  *)
THEOREM FiledIsTrueAlways == RunSpec => []FiledIsTrue
<1>1. PipelineInv => FiledIsTrue
  BY DEF PipelineInv, FilingInv
<1> QED
  BY <1>1, PipelineInvariant, PTL

(* recovery_groups raises on a report of an audit only for a cause: half a  *)
(* file, a run that raised, an exit code that does not follow, or a driver  *)
(* without connection.                                                     *)
THEOREM RejectedForCauseAlways == RunSpec => []RejectedForCause
<1>1. PipelineInv => RejectedForCause
  BY DEF PipelineInv, FilingInv
<1> QED
  BY <1>1, PipelineInvariant, PTL

(* An audit that compare.py concluded, red or green, reaches the second job *)
(* unless the runner or the artifact is lost.                              *)
THEOREM AuditsReachReportAlways == RunSpec => []AuditsReachReport
<1>1. PipelineInv => AuditsReachReport
  BY DEF PipelineInv
<1> QED
  BY <1>1, PipelineInvariant, PTL

-----------------------------------------------------------------------------
(* The end of a run.                                                       *)

\* Steps that compare.py may still take in the step "compare".
CompareLeft == IF invocation = 0 THEN 11 ELSE StepsLeft

RunLeft ==
    IF step = "over" THEN 0
    ELSE IF step = "report" THEN 1
    ELSE IF step = "upload" THEN 2
    ELSE IF step = "summary" THEN 3
    ELSE IF step = "compare" THEN 4 + CompareLeft
    ELSE IF step = "wait" THEN 15 + MaxAttempts - attempts
    ELSE 16 + MaxAttempts

LEMMA PipelineTypes ==
  ASSUME PipelineInv
  PROVE  /\ TypeOK /\ JobType
         /\ CompareLeft \in 0..11
         /\ MaxAttempts \in Nat /\ attempts \in Nat /\ attempts < MaxAttempts
<1>1. TypeOK /\ JobType
  BY DEF PipelineInv, CoreInv, IInv, TypeInv, JobInv, TypeOK
<1>2. CompareLeft \in 0..11
  <2>1. StepsLeft \in 0..10
    BY <1>1, StepsLeftIs
  <2> QED
    BY <2>1 DEF CompareLeft
<1> QED
  BY <1>1, <1>2, AttemptsAssumption DEF JobType

\* compare.py is started once, and its own steps come to an end.
LEMMA CompareComesNearer ==
  ASSUME PipelineInv, PipelineInv', StartComparison \/ Compare \/ CompareDies
  PROVE  CompareLeft' < CompareLeft
<1>1. /\ TypeOK /\ TypeOK' /\ invocation \in Nat
      /\ invocation = 0 => pc = "idle"
  BY DEF PipelineInv, CoreInv, IInv, OnceInv, TypeInv, TypeOK
<1>2. CASE StartComparison
  <2>1. invocation = 0 /\ invocation' = 1
    BY <1>2 DEF StartComparison, Begin, Refuse
  <2>2. CompareLeft' = StepsLeft' /\ CompareLeft = 11
    BY <2>1 DEF CompareLeft
  <2>3. pc' = "idle" \/ (pc' = "prepare" /\ driver' = Reference)
    BY <1>1, <1>2, <2>1 DEF StartComparison, Begin, Refuse
  <2> QED
    BY <2>2, <2>3 DEF StepsLeft, StepsFrom, OnATurn
<1>3. CASE Compare \/ CompareDies
  <2>1. Step \/ Dies
    BY <1>3 DEF Compare, CompareDies
  <2>2. invocation' = invocation /\ pc # "idle"
    BY <2>1 DEF Step, Prepare, PrepareFails, Ctest, CtestCompletes, CtestMisbehaves,
       CtestTimesOut, ReadReport, CopyEvidence, CopyFails, Audit, Conclude, Dies
  <2>3. StepsLeft' < StepsLeft
    BY <1>1, <2>1, InvocationComesNearer
  <2> QED
    BY <1>1, <2>2, <2>3 DEF CompareLeft
<1> QED
  BY <1>2, <1>3

(* Every step of a run of the workflow brings it nearer to its end, whatever *)
(* fails, is cancelled or lost: it cannot wait for the server, compare or     *)
(* report for ever, or run a step again.                                   *)
THEOREM RunsComeNearer ==
  RunSpec => [](RunLeft \in Nat) /\ [][RunLeft' < RunLeft]_<<vars, workflow>>
<1>1. PipelineInv => RunLeft \in Nat
  <2> SUFFICES ASSUME PipelineInv PROVE RunLeft \in Nat
    OBVIOUS
  <2> QED
    BY PipelineTypes DEF RunLeft
<1>2. PipelineInv => CompareLeft \in 0..11
  BY PipelineTypes
<1>3. PipelineInv /\ PipelineInv' /\ (CompareLeft \in 0..11)' /\ [RunNext]_<<vars, workflow>>
        => [RunLeft' < RunLeft]_<<vars, workflow>>
  <2> SUFFICES ASSUME PipelineInv, PipelineInv', CompareLeft' \in 0..11,
                      [RunNext]_<<vars, workflow>>
               PROVE  [RunLeft' < RunLeft]_<<vars, workflow>>
    OBVIOUS
  <2>1. /\ CompareLeft \in 0..11 /\ MaxAttempts \in Nat
        /\ attempts \in Nat /\ attempts < MaxAttempts
    BY PipelineTypes
  <2>2. CASE Build
    <3>1. step = "build" /\ step' \in {"wait", "summary"} /\ attempts' = attempts
      BY <2>2 DEF Build, StepFails
    <3>2. RunLeft = 16 + MaxAttempts /\ RunLeft' \in {15 + MaxAttempts - attempts, 3}
      BY <3>1 DEF RunLeft
    <3> QED
      BY <2>1, <3>2
  <2>3. CASE Attempt
    <3>1. /\ step = "wait"
          /\ \/ step' = "compare" \/ step' = "summary"
             \/ step' = "wait" /\ attempts' = attempts + 1
          /\ UNCHANGED <<invocation, pc, driver>>
      BY <2>3 DEF Attempt, StepFails, vars
    <3>2. CompareLeft' = CompareLeft
      BY <3>1 DEF CompareLeft, StepsLeft, OnATurn
    <3> QED
      BY <2>1, <3>1, <3>2 DEF RunLeft
  <2>4. CASE StartComparison \/ Compare \/ CompareDies
    <3>1. step = "compare" /\ step' = "compare"
      BY <2>4 DEF StartComparison, Compare, CompareDies, workflow
    <3>2. CompareLeft' < CompareLeft
      BY <2>4, CompareComesNearer
    <3>3. PICK left \in 0..11 : CompareLeft' = left
      OBVIOUS
    <3> QED
      BY <2>1, <3>1, <3>2, <3>3 DEF RunLeft
  <2>5. CASE CompareEnds \/ Summary \/ Upload \/ UploadFails
    BY <2>1, <2>5 DEF CompareEnds, Summary, Upload, UploadFails, RunLeft
  <2>6. CASE Cancel
    BY <2>1, <2>6 DEF Cancel, StepFails, RunLeft
  <2>7. CASE RunnerLost
    BY <2>1, <2>7 DEF RunnerLost, RunLeft
  <2>8. CASE SkipReport \/ ReportFails \/ ReadReportOfAudit
    BY <2>8 DEF SkipReport, ReportFails, ReadReportOfAudit, RunLeft
  <2> QED
    BY <2>2, <2>3, <2>4, <2>5, <2>6, <2>7, <2>8 DEF RunNext, JobStep, Over
<1> QED
  BY <1>1, <1>2, <1>3, PipelineInvariant, PTL DEF RunSpec
=============================================================================
