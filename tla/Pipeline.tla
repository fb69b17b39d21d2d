------------------------------ MODULE Pipeline ------------------------------
(***************************************************************************)
(* .github/workflows/odbc-conformance.yml: one run of the workflow, on a     *)
(* fresh runner.  Its conformance job runs compare.py once, whose steps are  *)
(* those of Comparison; its second job gives the comparison.json of an audit *)
(* to recovery_groups of report_recoveries.py.  What is then made of the     *)
(* groups is in Recoveries.                                                *)
(*                                                                         *)
(* After compare.py has ended nothing changes runs, audit, mode and registry *)
(* any more: they are what comparison.json holds, and what the second job    *)
(* finds in its checkout of the same commit.                               *)
(***************************************************************************)
EXTENDS Comparison

CONSTANTS MaxAttempts   \* of the readiness loop: 60

ASSUME AttemptsAssumption == MaxAttempts \in Nat /\ MaxAttempts > 0

\* The workflow uses compare.py in two ways.
ASSUME KindsAssumption == {"pinned", "audit"} \subseteq Modes

\* What audit_results makes of a registry that loads.
AuditRecords == [
    recoveries : SUBSET [test : Tests, issue : Issues, reference : Statuses \cup {"missing"}],
    expected : SUBSET Tests,
    unexpected : SUBSET (Drivers \X Tests),
    infrastructure : SUBSET Drivers]

ASSUME FilesAssumption ==
    None \notin AuditRecords /\ None \notin [invocation : Nat, whole : BOOLEAN]

VARIABLES
    upstream,       \* UPSTREAM_AUDIT: a schedule, or somebody who asks for it
    step,           \* "build", "wait", "compare", "summary", "upload", "report", "over"
    attempts,       \* of the readiness loop that have failed
    success,        \* no step of the conformance job has failed
    auditReport,    \* the job's output audit_report
    artifact,       \* "none", or comparison.json: "whole" or "half"
    reporting,      \* report-recoveries: "none", or how it ended
    groups,         \* what recovery_groups returned: issues to tests
    lost            \* history: the runner or the artifact is lost

workflow == <<upstream, step, attempts, success, auditReport, artifact, reporting, groups, lost>>

RunInit ==
    /\ Init
    /\ upstream \in BOOLEAN
    /\ step = "build" /\ attempts = 0 /\ success = TRUE
    /\ auditReport = FALSE /\ artifact = "none"
    /\ reporting = "none" /\ groups = <<>>
    /\ lost = FALSE

-----------------------------------------------------------------------------
(* The conformance job up to compare.py.                                    *)

\* A step fails: of the later ones only those with always() run.
StepFails == success' = FALSE /\ step' = "summary"

\* Packages, both drivers, the tests and the unit tests of the scripts.
Build ==
    /\ step = "build"
    /\ \/ step' = "wait" /\ UNCHANGED success
       \/ StepFails
    /\ UNCHANGED <<vars, upstream, attempts, auditReport, artifact, reporting, groups, lost>>

\* Mutant: the loop goes on for one attempt more.
AttemptOnceMore ==
    /\ step = "wait"
    /\ \/ step' = "compare" /\ attempts' = 0 /\ UNCHANGED success
       \/ attempts < MaxAttempts /\ attempts' = attempts + 1 /\ UNCHANGED <<step, success>>
       \/ attempts = MaxAttempts /\ attempts' = 0 /\ StepFails
    /\ UNCHANGED <<vars, upstream, auditReport, artifact, reporting, groups, lost>>

\* The test Connection passes through the reference driver, or is tried again;
\* the count goes with the shell.
Attempt ==
    /\ step = "wait"
    /\ \/ step' = "compare" /\ attempts' = 0 /\ UNCHANGED success
       \/ attempts + 1 < MaxAttempts /\ attempts' = attempts + 1 /\ UNCHANGED <<step, success>>
       \/ attempts + 1 = MaxAttempts /\ attempts' = 0 /\ StepFails
    /\ UNCHANGED <<vars, upstream, auditReport, artifact, reporting, groups, lost>>

-----------------------------------------------------------------------------
(* compare.py.                                                              *)

\* Audits are of main and run quarantined cases, all others of the pinned source.
StartComparison ==
    /\ step = "compare" /\ invocation = 0
    /\ \E reg \in Registries :
        LET m == IF upstream THEN "audit" ELSE "pinned"
            source == IF upstream THEN "main" ELSE "pinned" IN
        Begin(m, reg, source) \/ Refuse(m, reg, source)
    /\ UNCHANGED workflow

Compare == step = "compare" /\ Step /\ UNCHANGED workflow

\* Orphans are left to themselves: they only write evidence, which nobody reads.
CompareDies == step = "compare" /\ Dies /\ UNCHANGED workflow

CompareEnds ==
    /\ step = "compare" /\ invocation > 0 /\ pc = "idle"
    /\ step' = "summary"
    /\ success' = (verdict = "green")
    /\ UNCHANGED <<vars, upstream, attempts, auditReport, artifact, reporting, groups, lost>>

-----------------------------------------------------------------------------
(* The rest of the job, which runs whatever happened before.                *)

\* Mutant: only a green comparison is an audit report.
SummaryOfGreenOnly ==
    /\ step = "summary"
    /\ auditReport' = (upstream /\ published # None /\ success)
    /\ step' = "upload"
    /\ UNCHANGED <<vars, upstream, attempts, success, artifact, reporting, groups, lost>>

Summary ==
    /\ step = "summary"
    /\ auditReport' = (upstream /\ published # None)
    /\ step' = "upload"
    /\ UNCHANGED <<vars, upstream, attempts, success, artifact, reporting, groups, lost>>

Upload ==
    /\ step = "upload"
    /\ artifact' = IF published = None THEN "none"
                   ELSE IF published.whole THEN "whole" ELSE "half"
    /\ step' = "report"
    /\ UNCHANGED <<vars, upstream, attempts, success, auditReport, reporting, groups, lost>>

UploadFails ==
    /\ step = "upload"
    /\ step' = "report" /\ success' = FALSE /\ lost' = TRUE
    /\ UNCHANGED <<vars, upstream, attempts, auditReport, artifact, reporting, groups>>

\* A newer run of the same branch and kind, a person, or 45 minutes: the step
\* that runs is killed, those with always() run all the same.
Cancel ==
    /\ step \in {"build", "wait", "compare"}
    /\ StepFails
    /\ IF pc = "idle" THEN UNCHANGED vars ELSE Dies
    /\ attempts' = 0
    /\ UNCHANGED <<upstream, auditReport, artifact, reporting, groups, lost>>

\* The runner is gone, and the job's outputs with it.
RunnerLost ==
    /\ step \in {"build", "wait", "compare", "summary", "upload"}
    /\ step' = "report" /\ success' = FALSE /\ auditReport' = FALSE /\ lost' = TRUE
    /\ attempts' = 0
    /\ UNCHANGED <<vars, upstream, artifact, reporting, groups>>

-----------------------------------------------------------------------------
(* report-recoveries, up to publish.                                        *)

ReportIsDue == auditReport /\ upstream

SkipReport ==
    /\ step = "report" /\ ~ReportIsDue
    /\ reporting' = "skipped" /\ step' = "over"
    /\ UNCHANGED <<vars, upstream, attempts, success, auditReport, artifact, groups, lost>>

\* No artifact to download, no runner, or 5 minutes are over.
ReportFails ==
    /\ step = "report" /\ ReportIsDue
    /\ reporting' = "failed" /\ step' = "over"
    /\ UNCHANGED <<vars, upstream, attempts, success, auditReport, artifact, groups, lost>>

\* Mutant: disabled cases of the reference driver are not allowed for.
AllowedWithoutDisabled(d) == IF d \in Drivers THEN {"passed", "failed", "skipped"} ELSE {}

Allowed(d) == {"passed", "failed", "skipped"} \cup (IF d = Reference THEN {"disabled"} ELSE {})

\* A driver's run in the report, where the Rust driver's tests are names.
RunIsComplete(run, d, names) ==
    /\ ~run.error /\ DOMAIN run.tests = names
    /\ Connection \in names /\ run.tests[Connection] = "passed"
    /\ \A t \in names : run.tests[t] \in Allowed(d)

\* Mutant: the readiness test may have failed.
AcceptsUnconnected ==
    LET names == DOMAIN runs[Rust].tests IN
    /\ artifact = "whole" /\ audit # None
    /\ \A d \in Drivers : ~runs[d].error /\ DOMAIN runs[d].tests = names
    /\ Loads(registry, names)
    /\ audit = AuditResults /\ audit.infrastructure = {}

\* recovery_groups does not raise; the source was main for compare.py already.
Accepts ==
    LET names == DOMAIN runs[Rust].tests IN
    /\ artifact = "whole" /\ audit # None
    /\ \A d \in Drivers : RunIsComplete(runs[d], d, names)
    /\ Loads(registry, names)
    /\ audit = AuditResults /\ audit.infrastructure = {}

RecoveryGroups ==
    [i \in {r.issue : r \in audit.recoveries} |->
        {r.test : r \in {s \in audit.recoveries : s.issue = i}}]

ReadReportOfAudit ==
    /\ step = "report" /\ ReportIsDue /\ artifact # "none"
    /\ IF Accepts THEN reporting' = "accepted" /\ groups' = RecoveryGroups
       ELSE reporting' = "rejected" /\ UNCHANGED groups
    /\ step' = "over"
    /\ UNCHANGED <<vars, upstream, attempts, success, auditReport, artifact, lost>>

-----------------------------------------------------------------------------
\* What the jobs do by themselves.
JobStep == Build \/ Attempt \/ StartComparison \/ Compare \/ CompareEnds \/ Summary
           \/ Upload \/ UploadFails \/ SkipReport \/ ReportFails \/ ReadReportOfAudit

\* Only a run that is over may stop.
Over == step = "over" /\ UNCHANGED <<vars, workflow>>

RunNext == JobStep \/ CompareDies \/ Cancel \/ RunnerLost \/ Over

RunSpec == RunInit /\ [][RunNext]_<<vars, workflow>>

-----------------------------------------------------------------------------
(* Properties.                                                             *)

(* The types of the workflow's state; groups are what Recoveries expects.   *)
RunTypeOK ==
    /\ upstream \in BOOLEAN /\ success \in BOOLEAN /\ auditReport \in BOOLEAN
    /\ step \in {"build", "wait", "compare", "summary", "upload", "report", "over"}
    /\ attempts \in 0..(MaxAttempts - 1)
    /\ artifact \in {"none", "whole", "half"}
    /\ reporting \in {"none", "skipped", "failed", "rejected", "accepted"}
    /\ DOMAIN groups \subseteq Issues
    /\ \A i \in DOMAIN groups : groups[i] \subseteq Tests /\ groups[i] # {}
    /\ lost \in BOOLEAN

\* The excluded tests of an issue that the Rust driver passes in this run.
ReallyRecoveredOf(i) ==
    {t \in Excluded(registry, Rust) : IssueOf(registry, Rust, t) = i /\ truth[Rust][t] = "passed"}

(* What the second job files is what happened in the first: issues get      *)
(* exactly the quarantined tests that really passed on upstream main, in a   *)
(* run in which both drivers had reached the server, wherever the first job  *)
(* was cancelled or failed.                                                 *)
FiledIsTrue ==
    reporting = "accepted" =>
        /\ upstream /\ \A d \in Drivers : truth[d][Connection] = "passed"
        /\ \A i \in Issues :
            IF ReallyRecoveredOf(i) = {} THEN i \notin DOMAIN groups
            ELSE i \in DOMAIN groups /\ groups[i] = ReallyRecoveredOf(i)

(* recovery_groups rejects a report for a cause only: half a file, a run     *)
(* that raised, an exit code that does not follow from the tests, or a       *)
(* driver without connection.  Failures, tracked or not, skipped tests and   *)
(* cases disabled on the reference driver never cost the recoveries.        *)
RejectedForCause ==
    reporting = "rejected" =>
        \/ artifact = "half"
        \/ \E d \in Drivers : \/ runs[d].error
                             \/ ~ExitFollows(d)
                             \/ truth[d][Connection] # "passed"

(* An audit that compare.py concluded, red or green, reaches the second job, *)
(* also when the run is cancelled, unless the runner or the artifact is lost. *)
AuditsReachReport ==
    (step = "over" /\ upstream /\ verdict \in {"green", "red"} /\ ~lost)
        => reporting \in {"failed", "rejected", "accepted"}
=============================================================================
