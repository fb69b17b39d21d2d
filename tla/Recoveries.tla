----------------------------- MODULE Recoveries -----------------------------
(***************************************************************************)
(* odbc-conformance/report_recoveries.py: the job that turns the recoveries *)
(* of an upstream audit into GitHub issues, against GitHub and against the  *)
(* people who annotate, close and reopen these issues.                     *)
(*                                                                         *)
(* For each original tracking issue with newly passing cases there is to be *)
(* one notification: an issue whose body holds a managed section, from a    *)
(* marker that names the original to a common end marker, with a signature  *)
(* that identifies the set of recovered cases.  The job lists all issues    *)
(* once and decides from this snapshot, group by group.                    *)
(*                                                                         *)
(* A body is a sequence of the parts that publish tells apart.  The hash of *)
(* the signature is taken to be injective: it is the set of cases itself.  *)
(***************************************************************************)
EXTENDS Naturals, Sequences, SequencesExt, FiniteSets

CONSTANTS
    Order,        \* the original tracking issues, in sorted order
    CaseSets,     \* sets of recovered cases an audit may find for one of them
    HumanMoves,   \* what people do to notifications
    NotePlaces,   \* bound: places in a body where people write notes
    MaxRuns,      \* bound: audits that submit a report
    MaxReruns,    \* bound: jobs run again on a report submitted earlier
    MaxDeaths,    \* bound: jobs that are cancelled, time out or lose gh
    MaxActs,      \* bound: moves of people
    None

Originals == ToSet(Order)

AllMoves == {"annotate", "close", "reopen", "retitle", "erase"}

ASSUME OrderAssumption ==
    /\ Order \in Seq(Originals)
    /\ \A j, k \in DOMAIN Order : Order[j] = Order[k] => j = k

ASSUME RecoveriesAssumption ==
    /\ \A cases \in CaseSets : IsFiniteSet(cases) /\ cases # {}
    /\ HumanMoves \subseteq AllMoves
    /\ MaxRuns \in Nat /\ MaxReruns \in Nat /\ MaxDeaths \in Nat /\ MaxActs \in Nat

VARIABLES
    issues,    \* GitHub's odbc-labeled issues, in the order of their creation
    pending,   \* the report whose job waits in the concurrency group, or None
    phase,     \* of the running job: "idle", "load", "publish"
    report,    \* the report of the running job, or None
    snapshot,  \* the issues as the job listed them
    todo,      \* the original issues whose groups are still to be published
    outcome,   \* how the last job ended
    touched,   \* history: issues that people changed since the job listed them
    reopened,  \* history: issues that people reopened
    audits,    \* reports submitted so far: their places number the run URLs
    reruns, deaths, acts

job == <<phase, report, snapshot, todo, outcome>>
history == <<touched, reopened>>
vars == <<issues, pending, phase, report, snapshot, todo, outcome, touched, reopened,
          audits, reruns, deaths, acts>>

-----------------------------------------------------------------------------
(* Bodies: issue_content and the splice of publish.                        *)

Marker(o) == <<"marker", o>>
Signature(cases) == <<"signature", cases>>
Evidence(run) == <<"evidence", run>>
Note(n) == <<"note", n>>
EndMarker == <<"end">>

\* Evidence stands for the parts that change with every run: revision, URL.
Section(o, cases, run) ==
    <<Marker(o), Signature(cases), Evidence(run), EndMarker>>

Title(o, cases) == [of |-> o, count |-> Cardinality(cases)]

Has(body, part) == part \in ToSet(body)

\* body.index(marker)
Start(body, o) ==
    CHOOSE k \in DOMAIN body :
        body[k] = Marker(o) /\ \A j \in 1..(k - 1) : body[j] # Marker(o)

\* body.find(END_MARKER, start), as the set of places it chooses from.
EndsFrom(body, start) == {k \in start..Len(body) : body[k] = EndMarker}

IsManaged(body, o) == EndsFrom(body, Start(body, o)) # {}

End(body, o) ==
    CHOOSE k \in EndsFrom(body, Start(body, o)) :
        \A j \in EndsFrom(body, Start(body, o)) : k <= j

Before(body, o) == SubSeq(body, 1, Start(body, o) - 1)
After(body, o) == SubSeq(body, End(body, o) + 1, Len(body))

\* Mutant: what follows the section is forgotten.
SpliceForgetsRest(body, o, section) == Before(body, o) \o section

Splice(body, o, section) == Before(body, o) \o section \o After(body, o)

-----------------------------------------------------------------------------
Init ==
    /\ issues = <<>>
    /\ pending = None
    /\ phase = "idle"
    /\ report = None
    /\ snapshot = <<>>
    /\ todo = {}
    /\ outcome = "none"
    /\ touched = {} /\ reopened = {}
    /\ audits = <<>> /\ reruns = 0 /\ deaths = 0 /\ acts = 0

-----------------------------------------------------------------------------
(* The workflow around the job: its concurrency group lets one job run and  *)
(* keeps one pending, a later one replacing it.                            *)

\* An audit is over; valid tells whether recovery_groups accepts its report:
\* of one that it rejects there are no groups.
Submit(groups, valid) ==
    /\ Len(audits) < MaxRuns
    /\ valid \/ DOMAIN groups = {}
    /\ pending' = [run |-> Len(audits) + 1, groups |-> groups, valid |-> valid]
    /\ audits' = Append(audits, pending')
    /\ UNCHANGED <<issues, job, history, reruns, deaths, acts>>

\* The report of a job that is neither waiting nor running.
IsOver(audit) == audit \notin {pending, report}

\* Somebody runs a job again, on the artifact and the run URL of then: the last
\* one, an older one, or one that never ran.
Rerun(audit) ==
    /\ IsOver(audit)
    /\ reruns < MaxReruns
    /\ reruns' = reruns + 1
    /\ pending' = audit
    /\ UNCHANGED <<issues, job, history, audits, deaths, acts>>

\* A job is cancelled while it waits: by hand, or with its workflow run when
\* the next audit begins.
CancelWaiting ==
    /\ pending # None
    /\ deaths < MaxDeaths
    /\ deaths' = deaths + 1
    /\ pending' = None
    /\ UNCHANGED <<issues, job, history, audits, reruns, acts>>

StartJob ==
    /\ phase = "idle" /\ pending # None
    /\ phase' = "load"
    /\ report' = pending
    /\ pending' = None
    /\ outcome' = "none"
    /\ UNCHANGED <<issues, snapshot, todo, history, audits, reruns, deaths, acts>>

\* Mutant: where the job stands and how it ended are swapped.
EndJobSwapped(how) ==
    /\ phase' = how
    /\ outcome' = "idle"
    /\ report' = None /\ snapshot' = <<>>
    /\ todo' = {} /\ touched' = {}
    /\ UNCHANGED <<pending, reopened, audits, reruns, acts>>

EndJob(how) ==
    /\ phase' = "idle"
    /\ outcome' = how
    /\ report' = None /\ snapshot' = <<>>
    /\ todo' = {} /\ touched' = {}
    /\ UNCHANGED <<pending, reopened, audits, reruns, acts>>

\* Cancelled, out of its 5 minutes, or gh failed: with or without the effect of
\* the call, which is to die before or after the step that makes it.
JobDies ==
    /\ phase # "idle"
    /\ deaths < MaxDeaths
    /\ deaths' = deaths + 1
    /\ EndJob("died")
    /\ UNCHANGED issues

-----------------------------------------------------------------------------
(* main and publish.                                                       *)

\* recovery_groups raises: not upstream main, incomplete, or not the audit
\* that the runs give.
RejectReport ==
    /\ phase = "load" /\ ~report.valid
    /\ EndJob("rejected")
    /\ UNCHANGED <<issues, deaths>>

\* No groups: GitHub is not even listed.
NothingToFile ==
    /\ phase = "load" /\ report.valid
    /\ DOMAIN report.groups = {}
    /\ EndJob("done")
    /\ UNCHANGED <<issues, deaths>>

ListIssues ==
    /\ phase = "load" /\ report.valid
    /\ DOMAIN report.groups # {}
    /\ phase' = "publish"
    /\ snapshot' = issues
    /\ todo' = DOMAIN report.groups
    /\ UNCHANGED <<issues, pending, report, outcome, history, audits, reruns, deaths, acts>>

\* Mutant: notifications are recognised by their set of cases.
MatchesBySignature(o) ==
    {i \in DOMAIN snapshot : Has(snapshot[i].body, Signature(report.groups[o]))}

Matches(o) == {i \in DOMAIN snapshot : Has(snapshot[i].body, Marker(o))}

\* Mutant: a closed notification is taken for an open one.
OpenedOrNot(o) == Matches(o)

Opened(o) == {i \in Matches(o) : snapshot[i].state = "open"}

\* The loop visits the groups in the sorted order of their originals.
IsNext(o) ==
    /\ phase = "publish"
    /\ \E k \in DOMAIN Order :
        /\ Order[k] = o /\ o \in todo
        /\ \A j \in 1..(k - 1) : Order[j] \notin todo

Published(o) ==
    /\ todo' = todo \ {o}
    /\ UNCHANGED <<pending, phase, report, snapshot, outcome, history, audits, reruns, deaths, acts>>

NewSection(o) == Section(o, report.groups[o], report.run)
NewTitle(o) == Title(o, report.groups[o])

\* ValueError: two open notifications, or a section without its end.
Unpublishable(o) ==
    \/ Cardinality(Opened(o)) > 1
    \/ Cardinality(Opened(o)) = 1
       /\ \E i \in Opened(o) : ~IsManaged(snapshot[i].body, o)

RaiseError(o) ==
    /\ IsNext(o)
    /\ Unpublishable(o)
    /\ EndJob("failed")
    /\ UNCHANGED <<issues, deaths>>

\* Mutant: an unchanged title is taken for an unchanged notification.
UpdateOnTitleChange(o) ==
    /\ IsNext(o)
    /\ ~Unpublishable(o)
    /\ \E i \in Opened(o) :
        LET body == Splice(snapshot[i].body, o, NewSection(o)) IN
        IF NewTitle(o) # snapshot[i].title
        THEN issues' = [issues EXCEPT ![i].title = NewTitle(o), ![i].body = body]
        ELSE UNCHANGED issues
    /\ Published(o)

\* gh issue edit sets title and body, whatever the issue has become since.
Update(o) ==
    /\ IsNext(o)
    /\ ~Unpublishable(o)
    /\ \E i \in Opened(o) :
        LET body == Splice(snapshot[i].body, o, NewSection(o)) IN
        IF body # snapshot[i].body \/ NewTitle(o) # snapshot[i].title
        THEN issues' = [issues EXCEPT ![i].title = NewTitle(o), ![i].body = body]
        ELSE UNCHANGED issues
    /\ Published(o)

\* A closed notification has the signature of the same set of cases.
IsSuppressed(o) ==
    \E i \in Matches(o) : Has(snapshot[i].body, Signature(report.groups[o]))

Suppress(o) ==
    /\ IsNext(o)
    /\ Opened(o) = {}
    /\ IsSuppressed(o)
    /\ UNCHANGED issues
    /\ Published(o)

NewIssue(o) == [state |-> "open", title |-> NewTitle(o), body |-> NewSection(o)]

\* Mutant: closed notifications are not looked at.
CreateRegardless(o) ==
    /\ IsNext(o)
    /\ Opened(o) = {}
    /\ issues' = Append(issues, NewIssue(o))
    /\ Published(o)

\* Mutant: any closed notification stands in the way of a new one.
CreateOnlyFirst(o) ==
    /\ IsNext(o)
    /\ Matches(o) = {}
    /\ issues' = Append(issues, NewIssue(o))
    /\ Published(o)

Create(o) ==
    /\ IsNext(o)
    /\ Opened(o) = {}
    /\ ~IsSuppressed(o)
    /\ issues' = Append(issues, NewIssue(o))
    /\ Published(o)

FinishJob ==
    /\ phase = "publish" /\ todo = {}
    /\ EndJob("done")
    /\ UNCHANGED <<issues, deaths>>

-----------------------------------------------------------------------------
(* People.                                                                 *)

Act(move, i) ==
    /\ move \in HumanMoves
    /\ acts < MaxActs
    /\ acts' = acts + 1
    /\ touched' = IF phase = "publish" THEN touched \cup {i} ELSE touched
    /\ reopened' = IF move = "reopen" THEN reopened \cup {i} ELSE reopened
    /\ UNCHANGED <<pending, job, audits, reruns, deaths>>

\* A new note, before, in or after the sections; its number makes it unique.
Annotate(i, k) ==
    /\ Act("annotate", i)
    /\ k \in NotePlaces \cap 1..(Len(issues[i].body) + 1)
    /\ issues' = [issues EXCEPT ![i].body = InsertAt(@, k, Note(acts + 1))]

Close(i) ==
    /\ Act("close", i)
    /\ issues[i].state = "open"
    /\ issues' = [issues EXCEPT ![i].state = "closed"]

Reopen(i) ==
    /\ Act("reopen", i)
    /\ issues[i].state = "closed"
    /\ issues' = [issues EXCEPT ![i].state = "open"]

Retitle(i) ==
    /\ Act("retitle", i)
    /\ issues[i].title # None
    /\ issues' = [issues EXCEPT ![i].title = None]

\* Somebody edits an end marker away.
EraseEnd(i, k) ==
    /\ Act("erase", i)
    /\ k \in DOMAIN issues[i].body
    /\ issues[i].body[k] = EndMarker
    /\ issues' = [issues EXCEPT ![i].body = RemoveAt(@, k)]

People ==
    \E i \in DOMAIN issues :
        \/ Close(i) \/ Reopen(i) \/ Retitle(i)
        \/ \E k \in 1..(Len(issues[i].body) + 1) : Annotate(i, k) \/ EraseEnd(i, k)

-----------------------------------------------------------------------------
Groups == UNION {[some -> CaseSets] : some \in SUBSET Originals}

JobStep ==
    \/ RejectReport \/ NothingToFile \/ ListIssues \/ FinishJob
    \/ \E o \in Originals : RaiseError(o) \/ Update(o) \/ Suppress(o) \/ Create(o)

Next ==
    \/ \E groups \in Groups, valid \in BOOLEAN : Submit(groups, valid)
    \/ \E audit \in ToSet(audits) : Rerun(audit)
    \/ CancelWaiting
    \/ StartJob
    \/ JobStep
    \/ JobDies
    \/ People

\* The runner starts a pending job and a job runs on.
Fairness == WF_vars(StartJob) /\ WF_vars(JobStep)

Spec == Init /\ [][Next]_vars /\ Fairness

-----------------------------------------------------------------------------
(* Properties.                                                             *)

Parts == ({"marker"} \X Originals) \cup ({"signature"} \X CaseSets)
         \cup ({"evidence"} \X Nat) \cup ({"note"} \X Nat) \cup {EndMarker}

Titles == [of : Originals, count : Nat] \cup {None}

IssueType == [state : {"open", "closed"}, title : Titles, body : Seq(Parts)]

ReportType == [run : 1..MaxRuns, groups : Groups, valid : BOOLEAN]

(* The types of GitHub's issues, of the queue and of the job.              *)
TypeOK ==
    /\ issues \in Seq(IssueType)
    /\ pending \in ReportType \cup {None}
    /\ phase \in {"idle", "load", "publish"}
    /\ report \in ReportType \cup {None}
    /\ snapshot \in Seq(IssueType)
    /\ todo \subseteq Originals
    /\ outcome \in {"none", "done", "rejected", "failed", "died"}
    /\ touched \subseteq DOMAIN issues /\ reopened \subseteq DOMAIN issues
    /\ audits \in Seq(ReportType) /\ Len(audits) <= MaxRuns
    /\ reruns \in 0..MaxReruns
    /\ deaths \in 0..MaxDeaths
    /\ acts \in 0..MaxActs

OpenFor(o) ==
    {i \in DOMAIN issues : issues[i].state = "open" /\ Has(issues[i].body, Marker(o))}

Covers(issue, o, cases) ==
    Has(issue.body, Marker(o)) /\ Has(issue.body, Signature(cases))

(* One open notification per original issue is updated rather than          *)
(* duplicated: whatever dies, is run again or is queued, and whatever people *)
(* do meanwhile, of two open ones somebody has reopened one.               *)
OneOpenNotification ==
    \A o \in Originals : \A i, j \in OpenFor(o) \ reopened : i = j

(* A notification that is created is news: no issue, open or closed, covers *)
(* the same set of cases of the same original, even if people closed it     *)
(* while the job was running or the job before died after creating it.      *)
NewsOnly ==
    [][Len(issues') > Len(issues) =>
        \A o \in Originals, cases \in CaseSets :
            Covers(Last(issues'), o, cases) =>
                \A i \in DOMAIN issues : ~Covers(issues[i], o, cases)]_vars

\* A step that is not of people.
ByTheJob == acts' = acts

\* A step keeps what stands before and after the managed sections of an issue.
KeepsNotes(i) ==
    \A o \in Originals :
        (Has(issues[i].body, Marker(o)) /\ IsManaged(issues[i].body, o)) =>
            /\ Before(issues'[i].body, o) = Before(issues[i].body, o)
            /\ After(issues'[i].body, o) = After(issues[i].body, o)

(* A managed section is updated without overwriting the human-written notes *)
(* around it: what stands before and after the section stays, in its order. *)
NotesAlwaysSurvive == [][ByTheJob => \A i \in DOMAIN issues : KeepsNotes(i)]_vars

(* ... and so it is for every issue that nobody changed since it was listed. *)
NotesSurvive == [][ByTheJob => \A i \in DOMAIN issues \ touched : KeepsNotes(i)]_vars

(* What a closed notification suppresses is the set of cases that people    *)
(* saw when they closed it: the job never writes to a closed issue, unless  *)
(* it is closed under the job's hands.                                     *)
ClosedIsFinal ==
    [][ByTheJob =>
        \A i \in DOMAIN issues \ touched :
            issues[i].state = "closed" => issues'[i] = issues[i]]_vars

(* Closing a notification suppresses that exact set of recovered cases on   *)
(* later runs: the job never writes, into any issue, a set of cases that a  *)
(* closed notification of the same original covers, not even where nobody   *)
(* acts while it publishes.                                                *)
SuppressedStaysSilent ==
    [][ByTheJob /\ touched = {} =>
        \A i \in DOMAIN issues', o \in Originals, cases \in CaseSets :
            Covers(issues'[i], o, cases) =>
                \/ i \in DOMAIN issues /\ Covers(issues[i], o, cases)
                \/ \A j \in DOMAIN issues :
                        issues[j].state = "closed" => ~Covers(issues[j], o, cases)]_vars

\* An issue tells the reader of GitHub of the group of o: in the section of an
\* open notification, with its evidence, or as a closed one that suppresses it.
Tells(issue, o) ==
    LET cases == report.groups[o] IN
    /\ Covers(issue, o, cases)
    /\ issue.state = "open" =>
        /\ issue.title = Title(o, cases)
        /\ IsManaged(issue.body, o)
        /\ SubSeq(issue.body, Start(issue.body, o), End(issue.body, o))
                = Section(o, cases, report.run)

\* ... unless people changed the notification after it was listed.
IsTold(o) ==
    \/ \E i \in DOMAIN issues : Tells(issues[i], o)
    \/ \E i \in touched : Has(issues[i].body, Marker(o))

(* However a job ends, by an error in one group, by its death or well, the  *)
(* groups that it is done with are told, each with the evidence of this     *)
(* run, also where a job before it died halfway; when it ends well, these   *)
(* are all the groups of its report.                                       *)
EndedMeansTold ==
    [][(phase = "publish" /\ phase' = "idle") =>
        \A o \in DOMAIN report.groups :
            (outcome' = "done" \/ o \notin todo) => IsTold(o)]_vars

(* Every job ends, each of its groups being decided one way or another, and *)
(* no report waits for ever behind it: one is taken up, unless it makes way *)
(* for another, which is taken up then, or is cancelled.                   *)
JobEnds ==
    /\ (phase # "idle") ~> (phase = "idle")
    /\ (pending # None) ~> (pending = None)
=============================================================================
