----------------------------- MODULE Quarantine -----------------------------
(***************************************************************************)
(* odbc-conformance/quarantine.py: reviewers who record failed cases of a   *)
(* comparison.json in known-failures.json, under an issue of GitHub.       *)
(*                                                                         *)
(* An invocation checks the report and the registry, views or creates the   *)
(* issue, reads the registry again, appends a group and writes the file.    *)
(* Nothing keeps invocations apart: reviewers share the file, and people    *)
(* remove groups from it and close issues, at any time.  write_text         *)
(* truncates before it writes.                                             *)
(*                                                                         *)
(* The regular expression of --match is the set it selects; the body of the *)
(* issue is left out.  The sorted list of tests is some list of them.       *)
(***************************************************************************)
EXTENDS Registry, FiniteSets

CONSTANTS
    Reviewers,
    Inventory,       \* names in every report, Connection among them
    Pulls,           \* pull requests: gh finds them by number, as it finds issues
    Committed,       \* the registry that git restores
    MaxInvocations,  \* bound
    MaxEdits,        \* bound: entries removed and issues closed by people
    MaxCrashes,      \* bound
    None,
    Broken           \* known-failures.json while it is truncated

ASSUME InventoryAssumption ==
    IsFiniteSet(Inventory) /\ Connection \in Inventory

ASSUME IssuesAssumption == Issues \cap Pulls = {}

ASSUME CommittedAssumption ==
    /\ Committed \in [Drivers -> Seq([issue : Issues, reason : Reasons, tests : Seq(Inventory)])]
    /\ Loads(Committed, Inventory)

ASSUME BoundsAssumption ==
    MaxInvocations \in Nat /\ MaxEdits \in Nat /\ MaxCrashes \in Nat

ASSUME BrokenAssumption == Broken \notin [Drivers -> Seq(
    [issue : Issues, reason : Reasons, tests : Seq(Inventory)])]

VARIABLES
    file,         \* known-failures.json
    github,       \* of every number's URL: "absent", "open" or "closed"
    pc,           \* of every reviewer
    work,         \* what the reviewer's invocation records, or None
    copy,         \* the registry as the invocation read it again, or None
    observed,     \* history: failures that reviewers' reports showed, per driver
    raced,        \* history: whether a reviewer began while another was recording
    closed,       \* history: issues that people closed while they were in use
    invocations, edits, crashes

process == <<pc, work, copy>>
history == <<observed, raced, closed>>
vars == <<file, github, pc, work, copy, observed, raced, closed,
          invocations, edits, crashes>>

-----------------------------------------------------------------------------
Statuses == {"passed", "failed", "skipped", "disabled"}

Failed(cases) == {t \in Inventory : cases[t] = "failed"}

Init ==
    /\ file = Committed
    /\ github \in [Issues \cup Pulls -> {"absent", "open", "closed"}]
    /\ \A d \in Drivers : \A i \in DOMAIN Committed[d] :
          github[Committed[d][i].issue] = "open"
    /\ pc = [p \in Reviewers |-> "idle"]
    /\ work = [p \in Reviewers |-> None]
    /\ copy = [p \in Reviewers |-> None]
    /\ observed = [d \in Drivers |-> {}] /\ raced = FALSE /\ closed = {}
    /\ invocations = 0 /\ edits = 0 /\ crashes = 0

Idle(p) ==
    /\ pc' = [pc EXCEPT ![p] = "idle"]
    /\ work' = [work EXCEPT ![p] = None]
    /\ copy' = [copy EXCEPT ![p] = None]

Goes(p, place) == pc[p] = place

Quiet == \A p \in Reviewers : pc[p] = "idle"

GoTo(p, place) == pc' = [pc EXCEPT ![p] = place]

-----------------------------------------------------------------------------
(* One invocation.                                                         *)

\* Mutant: readiness is not looked at.
ReviewableUnready(cases, selected) ==
    selected # {} /\ selected \subseteq Failed(cases)

\* Mutant: what did not pass is taken for a failure.
ReviewableNotPassed(cases, selected) ==
    /\ cases[Connection] = "passed" /\ Connection \notin selected
    /\ selected # {} /\ \A t \in selected : cases[t] # "passed"

\* What the report has to show of the cases that --match selects.
Reviewable(cases, selected) ==
    /\ cases[Connection] = "passed" /\ Connection \notin selected
    /\ selected # {} /\ selected \subseteq Failed(cases)

\* Mutant: what is excluded already is recorded again.
MayRecordAgain(d, selected) == file # Broken /\ Loads(file, Inventory)

\* What the registry has to hold.
MayRecord(d, selected) ==
    /\ file # Broken /\ Loads(file, Inventory)
    /\ selected \cap Excluded(file, d) = {}

\* The checks before GitHub; every other way, parser.error ends the program
\* with nothing done.
Check(p, d, cases, selected, reason, create) ==
    /\ Goes(p, "idle")
    /\ invocations < MaxInvocations
    /\ Reviewable(cases, selected)
    /\ MayRecord(d, selected)
    /\ invocations' = invocations + 1
    /\ observed' = [observed EXCEPT ![d] = @ \cup Failed(cases)]
    /\ raced' = (raced \/ ~Quiet)
    /\ work' = [work EXCEPT ![p] = [driver |-> d, tests |-> selected, reason |-> reason,
                                    create |-> create, url |-> None]]
    /\ GoTo(p, "gh")
    /\ UNCHANGED <<file, github, copy, closed, edits, crashes>>

\* gh fails without effect, the issue is not open, or the URL is not one of an
\* issue.
GiveUp(p) ==
    /\ Goes(p, "gh")
    /\ Idle(p)
    /\ UNCHANGED <<file, github, history, invocations, edits, crashes>>

\* Mutant: the state of the issue is not looked at.
ViewAnyIssue(p, url) ==
    /\ Goes(p, "gh") /\ ~work[p].create
    /\ url \in Issues /\ github[url] # "absent"
    /\ work' = [work EXCEPT ![p].url = url]
    /\ GoTo(p, "reread")
    /\ UNCHANGED <<file, github, copy, history, invocations, edits, crashes>>

\* Mutant: any URL that GitHub returns is recorded.
ViewAnyUrl(p, url) ==
    /\ Goes(p, "gh") /\ ~work[p].create
    /\ github[url] = "open"
    /\ work' = [work EXCEPT ![p].url = url]
    /\ GoTo(p, "reread")
    /\ UNCHANGED <<file, github, copy, history, invocations, edits, crashes>>

\* The number given by --issue may be one of a pull request, which is open,
\* too, but has another URL.
ViewIssue(p, url) ==
    /\ Goes(p, "gh") /\ ~work[p].create
    /\ github[url] = "open"
    /\ url \in Issues
    /\ work' = [work EXCEPT ![p].url = url]
    /\ GoTo(p, "reread")
    /\ UNCHANGED <<file, github, copy, history, invocations, edits, crashes>>

CreateIssue(p, url) ==
    /\ Goes(p, "gh") /\ work[p].create
    /\ url \in Issues /\ github[url] = "absent"
    /\ github' = [github EXCEPT ![url] = "open"]
    /\ work' = [work EXCEPT ![p].url = url]
    /\ GoTo(p, "reread")
    /\ UNCHANGED <<file, copy, history, invocations, edits, crashes>>

\* GitHub creates the issue, but gh fails to tell of it: check=True raises.
CreateUnheard(p, url) ==
    /\ Goes(p, "gh") /\ work[p].create
    /\ url \in Issues /\ github[url] = "absent"
    /\ github' = [github EXCEPT ![url] = "open"]
    /\ Idle(p)
    /\ UNCHANGED <<file, history, invocations, edits, crashes>>

Reread(p) ==
    /\ Goes(p, "reread")
    /\ file # Broken
    /\ copy' = [copy EXCEPT ![p] = file]
    /\ GoTo(p, "write")
    /\ UNCHANGED <<file, github, work, history, invocations, edits, crashes>>

\* json.loads raises on a truncated file.
RereadFails(p) ==
    /\ Goes(p, "reread")
    /\ file = Broken
    /\ Idle(p)
    /\ UNCHANGED <<file, github, history, invocations, edits, crashes>>

\* write_text opens the file, which truncates it ...
Truncate(p) ==
    /\ Goes(p, "write")
    /\ file' = Broken
    /\ GoTo(p, "flush")
    /\ UNCHANGED <<github, work, copy, history, invocations, edits, crashes>>

Group(w) == [issue |-> w.url, reason |-> w.reason, tests |-> SetToSeq(w.tests)]

\* Mutant: the group is appended to a list that is not part of the document.
AppendedAside(registry, w) == registry

Appended(registry, w) == [registry EXCEPT ![w.driver] = Append(@, Group(w))]

\* ... and writes the registry with the group appended.  When another
\* reviewer wrote to the file since it was truncated, the end of a longer
\* text shows behind this one.
Flush(p) ==
    /\ Goes(p, "flush")
    /\ \/ file' = Appended(copy[p], work[p])
       \/ file # Broken /\ file' = Broken
    /\ Idle(p)
    /\ UNCHANGED <<github, history, invocations, edits, crashes>>

Crash(p) ==
    /\ pc[p] # "idle"
    /\ crashes < MaxCrashes
    /\ crashes' = crashes + 1
    /\ Idle(p)
    /\ UNCHANGED <<file, github, history, invocations, edits>>

-----------------------------------------------------------------------------
(* People.                                                                 *)

Tracks(registry, url) ==
    \E d \in Drivers : \E i \in DOMAIN registry[d] : registry[d][i].issue = url

\* A resolved group is removed from the registry, whoever is recording.
Resolve(d, i) ==
    /\ file # Broken
    /\ edits < MaxEdits
    /\ i \in DOMAIN file[d]
    /\ edits' = edits + 1
    /\ file' = [file EXCEPT ![d] = RemoveAt(@, i)]
    /\ UNCHANGED <<github, process, history, invocations, crashes>>

\* The registry refers to the issue, or may come to refer to it.
InUse(url) ==
    \/ Tracks(Committed, url)
    \/ file # Broken /\ Tracks(file, url)
    \/ \E p \in Reviewers :
          \/ pc[p] \in {"reread", "write", "flush"} /\ work[p].url = url
          \/ pc[p] \in {"write", "flush"} /\ Tracks(copy[p], url)

\* Any issue or pull request is closed, also one that is being recorded.
CloseIssue(url) ==
    /\ edits < MaxEdits
    /\ github[url] = "open"
    /\ edits' = edits + 1
    /\ github' = [github EXCEPT ![url] = "closed"]
    /\ closed' = IF InUse(url) THEN closed \cup {url} ELSE closed
    /\ UNCHANGED <<file, process, observed, raced, invocations, crashes>>

\* git restores a registry that a crash left truncated.
Restore ==
    /\ Quiet /\ file = Broken
    /\ file' = Committed
    /\ UNCHANGED <<github, pc, work, copy, history, invocations, edits, crashes>>

-----------------------------------------------------------------------------
Step(p) ==
    \/ \E url \in Issues \cup Pulls :
          ViewIssue(p, url) \/ CreateIssue(p, url) \/ CreateUnheard(p, url)
    \/ GiveUp(p) \/ Reread(p) \/ RereadFails(p) \/ Truncate(p) \/ Flush(p) \/ Crash(p)

Next ==
    \/ \E p \in Reviewers, d \in Drivers, cases \in [Inventory -> Statuses],
          selected \in SUBSET Inventory, reason \in Reasons, create \in BOOLEAN :
            Check(p, d, cases, selected, reason, create)
    \/ \E p \in Reviewers : Step(p)
    \/ file # Broken /\ \E d \in Drivers : \E i \in DOMAIN file[d] : Resolve(d, i)
    \/ \E url \in Issues \cup Pulls : CloseIssue(url)
    \/ Restore

Spec == Init /\ [][Next]_vars

-----------------------------------------------------------------------------
(* Properties.                                                             *)

GroupType == [issue : Issues, reason : Reasons, tests : Seq(Inventory)]
RegistryType == [Drivers -> Seq(GroupType)]

WorkType == [driver : Drivers, tests : SUBSET Inventory, reason : Reasons,
             create : BOOLEAN, url : Issues \cup {None}]

(* The types of the file, of GitHub's issues and of the invocations.       *)
TypeOK ==
    /\ file \in RegistryType \cup {Broken}
    /\ github \in [Issues \cup Pulls -> {"absent", "open", "closed"}]
    /\ pc \in [Reviewers -> {"idle", "gh", "reread", "write", "flush"}]
    /\ work \in [Reviewers -> WorkType \cup {None}]
    /\ copy \in [Reviewers -> RegistryType \cup {None}]
    /\ observed \in [Drivers -> SUBSET Inventory]
    /\ raced \in BOOLEAN
    /\ closed \subseteq Issues \cup Pulls
    /\ invocations \in 0..MaxInvocations
    /\ edits \in 0..MaxEdits
    /\ crashes \in 0..MaxCrashes

(* The registry cannot exclude the readiness test, nor the whole inventory, *)
(* however many reviewers record at once and wherever they crash.           *)
ReadinessAlwaysRuns ==
    file # Broken => \A d \in Drivers : Connection \notin Excluded(file, d)

(* What is excluded for a driver was committed or is a failure that a       *)
(* report of this driver showed, never one of the other driver, nor a case  *)
(* that was skipped or disabled.                                           *)
OnlyObservedFailures ==
    file # Broken =>
        \A d \in Drivers : Excluded(file, d) \subseteq Excluded(Committed, d) \cup observed[d]

(* The registry that quarantine.py leaves loads, in quarantine.py and in    *)
(* compare.py: each name once per driver, each group under an issue.  This  *)
(* is what the check of line 40 is for.                                    *)
RegistryAlwaysLoads == file # Broken => Loads(file, Inventory)

(* ... and so it is, whatever crashes, is resolved or restored, as long as  *)
(* no reviewer begins while another one is recording; and only a crash      *)
(* leaves the file truncated.                                              *)
RegistryLoads ==
    ~raced =>
        /\ RegistryAlwaysLoads
        /\ file = Broken => crashes > 0 \/ \E p \in Reviewers : pc[p] = "flush"

(* Groups are recorded under issues that exist and were found open, however *)
(* many reviewers overwrite each other's file: the issue of a group is open *)
(* unless somebody closed this very issue after it was looked at.           *)
EntriesAreTracked ==
    file # Broken =>
        \A url \in Issues \cup Pulls :
            Tracks(file, url) => github[url] = "open" \/ url \in closed

\* A registry excludes the tests that an invocation records, under its issue.
Recorded(registry, w) ==
    /\ Tracks(registry, w.url)
    /\ w.tests \subseteq Excluded(registry, w.driver)

(* An invocation that learns the URL of its issue ends with its tests       *)
(* recorded under it: only a crash, or a gh that fails after GitHub has     *)
(* created the issue, leaves an issue that nothing refers to, or a reviewer *)
(* who began while another one was recording.                              *)
IssuesAreRecorded ==
    [][\A p \in Reviewers :
        (/\ work[p] # None /\ work[p].url # None /\ work'[p] = None
         /\ crashes' = crashes /\ ~raced) =>
            file' # Broken /\ Recorded(file', work[p])]_vars
=============================================================================
