# Verification of the ODBC conformance harness

TLA+ modules, TLC configurations and TLAPS proofs for sqldev's ODBC conformance
harness: the Python scripts that run one test inventory through two ODBC drivers,
keep a registry of known failures and report recoveries to GitHub; the workflow that
runs them; and the C++ tests that manage ODBC handles, read values and diagnostics,
and connect. Paths below are relative to the repository.

## 1. Inventory

| Component | State it keeps | Operations | Talks to |
| --- | --- | --- | --- |
| Registry loader (`odbc-conformance/compare.py` 20-43, `known-failures.json`) | the JSON file: per driver, groups of issue, reason, tests | load, validate | read by the three scripts |
| Comparison runner (`compare.py`) | per driver a CTest report, GoogleTest XML, copies; `comparison.json`; in memory the runs and the audit | discover, run a driver, read results, copy evidence, audit, write, exit | CTest (child process), the file system |
| Quarantine recorder (`quarantine.py`) | reads a `comparison.json`, rewrites the registry | check, view or create an issue, append, write | GitHub through `gh`, the registry file |
| Recovery reporter (`report_recoveries.py`) | none of its own; a snapshot of the issues while it runs | validate a report, list, edit, create issues | GitHub through `gh`; people who edit and close the issues |
| Workflow (`.github/workflows/odbc-conformance.yml`) | runs, outputs, artifacts, concurrency groups | build, readiness loop, compare, summary, upload, report, cancel | the scripts |
| Conformance fixture and tests (`odbc-conformance/src/conformance.cpp` 63-470) | environment, connection and statement handles, transaction mode, a catalog table | SetUp, test bodies, TearDown | a driver through unixODBC, SQL Server |
| Retrieval of values (`conformance.cpp` 470-948) | guarded buffers, descriptors, rowsets, the chunk loop | get data, bind and fetch, fetch scroll, get data in chunks | a driver |
| Samples (`odbc-conformance/src/datatype_samples.h`) | a table: C type, sizes, flags | | read by the retrieval tests |
| Connection settings (`compare.py` 71-89, `conformance.cpp` 31-98) | environment variables | build the tests' environment and connection string | the tests, unixODBC |
| Parity configuration and diagnostics (`rust-odbc-parity/lib/odbc_test_config.cpp`, `odbc_test_utils.cpp`) | settings, record numbers | read settings, build a connection string, read diagnostic records | unixODBC, a driver |
| Parity fixture and suites (`rust-odbc-parity/lib`, `include`, `tests`) | handles, extra statements | Connect, AllocStmt, ExecDirect, FreeStmt, TearDown, cases | a driver |

What is hard here, and what the properties are for:

- files outlive the invocation that wrote them, and two drivers share one build
  directory (stale and foreign evidence);
- CTest is a process that may report a part, nothing, or time out and leave a
  test executable behind;
- one driver's error must neither stop the other nor disappear;
- the registry file is read, checked, and rewritten around a call to GitHub, with
  nothing to keep two reviewers apart;
- the reporter works from a snapshot of the issues that people keep editing,
  closing and reopening, can die between two groups, and runs again every three hours;
- the workflow's second job acts on what a red, cancelled or broken first job left;
- fixtures release handles after failures of any step, in an order ODBC enforces;
- the tests judge drivers, so a right driver must pass at every limit of a buffer, an
  array element or a chunk, and a wrong one must not pass on what a buffer still holds;
- two suites build their connection from two sets of variables and two syntaxes, and
  must mean the same server;
- the readers of diagnostics count records in 16 bits, in loops without a bound.

Correctness, per component. Registry: only exact, justified names, never the
readiness test or everything. Runner: exit 0 is earned, exit 1 has a cause, the
audit is accurate, evidence is the driver's own. Recorder: only observed failures
of an unexcluded test are recorded, under an issue that exists; concurrent
recordings do not lose or duplicate one another. Reporter: one open notification
per issue, human text survives, closing suppresses, a retry does not duplicate and
completes what was left. Workflow: what is filed is what recovered, nothing
concluded is lost. Fixtures: no handle leaks or is used after it is freed, no
transaction is left open. Retrieval: right drivers pass, green means the values came
from the driver. Settings: both suites reach the driver and server that were asked for.

## 2. Modules

| Module | Models | Composed with |
| --- | --- | --- |
| `Registry` | the predicate "`load_exclusions` does not raise" and what it returns | extended by `Comparison` and `Quarantine` |
| `Comparison` | invocations of `compare.py` over shared directories, CTest as an external process | implements `ComparisonPromise` |
| `ComparisonPromise` | what the exit status promises, without files, reports or errors | the abstract specification |
| `Pipeline` | a run of the workflow, from the build to `recovery_groups` | extends `Comparison`: its steps are those of the step "Compare" |
| `Recoveries` | `publish` of `report_recoveries.py`, the concurrency group of its job, GitHub, people | starts from groups as `Pipeline` ends with |
| `Quarantine` | `quarantine.py`, its file, GitHub, people | `Registry` |
| `OdbcTest` | a test process as an interpreter of call sequences; ODBC and the server as an external part | |
| `ConformanceTests`, `ParityTests` | SetUp, bodies and TearDown of the two groups of tests, as call sequences | `OdbcTest` |
| `TestSuite` | the executable that holds both groups | instantiates both |
| `Retrieval` | the DataTypes tests: four ways to read a column of three rows, and how they judge it | |
| `Samples` | the table of samples: types and sizes | used by the runs and one theorem about `Retrieval` |
| `Diagnostics` | the four readers of diagnostic records | extended by `Connections` |
| `Connections` | environments, settings, connection strings as written and as ODBC reads them | `Diagnostics` |
| `SequenceLemmas` | lemmas about the operators on sequences | extended by the proofs about `Recoveries` and `Quarantine` |
| `..._proofs` | theorems and proofs | extend their component |
| `MC...` | values of the constants | |

Operators whose comment begins with "Mutant" are plausible bugs of the operator
that follows them. No specification uses them; they show that a property can fail.

### Comparison and Pipeline

The disk (`ctestXml`, `buildXml`, `evidence`, `published`) outlives invocations, the
rest is the process. `pc` follows `main`: `Begin` or `Refuse` (lines 235-254), then for
each driver `Prepare` or `PrepareFails` (92-105), CTest (110), `ReadReport`
(113-117), `CopyEvidence` or `CopyFails` (118-134), then `Audit` and `Conclude`.
`Record` is the end of the loop body: it stores the run, or the error that `main`
catches, and goes to the next driver. CTest either completes, misbehaves (a part,
too much, an unreadable report or none, with any exit code), or times out and leaves
a test executable in `orphans`, which writes its XML at any later time. `truth` is a
history variable: how each test of this invocation really ended. Test names are
model values; CTest's exit codes are 0, 8 and one for all others, which is what the
code tells apart. `Dies` is a kill, or an error that `main` does not catch.

A behaviour of `Pipeline` is one workflow run on a fresh runner. `step` follows the
first job; a failed step (`StepFails`) goes on to those with `always()`. `Cancel` kills
the running step and does the same; `RunnerLost` ends the job without outputs. The second
job is due on `audit_report` alone (`ReportIsDue`), downloads the artifact and either
rejects it or groups its recoveries. The runs, audit and registry of `Comparison` stand for
the contents of `comparison.json` and the second checkout.

### Recoveries

A body is the sequence of the parts that `publish` distinguishes: markers, signatures,
evidence, the end marker, notes. `ListIssues` takes the snapshot; `RaiseError`,
`Update`, `Suppress` and `Create` are the four ways of an iteration (104-127).
`Submit`, `Rerun`, `StartJob`, `CancelWaiting` are the workflow: one running job, one pending. A later
report replaces the pending one, the job of any earlier report may be run again (`audits` holds them all), and a
pending one may be cancelled, by hand or because the next run of its workflow begins. `JobDies` comes between any two steps, so also after
GitHub has created an issue. People annotate, close, reopen, retitle issues and erase end
markers at any time. History: `touched` holds the issues that they changed since the
listing, `reopened` those they ever reopened. The hash in the signature is taken to be
injective.

### Quarantine

`Check` is everything before `gh` (13-41), with the report an arbitrary assignment of
statuses; `ViewIssue`, `CreateIssue`, `CreateUnheard` (GitHub creates the issue, but `gh` fails) and `GiveUp` are `gh` (42-74); `Reread` is the second
read (75); `Truncate` and `Flush` are the two effects of `write_text` (77). Reviewers
interleave at every one of these steps. A flush over a file that another reviewer wrote
since the truncation may leave a mixture, which is `Broken` like a truncated file. People
resolve groups and close issues at any time, also those that are being recorded; git restores a broken file. History:
`raced` tells whether a reviewer began while another one was recording, `closed` holds the issues that people
closed while the registry, or an invocation, referred to them.

### OdbcTest, ConformanceTests, ParityTests, TestSuite

A test is three sequences of calls. A call has a check (`ASSERT` ends the sequence,
`EXPECT` and nothing do not) and may depend on members of the fixture. `Succeed`
and `Fail` interpret the next call: a driver fails what ODBC's rules for handles, cursors,
transactions and tables forbid (`Legal`), and up to `MaxFaults` calls that it could have
done. A failed `CREATE TABLE` may have created the table. `Kill` is CTest's 30 seconds
or a crash: handles and session go, permanent tables stay, and the next process meets
them. Values are left out: a comparison that fails is a call that fails its check.

### Retrieval, Samples

A column has a C type, the bytes of its native form, the characters of its text, and flags.
`GetData`, `Fetch`, `FetchScroll` and `GetChunk` are one call and the judgement on what it left
(`Judge`: `expect_value`, which may end the test); `NumericDescriptor` is the sequence of
`SQLSetDescField`s, of which every one but the address unbinds. The driver answers in any way:
any return code, length and effect on the buffer. `right` remembers that it has done what ODBC
says so far, `written` the rows whose value it wrote. Of a chunk it matters how many bytes of
the value it brought: the samples read in chunks repeat one character.

### Diagnostics, Connections

A value of the environment is a sequence of tokens; only `;`, braces and keywords matter in a
connection string. `DriverEnvironment` is `compare.py`'s environment of a driver,
`ConformanceSettings` and `Config` what the suites make of it, `ConformanceString` (with `Doubled`, the
loop over a value's characters) and `BuildConnectionString` what they write. `Reading` is how ODBC reads
it, token by token (`Scan`): mode, keyword and value at hand, settings that are complete. It is the set of
what may be read, which the lemma `OneReading` shows to have one element; `Meant` is what an
environment's settings mean. A behaviour chooses an environment, whether
`compare.py` or a person starts the tests, and a suite; it configures, connects, and one of
the readers goes through the diagnostic records of a handle. Record numbers wrap at `MaxSmall`.

## 3. Runs

Distinct states in parentheses.

| Run | Checks | Shows |
| --- | --- | --- |
| `pipeline` (4.4 million) | `RunTypeOK`, `GreenIsEarned`, `RedHasCause`, `AuditIsAccurate`, `FiledIsTrue`, `RejectedForCause`, `AuditsReachReport` | one workflow run, pinned or audit, cancelled, failed or lost anywhere, with three tests that pass, fail or skip, two registries (known failures of both drivers under two issues; one that does not load) and one CTest run gone wrong: exit 0 is earned, exit 1 has a cause, a report that CTest wrote as told is never refused, the audit's classes are what happened, issues get exactly the tests that really recovered, no report is rejected without a cause, no concluded audit is skipped |
| `comparison_disk` (1.2 million) | `TypeOK`, `FreshEvidenceWins`, `KeepsPromise` | two invocations of `compare.py` over the same directories, one time-out with its orphan, one fault: nothing left on disk is taken for a result, and the runner implements `ComparisonPromise` (which contains `GreenIsEarned`), liveness included |
| `comparison_orphan` | `EvidenceOfThisDriver` fails | finding 1 |
| `recoveries` (1.1 million) | `TypeOK`, `OneOpenNotification`, `NotesSurvive`, `ClosedIsFinal`, `EndedMeansTold`, `NewsOnly`, `JobEnds` | two originals, two reports, a run again, a death or cancelled wait, two acts of people at any time |
| `recoveries_notes` | `NotesAlwaysSurvive` fails | finding 2 |
| `recoveries_suppressed` | `SuppressedStaysSilent` fails | finding 3 |
| `quarantine` (370 000, with symmetry) | `TypeOK`, `ReadinessAlwaysRuns`, `OnlyObservedFailures`, `RegistryLoads`, `EntriesAreTracked`, `IssuesAreRecorded` | two reviewers, two invocations, two edits of people at any time, a crash |
| `quarantine_race` | `RegistryAlwaysLoads` fails | finding 4 |
| `test_suite` (118 000) | `TypeOK`, `RedHasReason`, `NoDanglingAddresses`, `LeavesNothing`, `GreenMeansClean`, `CommitsOnlyOnRequest` | any three tests one after the other, each with up to three failing calls at any place, and two kills |
| `retrieval` (32 000) | `TypeOK`, `RightDriverPasses`, `GreenMeansWritten`, `TestsEnd` | every way to read columns whose sizes are below, at and above every limit |
| `connections` (337 000) | `TypeOK`, `ConformanceIsExact`, `SameSettings`, `DriverIsTheLibrary`, `ParityIsExact`, `ReportsAreComplete`, `ReadingEnds` | pairs of related variables set, empty or unset, with seven values; overrides; lists of up to three records |
| `connections_credentials` | `SameCredentials` fails | finding 5 |

`pipeline` checks deadlock: only a run that is over may stop, so that every run comes to its end, as it
takes finitely many steps (`RunsComeNearer`). In the other runs the system may stop (no invocation, job or process need
follow, a test is over), and the liveness properties say what may not get stuck.

Bounds. Two drivers are the code's own. Three tests give a readiness test, one known to
fail on one driver and one known on both, which stands between the others so that positions in the whole
inventory differ from those among the tests that are left; two invocations are needed for stale
files and suffice because `Begin` forgets all but the disk, and the disk keeps only the
latest writer of each file. A workflow run starts from a fresh disk, so that one is enough;
three attempts of the readiness loop are a first, a middle and a last one. `--include-known-failures` is in no
run, since the workflow does not use it; the theorems hold for it. Two originals let one
group fail or be published before the other; two reports give an update after a creation, and the first of them
run again after the second is an older one (any earlier report in the theorems). People write
notes before everything else or behind the fourth part of a body (`NotePlaces`): behind a section, or inside one
that has a note before it. Two
reviewers make the race, and one crash makes the truncated file. Two processes on
one server make a table outlive a kill, a third starts after a second kill; the
second of three faults hits TearDown after the first one ended the body. In `retrieval`
chunks have 4 bytes, 3 at most are read, buffers have 34 bytes and elements of arrays 8; the
columns' lengths are 0, one, around a payload, at its multiples, around the limits. In `connections`
record numbers go up to 3, and lists have as many, so that they wrap. The theorems of
section 5 remove the bounds from what they state.

Fairness. `Comparison`: weak fairness of the steps an invocation takes by itself. CTest
is among them because `subprocess.run` has a timeout. No fairness for invocations to
begin, for orphans, or for anything to go wrong. `Recoveries`: weak fairness of the
runner starting a pending job, and of the job, a loop over a finite list whose `gh` calls
end or raise; none for people, audits or deaths. `Retrieval` and `Connections`: weak fairness of
the next step, sequential code whose calls return or are killed after CTest's 30 seconds.
`Pipeline`, `Quarantine` and `TestSuite` have only safety properties, and no fairness.

## 4. Findings

1. `comparison_orphan`. `odbc-conformance/README.md` 227-228 says each driver gets its
   own GoogleTest XML reports. The timeout (`compare.py` 111) kills CTest and not the test
   executable it started; this one may end during the other driver's turn, write its XML
   over that driver's, and be copied as its evidence. Verdicts are not affected: they
   come from CTest's report (`GreenIsEarned` holds with orphans by proof).
2. `recoveries_notes`. README 262-263 says human notes are not overwritten. The body sent
   is spliced from the listing: a note saved between listing and edit is lost. Notes survive
   in issues that nobody touches in between (checked and proved).
3. `recoveries_suppressed`. README 261-262 says closing a notification suppresses its set of
   cases. Closed notifications are looked at only when none is open: while another set has an
   open notification, the suppressed set is written into it.
4. `quarantine_race`. A name may be recorded twice by two reviewers, since the check is made
   before `gh` is called and on an earlier read; the registry then loads nowhere.
5. `connections_credentials`. `compare.py` 76 says both suites must use exactly the same
   server and credentials. `conformance.cpp` 88-98 puts every value in braces and doubles closing ones;
   `odbc_test_utils.cpp` 105 writes server, user and password as they are, so that a `;` or a leading brace in
   one of them means something else to the parity suites.

Met while modelling, and part of the models without a run of their own:

- A case that writes no XML keeps the XML that an earlier invocation copied.
- A notification closed between listing and edit is edited while closed (`ClosedIsFinal` speaks of
  untouched issues). A damaged section raises and leaves the groups after it unpublished until
  somebody repairs it (`EndedMeansTold` speaks of jobs that end well).
- The parity fixture's TearDown looks at no return code, so `GreenMeansClean` is stated of the
  tests of `conformance.cpp` only.
- The third row of `BindColumns` and `FetchScroll` is compared with a buffer that still holds
  the equal value of the first: a driver that writes nothing there passes (`MayBeStale`). Buffers are
  zeroed before, so a missing terminator goes unnoticed, although README 97-99 says terminators are
  checked. A binary value of exactly 40 000 bytes would fit the buffer and be refused
  (`ASSERT_LT(length, 40000)`); no sample is that long. Chunks in another order
  are not noticed, since samples repeat one character.
- A handle with exactly 32767 records makes `diagnostics` note a failure after all were reported;
  `GetDiagMessage` stops at an error without a word.
- `fixture.h` 167 calls the user "optional", but the setting is never empty (it defaults to `sa`). `HasConnection()` is
  always true. `HasSqlAuth`, `HasDiagState` and the two `SKIP_IF_COMPARING` macros are used by no test; the macros
  compare `ODBC_TEST_TARGET` with `msodbcsql`, where `compare.py` sets `msodbcsql18`.

## 5. Proofs

For every value of the constants, the bounds included, that the named assumptions allow.

`Comparison_proofs`. The inductive invariant is `TypeOK`, a registry that loaded
(`RegistryInv`), and `LoopInv`: which drivers have had their turn (`OrderInv`), that
the CTest report about to be read is of this run and agrees with `truth` (`ReportInv`), that the
recorded results do (`ResultsInv`), and that an audit with nothing to report leaves nothing
to report (`AuditInv`).
`GreenIsEarned` alone is not inductive: it speaks of the verdict, which is computed from
results recorded several steps before. From it: `TypeCorrect`, `GreenIsEarnedAlways`,
`GreenMeansConnectedAlways` (no registry that loads excuses the readiness test), and
`ComparisonKeepsPromise`, the safety part of the refinement, action by action.
`SelectionIsExact` is about the indices given to `ctest -I`.

It goes on with what is left behind. `KeptInv`: the audit is kept together with the runs and
the registry that it was made from, until the verdict; `WritesInv`: nothing of a driver ran before its
turn, without time-outs there are no orphans, and the build directory then holds what this
turn's tests wrote. `SelectedIsExpected`: positions in the
inventory select just the tests that the report is then checked for (`CompleteIsRead`).
From them `RedHasCauseAlways`, `AuditIsAccurateAlways` and `FreshEvidenceAlways`.
`InvocationsComeNearer`: each step of an invocation decreases `StepsLeft`, which is ten at its start.

`Pipeline_proofs`. Every step of a workflow run is a step of `Comparison` or leaves it alone
(`CoreIsComparison`, for which the modes of `Modes` must include those the workflow uses: `KindsAssumption`), so that
all of the above holds in it. `CoreInv` adds what follows from there being one invocation: its mode, the
registry that loaded, and that a whole `comparison.json` of an audit has all runs and the audit (`OnceInv`,
`PublishedInv`; `FilesAssumption` keeps the model value `None` apart from records). `HandoverInv` says what the artifact,
the job's output and the second job's end tell of it. `GroupsTell` computes what an accepted report files from
`AuditIsAccurate`, and `NoCauseIsComplete` shows that without a cause every check of `recovery_groups` passes.
Theorems: `RunTypeCorrect`, `FiledIsTrueAlways`, `RejectedForCauseAlways`, `AuditsReachReportAlways`, and
`RunsComeNearer`: each step of a run decreases `RunLeft`, so that it takes `MaxAttempts` + 16 steps at most.

`Recoveries_proofs`. The invariant joins the types with: what the phases mean (`JobInv`), at
most one marker per body, so that editing one original's notification never makes it one of another (`OneMarkerInv`);
the snapshot agrees with the issues it lists in their markers and, for groups still to do, in
their sets of cases, and what was created since belongs to groups that are done
(`SnapshotInv`); what is open and never reopened is open in the snapshot and each
original has one such notification at most (`ReopenInv`); and groups that are done have been told
(`DoneInv`). Theorems: `TypeCorrect`, `OneOpenNotificationAlways`, `NewsOnlyAlways`,
`ClosedIsFinalAlways`, `NotesSurviveAlways`, `EndedMeansToldAlways`. None assumes anything of
people: the properties except the issues that they reopened, or touched since the listing.
`JobsComeNearer`: each step of a job decreases `StepsLeft`, and as long as groups are left one is next.

`Quarantine_proofs`. Any number of reviewers. The file alone is not inductive: it is written
from copies read earlier. So the invariant asks of every copy that can still be
written what it asks of the file (`CopyInv`, `FileInv`: `Sound`), and of all work in progress
that its names were observed and are not the readiness test (`WorkInv`, `IssueInv`). Lost
updates, crashes and restores then do no harm to `ReadinessAlways` and `OnlyObservedAlways`. As long as
no reviewers raced, one of them at most is at work and the file it is about to write loads (`AloneInv`,
`LoadInv`): `RegistryLoadsAlways`. Races or not, the issue behind a group of the file, of a copy that can still
be written or of work in progress is open or in `closed` (`TrackInv`): `EntriesTrackedAlways`. `IssuesAreAlwaysRecorded` is an action property: an invocation that ends well has
written the group of its issue.

`TestSuite_proofs`. Any number of processes, faults and kills, every body. `TypeInv` gives the calls their
types. In SetUp and the bodies of `conformance.cpp` (`RunInv`) the fixture holds exactly the live handles,
the session is remembered by the call after the connect, work is open only in manual mode, and a table exists only under a
remembered name; this follows from three properties of the call sequences (`Paired`, `Connects`,
`Named`), checked body by body. In TearDown the invariant depends on the number of calls left (`Torn`: what is released and
what not), with the part about the driver only while no call of TearDown has failed. `ParityInv` and
`ParityTorn` are the same for the parity fixture. From them `TypeCorrect`,
`LeavesNothingAlways`, `GreenMeansCleanAlways`, `CommitsOnlyOnRequestAlways` and `NoDanglingAddressesAlways`.

`RedHasReasonAlways` says that the bodies themselves keep ODBC's rules. A stage is what these rules look
at: how far the handles and the session are, the rows left of an open cursor, and the catalog table (`Stages`); `Plays(c, a, b)`
says that call `c` is allowed at stage `a` and leads to `b`, or is an `execute` whose failure nobody checks; `Playable(s, a, b)`
says it of a sequence. `Playable` composes
(`PlayConcat`) and, for the calls between two cursors, does not depend on tables (`Turning`), so that each SetUp
and body is shown playable from the pieces it is put together from. The invariant `ReasonInv` is that as long as no call has failed that could have succeeded, what is left of
SetUp or of the body can be played from the stage the driver is at, and that all tables have the number of an earlier process, so that no
`CREATE TABLE` meets its own name. In TearDown of `conformance.cpp` each call is legal that the
fixture makes, unless one there has failed (`TearLegal`, from `Torn`); those of the parity fixture have no check
(`TearUnchecked`).

`Retrieval_proofs`. Columns and limits of any size. `PlaceInv` ties row, chunk and phase to the path; `RightInv`
says that as long as the driver is right, nothing failed and what was put together so far is the beginning of
the value, a number of whole payloads; `SlotInv` and `WrittenInv` say whose value a buffer may hold and which rows
have been written if nothing failed. From them `TypeCorrect`, `RightDriversAlwaysPass`,
`GreenAlwaysMeansWritten`. `SamplesAreJudgedRightly` instantiates the conditions of `RightDriverPasses` (`Fits`)
with the limits of the code and the table of samples: all of them fit.

All steps of a test decrease `StepsLeft` (`TestsComeNearer`), whatever the driver answers.

`Connections_proofs`. `TypeCorrect`; `SameSettingsAlways`: for any environment, both suites start from the
same settings when `compare.py` starts them; `ReportsAreCompleteAlways`: for lists of any length up to the largest record number, a
report has all records or says that it has not, from an invariant that the records taken are those before the
current one.
`ReadersComeNearer`: the record number runs over once, and so every reader ends.

`ConformanceIsExactAlways`, `ParityIsExactAlways` and `DriverIsTheLibraryAlways` are about strings of any length. What
the recursive functions of `Reading` and `Doubled` compute is taken from their definitions in three steps: a
function as defined exists for each length (`ScanFunctionExists`), two of them agree as far as their sequences do
(`ScanFunctionsAgree`), so that the result of one token more follows from the one before (`ScannedAppend`,
`DoubledAppend`). On these rest lemmas on the pieces of a string, by induction on their values: whatever its
characters are, a value in braces whose closing ones are doubled is read as it is (`BracedValueIsRead`), a plain one without a `;` and a
leading brace too (`PlainIsReadFromStart`). `Says(m, keys, s)` says that after string `s` the settings of `keys`, as they
are in `m`, are complete and no others; attributes extend it one by one (`AttributeSays`, `PlainSays`), up to
`ConformanceStringIsRead` and `ParityStringIsRead`. The invariant `Made` ties settings and environments to them:
in an environment that `compare.py` made, no connection string or DSN of the caller's takes the place of the settings,
and its driver is the library (`MadeEnvironment`).

`SequenceLemmas` has the induction on natural numbers and on sequences for a set (`NatSetInduction`,
`SeqSetInduction`): the library's theorems take an operator, which the provers cannot instantiate, but a set of
those numbers or sequences that have a property is a constant like others.

Every safety invariant and action property of the passing runs is so a theorem. Only model-checked is liveness: that
of `KeepsPromise`, `JobEnds`, `TestsEnd` and `ReadingEnds`. The provers do not know ENABLED, on which fairness is
defined. What the code contributes to it is proved: the theorems `...ComeNearer` give a natural number that every
step decreases and nothing else increases. TLC shows the rest, that a step is possible until the end. The theorems
assume of the constants only what the modules do (`...Assumption`), which TLC evaluates in the runs. No module
uses RECURSIVE operators.

## 6. Not modelled

- The content of values: conversions, and the bytes that samples consist of; `Retrieval` knows their lengths.
- The parity suites' tables of cases (their kinds are in `ParityTests`) and the comparisons they make.
- How the tests are built (`CMakeLists.txt`; what CTest is told is in `OdbcTest`), pins, the compose file.
- Which newer workflow run cancels which: `Pipeline` lets any run be cancelled at any step.
- An issue that loses its label or marker: nothing in GitHub then says that it is a notification.
- A driver whose catalog result never ends (`conformance.cpp` 299): CTest's 30 seconds, a `Kill`.
- `ToSqlTStr`'s widening of bytes, the Windows branch of `GetEnv`, libraries whose path has a closing brace
  (`LibrariesAssumption`).
- `summary.md`, the wording of issues and messages, `--dry-run`.
- `test_compare.py` and its neighbours, which were read for what they say of the scripts.

## 7. Plan

Done: all components of section 1 except what section 6 lists, and the proof of every safety property. What is
left, by worth:

1. A composition of several runs of `Pipeline` with `Recoveries`: audits of two branches may overtake each other
   before they reach the one concurrency group of the reports.
2. An abstract `HandleOwnership` that both fixtures implement, with the refinement proved from `RunInv` and `Torn`.
3. The tables of the parity suites: names of cases are distinct, counts.
