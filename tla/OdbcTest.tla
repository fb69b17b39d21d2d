------------------------------ MODULE OdbcTest ------------------------------
(***************************************************************************)
(* One process of the test executable, which CTest starts for one test, and *)
(* what ODBC and SQL Server do for it.  Processes follow one another        *)
(* (RUN_SERIAL); only permanent tables outlive them.                       *)
(*                                                                         *)
(* SetUp, the body and TearDown of a test are sequences of calls, given by  *)
(* ConformanceTests and ParityTests.  A call is checked by ASSERT, which    *)
(* ends its sequence, by EXPECT, or by nothing, and may depend on the       *)
(* fixture's members.  What is compared with what is left out: a wrong      *)
(* value is a call that fails its check.                                   *)
(***************************************************************************)
EXTENDS Naturals, Sequences, FiniteSets

CONSTANTS
    Members,      \* buffers that are members of fixtures
    Locals,       \* buffers that are variables of test bodies
    MaxProcesses, \* bound
    MaxFaults,    \* bound: calls of one process that fail against the rules
    MaxKills,     \* bound
    None

ASSUME BuffersAssumption == Members \cap Locals = {}

ASSUME BoundsAssumption ==
    MaxProcesses \in Nat /\ MaxFaults \in Nat /\ MaxKills \in Nat

ASSUME NoneAssumption == None \notin Nat

VARIABLES
    odbc,       \* driver manager, driver and session, as this process uses them
    tables,     \* permanent tables of the server
    fixture,    \* members of the fixture object
    phase,      \* "none", "setup", "body", "teardown", "ended" or "killed"
    test,       \* the body that this process runs
    rest,       \* calls left of the phase
    fatal,      \* GoogleTest saw a fatal failure
    failed,     \* ... or any failure
    faults, processes, kills,
    unclean     \* history: a call of TearDown failed that could have succeeded

vars == <<odbc, tables, fixture, phase, test, rest, fatal, failed,
          faults, processes, kills, unclean>>

Handles == {"env", "dbc", "stmt", "extra", "cleanup"}

Buffers == Members \cup Locals

-----------------------------------------------------------------------------
(* Calls.                                                                  *)

Call(name, of, check) == [name |-> name, of |-> of, check |-> check, when |-> "always"]

Assert(name, of) == Call(name, of, "assert")
Expect(name, of) == Call(name, of, "expect")
Ignore(name, of) == Call(name, of, "none")
If(condition, call) == [call EXCEPT !.when = condition]

\* A condition of the fixture; every other one names a handle that is not null.
Holds(condition) ==
    CASE condition = "always" -> TRUE
      [] condition = "connected" -> fixture.connected
      [] condition = "manual" -> fixture.connected /\ fixture.manual_commit
      [] condition = "table" -> fixture.connected /\ fixture.metadata_table # None
      [] OTHER -> condition \in fixture.held

-----------------------------------------------------------------------------
(* ODBC and the server.                                                    *)

NewProcess ==
    [live |-> {},            \* handles allocated
     session |-> FALSE,      \* connected
     autocommit |-> TRUE,
     work |-> FALSE,         \* an open transaction
     cursor |-> None,        \* rows left in the open cursor
     addresses |-> {},       \* what the statement points to
     surprise |-> FALSE]     \* history: work committed that no call committed

Points(kind, buffer) == <<kind, buffer>>

Allocatable(h) ==
    \/ h = "env"
    \/ h = "dbc" /\ "env" \in odbc.live
    \/ h \in {"stmt", "extra", "cleanup"} /\ odbc.session

Freeable(h) ==
    /\ h = "env" => "dbc" \notin odbc.live
    /\ h = "dbc" => ~odbc.session

\* ODBC demands it, or the server does; a driver that obeys the rules fails the
\* call otherwise.
Legal(c) ==
    CASE c.name = "alloc" -> Allocatable(c.of)
      [] c.name = "free" -> Freeable(c.of)
      [] c.name = "prepare" -> odbc.cursor = None
      [] c.name = "execute" -> odbc.cursor = None
      [] c.name = "create" -> odbc.cursor = None /\ fixture.metadata_table \notin tables
      [] c.name = "fetch" -> odbc.cursor # None /\ odbc.cursor # 0
      [] c.name = "end" -> odbc.cursor = 0
      [] c.name = "get" -> odbc.cursor # None
      [] c.name = "close cursor" -> odbc.cursor # None
      [] c.name = "disconnect" -> odbc.session /\ ~odbc.work
      [] OTHER -> TRUE

Fetched(k) == IF odbc.cursor < k THEN 0 ELSE odbc.cursor - k

\* Statements open a transaction unless each one is its own.
Executed(o, rows) ==
    [o EXCEPT !.cursor = IF rows = 0 THEN None ELSE rows,
              !.work = ~o.autocommit]

Freed(o, h) ==
    IF h = "stmt"
    THEN [o EXCEPT !.live = @ \ {h}, !.cursor = None, !.addresses = {}]
    ELSE [o EXCEPT !.live = @ \ {h}]

\* SQLDisconnect drops the statements.
Disconnected(o) ==
    [o EXCEPT !.session = FALSE, !.live = @ \ {"stmt", "extra", "cleanup"},
              !.cursor = None, !.addresses = {}]

Effect(c) ==
    CASE c.name = "alloc" -> [odbc EXCEPT !.live = @ \cup {c.of}]
      [] c.name = "free" -> Freed(odbc, c.of)
      [] c.name = "connect" -> [odbc EXCEPT !.session = TRUE]
      [] c.name = "disconnect" -> Disconnected(odbc)
      [] c.name = "execute" -> Executed(odbc, c.of)
      [] c.name = "create" -> Executed(odbc, 0)
      [] c.name = "fetch" -> [odbc EXCEPT !.cursor = Fetched(c.of)]
      [] c.name = "close" -> [odbc EXCEPT !.cursor = None]
      [] c.name = "close cursor" -> [odbc EXCEPT !.cursor = None]
      [] c.name = "point" -> [odbc EXCEPT !.addresses = @ \cup {c.of}]
      [] c.name = "detach" -> [odbc EXCEPT !.addresses = @ \ {c.of}]
      [] c.name = "unbind" ->
            [odbc EXCEPT !.addresses = {a \in @ : a[1] # "column"}]
      [] c.name = "autocommit off" -> [odbc EXCEPT !.autocommit = FALSE]
      \* ... and on commits what is open.
      [] c.name = "autocommit on" ->
            [odbc EXCEPT !.autocommit = TRUE, !.work = FALSE,
                         !.surprise = @ \/ odbc.work]
      [] c.name \in {"commit", "rollback"} -> [odbc EXCEPT !.work = FALSE, !.cursor = None]
      [] OTHER -> odbc

EffectOnTables(c) ==
    CASE c.name = "create" -> tables \cup {fixture.metadata_table}
      [] c.name = "drop" -> tables \ {fixture.metadata_table}
      [] OTHER -> tables

EffectOfFailed(c) == IF c.name = "execute" THEN Executed(odbc, 0) ELSE Effect(c)

\* The server or the session may have done what the driver reports as failed.
MayStillWork == {"create", "drop", "execute", "autocommit off", "autocommit on"}

-----------------------------------------------------------------------------
(* The fixture's members.                                                  *)

NewFixture ==
    [held |-> {},                 \* handles that are not null
     connected |-> FALSE, manual_commit |-> FALSE, metadata_table |-> None]

\* A null handle is what a failed allocation leaves; a handle is null once it
\* was passed to SQLFreeHandle, whatever that returned.
MembersAfter(c, succeeds) ==
    CASE c.name = "alloc" /\ succeeds -> [fixture EXCEPT !.held = @ \cup {c.of}]
      [] c.name = "free" -> [fixture EXCEPT !.held = @ \ {c.of}]
      [] c.name = "set" /\ c.of = "connected" -> [fixture EXCEPT !.connected = TRUE]
      [] c.name = "set" /\ c.of = "manual_commit" -> [fixture EXCEPT !.manual_commit = TRUE]
      [] c.name = "set" /\ c.of = "metadata_table" ->
            [fixture EXCEPT !.metadata_table = processes]
      [] c.name = "set" /\ c.of = "fixed metadata_table" ->
            [fixture EXCEPT !.metadata_table = 0]
      [] OTHER -> fixture

-----------------------------------------------------------------------------
Init ==
    /\ odbc = NewProcess /\ tables = {} /\ fixture = NewFixture
    /\ phase = "none" /\ test = None /\ rest = <<>>
    /\ fatal = FALSE /\ failed = FALSE /\ unclean = FALSE
    /\ faults = 0 /\ processes = 0 /\ kills = 0

Running == phase \in {"setup", "body", "teardown"}

\* CTest starts the executable for the test t, whose SetUp is calls.
Start(t, calls) ==
    /\ ~Running
    /\ processes < MaxProcesses
    /\ processes' = processes + 1
    /\ odbc' = NewProcess /\ fixture' = NewFixture
    /\ phase' = "setup" /\ test' = t /\ rest' = calls
    /\ fatal' = FALSE /\ failed' = FALSE /\ unclean' = FALSE
    /\ faults' = 0
    /\ UNCHANGED <<tables, kills>>

Upcoming == Head(rest)

Skip ==
    /\ Running /\ rest # <<>>
    /\ ~Holds(Upcoming.when)
    /\ rest' = Tail(rest)
    /\ UNCHANGED <<odbc, tables, fixture, phase, test, fatal, failed,
                   faults, processes, kills, unclean>>

Succeed ==
    /\ Running /\ rest # <<>>
    /\ Holds(Upcoming.when) /\ Legal(Upcoming)
    /\ odbc' = Effect(Upcoming)
    /\ tables' = EffectOnTables(Upcoming)
    /\ fixture' = MembersAfter(Upcoming, TRUE)
    /\ rest' = Tail(rest)
    /\ UNCHANGED <<phase, test, fatal, failed, faults, processes, kills, unclean>>

\* The call fails, or what it returned does not pass its check.
Fail ==
    /\ Running /\ rest # <<>>
    /\ Holds(Upcoming.when) /\ Upcoming.name # "set"
    /\ \/ ~Legal(Upcoming) /\ faults' = faults
       \/ Legal(Upcoming) /\ faults < MaxFaults /\ faults' = faults + 1
    /\ \/ UNCHANGED <<odbc, tables>>
       \/ /\ Legal(Upcoming) /\ Upcoming.name \in MayStillWork
          /\ odbc' = EffectOfFailed(Upcoming) /\ tables' = EffectOnTables(Upcoming)
    /\ fixture' = MembersAfter(Upcoming, FALSE)
    /\ failed' = (failed \/ Upcoming.check # "none")
    /\ fatal' = (fatal \/ Upcoming.check = "assert")
    /\ rest' = IF Upcoming.check = "assert" THEN <<>> ELSE Tail(rest)
    /\ unclean' = (unclean \/ (phase = "teardown" /\ Legal(Upcoming)))
    /\ UNCHANGED <<phase, test, processes, kills>>

\* GoogleTest: a body runs unless SetUp failed fatally, TearDown always.
EnterBody(calls) ==
    /\ phase = "setup" /\ rest = <<>> /\ ~fatal
    /\ phase' = "body" /\ rest' = calls
    /\ UNCHANGED <<odbc, tables, fixture, test, fatal, failed,
                   faults, processes, kills, unclean>>

EnterTearDown(calls) ==
    /\ rest = <<>>
    /\ phase = "body" \/ (phase = "setup" /\ fatal)
    /\ phase' = "teardown" /\ rest' = calls
    /\ UNCHANGED <<odbc, tables, fixture, test, fatal, failed,
                   faults, processes, kills, unclean>>

End ==
    /\ phase = "teardown" /\ rest = <<>>
    /\ phase' = "ended"
    /\ UNCHANGED <<odbc, tables, fixture, test, rest, fatal, failed,
                   faults, processes, kills, unclean>>

\* The 30 seconds of CTest are over, or the driver crashes: the system frees
\* what the process had, and the server rolls the session back.
Kill ==
    /\ Running /\ kills < MaxKills
    /\ kills' = kills + 1
    /\ phase' = "killed" /\ rest' = <<>>
    /\ odbc' = NewProcess
    /\ UNCHANGED <<tables, fixture, test, fatal, failed, faults, processes, unclean>>

-----------------------------------------------------------------------------
(* Properties of any test.                                                 *)

(* A test fails only if a call failed that ODBC lets succeed: no test        *)
(* depends on what an earlier one left, and no sequence of calls is illegal. *)
RedHasReason == failed => faults > 0

(* While TearDown talks to the driver, the statement it holds points to no   *)
(* variable of the body, which is gone; only the call that frees the        *)
(* statement may come before.                                              *)
NoDanglingAddresses ==
    (phase = "teardown" /\ rest # <<>> /\ "stmt" \in fixture.held
        /\ ~(Upcoming.name = "free" /\ Upcoming.of = "stmt"))
    => \A a \in odbc.addresses : a[2] \in Members

Clean ==
    /\ odbc.live = {} /\ ~odbc.session /\ ~odbc.work
    /\ fixture.metadata_table \notin tables

(* However SetUp or the body fails, TearDown leaves no handle, session,     *)
(* transaction or table behind, unless a call of its own fails.            *)
LeavesNothing == (phase = "ended" /\ ~unclean) => Clean

(* What a failed test had not committed is never committed.                *)
CommitsOnlyOnRequest == ~unclean => ~odbc.surprise
=============================================================================
