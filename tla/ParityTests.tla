---------------------------- MODULE ParityTests ----------------------------
(***************************************************************************)
(* rust-odbc-parity: the fixture ODBCTest of lib/odbc_test_fixture.cpp, and  *)
(* the bodies of its two suites, as the calls they make.                    *)
(*                                                                         *)
(* The parameters of a case are what its calls depend on: whether the column *)
(* is bound and whether the driver rejects the conversion, so that result is *)
(* not SQL_SUCCEEDED.  Which of the two the case expected is what the check  *)
(* of the conversion says: it may fail with either.                         *)
(* No case calls AllocStmt, FreeStmt or ExecDirectIgnoreError; two bodies of  *)
(* this module do, for the sake of what TearDown does with extra statements. *)
(* Of these there is one here, and it runs nothing.                         *)
(***************************************************************************)
EXTENDS OdbcTest

Ask == Assert("ask", None)
Unbind == Assert("unbind", None)
CloseCursor == Assert("close cursor", None)
ExecDirect(rows) == Assert("execute", rows)
ExecDirectIgnoreError == Ignore("execute", 0)
AllocStmt == Expect("alloc", "extra")
FreeStmt == If("extra", Ignore("free", "extra"))
BindBuffer == Assert("point", Points("column", "buffer_"))

SetUp == <<Assert("alloc", "env"), Ask>>

Connect ==
    <<Assert("alloc", "dbc"), Ask, Assert("connect", None), Assert("alloc", "stmt")>>

\* SetUp of both suites, which ask for one or for four pieces of information.
SuiteSetUp == SetUp \o <<Ask>> \o Connect \o <<Ask>>

\* Mutant: the connection is freed while it is connected.
TearDownConnected ==
    <<If("extra", Ignore("free", "extra")), If("stmt", Ignore("free", "stmt")), If("dbc", Ignore("free", "dbc")),
      If("env", Ignore("free", "env"))>>

\* dbc_ stays the handle that SQLDisconnect was called with, connected or not.
TearDown ==
    <<If("extra", Ignore("free", "extra")),  \* extra_stmts_
      If("stmt", Ignore("free", "stmt")),
      If("dbc", Ignore("disconnect", None)), If("dbc", Ignore("free", "dbc")),
      If("env", Ignore("free", "env"))>>

-----------------------------------------------------------------------------
(* Bodies.                                                                 *)

\* SQLFetch fails in what it returns, or a conversion is rejected and the
\* cursor stays or goes on.
Convert(bound, rejected) ==
    IF bound THEN <<Expect(IF rejected THEN "get" ELSE "fetch", 1)>>
    ELSE <<Assert("fetch", 1), Expect("get", None)>>

BindIf(bound) == IF bound THEN <<BindBuffer>> ELSE <<>>

\* The end of data is looked for where result is SQL_SUCCEEDED only.  A fetch
\* that fails is one of a rejected case too; the call made after it here is then
\* refused, in a test that has failed already.
EndUnless(rejected) == IF rejected THEN <<>> ELSE <<Expect("end", None)>>

\* Mutant: the cursor stays open for the statement that shows the recovery.
RunContractOpen(bound, rejected) ==
    <<ExecDirect(1), Ask, Ask>> \o BindIf(bound) \o Convert(bound, rejected)
    \o EndUnless(rejected) \o <<Unbind>>
    \o <<ExecDirect(1), Assert("fetch", 1), Assert("get", None), CloseCursor>>

RunContract(bound, rejected) ==
    <<ExecDirect(1), Ask, Ask>> \o BindIf(bound) \o Convert(bound, rejected)
    \o EndUnless(rejected) \o <<Unbind, CloseCursor>>
    \o <<ExecDirect(1), Assert("fetch", 1), Assert("get", None), CloseCursor>>

\* A row whose conversion is rejected is fetched all the same.
CheckRow(bound) == Convert(bound, FALSE)

ReferenceContract(bound) ==
    <<ExecDirect(2), Ask>> \o BindIf(bound) \o CheckRow(bound) \o CheckRow(bound)
    \o <<Expect("end", None), Unbind, CloseCursor>>

-----------------------------------------------------------------------------
\* The kinds of cases of both suites.
Cases ==
    [IntervalGetData |-> RunContract(FALSE, FALSE),
     IntervalBindCol |-> RunContract(TRUE, FALSE),
     RejectedIntervalGetData |-> RunContract(FALSE, TRUE),
     RejectedIntervalBindCol |-> RunContract(TRUE, TRUE),
     NumericGetData |-> ReferenceContract(FALSE),
     NumericBindCol |-> ReferenceContract(TRUE),
     ExtraFreed |-> <<ExecDirectIgnoreError, AllocStmt, ExecDirect(1), FreeStmt, CloseCursor>>,
     ExtraLeft |-> <<ExecDirect(1), AllocStmt, ExecDirectIgnoreError>>]

Tests == DOMAIN Cases

BodyOf(t) == Cases[t]
=============================================================================
