-------------------------- MODULE ConformanceTests --------------------------
(***************************************************************************)
(* odbc-conformance/src/conformance.cpp: the fixture OdbcConformance, its    *)
(* Handle objects, and the bodies of its tests, as the calls they make.     *)
(*                                                                         *)
(* ask is a call that changes nothing here: information, diagnostics,       *)
(* descriptors, attributes that are no address.  A loop over samples makes  *)
(* the same calls for each; two stand for all.  The indicator that goes     *)
(* with a buffer lives and dies with it.                                   *)
(***************************************************************************)
EXTENDS OdbcTest

Ask == Assert("ask", None)
Prepare == Assert("prepare", None)
Execute(rows) == Assert("execute", rows)
Fetch(rows) == Assert("fetch", rows)
GetData == Assert("get", None)
EndOfData == Expect("end", None)
Unbind == Assert("unbind", None)
Point(kind, buffer) == Assert("point", Points(kind, buffer))
Detach(buffer) == Assert("detach", Points("attribute", buffer))

CloseCursor == Assert("close", None)

\* Handle::reset
Reset(h) == If(h, Expect("free", h))

SetUp ==
    <<Assert("alloc", "env"), Ask, Assert("alloc", "dbc"), Ask,
      Assert("connect", None), Ignore("set", "connected"), Assert("alloc", "stmt")>>

\* Mutant: the statement is freed by its destructor, after the rest.
TearDownStatementLast ==
    <<If("manual", Expect("rollback", None)), If("manual", Expect("autocommit on", None)),
      If("table", Expect("alloc", "cleanup")), If("cleanup", Expect("drop", None)),
      Reset("cleanup"), Reset("stmt"), If("connected", Expect("disconnect", None)),
      Reset("dbc"), Reset("env")>>

\* Mutant: nothing is rolled back.
TearDownNoRollback ==
    <<Reset("stmt"), If("manual", Expect("autocommit on", None)),
      If("table", Expect("alloc", "cleanup")), If("cleanup", Expect("drop", None)),
      Reset("cleanup"), If("connected", Expect("disconnect", None)),
      Reset("dbc"), Reset("env")>>

\* Mutant: the table is dropped, but nobody looks at how that went.
TearDownDropUnchecked ==
    <<Reset("stmt"),
      If("manual", Expect("rollback", None)), If("manual", Expect("autocommit on", None)),
      If("table", Expect("alloc", "cleanup")), If("cleanup", Ignore("drop", None)),
      Reset("cleanup"), If("connected", Expect("disconnect", None)),
      Reset("dbc"), Reset("env")>>

TearDown ==
    <<Reset("stmt"),
      If("manual", Expect("rollback", None)), If("manual", Expect("autocommit on", None)),
      If("table", Expect("alloc", "cleanup")), If("cleanup", Expect("drop", None)),
      Reset("cleanup"), If("connected", Expect("disconnect", None)),
      Reset("dbc"), Reset("env")>>

-----------------------------------------------------------------------------
(* Bodies.                                                                 *)

\* execute and close_cursor
Run(rows) == <<Execute(rows), CloseCursor>>

ExpectScalar == <<Execute(1), Fetch(1), GetData, EndOfData, CloseCursor>>

Connection == <<Ask, Ask, Ask>>

Statements == <<Execute(1), Ask, Ask, Fetch(1), GetData, EndOfData>>

Parameters ==
    <<Prepare, Point("parameter", "left"), Point("parameter", "right"),
      Execute(1), Fetch(1), GetData, EndOfData>>

Transactions ==
    Run(0) \o <<Assert("autocommit off", None), Ignore("set", "manual_commit")>>
    \o Run(0) \o <<Assert("rollback", None)>> \o ExpectScalar
    \o Run(0) \o <<Assert("commit", None)>> \o ExpectScalar

\* The loop over a catalog result ends with the fetch that finds no more; a row
\* too many, which the loop passes over, is here a failure of that fetch.
Catalog(rows) ==
    <<Execute(rows)>> \o [i \in 1..(2 * rows) |-> IF i % 2 = 1 THEN Fetch(1) ELSE GetData]
    \o <<Assert("end", None)>>

\* Mutant: every run creates the same table.
MetadataOneTable ==
    <<Ignore("set", "fixed metadata_table"), Assert("create", None), CloseCursor>>
    \o Catalog(1) \o <<CloseCursor>> \o Catalog(2)

Metadata ==
    <<Ignore("set", "metadata_table"), Assert("create", None), CloseCursor>>
    \o Catalog(1) \o <<CloseCursor>> \o Catalog(2)

\* The first call is one that has to fail; if it does not, that is its failure.
Diagnostics == <<Ask, Ask>>

Unicode ==
    Run(0) \o <<Prepare, Point("parameter", "value")>> \o Run(0)
    \o <<Execute(1), Fetch(1), GetData, EndOfData>>

\* check_null_binary
NullBinaryGetData ==
    <<Execute(1), Fetch(1), Expect("get", None), EndOfData, CloseCursor>>

NullBinaryBindCol ==
    <<Execute(1), Point("column", "storage"), Expect("fetch", 1), EndOfData,
      Unbind, CloseCursor>>

\* DataTypes::SetUp, after the one it calls.
DataTypesSetUp ==
    <<Ask>> \o Run(0) \o Run(0) \o Run(0) \o Run(0)
    \o <<Execute(3), Fetch(1), GetData, Fetch(1), GetData, Fetch(1), GetData,
         EndOfData, CloseCursor>>

\* get_data, with the descriptor of a numeric.
GetDataOfSample ==
    <<Execute(3), Fetch(1), Ask, GetData, Fetch(1), Ask, GetData, Fetch(1), Ask, GetData,
      EndOfData, CloseCursor, Unbind>>

DataTypesGetData == GetDataOfSample \o GetDataOfSample

BindColumns ==
    <<Execute(3), Ask, Point("column", "buffers"), Fetch(1), Fetch(1), Fetch(1),
      EndOfData, CloseCursor, Unbind>>

FetchScroll ==
    <<Ask, Ask, Point("attribute", "fetched"), Point("attribute", "status"),
      Execute(3), Point("column", "rows"), Ask, Fetch(2), Fetch(2),
      EndOfData, CloseCursor, Unbind, Detach("fetched"), Detach("status")>>

FetchScrollEndOfDataRowsFetched ==
    <<Ask, Point("attribute", "fetched"), Execute(3), Point("column", "values"),
      Fetch(2), Fetch(2), Assert("end", None), Detach("fetched")>>

\* Of every row, some chunks, then the call that finds no more.
Chunks == <<Fetch(1), GetData, GetData, Expect("get", None)>>

ChunksOfSample ==
    <<Execute(3)>> \o Chunks \o Chunks \o Chunks \o <<EndOfData, CloseCursor, Unbind>>

ChunkedGetData == ChunksOfSample \o ChunksOfSample

TimestampAlias ==
    Run(0) \o Run(0) \o <<Execute(1), Fetch(1), GetData, CloseCursor>>
    \o Run(0) \o <<Execute(1), Point("column", "after"), Fetch(1), EndOfData>>

-----------------------------------------------------------------------------
Plain ==
    [Connection |-> Connection, Statements |-> Statements, Parameters |-> Parameters,
     Transactions |-> Transactions, Metadata |-> Metadata, Diagnostics |-> Diagnostics,
     Unicode |-> Unicode, NullBinaryGetData |-> NullBinaryGetData,
     NullBinaryBindCol |-> NullBinaryBindCol,
     FetchScrollEndOfDataRowsFetched |-> FetchScrollEndOfDataRowsFetched,
     TimestampAlias |-> TimestampAlias]

OfDataTypes ==
    [GetData |-> DataTypesGetData, BindColumns |-> BindColumns,
     FetchScroll |-> FetchScroll, ChunkedGetData |-> ChunkedGetData]

Tests == DOMAIN Plain \cup DOMAIN OfDataTypes

SetUpOf(t) == IF t \in DOMAIN Plain THEN SetUp ELSE SetUp \o DataTypesSetUp

BodyOf(t) == IF t \in DOMAIN Plain THEN Plain[t] ELSE OfDataTypes[t]
=============================================================================
