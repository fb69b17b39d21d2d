--------------------------- MODULE MCConnections ---------------------------
(***************************************************************************)
(* Small environments for Connections: two related variables are set, to     *)
(* values with and without characters that connection strings care about,   *)
(* and an override or none; records are numbered up to 3.                   *)
(***************************************************************************)
EXTENDS Connections, TLC

Values == {<<>>, <<"x">>, <<"y">>, <<"x", ";", "y">>, <<"{", "x", "}">>, <<"x", "}">>, <<"}", ";">>}

\* The functions that give the two names values, or leave them out.
Of(a, b, values) ==
    UNION {[names -> values] : names \in SUBSET {a, b}}

Related ==
    {<<"ODBC_SERVER", "ODBC_TEST_SERVER">>, <<"ODBC_DATABASE", "ODBC_TEST_DATABASE">>,
     <<"ODBC_USER", "ODBC_TEST_UID">>, <<"ODBC_PASSWORD", "ODBC_TEST_PWD">>,
     <<"ODBC_USER", "ODBC_PASSWORD">>, <<"ODBC_DRIVER", "ODBC_TEST_DRIVER">>,
     <<"ODBC_TEST_ENCRYPT", "ODBC_TEST_TRUST_CERT">>}

Overrides ==
    Of("ODBC_CONNECTION_STRING", "ODBC_TEST_CONNSTR", {<<>>, <<"DRIVER", "y", ";">>})
    \cup Of("ODBC_TEST_DSN", "ODBC_SERVER", {<<>>, <<"x">>})

MCEnvironments == UNION {Of(pair[1], pair[2], Values) : pair \in Related} \cup Overrides

MCTokens ==
    {"Driver 18", "127.0.0.1", "tempdb", "sa", "yes", "rust", "x", "y", ";", "{", "}", "DRIVER"}
    \cup DRIVERS

MCLibraries == [msodbcsql18 |-> <<"Driver 18">>] @@ ("mssql-rs" :> <<"rust">>)

MCLists ==
    [states : UNION {[1..n -> States] : n \in 0..3}, behind : {"no_data"}]
    \cup [states : {<<>>, <<"other">>}, behind : {"error", "success"}]
=============================================================================
