---------------------------- MODULE Connections ----------------------------
(***************************************************************************)
(* What the two suites connect to: compare.py's driver_environment, the     *)
(* settings that conformance.cpp and odbc_test_config.cpp take from the      *)
(* environment, the connection strings they make of them, SQLDriverConnect,  *)
(* and the diagnostic records read after it.                                *)
(*                                                                         *)
(* A value of the environment is a sequence of characters, of which only     *)
(* those matter that mean something in a connection string; a keyword with   *)
(* its equals sign is one of its tokens.  ODBC reads keywords in any case.   *)
(***************************************************************************)
EXTENDS Diagnostics

CONSTANTS
    Tokens,         \* what values are made of
    Environments,   \* functions from the names that are set to values
    Libraries,      \* what compare.py loads for each of its drivers
    Lists           \* diagnostic records that a handle may have

DRIVERS == {"msodbcsql18", "mssql-rs"}
Suites == {"conformance", "parity"}

ASSUME TokensAssumption ==
    {"Driver 18", "127.0.0.1", "tempdb", "sa", "yes"} \cup DRIVERS \subseteq Tokens

ASSUME EnvironmentsAssumption ==
    \A e \in Environments : \A name \in DOMAIN e : e[name] \in Seq(Tokens)

\* A path or a registered name, which the parity suites put in braces as it is.
ASSUME LibrariesAssumption ==
    /\ Libraries \in [DRIVERS -> Seq(Tokens) \ {<<>>}]
    /\ \A driver \in DRIVERS : \A i \in DOMAIN Libraries[driver] : Libraries[driver][i] # "}"

ASSUME ListsAssumption ==
    \A list \in Lists :
        /\ list.states \in Seq(States) /\ Len(list.states) <= MaxSmall
        /\ list.behind \in {"no_data", "error", "success"}

VARIABLES
    environ,    \* of the person or job that starts the tests
    by,         \* "hand", or the driver whose turn compare.py starts them for
    suite,
    env,        \* of the test executable
    stage,      \* "start", "configured", "connected", "refused"
    settings    \* what ODBC reads in the connection string

vars == <<environ, by, suite, env, stage, settings, diagnosis>>

-----------------------------------------------------------------------------
(* The environment.                                                        *)

Default ==
    [DRIVER |-> <<"Driver 18">>, SERVER |-> <<"127.0.0.1">>, DATABASE |-> <<"tempdb">>,
     UID |-> <<"sa">>, PWD |-> <<>>]

\* os.environ.get
Get(e, name, fallback) == IF name \in DOMAIN e THEN e[name] ELSE fallback

\* env_or_default and ODBCTestConfig::GetEnv: a variable that is empty is not set.
Setting(e, name, fallback) ==
    IF name \in DOMAIN e /\ e[name] # <<>> THEN e[name] ELSE fallback

\* Mutant: a data source name is let through.
RefusesStringsOnly(e) ==
    \E name \in {"ODBC_CONNECTION_STRING", "ODBC_TEST_CONNSTR"} : Get(e, name, <<>>) # <<>>

Refuses(e) ==
    \E name \in {"ODBC_CONNECTION_STRING", "ODBC_TEST_CONNSTR", "ODBC_TEST_DSN"} :
        Get(e, name, <<>>) # <<>>

Legacy == {"ODBC_TEST_SERVER", "ODBC_TEST_DATABASE", "ODBC_TEST_UID", "ODBC_TEST_PWD"}

Canonical(e, name) ==
    IF name = "ODBC_TEST_SERVER" THEN Get(e, "ODBC_SERVER", Default.SERVER)
    ELSE IF name = "ODBC_TEST_DATABASE" THEN Get(e, "ODBC_DATABASE", Default.DATABASE)
    ELSE IF name = "ODBC_TEST_UID" THEN Get(e, "ODBC_USER", Default.UID)
    ELSE Get(e, "ODBC_PASSWORD", Default.PWD)

DriverNames == {"ODBC_DRIVER", "ODBC_TEST_DRIVER"}
Security == {"ODBC_TEST_ENCRYPT", "ODBC_TEST_TRUST_CERT"}

\* Mutant: a legacy variable that is set is kept.
DriverEnvironmentKeepsLegacy(e, driver) ==
    [name \in DOMAIN e \cup Legacy \cup DriverNames \cup Security \cup {"ODBC_TEST_TARGET"} |->
        IF name \in Legacy THEN Get(e, name, Canonical(e, name))
        ELSE IF name \in DriverNames THEN Libraries[driver]
        ELSE IF name = "ODBC_TEST_TARGET" THEN <<driver>>
        ELSE IF name \in Security THEN <<"yes">> ELSE e[name]]

\* Mutant: the TLS settings are left to the caller.
DriverEnvironmentWithoutTls(e, driver) ==
    [name \in DOMAIN e \cup Legacy \cup DriverNames \cup {"ODBC_TEST_TARGET"} |->
        IF name \in Legacy THEN Canonical(e, name)
        ELSE IF name \in DriverNames THEN Libraries[driver]
        ELSE IF name = "ODBC_TEST_TARGET" THEN <<driver>>
        ELSE e[name]]

DriverEnvironment(e, driver) ==
    [name \in DOMAIN e \cup Legacy \cup DriverNames \cup Security \cup {"ODBC_TEST_TARGET"} |->
        IF name \in Legacy THEN Canonical(e, name)
        ELSE IF name \in DriverNames THEN Libraries[driver]
        ELSE IF name = "ODBC_TEST_TARGET" THEN <<driver>>
        ELSE IF name \in Security THEN <<"yes">> ELSE e[name]]

-----------------------------------------------------------------------------
(* The settings and connection strings of conformance.cpp.                  *)

ConformanceSettings(e) ==
    [DRIVER |-> Setting(e, "ODBC_DRIVER", Default.DRIVER),
     SERVER |-> Setting(e, "ODBC_SERVER", Default.SERVER),
     UID |-> Setting(e, "ODBC_USER", Default.UID),
     PWD |-> Setting(e, "ODBC_PASSWORD", Default.PWD),
     DATABASE |-> Setting(e, "ODBC_DATABASE", Default.DATABASE)]

\* Mutant: the value is taken as it is.
AttributeAsIs(keyword, value) == <<keyword, "{">> \o value \o <<"}", ";">>

\* The loop over the characters of a value, a closing brace twice.
Doubled(value) ==
    LET result[i \in 0..Len(value)] ==
            IF i = 0 THEN <<>>
            ELSE result[i - 1] \o (IF value[i] = "}" THEN <<"}", "}">> ELSE <<value[i]>>) IN
    result[Len(value)]

Attribute(keyword, value) == <<keyword, "{">> \o Doubled(value) \o <<"}", ";">>

\* One without braces.
Plain(keyword, value) == <<keyword>> \o value \o <<";">>

ConformanceString(e) ==
    LET s == ConformanceSettings(e)
        given == Setting(e, "ODBC_CONNECTION_STRING", <<>>) IN
    IF given # <<>> THEN given
    ELSE Attribute("DRIVER", s.DRIVER) \o Attribute("SERVER", s.SERVER)
         \o Attribute("UID", s.UID) \o Attribute("PWD", s.PWD)
         \o Attribute("DATABASE", s.DATABASE)
         \o Plain("ENCRYPT", <<"yes">>) \o Plain("TRUST", <<"yes">>)

-----------------------------------------------------------------------------
(* Those of the parity suites.                                             *)

Config(e) ==
    [DRIVER |-> Setting(e, "ODBC_TEST_DRIVER", Setting(e, "ODBC_DRIVER", Default.DRIVER)),
     SERVER |-> Setting(e, "ODBC_TEST_SERVER", Setting(e, "ODBC_SERVER", Default.SERVER)),
     UID |-> Setting(e, "ODBC_TEST_UID", Setting(e, "ODBC_USER", Default.UID)),
     PWD |-> Setting(e, "ODBC_TEST_PWD", Setting(e, "ODBC_PASSWORD", Default.PWD)),
     DATABASE |-> Setting(e, "ODBC_TEST_DATABASE", Setting(e, "ODBC_DATABASE", Default.DATABASE))]

Dsn(e) == Setting(e, "ODBC_TEST_DSN", <<>>)
ConnStr(e) == Setting(e, "ODBC_TEST_CONNSTR", Setting(e, "ODBC_CONNECTION_STRING", <<>>))
TrustCert(e) == Setting(e, "ODBC_TEST_TRUST_CERT", <<"yes">>)
Encrypt(e) == Setting(e, "ODBC_TEST_ENCRYPT", <<>>)

BuildConnectionString(e) ==
    LET c == Config(e) IN
    IF ConnStr(e) # <<>> THEN ConnStr(e)
    ELSE (IF Dsn(e) # <<>> THEN Plain("DSN", Dsn(e))
          ELSE <<"DRIVER", "{">> \o c.DRIVER \o <<"}", ";">> \o Plain("SERVER", c.SERVER))
         \o Plain("DATABASE", c.DATABASE) \o Plain("TRUST", TrustCert(e))
         \o (IF Encrypt(e) # <<>> THEN Plain("ENCRYPT", Encrypt(e)) ELSE <<>>)
         \o (IF c.UID # <<>> THEN Plain("UID", c.UID) \o Plain("PWD", c.PWD)
             ELSE Plain("TRUSTED_CONNECTION", <<"yes">>))

-----------------------------------------------------------------------------
(* How ODBC reads a connection string: a value in braces ends with a brace   *)
(* that is not doubled, another one with a semicolon; what is no keyword is  *)
(* passed over; of a repeated keyword the first counts.                     *)

Keywords == {"DRIVER", "DSN", "SERVER", "UID", "PWD", "DATABASE", "ENCRYPT", "TRUST",
             "TRUSTED_CONNECTION"}

Modes == {"between", "start", "plain", "braced", "closing", "garbage"}

After(mode, token) ==
    IF mode = "braced" THEN IF token = "}" THEN "closing" ELSE "braced"
    ELSE IF token = ";" THEN "between"
    ELSE IF mode = "between" THEN IF token \in Keywords THEN "start" ELSE "garbage"
    ELSE IF mode = "start" THEN IF token = "{" THEN "braced" ELSE "plain"
    ELSE IF mode = "closing" THEN IF token = "}" THEN "braced" ELSE "garbage"
    ELSE mode

\* What is known before any token: the keyword and value at hand, and the
\* settings that are complete.
Unread == [mode |-> "between", key |-> "", value |-> <<>>, settings |-> <<>>]

FirstCounts(read, key, value) ==
    IF key \in DOMAIN read THEN read
    ELSE [k \in DOMAIN read \cup {key} |-> IF k = key THEN value ELSE read[k]]

IsData(mode, next) == next = "plain" \/ (next = "braced" /\ mode # "start")

IsComplete(mode, next) == mode \in {"start", "plain", "closing"} /\ next \in {"between", "garbage"}

Scan(known, token) ==
    LET next == After(known.mode, token) IN
    [mode |-> next,
     key |-> IF next = "start" THEN token ELSE known.key,
     value |-> IF next = "start" THEN <<>>
               ELSE IF IsData(known.mode, next) THEN Append(known.value, token) ELSE known.value,
     settings |-> IF IsComplete(known.mode, next)
                  THEN FirstCounts(known.settings, known.key, known.value) ELSE known.settings]

\* What may be known after the tokens, of what may be known before.
Scanned(before, tokens) ==
    LET after[i \in 0..Len(tokens)] ==
            IF i = 0 THEN before ELSE {Scan(known, tokens[i]) : known \in after[i - 1]} IN
    after[Len(tokens)]

\* The settings that ODBC may read, of which there is one.
Reading(tokens) == {known.settings : known \in Scanned({Unread}, tokens)}

-----------------------------------------------------------------------------
Init ==
    /\ environ \in Environments /\ by \in DRIVERS \cup {"hand"} /\ suite \in Suites
    /\ env = environ /\ stage = "start" /\ settings = <<>>
    /\ NotReading

\* The tests are started with an environment; compare.py makes it or refuses.
Configure ==
    /\ stage = "start"
    /\ IF by # "hand" /\ Refuses(environ) THEN stage' = "refused" /\ env' = env
       ELSE /\ stage' = "configured"
            /\ env' = IF by = "hand" THEN environ ELSE DriverEnvironment(environ, by)
    /\ UNCHANGED <<environ, by, suite, settings, diagnosis>>

\* A failure is reported by the macro around the call; after a success the
\* bodies of the parity suites read records of their own.
Connect ==
    /\ stage = "configured"
    /\ stage' = "connected"
    /\ \E tokens \in {IF suite = "conformance" THEN ConformanceString(env)
                      ELSE BuildConnectionString(env)} : settings' \in Reading(tokens)
    /\ \/ \E list \in Lists :
            Open(IF suite = "conformance" THEN "diagnostics" ELSE "GetDiagMessage", list)
       \/ suite = "conformance" /\ UNCHANGED diagnosis
       \/ /\ suite = "parity"
          /\ \E list \in Lists, function \in Readers \ {"diagnostics"} : Open(function, list)
    /\ UNCHANGED <<environ, by, suite, env>>

Next == Configure \/ Connect \/ (Read /\ UNCHANGED <<environ, by, suite, env, stage, settings>>)

Spec == Init /\ [][Next]_vars /\ WF_vars(Next)

-----------------------------------------------------------------------------
(* Properties.                                                             *)

(* The types of the environment and of what reads the records.             *)
TypeOK ==
    /\ by \in DRIVERS \cup {"hand"} /\ suite \in Suites
    /\ stage \in {"start", "configured", "connected", "refused"}
    /\ \A name \in DOMAIN env : env[name] \in Seq(Tokens)
    /\ reader \in Readers \cup {"none"}
    /\ record \in -(MaxSmall + 1)..MaxSmall /\ seen \subseteq 1..MaxSmall
    /\ found \in BOOLEAN /\ noted \in BOOLEAN /\ reading \in BOOLEAN

Connected == stage = "connected"

\* The settings of an environment, as both suites mean them.
Meant(e) ==
    LET s == ConformanceSettings(e) IN
    [DRIVER |-> s.DRIVER, SERVER |-> s.SERVER, UID |-> s.UID, PWD |-> s.PWD,
     DATABASE |-> s.DATABASE, ENCRYPT |-> <<"yes">>, TRUST |-> <<"yes">>]

(* Whatever characters the values have, ODBC reads in conformance.cpp's     *)
(* connection string exactly the settings it was made of.                   *)
ConformanceIsExact ==
    (Connected /\ suite = "conformance" /\ Setting(env, "ODBC_CONNECTION_STRING", <<>>) = <<>>)
    => settings = Meant(env)

\* The variables of the parity suites, but for the kind of driver.
Own == Legacy \cup Security \cup {"ODBC_TEST_DRIVER", "ODBC_TEST_DSN", "ODBC_TEST_CONNSTR"}

(* Under compare.py, and by hand where no ODBC_TEST_* variable is set, both  *)
(* suites take the same driver, server, database, login and override from   *)
(* the environment, whatever is set, set to nothing or not set.             *)
SameSettings ==
    (stage \in {"configured", "connected"}
        /\ (by # "hand" \/ \A name \in Own : Setting(env, name, <<>>) = <<>>))
    => /\ Config(env) = ConformanceSettings(env)
       /\ ConnStr(env) = Setting(env, "ODBC_CONNECTION_STRING", <<>>)
       /\ Dsn(env) = <<>>

(* compare.py refuses overrides so that neither driver can silently be       *)
(* replaced: in the turn of a driver each suite's connection string names    *)
(* its library, and the tests are told which driver to expect.              *)
DriverIsTheLibrary ==
    (Connected /\ by # "hand") =>
        /\ "DRIVER" \in DOMAIN settings /\ settings["DRIVER"] = Libraries[by]
        /\ env["ODBC_TEST_TARGET"] = <<by>>

\* Values that mean the same with and without braces.
Unambiguous ==
    \A value \in {Config(env)[name] : name \in {"SERVER", "UID", "PWD", "DATABASE"}} :
        value # <<>> => value[1] # "{" /\ \A i \in DOMAIN value : value[i] # ";"

(* Under compare.py a parity suite connects with what conformance.cpp        *)
(* connects with, encryption included, as long as no value has a semicolon   *)
(* or starts with a brace.                                                  *)
ParityIsExact ==
    (Connected /\ by # "hand" /\ suite = "parity" /\ Unambiguous) => settings = Meant(env)

(* compare.py:76: "Both suites must use exactly the same server and          *)
(* credentials."                                                            *)
SameCredentials ==
    (Connected /\ by # "hand") =>
        \A name \in {"SERVER", "UID", "PWD"} :
            name \in DOMAIN settings /\ settings[name] = ConformanceSettings(env)[name]

(* Reading diagnostic records comes to an end, also when the driver always   *)
(* has another one: the record number runs over to one that ODBC refuses.   *)
ReadingEnds == reading ~> ~reading
=============================================================================
