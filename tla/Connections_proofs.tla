------------------------- MODULE Connections_proofs -------------------------
(***************************************************************************)
(* Connections, for every environment, driver and list of records: the types *)
(* of the environment and of the readers, that both suites take the same     *)
(* settings, what ODBC reads in the strings they make of them, and that      *)
(* reports of diagnostic records are complete.                              *)
(*                                                                         *)
(* Doubled and Scanned are recursive over the length of a sequence: that     *)
(* their functions exist, agree with each other on a common prefix, and so   *)
(* do one step more on one more token is proved by induction; everything     *)
(* behind that uses only what they do on <<>> and on Append.                *)
(***************************************************************************)
EXTENDS Connections, SequenceLemmas

-----------------------------------------------------------------------------
(* The environment.                                                        *)

IsEnvironment(e) == \A name \in DOMAIN e : e[name] \in Seq(Tokens)

\* compare.py makes an environment of values out of one.
LEMMA DriverEnvironmentTyped ==
    ASSUME NEW e, IsEnvironment(e), NEW driver \in DRIVERS
    PROVE  IsEnvironment(DriverEnvironment(e, driver))
<1>1. /\ Default.SERVER \in Seq(Tokens) /\ Default.DATABASE \in Seq(Tokens)
      /\ Default.UID \in Seq(Tokens) /\ Default.PWD \in Seq(Tokens)
      /\ <<"yes">> \in Seq(Tokens)
  <2>1. /\ "127.0.0.1" \in Tokens /\ "tempdb" \in Tokens /\ "sa" \in Tokens
        /\ "yes" \in Tokens
    BY TokensAssumption
  <2>2. /\ <<"127.0.0.1">> \in Seq(Tokens) /\ <<"tempdb">> \in Seq(Tokens)
        /\ <<"sa">> \in Seq(Tokens) /\ <<"yes">> \in Seq(Tokens)
    BY <2>1, SingletonSeq
  <2>3. <<>> \in Seq(Tokens)
    OBVIOUS
  <2> QED
    BY <2>2, <2>3 DEF Default
<1>2. \A name, fallback : fallback \in Seq(Tokens) => Get(e, name, fallback) \in Seq(Tokens)
  BY DEF Get, IsEnvironment
<1>3. \A name : Canonical(e, name) \in Seq(Tokens)
  BY <1>1, <1>2 DEF Canonical
<1>4. Libraries[driver] \in Seq(Tokens)
  BY LibrariesAssumption
<1>5. <<driver>> \in Seq(Tokens)
  <2>1. driver \in Tokens
    BY TokensAssumption
  <2> QED
    BY <2>1, SingletonSeq
<1> QED
  BY <1>1, <1>3, <1>4, <1>5 DEF IsEnvironment, DriverEnvironment

\* What each suite takes of an environment that compare.py made.
LEMMA DriverEnvironmentAgrees ==
    ASSUME NEW e, ~Refuses(e), NEW driver \in DRIVERS
    PROVE  LET made == DriverEnvironment(e, driver) IN
           /\ Config(made) = ConformanceSettings(made)
           /\ ConnStr(made) = Setting(made, "ODBC_CONNECTION_STRING", <<>>)
           /\ Dsn(made) = <<>>
<1> DEFINE made == DriverEnvironment(e, driver)
<1>1. ASSUME NEW legacy \in Legacy, NEW canonical, NEW default,
             canonical \notin Legacy \cup DriverNames \cup Security \cup {"ODBC_TEST_TARGET"},
             Canonical(e, legacy) = Get(e, canonical, default)
      PROVE  Setting(made, legacy, Setting(made, canonical, default))
                = Setting(made, canonical, default)
  <2>1. legacy \in DOMAIN made /\ made[legacy] = Get(e, canonical, default)
    BY <1>1 DEF DriverEnvironment
  <2>2. CASE canonical \in DOMAIN e
    <3>1. canonical \in DOMAIN made /\ made[canonical] = e[canonical]
      BY <1>1, <2>2 DEF DriverEnvironment
    <3> QED
      BY <2>1, <2>2, <3>1 DEF Setting, Get
  <2>3. CASE canonical \notin DOMAIN e
    <3>1. canonical \notin DOMAIN made
      BY <1>1, <2>3 DEF DriverEnvironment
    <3> QED
      BY <2>1, <2>3, <3>1 DEF Setting, Get
  <2> QED
    BY <2>2, <2>3
<1>2. /\ "ODBC_TEST_DRIVER" \in DOMAIN made /\ "ODBC_DRIVER" \in DOMAIN made
      /\ made["ODBC_TEST_DRIVER"] = Libraries[driver]
      /\ made["ODBC_DRIVER"] = Libraries[driver]
      /\ Libraries[driver] # <<>>
  BY LibrariesAssumption DEF DriverEnvironment, DriverNames, Legacy
<1>3. /\ Setting(made, "ODBC_TEST_SERVER", Setting(made, "ODBC_SERVER", Default.SERVER))
            = Setting(made, "ODBC_SERVER", Default.SERVER)
      /\ Setting(made, "ODBC_TEST_DATABASE", Setting(made, "ODBC_DATABASE", Default.DATABASE))
            = Setting(made, "ODBC_DATABASE", Default.DATABASE)
      /\ Setting(made, "ODBC_TEST_UID", Setting(made, "ODBC_USER", Default.UID))
            = Setting(made, "ODBC_USER", Default.UID)
      /\ Setting(made, "ODBC_TEST_PWD", Setting(made, "ODBC_PASSWORD", Default.PWD))
            = Setting(made, "ODBC_PASSWORD", Default.PWD)
  <2> HIDE DEF made
  <2> QED
    BY <1>1 DEF Legacy, DriverNames, Security, Canonical
<1>4. Setting(made, "ODBC_TEST_DRIVER", Setting(made, "ODBC_DRIVER", Default.DRIVER))
        = Setting(made, "ODBC_DRIVER", Default.DRIVER)
  BY <1>2 DEF Setting
<1>5. ASSUME NEW name \in {"ODBC_CONNECTION_STRING", "ODBC_TEST_CONNSTR", "ODBC_TEST_DSN"},
             NEW fallback
      PROVE  Setting(made, name, fallback) = fallback
  <2>1. Get(e, name, <<>>) = <<>>
    BY DEF Refuses
  <2>2. name \in DOMAIN made => name \in DOMAIN e /\ made[name] = e[name]
    BY DEF DriverEnvironment, Legacy, DriverNames, Security
  <2> QED
    BY <2>1, <2>2 DEF Get, Setting
<1> HIDE DEF made
<1>6. Config(made) = ConformanceSettings(made)
  BY <1>3, <1>4 DEF Config, ConformanceSettings
<1>7. ConnStr(made) = Setting(made, "ODBC_CONNECTION_STRING", <<>>) /\ Dsn(made) = <<>>
  BY <1>5 DEF ConnStr, Dsn
<1> QED
  BY <1>6, <1>7 DEF made

\* What they take of one in which the parity suites have nothing of their own.
LEMMA OrdinaryEnvironmentAgrees ==
    ASSUME NEW e, \A name \in Own : Setting(e, name, <<>>) = <<>>
    PROVE  /\ Config(e) = ConformanceSettings(e)
           /\ ConnStr(e) = Setting(e, "ODBC_CONNECTION_STRING", <<>>)
           /\ Dsn(e) = <<>>
<1>1. \A name \in Own : \A fallback : Setting(e, name, fallback) = fallback
  BY DEF Setting
<1>2. /\ {"ODBC_TEST_SERVER", "ODBC_TEST_DATABASE", "ODBC_TEST_UID", "ODBC_TEST_PWD"} \subseteq Own
      /\ {"ODBC_TEST_DRIVER", "ODBC_TEST_DSN", "ODBC_TEST_CONNSTR"} \subseteq Own
  BY DEF Own, Legacy
<1> QED
  BY <1>1, <1>2 DEF Config, ConformanceSettings, ConnStr, Dsn

-----------------------------------------------------------------------------
(* The recursion of Scanned.                                               *)

\* What Scanned's local function is, on 0..n.
ScanFunction(P, t, n, g) ==
    g = [i \in 0..n |-> IF i = 0 THEN P ELSE {Scan(known, t[i]) : known \in g[i - 1]}]

LEMMA ScanFunctionExists ==
    ASSUME NEW P, NEW t, NEW n \in Nat
    PROVE  \E g : ScanFunction(P, t, n, g)
<1> DEFINE S == {m \in Nat : \E g : ScanFunction(P, t, m, g)}
<1>1. 0 \in S
  <2> DEFINE g == [i \in 0..0 |-> P]
  <2>1. ScanFunction(P, t, 0, g)
    BY DEF ScanFunction
  <2> QED
    BY <2>1
<1>2. ASSUME NEW m \in Nat, m \in S PROVE m + 1 \in S
  <2>1. PICK g : ScanFunction(P, t, m, g)
    BY <1>2
  <2> DEFINE h == [i \in 0..(m + 1) |->
                    IF i = 0 THEN P ELSE {Scan(known, t[i]) : known \in g[i - 1]}]
  <2>2. ASSUME NEW i \in 0..m PROVE h[i] = g[i]
    <3>1. g[i] = IF i = 0 THEN P ELSE {Scan(known, t[i]) : known \in g[i - 1]}
      BY <2>1 DEF ScanFunction
    <3>2. i \in 0..(m + 1)
      OBVIOUS
    <3>3. h[i] = IF i = 0 THEN P ELSE {Scan(known, t[i]) : known \in g[i - 1]}
      BY <3>2
    <3> QED
      BY <3>1, <3>3
  <2>3. ASSUME NEW i \in 0..(m + 1), i # 0 PROVE h[i - 1] = g[i - 1]
    <3>1. i - 1 \in 0..m
      BY <2>3
    <3> HIDE DEF h
    <3> QED
      BY <2>2, <3>1
  <2>4. ScanFunction(P, t, m + 1, h)
    <3>1. \A i \in 0..(m + 1) : h[i] = IF i = 0 THEN P ELSE {Scan(known, t[i]) : known \in h[i - 1]}
      BY <2>3
    <3>2. h = [i \in 0..(m + 1) |-> h[i]]
      OBVIOUS
    <3> HIDE DEF h
    <3> QED
      BY <3>1, <3>2 DEF ScanFunction
  <2> QED
    BY <2>4
<1> HIDE DEF S
<1>3. n \in S
  BY <1>1, <1>2, NatSetInduction
<1> QED
  BY <1>3 DEF S

LEMMA ScanFunctionsAgree ==
    ASSUME NEW P, NEW t, NEW u, NEW n \in Nat, NEW m \in Nat, NEW g, NEW h,
           ScanFunction(P, t, n, g), ScanFunction(P, u, m, h),
           NEW last \in Nat, last <= n, last <= m, \A i \in 1..last : t[i] = u[i]
    PROVE  g[last] = h[last]
<1> DEFINE S == {k \in Nat : k <= last => g[k] = h[k]}
<1>1. 0 \in S
  BY DEF ScanFunction
<1>2. ASSUME NEW k \in Nat, k \in S PROVE k + 1 \in S
  <2> SUFFICES ASSUME k + 1 <= last PROVE g[k + 1] = h[k + 1]
    OBVIOUS
  <2>1. g[k] = h[k] /\ t[k + 1] = u[k + 1]
    BY <1>2
  <2>2. /\ k + 1 \in 0..n /\ k + 1 \in 0..m /\ k + 1 # 0 /\ (k + 1) - 1 = k
    OBVIOUS
  <2>3. g[k + 1] = {Scan(known, t[k + 1]) : known \in g[k]}
    BY <2>2 DEF ScanFunction
  <2>4. h[k + 1] = {Scan(known, u[k + 1]) : known \in h[k]}
    BY <2>2 DEF ScanFunction
  <2> QED
    BY <2>1, <2>3, <2>4
<1> HIDE DEF S
<1>3. last \in S
  BY <1>1, <1>2, NatSetInduction
<1> QED
  BY <1>3 DEF S

LEMMA ScannedFunction ==
    ASSUME NEW P, NEW C, NEW t \in Seq(C)
    PROVE  \E g : ScanFunction(P, t, Len(t), g) /\ Scanned(P, t) = g[Len(t)]
<1>1. Len(t) \in Nat
  BY LenProperties
<1>2. \E g : ScanFunction(P, t, Len(t), g)
  BY <1>1, ScanFunctionExists
<1> DEFINE f == CHOOSE g : ScanFunction(P, t, Len(t), g)
<1>3. ScanFunction(P, t, Len(t), f)
  BY <1>2
<1>4. Scanned(P, t) = f[Len(t)]
  BY DEF Scanned, ScanFunction
<1> QED
  BY <1>3, <1>4

LEMMA ScannedEmpty == \A P : Scanned(P, <<>>) = P
<1> TAKE P
<1>1. PICK g : ScanFunction(P, <<>>, 0, g) /\ Scanned(P, <<>>) = g[0]
  <2>1. <<>> \in Seq({}) /\ Len(<<>>) = 0
    OBVIOUS
  <2> QED
    BY <2>1, ScannedFunction
<1> QED
  BY <1>1 DEF ScanFunction

ScanAll(P, x) == {Scan(known, x) : known \in P}

LEMMA ScanOne == \A known, x : ScanAll({known}, x) = {Scan(known, x)}
  BY DEF ScanAll

LEMMA ScannedAppend ==
    ASSUME NEW P, NEW C, NEW t \in Seq(C), NEW x \in C
    PROVE  Scanned(P, Append(t, x)) = ScanAll(Scanned(P, t), x)
<1> DEFINE u == Append(t, x)
           n == Len(t)
<1>1. /\ u \in Seq(C) /\ n \in Nat /\ Len(u) = n + 1 /\ u[n + 1] = x
      /\ \A i \in 1..n : t[i] = u[i]
  BY AppendProperties, LenProperties
<1>2. PICK g : ScanFunction(P, t, n, g) /\ Scanned(P, t) = g[n]
  BY ScannedFunction
<1> HIDE DEF u, n
<1>3. PICK h : ScanFunction(P, u, n + 1, h) /\ Scanned(P, u) = h[n + 1]
  BY <1>1, ScannedFunction
<1>4. g[n] = h[n]
  BY <1>1, <1>2, <1>3, ScanFunctionsAgree
<1>5. h[n + 1] = {Scan(known, u[n + 1]) : known \in h[n]}
  <2>1. n + 1 \in 0..(n + 1) /\ n + 1 # 0 /\ (n + 1) - 1 = n
    BY <1>1
  <2> QED
    BY <1>3, <2>1 DEF ScanFunction
<1>6. Scanned(P, u) = ScanAll(Scanned(P, t), x)
  BY <1>1, <1>2, <1>3, <1>4, <1>5 DEF ScanAll
<1> QED
  BY <1>6 DEF u
\* ODBC reads every string in exactly one way.
LEMMA OneReading ==
    ASSUME NEW C, NEW tokens \in Seq(C)
    PROVE  \E read : Reading(tokens) = {read}
<1> DEFINE One == {t \in Seq(C) : \E known : Scanned({Unread}, t) = {known}}
<1>1. <<>> \in One
  <2>1. Scanned({Unread}, <<>>) = {Unread}
    BY ScannedEmpty, Zenon
  <2> QED
    BY <2>1, EmptySeq
<1>2. ASSUME NEW t \in Seq(C), NEW x \in C, t \in One PROVE Append(t, x) \in One
  <2>1. PICK known : Scanned({Unread}, t) = {known}
    BY <1>2
  <2>2. Scanned({Unread}, Append(t, x)) = {Scan(known, x)}
    <3>1. Scanned({Unread}, Append(t, x)) = ScanAll(Scanned({Unread}, t), x)
      BY ScannedAppend
    <3> QED
      BY <2>1, <3>1, ScanOne, Zenon
  <2>3. Append(t, x) \in Seq(C)
    BY AppendProperties
  <2> QED
    BY <2>2, <2>3
<1> HIDE DEF One
<1>3. tokens \in One
  BY <1>1, <1>2, SeqSetInduction
<1>4. PICK known : Scanned({Unread}, tokens) = {known}
  BY <1>3 DEF One
<1>5. Reading(tokens) = {known.settings}
  <2>1. Reading(tokens) = {k.settings : k \in {known}}
    BY <1>4, Zenon DEF Reading
  <2> QED
    BY <2>1
<1> QED
  BY <1>5

-----------------------------------------------------------------------------
(* The recursion of Doubled.                                               *)

\* What Attribute writes of a character.
Character(x) == IF x = "}" THEN <<"}", "}">> ELSE <<x>>

DoubledFunction(v, n, g) ==
    g = [i \in 0..n |-> IF i = 0 THEN <<>> ELSE g[i - 1] \o Character(v[i])]

LEMMA DoubledFunctionExists ==
    ASSUME NEW v, NEW n \in Nat
    PROVE  \E g : DoubledFunction(v, n, g)
<1> DEFINE S == {m \in Nat : \E g : DoubledFunction(v, m, g)}
<1>1. 0 \in S
  <2> DEFINE g == [i \in 0..0 |-> <<>>]
  <2>1. DoubledFunction(v, 0, g)
    BY DEF DoubledFunction
  <2> QED
    BY <2>1
<1>2. ASSUME NEW m \in Nat, m \in S PROVE m + 1 \in S
  <2>1. PICK g : DoubledFunction(v, m, g)
    BY <1>2
  <2> DEFINE h == [i \in 0..(m + 1) |-> IF i = 0 THEN <<>> ELSE g[i - 1] \o Character(v[i])]
  <2>2. ASSUME NEW i \in 0..m PROVE h[i] = g[i]
    <3>1. g[i] = IF i = 0 THEN <<>> ELSE g[i - 1] \o Character(v[i])
      BY <2>1 DEF DoubledFunction
    <3>2. i \in 0..(m + 1)
      OBVIOUS
    <3>3. h[i] = IF i = 0 THEN <<>> ELSE g[i - 1] \o Character(v[i])
      BY <3>2
    <3> QED
      BY <3>1, <3>3
  <2>3. ASSUME NEW i \in 0..(m + 1), i # 0 PROVE h[i - 1] = g[i - 1]
    <3>1. i - 1 \in 0..m
      BY <2>3
    <3> HIDE DEF h
    <3> QED
      BY <2>2, <3>1
  <2>4. DoubledFunction(v, m + 1, h)
    <3>1. \A i \in 0..(m + 1) : h[i] = IF i = 0 THEN <<>> ELSE h[i - 1] \o Character(v[i])
      BY <2>3
    <3>2. h = [i \in 0..(m + 1) |-> h[i]]
      OBVIOUS
    <3> HIDE DEF h
    <3> QED
      BY <3>1, <3>2 DEF DoubledFunction
  <2> QED
    BY <2>4
<1> HIDE DEF S
<1>3. n \in S
  BY <1>1, <1>2, NatSetInduction
<1> QED
  BY <1>3 DEF S

LEMMA DoubledFunctionsAgree ==
    ASSUME NEW v, NEW w, NEW n \in Nat, NEW m \in Nat, NEW g, NEW h,
           DoubledFunction(v, n, g), DoubledFunction(w, m, h),
           NEW last \in Nat, last <= n, last <= m, \A i \in 1..last : v[i] = w[i]
    PROVE  g[last] = h[last]
<1> DEFINE S == {k \in Nat : k <= last => g[k] = h[k]}
<1>1. 0 \in S
  BY DEF DoubledFunction
<1>2. ASSUME NEW k \in Nat, k \in S PROVE k + 1 \in S
  <2> SUFFICES ASSUME k + 1 <= last PROVE g[k + 1] = h[k + 1]
    OBVIOUS
  <2>1. g[k] = h[k] /\ v[k + 1] = w[k + 1]
    BY <1>2
  <2>2. /\ k + 1 \in 0..n /\ k + 1 \in 0..m /\ k + 1 # 0 /\ (k + 1) - 1 = k
    OBVIOUS
  <2>3. g[k + 1] = g[k] \o Character(v[k + 1])
    BY <2>2 DEF DoubledFunction
  <2>4. h[k + 1] = h[k] \o Character(w[k + 1])
    BY <2>2 DEF DoubledFunction
  <2> QED
    BY <2>1, <2>3, <2>4
<1> HIDE DEF S
<1>3. last \in S
  BY <1>1, <1>2, NatSetInduction
<1> QED
  BY <1>3 DEF S

LEMMA DoubledIsFunction ==
    ASSUME NEW C, NEW v \in Seq(C)
    PROVE  \E g : DoubledFunction(v, Len(v), g) /\ Doubled(v) = g[Len(v)]
<1>1. Len(v) \in Nat
  BY LenProperties
<1>2. \E g : DoubledFunction(v, Len(v), g)
  BY <1>1, DoubledFunctionExists
<1> DEFINE f == CHOOSE g : DoubledFunction(v, Len(v), g)
<1>3. DoubledFunction(v, Len(v), f)
  BY <1>2
<1>4. Doubled(v) = f[Len(v)]
  BY DEF Doubled, DoubledFunction, Character
<1> QED
  BY <1>3, <1>4

LEMMA DoubledEmpty == Doubled(<<>>) = <<>>
<1>1. PICK g : DoubledFunction(<<>>, 0, g) /\ Doubled(<<>>) = g[0]
  <2>1. <<>> \in Seq({}) /\ Len(<<>>) = 0
    OBVIOUS
  <2> QED
    BY <2>1, DoubledIsFunction
<1> QED
  BY <1>1 DEF DoubledFunction

LEMMA DoubledAppend ==
    ASSUME NEW C, NEW v \in Seq(C), NEW x \in C
    PROVE  Doubled(Append(v, x)) = Doubled(v) \o Character(x)
<1> DEFINE w == Append(v, x)
           n == Len(v)
<1>1. /\ w \in Seq(C) /\ n \in Nat /\ Len(w) = n + 1 /\ w[n + 1] = x
      /\ \A i \in 1..n : v[i] = w[i]
  BY AppendProperties, LenProperties
<1>2. PICK g : DoubledFunction(v, n, g) /\ Doubled(v) = g[n]
  BY DoubledIsFunction
<1> HIDE DEF w, n
<1>3. PICK h : DoubledFunction(w, n + 1, h) /\ Doubled(w) = h[n + 1]
  BY <1>1, DoubledIsFunction
<1>4. g[n] = h[n]
  BY <1>1, <1>2, <1>3, DoubledFunctionsAgree
<1>5. h[n + 1] = h[n] \o Character(w[n + 1])
  <2>1. n + 1 \in 0..(n + 1) /\ n + 1 # 0 /\ (n + 1) - 1 = n
    BY <1>1
  <2> QED
    BY <1>3, <2>1 DEF DoubledFunction
<1> QED
  BY <1>1, <1>2, <1>3, <1>4, <1>5 DEF w

-----------------------------------------------------------------------------
(* Reading.                                                                *)

Characters == Tokens \cup Keywords \cup {"{", "}", ";", "yes"}

Known(mode, key, value, read) == [mode |-> mode, key |-> key, value |-> value, settings |-> read]

\* After known, the tokens leave ODBC with next.
Leads(known, tokens, next) == Scanned({known}, tokens) = {next}

LEMMA LeadsByOne ==
    ASSUME NEW known, NEW x
    PROVE  Leads(known, <<x>>, Scan(known, x))
<1>1. <<>> \in Seq({x}) /\ Append(<<>>, x) = <<x>>
  OBVIOUS
<1>2. Scanned({known}, Append(<<>>, x)) = ScanAll(Scanned({known}, <<>>), x)
  <2>1. x \in {x}
    OBVIOUS
  <2> QED
    BY <1>1, <2>1, ScannedAppend
<1> QED
  BY <1>1, <1>2, ScannedEmpty, ScanOne DEF Leads

LEMMA LeadsByAppend ==
    ASSUME NEW C, NEW tokens \in Seq(C), NEW x \in C, NEW known, NEW next,
           Leads(known, tokens, next)
    PROVE  Leads(known, Append(tokens, x), Scan(next, x))
<1>1. Scanned({known}, Append(tokens, x)) = ScanAll(Scanned({known}, tokens), x)
  BY ScannedAppend
<1> QED
  BY <1>1, ScanOne DEF Leads

LEMMA LeadsByTwo ==
    ASSUME NEW known, NEW x, NEW y
    PROVE  Leads(known, <<x, y>>, Scan(Scan(known, x), y))
<1>1. <<x>> \in Seq({x, y}) /\ y \in {x, y}
  OBVIOUS
<1>2. Leads(known, Append(<<x>>, y), Scan(Scan(known, x), y))
  BY <1>1, LeadsByOne, LeadsByAppend
<1>3. Append(<<x>>, y) = <<x, y>>
  BY PairIsAppend
<1> QED
  BY <1>2, <1>3

LEMMA LeadsByConcat ==
    ASSUME NEW C, NEW t \in Seq(C), NEW u \in Seq(C), NEW a, NEW b, NEW c,
           Leads(a, t, b), Leads(b, u, c)
    PROVE  Leads(a, t \o u, c)
<1> DEFINE P == {w \in Seq(C) : Scanned({a}, t \o w) = Scanned({b}, w)}
<1>1. <<>> \in P
  <2>1. <<>> \in Seq(C) /\ t \o <<>> = t
    BY ConcatEmptySeq
  <2>2. Scanned({b}, <<>>) = {b}
    BY ScannedEmpty
  <2> QED
    BY <2>1, <2>2 DEF Leads
<1>2. ASSUME NEW w \in Seq(C), NEW x \in C, w \in P
      PROVE  Append(w, x) \in P
  <2>1. /\ t \o w \in Seq(C) /\ Append(w, x) \in Seq(C)
        /\ t \o Append(w, x) = Append(t \o w, x)
    BY ConcatProperties, AppendProperties
  <2>2. Scanned({a}, Append(t \o w, x)) = ScanAll(Scanned({a}, t \o w), x)
    BY <2>1, ScannedAppend
  <2>3. Scanned({b}, Append(w, x)) = ScanAll(Scanned({b}, w), x)
    BY ScannedAppend
  <2> QED
    BY <1>2, <2>1, <2>2, <2>3
<1> HIDE DEF P
<1>3. u \in P
  BY <1>1, <1>2, SeqSetInduction
<1> QED
  BY <1>3 DEF P, Leads

LEMMA AppendTwo ==
    ASSUME NEW C, NEW s \in Seq(C), NEW x \in C
    PROVE  /\ Append(s, x) \in Seq(C) /\ s \o <<x>> = Append(s, x)
           /\ s \o <<x, x>> = Append(Append(s, x), x)
<1>1. /\ Append(s, x) \in Seq(C) /\ s \o <<x>> = Append(s, x)
  BY AppendProperties, AppendIsConcat
<1>2. Append(Append(s, x), x) = (s \o <<x>>) \o <<x>>
  BY <1>1, AppendIsConcat
<1>3. (s \o <<x>>) \o <<x>> = s \o (<<x>> \o <<x>>)
  <2>1. <<x>> \in Seq(C)
    OBVIOUS
  <2> QED
    BY <2>1, ConcatAssociative
<1>4. <<x>> \o <<x>> = <<x, x>>
  <2>1. <<x>> \in Seq(C)
    OBVIOUS
  <2> QED
    BY <2>1, AppendIsConcat, PairIsAppend
<1> QED
  BY <1>1, <1>2, <1>3, <1>4

\* In braces every character of a value counts, a doubled brace once.
LEMMA BracedValueIsRead ==
    ASSUME NEW key, NEW read, NEW v \in Seq(Characters)
    PROVE  /\ Doubled(v) \in Seq(Characters)
           /\ Leads(Known("braced", key, <<>>, read), Doubled(v), Known("braced", key, v, read))
<1> DEFINE Start == Known("braced", key, <<>>, read)
           P == {w \in Seq(Characters) : /\ Doubled(w) \in Seq(Characters)
                                        /\ Leads(Start, Doubled(w), Known("braced", key, w, read))}
<1>1. <<>> \in P
  <2>1. Scanned({Start}, <<>>) = {Start} /\ <<>> \in Seq(Characters)
    BY ScannedEmpty
  <2> QED
    BY <2>1, DoubledEmpty DEF Leads
<1>2. ASSUME NEW w \in Seq(Characters), NEW x \in Characters, w \in P
      PROVE  Append(w, x) \in P
  <2>1. Append(w, x) \in Seq(Characters)
    BY AppendProperties
  <2>2. Doubled(Append(w, x)) = Doubled(w) \o Character(x)
    BY DoubledAppend
  <2>3. "}" \in Characters
    BY DEF Characters
  <2>4. CASE x = "}"
    <3> DEFINE closing == Known("closing", key, w, read)
    <3>1. Doubled(Append(w, x)) = Append(Append(Doubled(w), x), x)
      BY <1>2, <2>2, <2>4, AppendTwo DEF Character
    <3>2. Scan(Known("braced", key, w, read), x) = closing
      BY <2>4 DEF Scan, Known, After, IsData, IsComplete
    <3>3. Scan(closing, x) = Known("braced", key, Append(w, x), read)
      BY <2>4 DEF Scan, Known, After, IsData, IsComplete
    <3> HIDE DEF closing, Start
    <3>4. Append(Doubled(w), x) \in Seq(Characters) /\ Leads(Start, Append(Doubled(w), x), closing)
      BY <1>2, <3>2, LeadsByAppend, AppendTwo
    <3>5. Leads(Start, Append(Append(Doubled(w), x), x), Known("braced", key, Append(w, x), read))
      BY <3>3, <3>4, LeadsByAppend
    <3>6. Append(Append(Doubled(w), x), x) \in Seq(Characters)
      BY <3>4, AppendTwo
    <3> QED
      BY <2>1, <3>1, <3>5, <3>6 DEF Start
  <2>5. CASE x # "}"
    <3>1. Doubled(Append(w, x)) = Append(Doubled(w), x)
      BY <1>2, <2>2, <2>5, AppendTwo DEF Character
    <3>2. Scan(Known("braced", key, w, read), x) = Known("braced", key, Append(w, x), read)
      BY <2>5 DEF Scan, Known, After, IsData, IsComplete
    <3> HIDE DEF Start
    <3>3. Leads(Start, Append(Doubled(w), x), Known("braced", key, Append(w, x), read))
      BY <1>2, <3>2, LeadsByAppend
    <3>4. Append(Doubled(w), x) \in Seq(Characters)
      BY <1>2, AppendTwo
    <3> QED
      BY <2>1, <3>1, <3>3, <3>4 DEF Start
  <2> QED
    BY <2>4, <2>5
<1> HIDE DEF P
<1>3. v \in P
  BY <1>1, <1>2, SeqSetInduction
<1> QED
  BY <1>3 DEF P

\* Without braces, a value that does not start with one ends with a semicolon.
IsPlain(w) == \A i \in 1..Len(w) : w[i] # ";" /\ (i = 1 => w[i] # "{")

LEMMA PlainIsReadFromStart ==
    ASSUME NEW key, NEW read
    PROVE  \A v \in Seq(Characters) : IsPlain(v) =>
                LET started == Known("start", key, <<>>, read) IN
                Leads(started, v, IF v = <<>> THEN started ELSE Known("plain", key, v, read))
<1> DEFINE Start == Known("start", key, <<>>, read)
           Reached(w) == IF w = <<>> THEN Start ELSE Known("plain", key, w, read)
           P == {w \in Seq(Characters) : IsPlain(w) => Leads(Start, w, Reached(w))}
<1>1. <<>> \in P
  <2>1. Scanned({Start}, <<>>) = {Start} /\ <<>> \in Seq(Characters)
    BY ScannedEmpty
  <2> QED
    BY <2>1 DEF Leads
<1>2. ASSUME NEW w \in Seq(Characters), NEW x \in Characters, w \in P
      PROVE  Append(w, x) \in P
  <2> DEFINE u == Append(w, x)
  <2>1. u \in Seq(Characters) /\ u # <<>>
    BY AppendProperties
  <2>2. Len(u) = Len(w) + 1 /\ u[Len(w) + 1] = x /\ \A i \in 1..Len(w) : u[i] = w[i]
    BY AppendProperties
  <2>3. Len(w) \in Nat
    BY LenProperties
  <2> SUFFICES ASSUME IsPlain(u) PROVE Leads(Start, u, Known("plain", key, u, read))
    BY <2>1
  <2> HIDE DEF u, P
  <2>4. IsPlain(w)
    <3> SUFFICES ASSUME NEW i \in 1..Len(w) PROVE w[i] # ";" /\ (i = 1 => w[i] # "{")
      BY DEF IsPlain
    <3>1. i \in 1..Len(u) /\ u[i] = w[i]
      BY <2>2, <2>3
    <3> QED
      BY <3>1 DEF IsPlain
  <2>5. x # ";" /\ (Len(w) = 0 => x # "{")
    <3>1. Len(w) + 1 \in 1..Len(u)
      BY <2>2, <2>3
    <3>2. x # ";" /\ (Len(w) + 1 = 1 => x # "{")
      BY <2>2, <3>1 DEF IsPlain
    <3>3. Len(w) = 0 => Len(w) + 1 = 1
      OBVIOUS
    <3> QED
      BY <3>2, <3>3
  <2>6. CASE w = <<>>
    <3>1. x # "{" /\ u = <<x>>
      <4>1. Len(w) = 0
        BY <2>6
      <4>2. u = <<x>>
        BY <2>6 DEF u
      <4> QED
        BY <2>5, <4>1, <4>2
    <3>2. Leads(Start, u, Scan(Start, x))
      BY <3>1, LeadsByOne
    <3>3. Scan(Start, x) = Known("plain", key, u, read)
      BY <2>5, <2>6, <3>1 DEF Scan, Known, After, IsData, IsComplete, u
    <3> QED
      BY <3>2, <3>3
  <2>7. CASE w # <<>>
    <3>1. Leads(Start, w, Known("plain", key, w, read))
      BY <1>2, <2>4, <2>7 DEF P
    <3>2. Scan(Known("plain", key, w, read), x) = Known("plain", key, u, read)
      BY <2>5 DEF Scan, Known, After, IsData, IsComplete, u
    <3> HIDE DEF Start
    <3> QED
      BY <3>1, <3>2, LeadsByAppend DEF u
  <2> QED
    BY <2>6, <2>7
<1> HIDE DEF P
<1>3. Seq(Characters) \subseteq P
  BY <1>1, <1>2, SeqSetInduction
<1> QED
  BY <1>3 DEF P

\* Each of the attributes that the two suites write leaves ODBC between
\* attributes, and counts unless its keyword did before.
Between(key, value, read) == Known("between", key, value, read)

LEMMA AttributeIsRead ==
    ASSUME NEW keyword \in Keywords, NEW v \in Seq(Characters),
           NEW key, NEW value, NEW read
    PROVE  /\ Attribute(keyword, v) \in Seq(Characters)
           /\ Leads(Between(key, value, read), Attribute(keyword, v),
                    Between(keyword, v, FirstCounts(read, keyword, v)))
<1> DEFINE a == Between(key, value, read)
           b == Known("start", keyword, <<>>, read)
           c == Known("braced", keyword, <<>>, read)
           d == Known("braced", keyword, v, read)
           f == Known("closing", keyword, v, read)
           g == Between(keyword, v, FirstCounts(read, keyword, v))
           opening == <<keyword, "{">>
           closing == <<"}", ";">>
           both == opening \o Doubled(v)
<1>1. Scan(a, keyword) = b
  BY DEF Scan, Known, After, IsData, IsComplete, Between, Keywords
<1>2. Scan(b, "{") = c
  BY DEF Scan, Known, After, IsData, IsComplete, Between, Keywords
<1>3. Scan(d, "}") = f
  BY DEF Scan, Known, After, IsData, IsComplete, Between, Keywords
<1>4. Scan(f, ";") = g
  BY DEF Scan, Known, After, IsData, IsComplete, Between, Keywords
<1>5. Doubled(v) \in Seq(Characters) /\ Leads(c, Doubled(v), d)
  BY BracedValueIsRead
<1>6. opening \in Seq(Characters) /\ closing \in Seq(Characters)
  <2>1. /\ keyword \in Characters /\ "{" \in Characters
        /\ "}" \in Characters /\ ";" \in Characters
    BY DEF Characters
  <2> QED
    BY <2>1, PairIsAppend
<1> HIDE DEF a, b, c, d, f, g
<1>7. Leads(a, opening, c)
  BY <1>1, <1>2, LeadsByTwo
<1>8. Leads(d, closing, g)
  BY <1>3, <1>4, LeadsByTwo
<1> HIDE DEF opening, closing
<1>9. Leads(a, both, d) /\ both \in Seq(Characters)
  BY <1>5, <1>6, <1>7, LeadsByConcat, ConcatProperties
<1> HIDE DEF both
<1>10. Leads(a, both \o closing, g) /\ both \o closing \in Seq(Characters)
  BY <1>6, <1>8, <1>9, LeadsByConcat, ConcatProperties
<1> QED
  BY <1>10 DEF a, g, both, opening, closing, Attribute

LEMMA PlainIsRead ==
    ASSUME NEW keyword \in Keywords, NEW v \in Seq(Characters), IsPlain(v),
           NEW key, NEW value, NEW read
    PROVE  /\ Plain(keyword, v) \in Seq(Characters)
           /\ Leads(Between(key, value, read), Plain(keyword, v),
                    Between(keyword, v, FirstCounts(read, keyword, v)))
<1> DEFINE a == Between(key, value, read)
           b == Known("start", keyword, <<>>, read)
           c == IF v = <<>> THEN b ELSE Known("plain", keyword, v, read)
           d == Between(keyword, v, FirstCounts(read, keyword, v))
           opening == <<keyword>>
           closing == <<";">>
           both == opening \o v
<1>1. Scan(a, keyword) = b
  BY DEF Scan, Known, After, IsData, IsComplete, Between, Keywords
<1>2. Scan(c, ";") = d
  BY DEF Scan, Known, After, IsData, IsComplete, Between, Keywords
<1>3. Leads(b, v, c)
  BY PlainIsReadFromStart
<1>4. opening \in Seq(Characters) /\ closing \in Seq(Characters)
  <2>1. keyword \in Characters /\ ";" \in Characters
    BY DEF Characters
  <2> QED
    BY <2>1, SingletonSeq
<1> HIDE DEF a, b, c, d
<1>5. Leads(a, opening, b) /\ Leads(c, closing, d)
  BY <1>1, <1>2, LeadsByOne
<1> HIDE DEF opening, closing
<1>6. Leads(a, both, c) /\ both \in Seq(Characters)
  BY <1>3, <1>4, <1>5, LeadsByConcat, ConcatProperties
<1> HIDE DEF both
<1>7. Leads(a, both \o closing, d) /\ both \o closing \in Seq(Characters)
  BY <1>4, <1>5, <1>6, LeadsByConcat, ConcatProperties
<1> QED
  BY <1>7 DEF a, d, both, opening, closing, Plain

-----------------------------------------------------------------------------
(* What a string says of a record of settings.                             *)

\* What the attributes with the keywords of D say, of those that m says.
Part(m, D) == [keyword \in D |-> m[keyword]]

Says(m, D, tokens) ==
    /\ tokens \in Seq(Characters)
    /\ \E key, value : Leads(Unread, tokens, Between(key, value, Part(m, D)))

LEMMA PartGrows ==
    ASSUME NEW m, NEW D, NEW keyword, keyword \notin D
    PROVE  FirstCounts(Part(m, D), keyword, m[keyword]) = Part(m, D \cup {keyword})
<1> DEFINE f == Part(m, D)
<1>1. DOMAIN f = D /\ \A k \in D : f[k] = m[k]
  BY DEF Part
<1> HIDE DEF f
<1>2. FirstCounts(f, keyword, m[keyword])
        = [k \in D \cup {keyword} |-> IF k = keyword THEN m[keyword] ELSE f[k]]
  BY <1>1 DEF FirstCounts
<1> DEFINE Value(k) == IF k = keyword THEN m[keyword] ELSE f[k]
<1>3. \A k \in D \cup {keyword} : Value(k) = m[k]
  BY <1>1
<1> HIDE DEF Value
<1>4. [k \in D \cup {keyword} |-> Value(k)] = [k \in D \cup {keyword} |-> m[k]]
  BY <1>3
<1> QED
  BY <1>2, <1>4 DEF Part, f, Value

LEMMA NothingSaid == ASSUME NEW m PROVE Says(m, {}, <<>>)
<1>1. Leads(Unread, <<>>, Unread)
  BY ScannedEmpty DEF Leads
<1>2. Unread = Between("", <<>>, <<>>)
  BY DEF Unread, Between, Known
<1>3. Part(m, {}) = <<>>
  BY DEF Part
<1>4. <<>> \in Seq(Characters)
  OBVIOUS
<1> QED
  BY <1>1, <1>2, <1>3, <1>4 DEF Says

LEMMA AttributeSays ==
    ASSUME NEW m, NEW D, NEW keyword \in Keywords \ D, m[keyword] \in Seq(Characters),
           NEW tokens, Says(m, D, tokens)
    PROVE  Says(m, D \cup {keyword}, tokens \o Attribute(keyword, m[keyword]))
<1> DEFINE v == m[keyword]
           more == Attribute(keyword, v)
<1>1. PICK key, value : Leads(Unread, tokens, Between(key, value, Part(m, D)))
  BY DEF Says
<1>2. /\ more \in Seq(Characters)
      /\ Leads(Between(key, value, Part(m, D)), more,
               Between(keyword, v, FirstCounts(Part(m, D), keyword, v)))
  BY AttributeIsRead
<1>3. FirstCounts(Part(m, D), keyword, v) = Part(m, D \cup {keyword})
  BY PartGrows
<1>4. tokens \in Seq(Characters)
  BY DEF Says
<1> HIDE DEF more, v
<1>5. Leads(Unread, tokens \o more, Between(keyword, v, Part(m, D \cup {keyword})))
  BY <1>1, <1>2, <1>3, <1>4, LeadsByConcat
<1>6. tokens \o more \in Seq(Characters)
  BY <1>2, <1>4, ConcatProperties
<1> QED
  BY <1>5, <1>6 DEF Says, more, v

LEMMA PlainSays ==
    ASSUME NEW m, NEW D, NEW keyword \in Keywords \ D, m[keyword] \in Seq(Characters),
           IsPlain(m[keyword]), NEW tokens, Says(m, D, tokens)
    PROVE  Says(m, D \cup {keyword}, tokens \o Plain(keyword, m[keyword]))
<1> DEFINE v == m[keyword]
           more == Plain(keyword, v)
<1>1. PICK key, value : Leads(Unread, tokens, Between(key, value, Part(m, D)))
  BY DEF Says
<1>2. /\ more \in Seq(Characters)
      /\ Leads(Between(key, value, Part(m, D)), more,
               Between(keyword, v, FirstCounts(Part(m, D), keyword, v)))
  BY PlainIsRead
<1>3. FirstCounts(Part(m, D), keyword, v) = Part(m, D \cup {keyword})
  BY PartGrows
<1>4. tokens \in Seq(Characters)
  BY DEF Says
<1> HIDE DEF more, v
<1>5. Leads(Unread, tokens \o more, Between(keyword, v, Part(m, D \cup {keyword})))
  BY <1>1, <1>2, <1>3, <1>4, LeadsByConcat
<1>6. tokens \o more \in Seq(Characters)
  BY <1>2, <1>4, ConcatProperties
<1> QED
  BY <1>5, <1>6 DEF Says, more, v

LEMMA SaysIsRead ==
    ASSUME NEW m, NEW tokens, Says(m, DOMAIN m, tokens), m = [keyword \in DOMAIN m |-> m[keyword]]
    PROVE  Reading(tokens) = {m}
<1>1. PICK key, value : Leads(Unread, tokens, Between(key, value, Part(m, DOMAIN m)))
  BY DEF Says
<1>2. Part(m, DOMAIN m) = m
  BY DEF Part
<1>3. Scanned({Unread}, tokens) = {Between(key, value, m)}
  BY <1>1, <1>2 DEF Leads
<1>4. Between(key, value, m).settings = m
  BY DEF Between, Known
<1> QED
  BY <1>3, <1>4 DEF Reading

-----------------------------------------------------------------------------
(* The connection strings.                                                 *)

LEMMA SettingTyped ==
    ASSUME NEW e, IsEnvironment(e), NEW name, NEW fallback \in Seq(Tokens)
    PROVE  Setting(e, name, fallback) \in Seq(Tokens)
  BY DEF Setting, IsEnvironment

LEMMA TokensAreCharacters == Seq(Tokens) \subseteq Seq(Characters)
<1>1. Tokens \subseteq Characters
  BY DEF Characters
<1> QED
  BY <1>1, SeqMonotonic

\* What the settings consist of, and what they are called.
LEMMA MeantTyped ==
    ASSUME NEW e, IsEnvironment(e)
    PROVE  /\ DOMAIN Meant(e) = {"DRIVER", "SERVER", "UID", "PWD", "DATABASE", "ENCRYPT", "TRUST"}
           /\ DOMAIN Meant(e) \subseteq Keywords
           /\ Meant(e) = [keyword \in DOMAIN Meant(e) |-> Meant(e)[keyword]]
           /\ \A keyword \in DOMAIN Meant(e) : Meant(e)[keyword] \in Seq(Characters)
           /\ IsPlain(Meant(e)["ENCRYPT"]) /\ IsPlain(Meant(e)["TRUST"])
<1>1. /\ <<"Driver 18">> \in Seq(Tokens) /\ <<"127.0.0.1">> \in Seq(Tokens)
      /\ <<"tempdb">> \in Seq(Tokens) /\ <<"sa">> \in Seq(Tokens)
      /\ <<"yes">> \in Seq(Tokens) /\ <<>> \in Seq(Tokens)
  <2>1. /\ "Driver 18" \in Tokens /\ "127.0.0.1" \in Tokens /\ "tempdb" \in Tokens
        /\ "sa" \in Tokens /\ "yes" \in Tokens
    BY TokensAssumption
  <2>2. <<>> \in Seq(Tokens)
    OBVIOUS
  <2> QED
    BY <2>1, <2>2, SingletonSeq
<1>2. /\ Meant(e).DRIVER \in Seq(Tokens) /\ Meant(e).SERVER \in Seq(Tokens)
      /\ Meant(e).UID \in Seq(Tokens) /\ Meant(e).PWD \in Seq(Tokens)
      /\ Meant(e).DATABASE \in Seq(Tokens)
      /\ Meant(e).ENCRYPT = <<"yes">> /\ Meant(e).TRUST = <<"yes">>
  BY <1>1, SettingTyped DEF Meant, ConformanceSettings, Default
<1>3. DOMAIN Meant(e) = {"DRIVER", "SERVER", "UID", "PWD", "DATABASE", "ENCRYPT", "TRUST"}
  BY DEF Meant
<1>4. DOMAIN Meant(e) \subseteq Keywords
  BY <1>3 DEF Keywords
<1>5. Meant(e) = [keyword \in DOMAIN Meant(e) |-> Meant(e)[keyword]]
  BY DEF Meant
<1>6. \A keyword \in DOMAIN Meant(e) : Meant(e)[keyword] \in Seq(Tokens)
  BY <1>1, <1>2, <1>3
<1>7. IsPlain(<<"yes">>)
  <2> DEFINE yes == <<"yes">>
  <2>1. Len(yes) = 1 /\ yes[1] = "yes"
    OBVIOUS
  <2> HIDE DEF yes
  <2>2. \A i \in 1..Len(yes) : yes[i] = "yes"
    BY <2>1
  <2>3. IsPlain(yes)
    BY <2>2 DEF IsPlain
  <2> QED
    BY <2>3 DEF yes
<1> QED
  BY <1>2, <1>3, <1>4, <1>5, <1>6, <1>7, TokensAreCharacters

\* conformance.cpp's string says what it is meant to.
LEMMA ConformanceStringIsRead ==
    ASSUME NEW e, IsEnvironment(e), Setting(e, "ODBC_CONNECTION_STRING", <<>>) = <<>>
    PROVE  Reading(ConformanceString(e)) = {Meant(e)}
<1> DEFINE m == Meant(e)
           t1 == <<>> \o Attribute("DRIVER", m["DRIVER"])
           t2 == t1 \o Attribute("SERVER", m["SERVER"])
           t3 == t2 \o Attribute("UID", m["UID"])
           t4 == t3 \o Attribute("PWD", m["PWD"])
           t5 == t4 \o Attribute("DATABASE", m["DATABASE"])
           t6 == t5 \o Plain("ENCRYPT", m["ENCRYPT"])
           t7 == t6 \o Plain("TRUST", m["TRUST"])
<1>1. /\ DOMAIN m = {"DRIVER", "SERVER", "UID", "PWD", "DATABASE", "ENCRYPT", "TRUST"}
      /\ DOMAIN m \subseteq Keywords
      /\ m = [keyword \in DOMAIN m |-> m[keyword]]
      /\ \A keyword \in DOMAIN m : m[keyword] \in Seq(Characters)
      /\ IsPlain(m["ENCRYPT"]) /\ IsPlain(m["TRUST"])
  BY MeantTyped
<1>2. ConformanceString(e) = t7
  <2>1. Attribute("DRIVER", m["DRIVER"]) \in Seq(Characters)
    BY <1>1, AttributeIsRead
  <2>2. t1 = Attribute("DRIVER", m["DRIVER"])
    BY <2>1, ConcatEmptySeq
  <2> QED
    BY <2>2 DEF ConformanceString, Meant
<1> HIDE DEF m
<1>3. Says(m, {"DRIVER"}, t1)
  <2>1. Says(m, {}, <<>>)
    BY NothingSaid
  <2>2. Says(m, {} \cup {"DRIVER"}, t1)
    BY <1>1, <2>1, AttributeSays
  <2> QED
    BY <2>2
<1> HIDE DEF t1
<1>4. Says(m, {"DRIVER"} \cup {"SERVER"}, t2)
  BY <1>1, <1>3, AttributeSays
<1> HIDE DEF t2
<1>5. Says(m, {"DRIVER"} \cup {"SERVER"} \cup {"UID"}, t3)
  BY <1>1, <1>4, AttributeSays
<1> HIDE DEF t3
<1>6. Says(m, {"DRIVER"} \cup {"SERVER"} \cup {"UID"} \cup {"PWD"}, t4)
  BY <1>1, <1>5, AttributeSays
<1> HIDE DEF t4
<1>7. Says(m, {"DRIVER"} \cup {"SERVER"} \cup {"UID"} \cup {"PWD"} \cup {"DATABASE"}, t5)
  BY <1>1, <1>6, AttributeSays
<1> HIDE DEF t5
<1>8. Says(m, {"DRIVER"} \cup {"SERVER"} \cup {"UID"} \cup {"PWD"} \cup {"DATABASE"}
                \cup {"ENCRYPT"}, t6)
  BY <1>1, <1>7, PlainSays
<1> HIDE DEF t6
<1>9. Says(m, {"DRIVER"} \cup {"SERVER"} \cup {"UID"} \cup {"PWD"} \cup {"DATABASE"}
                \cup {"ENCRYPT"} \cup {"TRUST"}, t7)
  BY <1>1, <1>8, PlainSays
<1> HIDE DEF t7
<1>10. {"DRIVER"} \cup {"SERVER"} \cup {"UID"} \cup {"PWD"} \cup {"DATABASE"}
                \cup {"ENCRYPT"} \cup {"TRUST"} = DOMAIN m
  BY <1>1
<1>11. Reading(t7) = {m}
  BY <1>1, <1>9, <1>10, SaysIsRead
<1> QED
  BY <1>2, <1>11 DEF m

\* A library in braces, as the parity suites write it.
IsUnbraced(v) == \A i \in 1..Len(v) : v[i] # "}"

LEMMA DoubledUnchanged ==
    ASSUME NEW v \in Seq(Tokens), IsUnbraced(v)
    PROVE  Doubled(v) = v
<1> DEFINE P == {w \in Seq(Tokens) : IsUnbraced(w) => Doubled(w) = w}
<1>1. <<>> \in P
  <2>1. <<>> \in Seq(Tokens)
    OBVIOUS
  <2> QED
    BY <2>1, DoubledEmpty
<1>2. ASSUME NEW w \in Seq(Tokens), NEW x \in Tokens, w \in P
      PROVE  Append(w, x) \in P
  <2> DEFINE u == Append(w, x)
  <2>1. u \in Seq(Tokens)
    BY AppendProperties
  <2>2. Len(u) = Len(w) + 1 /\ u[Len(w) + 1] = x /\ \A i \in 1..Len(w) : u[i] = w[i]
    BY AppendProperties
  <2>3. Len(w) \in Nat
    BY LenProperties
  <2> SUFFICES ASSUME IsUnbraced(u) PROVE Doubled(u) = u
    BY <2>1
  <2>6. Doubled(u) = Doubled(w) \o Character(x)
    BY DoubledAppend
  <2>7. w \o <<x>> = u
    BY AppendIsConcat
  <2> HIDE DEF u
  <2>4. IsUnbraced(w)
    <3> SUFFICES ASSUME NEW i \in 1..Len(w) PROVE w[i] # "}"
      BY DEF IsUnbraced
    <3>1. i \in 1..Len(u) /\ u[i] = w[i]
      BY <2>2, <2>3
    <3> QED
      BY <3>1 DEF IsUnbraced
  <2>5. x # "}"
    <3>1. Len(w) + 1 \in 1..Len(u)
      BY <2>2, <2>3
    <3> QED
      BY <2>2, <3>1 DEF IsUnbraced
  <2> QED
    BY <1>2, <2>4, <2>5, <2>6, <2>7 DEF Character
<1> HIDE DEF P
<1>3. v \in P
  BY <1>1, <1>2, SeqSetInduction
<1> QED
  BY <1>3 DEF P

\* What compare.py makes of an environment that it does not refuse.
LEMMA MadeEnvironment ==
    ASSUME NEW e, IsEnvironment(e), ~Refuses(e), NEW driver \in DRIVERS
    PROVE  LET made == DriverEnvironment(e, driver) IN
           /\ IsEnvironment(made)
           /\ Config(made) = ConformanceSettings(made)
           /\ Setting(made, "ODBC_CONNECTION_STRING", <<>>) = <<>>
           /\ ConnStr(made) = <<>> /\ Dsn(made) = <<>>
           /\ TrustCert(made) = <<"yes">> /\ Encrypt(made) = <<"yes">>
           /\ Config(made).DRIVER = Libraries[driver] /\ Config(made).UID # <<>>
           /\ made["ODBC_TEST_TARGET"] = <<driver>>
<1> DEFINE made == DriverEnvironment(e, driver)
<1>1. /\ IsEnvironment(made) /\ Config(made) = ConformanceSettings(made) /\ Dsn(made) = <<>>
      /\ ConnStr(made) = Setting(made, "ODBC_CONNECTION_STRING", <<>>)
  BY DriverEnvironmentTyped, DriverEnvironmentAgrees
<1>2. Setting(made, "ODBC_CONNECTION_STRING", <<>>) = <<>>
  <2>1. Get(e, "ODBC_CONNECTION_STRING", <<>>) = <<>>
    BY DEF Refuses
  <2>2. "ODBC_CONNECTION_STRING" \in DOMAIN made =>
            /\ "ODBC_CONNECTION_STRING" \in DOMAIN e
            /\ made["ODBC_CONNECTION_STRING"] = e["ODBC_CONNECTION_STRING"]
    BY DEF DriverEnvironment, Legacy, DriverNames, Security
  <2> QED
    BY <2>1, <2>2 DEF Get, Setting
<1>3. \A name \in Security : name \in DOMAIN made /\ made[name] = <<"yes">>
  BY DEF DriverEnvironment, Legacy, DriverNames, Security
<1>4. TrustCert(made) = <<"yes">> /\ Encrypt(made) = <<"yes">>
  <2>1. <<"yes">> # <<>>
    OBVIOUS
  <2> HIDE DEF made
  <2> QED
    BY <1>3, <2>1 DEF TrustCert, Encrypt, Setting, Security
<1>5. Config(made).DRIVER = Libraries[driver]
  <2>1. /\ "ODBC_TEST_DRIVER" \in DOMAIN made
        /\ made["ODBC_TEST_DRIVER"] = Libraries[driver] /\ Libraries[driver] # <<>>
    BY LibrariesAssumption DEF DriverEnvironment, DriverNames, Legacy
  <2> HIDE DEF made
  <2> QED
    BY <2>1 DEF Config, Setting
<1>6. Config(made).UID # <<>>
  <2>1. <<"sa">> # <<>>
    OBVIOUS
  <2> HIDE DEF made
  <2> QED
    BY <2>1 DEF Config, Setting, Default
<1>7. made["ODBC_TEST_TARGET"] = <<driver>>
  BY DEF DriverEnvironment, Legacy, DriverNames, Security
<1> QED
  BY <1>1, <1>2, <1>4, <1>5, <1>6, <1>7

LEMMA LibraryInBraces ==
    ASSUME NEW driver \in DRIVERS
    PROVE  /\ Libraries[driver] \in Seq(Characters)
           /\ <<"DRIVER", "{">> \o Libraries[driver] \o <<"}", ";">>
                = Attribute("DRIVER", Libraries[driver])
<1>1. Libraries[driver] \in Seq(Tokens)
  BY LibrariesAssumption
<1>2. IsUnbraced(Libraries[driver])
  <2>1. DOMAIN Libraries[driver] = 1..Len(Libraries[driver])
    BY <1>1, LenProperties
  <2> QED
    BY <2>1, LibrariesAssumption DEF IsUnbraced
<1>3. Doubled(Libraries[driver]) = Libraries[driver]
  BY <1>1, <1>2, DoubledUnchanged
<1> QED
  BY <1>1, <1>3, TokensAreCharacters DEF Attribute

\* A parity suite's string says the same, where braces make no difference.
LEMMA ParityStringIsRead ==
    ASSUME NEW e, IsEnvironment(e), ~Refuses(e), NEW driver \in DRIVERS,
           NEW made, made = DriverEnvironment(e, driver),
           IsPlain(Config(made).SERVER), IsPlain(Config(made).UID),
           IsPlain(Config(made).PWD), IsPlain(Config(made).DATABASE)
    PROVE  Reading(BuildConnectionString(made)) = {Meant(made)}
<1> DEFINE m == Meant(made)
           t1 == <<>> \o Attribute("DRIVER", m["DRIVER"])
           t2 == t1 \o Plain("SERVER", m["SERVER"])
           t3 == t2 \o Plain("DATABASE", m["DATABASE"])
           t4 == t3 \o Plain("TRUST", m["TRUST"])
           t5 == t4 \o Plain("ENCRYPT", m["ENCRYPT"])
           uid == Plain("UID", m["UID"])
           pwd == Plain("PWD", m["PWD"])
           t6 == t5 \o uid
           t7 == t6 \o pwd
<1>1. /\ IsEnvironment(made) /\ Config(made) = ConformanceSettings(made)
      /\ ConnStr(made) = <<>> /\ Dsn(made) = <<>>
      /\ TrustCert(made) = <<"yes">> /\ Encrypt(made) = <<"yes">>
      /\ Config(made).DRIVER = Libraries[driver] /\ Config(made).UID # <<>>
  BY MadeEnvironment
<1>2. /\ m["DRIVER"] = Config(made).DRIVER /\ m["SERVER"] = Config(made).SERVER
      /\ m["UID"] = Config(made).UID /\ m["PWD"] = Config(made).PWD
      /\ m["DATABASE"] = Config(made).DATABASE
      /\ m["ENCRYPT"] = <<"yes">> /\ m["TRUST"] = <<"yes">>
  BY <1>1 DEF Meant
<1>3. /\ DOMAIN m = {"DRIVER", "SERVER", "UID", "PWD", "DATABASE", "ENCRYPT", "TRUST"}
      /\ DOMAIN m \subseteq Keywords
      /\ m = [keyword \in DOMAIN m |-> m[keyword]]
      /\ \A keyword \in DOMAIN m : m[keyword] \in Seq(Characters)
      /\ IsPlain(m["ENCRYPT"]) /\ IsPlain(m["TRUST"])
  BY <1>1, MeantTyped
<1> HIDE DEF m
<1>4. t1 = <<"DRIVER", "{">> \o Config(made).DRIVER \o <<"}", ";">>
  <2>1. Attribute("DRIVER", m["DRIVER"]) \in Seq(Characters)
    BY <1>3, AttributeIsRead
  <2>2. t1 = Attribute("DRIVER", m["DRIVER"])
    BY <2>1, ConcatEmptySeq
  <2> QED
    BY <1>1, <1>2, <2>2, LibraryInBraces
<1> HIDE DEF t1
<1>5. BuildConnectionString(made) = t5 \o (uid \o pwd)
  <2>1. <<"yes">> # <<>>
    OBVIOUS
  <2> QED
    BY <1>1, <1>2, <1>4, <2>1 DEF BuildConnectionString
<1>6. Says(m, {"DRIVER"}, t1)
  <2>1. Says(m, {}, <<>>)
    BY NothingSaid
  <2>2. Says(m, {} \cup {"DRIVER"}, t1)
    BY <1>3, <2>1, AttributeSays DEF t1
  <2> QED
    BY <2>2
<1>7. Says(m, {"DRIVER"} \cup {"SERVER"}, t2)
  BY <1>2, <1>3, <1>6, PlainSays
<1> HIDE DEF t2
<1>8. Says(m, {"DRIVER"} \cup {"SERVER"} \cup {"DATABASE"}, t3)
  BY <1>2, <1>3, <1>7, PlainSays
<1> HIDE DEF t3
<1>9. Says(m, {"DRIVER"} \cup {"SERVER"} \cup {"DATABASE"} \cup {"TRUST"}, t4)
  BY <1>3, <1>8, PlainSays
<1> HIDE DEF t4
<1>10. Says(m, {"DRIVER"} \cup {"SERVER"} \cup {"DATABASE"} \cup {"TRUST"} \cup {"ENCRYPT"}, t5)
  BY <1>3, <1>9, PlainSays
<1> HIDE DEF t5
<1>11. Says(m, {"DRIVER"} \cup {"SERVER"} \cup {"DATABASE"} \cup {"TRUST"} \cup {"ENCRYPT"}
                 \cup {"UID"}, t6)
  BY <1>2, <1>3, <1>10, PlainSays
<1>12. Says(m, {"DRIVER"} \cup {"SERVER"} \cup {"DATABASE"} \cup {"TRUST"} \cup {"ENCRYPT"}
                 \cup {"UID"} \cup {"PWD"}, t7)
  <2> HIDE DEF t6
  <2> QED
    BY <1>2, <1>3, <1>11, PlainSays
<1>13. t5 \o (uid \o pwd) = t7
  <2>1. uid \in Seq(Characters) /\ pwd \in Seq(Characters)
    BY <1>2, <1>3, PlainIsRead
  <2>2. t5 \in Seq(Characters)
    BY <1>10 DEF Says
  <2> HIDE DEF uid, pwd
  <2> QED
    BY <2>1, <2>2, ConcatAssociative
<1>14. {"DRIVER"} \cup {"SERVER"} \cup {"DATABASE"} \cup {"TRUST"} \cup {"ENCRYPT"}
                 \cup {"UID"} \cup {"PWD"} = DOMAIN m
  BY <1>3
<1> HIDE DEF t7
<1>15. Reading(t7) = {m}
  BY <1>3, <1>12, <1>14, SaysIsRead
<1> QED
  BY <1>5, <1>13, <1>15 DEF m

\* Whatever comes behind it, a driver that is known stays the driver.
KnowsDriver(known, library) ==
    "DRIVER" \in DOMAIN known.settings /\ known.settings["DRIVER"] = library

Names(tokens, library) ==
    /\ tokens \in Seq(Characters)
    /\ \A known \in Scanned({Unread}, tokens) : KnowsDriver(known, library)

LEMMA DriverStaysKnown ==
    ASSUME NEW known, NEW library, KnowsDriver(known, library), NEW x
    PROVE  KnowsDriver(Scan(known, x), library)
<1>1. KnowsDriver([settings |-> FirstCounts(known.settings, known.key, known.value)], library)
  BY DEF KnowsDriver, FirstCounts
<1>2. Scan(known, x).settings \in
            {known.settings, FirstCounts(known.settings, known.key, known.value)}
  BY DEF Scan
<1> QED
  BY <1>1, <1>2 DEF KnowsDriver

LEMMA NamesByConcat ==
    ASSUME NEW t, NEW library, Names(t, library), NEW u \in Seq(Characters)
    PROVE  Names(t \o u, library)
<1> DEFINE P == {w \in Seq(Characters) : Names(t \o w, library)}
<1>0. t \in Seq(Characters)
  BY DEF Names
<1>1. <<>> \in P
  <2>1. <<>> \in Seq(Characters) /\ t \o <<>> = t
    BY <1>0, ConcatEmptySeq
  <2> QED
    BY <2>1
<1>2. ASSUME NEW w \in Seq(Characters), NEW x \in Characters, w \in P
      PROVE  Append(w, x) \in P
  <2> DEFINE tw == t \o w
  <2>1. /\ tw \in Seq(Characters) /\ Append(w, x) \in Seq(Characters)
        /\ Append(tw, x) \in Seq(Characters)
        /\ t \o Append(w, x) = Append(tw, x)
    BY <1>0, ConcatProperties, AppendProperties
  <2>2. Names(tw, library)
    BY <1>2
  <2> HIDE DEF tw
  <2>3. Scanned({Unread}, Append(tw, x)) = ScanAll(Scanned({Unread}, tw), x)
    BY <2>1, ScannedAppend
  <2>4. ASSUME NEW next \in Scanned({Unread}, Append(tw, x)) PROVE KnowsDriver(next, library)
    <3>1. PICK known \in Scanned({Unread}, tw) : next = Scan(known, x)
      BY <2>3 DEF ScanAll
    <3> QED
      BY <2>2, <3>1, DriverStaysKnown DEF Names
  <2>5. Names(Append(tw, x), library)
    BY <2>1, <2>4 DEF Names
  <2> QED
    BY <2>1, <2>5
<1> HIDE DEF P
<1>3. u \in P
  BY <1>1, <1>2, SeqSetInduction
<1> QED
  BY <1>3 DEF P

LEMMA ParityStringNamesTheLibrary ==
    ASSUME NEW e, IsEnvironment(e), ~Refuses(e), NEW driver \in DRIVERS,
           NEW made, made = DriverEnvironment(e, driver)
    PROVE  \A known \in Reading(BuildConnectionString(made)) :
                "DRIVER" \in DOMAIN known /\ known["DRIVER"] = Libraries[driver]
<1> DEFINE c == Config(made)
           library == Libraries[driver]
           t1 == <<"DRIVER", "{">> \o c.DRIVER \o <<"}", ";">>
           server == Plain("SERVER", c.SERVER)
           database == Plain("DATABASE", c.DATABASE)
           trust == Plain("TRUST", TrustCert(made))
           encrypt == Plain("ENCRYPT", Encrypt(made))
           login == Plain("UID", c.UID) \o Plain("PWD", c.PWD)
<1>1. /\ IsEnvironment(made) /\ c = ConformanceSettings(made)
      /\ ConnStr(made) = <<>> /\ Dsn(made) = <<>>
      /\ TrustCert(made) = <<"yes">> /\ Encrypt(made) = <<"yes">>
      /\ c.DRIVER = library /\ c.UID # <<>>
  BY MadeEnvironment
<1>2. BuildConnectionString(made) = t1 \o server \o database \o trust \o encrypt \o login
  <2>1. <<"yes">> # <<>>
    OBVIOUS
  <2> HIDE DEF c
  <2> QED
    BY <1>1, <2>1 DEF BuildConnectionString, c
<1>3. /\ server \in Seq(Characters) /\ database \in Seq(Characters)
      /\ trust \in Seq(Characters) /\ encrypt \in Seq(Characters) /\ login \in Seq(Characters)
  <2>1. /\ c.SERVER \in Seq(Characters) /\ c.DATABASE \in Seq(Characters)
        /\ c.UID \in Seq(Characters) /\ c.PWD \in Seq(Characters)
        /\ <<"yes">> \in Seq(Characters)
    <3>1. /\ Meant(made)["SERVER"] \in Seq(Characters) /\ Meant(made)["DATABASE"] \in Seq(Characters)
          /\ Meant(made)["UID"] \in Seq(Characters) /\ Meant(made)["PWD"] \in Seq(Characters)
          /\ Meant(made)["TRUST"] \in Seq(Characters)
      BY <1>1, MeantTyped
    <3> QED
      BY <1>1, <3>1 DEF Meant
  <2>2. \A keyword \in Keywords : \A v \in Seq(Characters) : Plain(keyword, v) \in Seq(Characters)
    <3> SUFFICES ASSUME NEW keyword \in Keywords, NEW v \in Seq(Characters)
                 PROVE  Plain(keyword, v) \in Seq(Characters)
      OBVIOUS
    <3>1. keyword \in Characters /\ ";" \in Characters
      BY DEF Characters
    <3>2. <<keyword>> \in Seq(Characters) /\ <<";">> \in Seq(Characters)
      BY <3>1, SingletonSeq
    <3> QED
      BY <3>2, ConcatProperties DEF Plain
  <2>3. {"SERVER", "DATABASE", "TRUST", "ENCRYPT", "UID", "PWD"} \subseteq Keywords
    BY DEF Keywords
  <2> HIDE DEF c
  <2> QED
    BY <1>1, <2>1, <2>2, <2>3, ConcatProperties
<1>4. Names(t1, library)
  <2>1. /\ library \in Seq(Characters) /\ t1 = Attribute("DRIVER", library)
    BY <1>1, LibraryInBraces
  <2>2. "DRIVER" \in Keywords
    BY DEF Keywords
  <2>3. Unread = Between("", <<>>, <<>>)
    BY DEF Unread, Between, Known
  <2>4. /\ t1 \in Seq(Characters)
        /\ Leads(Unread, t1, Between("DRIVER", library, FirstCounts(<<>>, "DRIVER", library)))
    BY <2>1, <2>2, <2>3, AttributeIsRead
  <2>5. KnowsDriver(Between("DRIVER", library, FirstCounts(<<>>, "DRIVER", library)), library)
    BY DEF KnowsDriver, Between, Known, FirstCounts
  <2> QED
    BY <2>4, <2>5 DEF Names, Leads
<1> HIDE DEF c, t1, server, database, trust, encrypt, login
<1>5. Names(t1 \o server \o database, library)
  BY <1>3, <1>4, NamesByConcat
<1>6. Names(t1 \o server \o database \o trust \o encrypt \o login, library)
  BY <1>3, <1>5, NamesByConcat
<1> QED
  BY <1>2, <1>6 DEF Names, KnowsDriver, Reading

-----------------------------------------------------------------------------
(* Type correctness.                                                       *)

(* The environment maps names to strings, and record numbers stay in the      *)
(* range of a SQLSMALLINT, whatever the environment and the driver are.     *)
THEOREM TypeCorrect == Spec => []TypeOK
<1> DEFINE Typed == TypeOK /\ IsEnvironment(environ)
<1>1. Init => Typed
  <2> SUFFICES ASSUME Init PROVE Typed
    OBVIOUS
  <2>1. IsEnvironment(environ)
    BY EnvironmentsAssumption DEF Init, IsEnvironment
  <2>2. env = environ
    BY DEF Init
  <2>3. record \in -(MaxSmall + 1)..MaxSmall
    BY MaxSmallAssumption DEF Init, NotReading
  <2>4. /\ by \in DRIVERS \cup {"hand"} /\ suite \in Suites
        /\ stage = "start" /\ reader = "none" /\ seen = {}
        /\ found = FALSE /\ noted = FALSE /\ reading = FALSE
    BY DEF Init, NotReading
  <2> QED
    BY <2>1, <2>2, <2>3, <2>4 DEF TypeOK, IsEnvironment
<1>2. Typed /\ [Next]_vars => Typed'
  <2> SUFFICES ASSUME Typed, [Next]_vars PROVE Typed'
    OBVIOUS
  <2> USE MaxSmallAssumption DEF TypeOK
  <2>1. CASE Configure
    <3>1. IsEnvironment(env')
      BY <2>1, DriverEnvironmentTyped DEF Configure, IsEnvironment
    <3> QED
      BY <2>1, <3>1 DEF Configure, IsEnvironment, diagnosis
  <2>2. CASE Connect
    <3>1. UNCHANGED <<environ, by, suite, env>> /\ stage' = "connected"
      BY <2>2 DEF Connect
    <3>2. /\ \A name \in DOMAIN env' : env'[name] \in Seq(Tokens)
          /\ IsEnvironment(environ)'
      BY <3>1 DEF IsEnvironment
    <3>3. CASE UNCHANGED diagnosis
      BY <3>1, <3>2, <3>3 DEF diagnosis
    <3>4. CASE \E function \in Readers, list \in Lists : Open(function, list)
      <4>1. 1 \in -(MaxSmall + 1)..MaxSmall
        OBVIOUS
      <4> QED
        BY <3>1, <3>2, <3>4, <4>1 DEF Open
    <3> QED
      BY <2>2, <3>3, <3>4 DEF Connect, Readers
  <2>3. CASE Read /\ UNCHANGED <<environ, by, suite, env, stage, settings>>
    <3>1. NextRecord \in -(MaxSmall + 1)..MaxSmall
      BY DEF NextRecord
    <3>2. Answer = "success" => record \in 1..MaxSmall
      BY DEF Answer
    <3> QED
      BY <2>3, <3>1, <3>2 DEF Read, ReadDiagnostics, GetDiagMessage, HasDiagState,
         GetDiagState, Take, Continue, Return, IsEnvironment
  <2>4. CASE UNCHANGED vars
    BY <2>4 DEF vars, diagnosis, IsEnvironment
  <2> QED
    BY <2>1, <2>2, <2>3, <2>4 DEF Next
<1> QED
  BY <1>1, <1>2, PTL DEF Spec

-----------------------------------------------------------------------------
(* The settings.                                                           *)

\* Where the environment and the settings come from.
Written(theSuite, e) ==
    IF theSuite = "conformance" THEN ConformanceString(e) ELSE BuildConnectionString(e)

Made ==
    /\ by \in DRIVERS \cup {"hand"} /\ suite \in Suites
    /\ IsEnvironment(environ) /\ IsEnvironment(env)
    /\ stage \in {"configured", "connected"} /\ by # "hand" =>
            ~Refuses(environ) /\ env = DriverEnvironment(environ, by)
    /\ Connected => settings \in Reading(Written(suite, env))

LEMMA MadeAlways == Spec => []Made
<1>1. Init => Made
  BY EnvironmentsAssumption DEF Init, Made, IsEnvironment, Connected
<1>2. Made /\ [Next]_vars => Made'
  <2> SUFFICES ASSUME Made, [Next]_vars PROVE Made'
    OBVIOUS
  <2>1. CASE Configure
    <3>1. IsEnvironment(env')
      BY <2>1, DriverEnvironmentTyped DEF Configure, Made
    <3>2. stage' # "connected" /\ UNCHANGED <<environ, by, suite>>
      BY <2>1 DEF Configure
    <3>3. stage' \in {"configured", "connected"} /\ by # "hand" =>
                ~Refuses(environ) /\ env' = DriverEnvironment(environ, by)
      BY <2>1 DEF Configure
    <3> QED
      BY <3>1, <3>2, <3>3 DEF Made, Connected
  <2>2. CASE Connect
    <3>1. UNCHANGED <<environ, by, suite, env>> /\ stage = "configured"
      BY <2>2 DEF Connect
    <3>2. settings' \in Reading(Written(suite, env))
      BY <2>2 DEF Connect, Written
    <3> QED
      BY <3>1, <3>2 DEF Made
  <2>3. CASE UNCHANGED <<environ, by, suite, env, stage, settings>>
    BY <2>3 DEF Made, Connected
  <2> QED
    BY <2>1, <2>2, <2>3 DEF Next, vars
<1> QED
  BY <1>1, <1>2, PTL DEF Spec

(* Both suites take the same settings from the environment under compare.py, *)
(* and by hand where the parity suites have no variables of their own.      *)
THEOREM SameSettingsAlways == Spec => []SameSettings
<1>1. Made => SameSettings
  BY DriverEnvironmentAgrees, OrdinaryEnvironmentAgrees DEF SameSettings, Made
<1> QED
  BY <1>1, MadeAlways, PTL

(* ODBC reads in conformance.cpp's connection string exactly the settings    *)
(* that it was made of, for all values: braces are doubled where they must  *)
(* be, whatever else a value has in it.                                     *)
THEOREM ConformanceIsExactAlways == Spec => []ConformanceIsExact
<1>1. Made => ConformanceIsExact
  <2> SUFFICES ASSUME Made, Connected, suite = "conformance",
                      Setting(env, "ODBC_CONNECTION_STRING", <<>>) = <<>>
               PROVE  settings = Meant(env)
    BY DEF ConformanceIsExact
  <2>1. settings \in Reading(ConformanceString(env)) /\ IsEnvironment(env)
    BY DEF Made, Written
  <2> QED
    BY <2>1, ConformanceStringIsRead
<1> QED
  BY <1>1, MadeAlways, PTL

(* In the turn of a driver both suites connect with its library: whatever    *)
(* the values of the environment do to the rest of a parity suite's string,  *)
(* nothing in it can take the driver's place.                               *)
THEOREM DriverIsTheLibraryAlways == Spec => []DriverIsTheLibrary
<1>1. Made => DriverIsTheLibrary
  <2> SUFFICES ASSUME Made, Connected, by # "hand"
               PROVE  /\ "DRIVER" \in DOMAIN settings /\ settings["DRIVER"] = Libraries[by]
                      /\ env["ODBC_TEST_TARGET"] = <<by>>
    BY DEF DriverIsTheLibrary
  <2>1. /\ by \in DRIVERS /\ IsEnvironment(environ) /\ ~Refuses(environ) /\ IsEnvironment(env)
        /\ env = DriverEnvironment(environ, by) /\ suite \in Suites
        /\ settings \in Reading(Written(suite, env))
    BY DEF Made, Connected
  <2>2. /\ Config(env) = ConformanceSettings(env)
        /\ Setting(env, "ODBC_CONNECTION_STRING", <<>>) = <<>>
        /\ Config(env).DRIVER = Libraries[by]
        /\ env["ODBC_TEST_TARGET"] = <<by>>
    BY <2>1, MadeEnvironment
  <2>3. CASE suite = "conformance"
    <3>1. settings = Meant(env)
      BY <2>1, <2>2, <2>3, ConformanceStringIsRead DEF Written
    <3>2. "DRIVER" \in DOMAIN Meant(env) /\ Meant(env)["DRIVER"] = ConformanceSettings(env).DRIVER
      BY DEF Meant
    <3> QED
      BY <2>2, <3>1, <3>2
  <2>4. CASE suite = "parity"
    <3>1. settings \in Reading(BuildConnectionString(env))
      BY <2>1, <2>4 DEF Written
    <3> QED
      BY <2>1, <2>2, <3>1, ParityStringNamesTheLibrary
  <2> QED
    BY <2>1, <2>3, <2>4 DEF Suites
<1> QED
  BY <1>1, MadeAlways, PTL

(* A parity suite under compare.py connects with exactly the settings that   *)
(* conformance.cpp has, unless a value has a semicolon or starts with a      *)
(* brace: its string has no other weakness.                                 *)
THEOREM ParityIsExactAlways == Spec => []ParityIsExact
<1>1. Made => ParityIsExact
  <2> SUFFICES ASSUME Made, Connected, by # "hand", suite = "parity", Unambiguous
               PROVE  settings = Meant(env)
    BY DEF ParityIsExact
  <2>1. /\ by \in DRIVERS /\ IsEnvironment(environ) /\ ~Refuses(environ) /\ IsEnvironment(env)
        /\ env = DriverEnvironment(environ, by)
        /\ settings \in Reading(BuildConnectionString(env))
    BY DEF Made, Connected, Written
  <2>2. Config(env) = ConformanceSettings(env)
    BY <2>1, MadeEnvironment
  <2>3. ASSUME NEW name \in {"SERVER", "UID", "PWD", "DATABASE"} PROVE IsPlain(Config(env)[name])
    <3> DEFINE v == Config(env)[name]
    <3>1. v \in Seq(Characters)
      <4>1. name \in DOMAIN Meant(env) /\ Meant(env)[name] = v
        BY <2>2 DEF Meant
      <4> QED
        BY <2>1, <4>1, MeantTyped
    <3>2. v # <<>> => v[1] # "{" /\ \A i \in DOMAIN v : v[i] # ";"
      BY DEF Unambiguous
    <3> HIDE DEF v
    <3>3. DOMAIN v = 1..Len(v) /\ Len(v) \in Nat /\ (v = <<>> => Len(v) = 0)
      BY <3>1, LenProperties
    <3>4. ASSUME NEW i \in 1..Len(v) PROVE v[i] # ";" /\ (i = 1 => v[i] # "{")
      <4>1. v # <<>>
        BY <3>3, <3>4
      <4> QED
        BY <3>2, <3>3, <3>4, <4>1
    <3> QED
      BY <3>4 DEF IsPlain, v
  <2>4. /\ IsPlain(Config(env).SERVER) /\ IsPlain(Config(env).UID)
        /\ IsPlain(Config(env).PWD) /\ IsPlain(Config(env).DATABASE)
    BY <2>3
  <2>5. Reading(BuildConnectionString(env)) = {Meant(env)}
    BY <2>1, <2>4, ParityStringIsRead
  <2> QED
    BY <2>1, <2>5
<1> QED
  BY <1>1, MadeAlways, PTL

-----------------------------------------------------------------------------
(* The diagnostic records.                                                 *)

\* What a reader has seen while it reads: every record before the one it asks
\* for, and all there can be once the number has run over.
Progress ==
    /\ reader # "none" => posted \in Lists
    /\ reader # "none" /\ reading =>
        /\ record \in 1..MaxSmall => seen = 1..(record - 1)
        /\ record \in 1..MaxSmall \/ (record = -(MaxSmall + 1) /\ seen = 1..MaxSmall)
        /\ reader = "HasDiagState" => \A i \in seen \cap 1..Len(posted.states) :
                                        posted.states[i] # "wanted"
        /\ reader = "GetDiagState" => record = 1

\* A reader that stops at anything but success has seen every record.
LEMMA AllSeenAtTheEnd ==
    ASSUME Progress, reader # "none", reading, Answer # "success"
    PROVE  1..Len(posted.states) \subseteq seen
<1>1. posted.states \in Seq(States) /\ Len(posted.states) <= MaxSmall
  BY ListsAssumption DEF Progress
<1>2. Len(posted.states) \in Nat
  BY <1>1
<1>3. CASE record \in 1..MaxSmall
  <2>1. record > Len(posted.states)
    BY <1>2, <1>3, MaxSmallAssumption DEF Answer
  <2> QED
    BY <1>2, <1>3, <2>1, MaxSmallAssumption DEF Progress
<1>4. CASE record = -(MaxSmall + 1) /\ seen = 1..MaxSmall
  BY <1>1, <1>2, <1>4, MaxSmallAssumption
<1> QED
  BY <1>3, <1>4 DEF Progress

(* What diagnostics and GetDiagMessage report is every record, or marked as *)
(* cut short by the former; HasDiagState finds a state wherever it is.      *)
THEOREM ReportsAreCompleteAlways == Spec => []ReportsAreComplete
<1> USE MaxSmallAssumption
<1>1. Init => Progress /\ ReportsAreComplete
  BY DEF Init, NotReading, Progress, ReportsAreComplete
<1>2. TypeOK /\ Progress /\ ReportsAreComplete /\ [Next]_vars => (Progress /\ ReportsAreComplete)'
  <2> SUFFICES ASSUME TypeOK, Progress, ReportsAreComplete, [Next]_vars
               PROVE  (Progress /\ ReportsAreComplete)'
    OBVIOUS
  <2>1. CASE UNCHANGED diagnosis
    BY <2>1 DEF diagnosis, Progress, ReportsAreComplete, Answer
  <2>2. ASSUME NEW function \in Readers, NEW list \in Lists, Open(function, list)
        PROVE  (Progress /\ ReportsAreComplete)'
    BY <2>2 DEF Open, Progress, ReportsAreComplete
  <2>3. CASE Read
    <3>1. posted \in Lists /\ posted' = posted /\ reader' = reader /\ reader # "none" /\ reading
      BY <2>3 DEF Read, ReadDiagnostics, GetDiagMessage, HasDiagState, GetDiagState, Progress
    <3>2. posted.states \in Seq(States) /\ Len(posted.states) <= MaxSmall
      BY <3>1, ListsAssumption
    <3>3. ASSUME Answer = "success", Take, Continue, reader # "GetDiagState",
                 reader = "HasDiagState" => StateRead # "wanted"
          PROVE  (Progress /\ ReportsAreComplete)'
      <4>1. record \in 1..MaxSmall /\ seen = 1..(record - 1) /\ reading'
        BY <3>1, <3>3 DEF Answer, Progress, Continue
      <4>2. seen' = 1..record
        BY <3>3, <4>1 DEF Take
      <4>3. \/ record = MaxSmall /\ record' = -(MaxSmall + 1)
            \/ record < MaxSmall /\ record' = record + 1
        BY <3>3, <4>1 DEF Continue, NextRecord
      <4>4. reader = "HasDiagState" => \A i \in seen' \cap 1..Len(posted.states) :
                                        posted.states[i] # "wanted"
        BY <3>1, <3>2, <3>3, <4>1, <4>2 DEF Progress, StateRead
      <4> QED
        BY <3>1, <3>3, <4>1, <4>2, <4>3, <4>4 DEF Progress, ReportsAreComplete
    <3>4. CASE reader = "GetDiagState"
      BY <2>3, <3>1, <3>4
      DEF Read, ReadDiagnostics, GetDiagMessage, HasDiagState, GetDiagState, Return, Take,
          Progress, ReportsAreComplete, Answer
    <3>5. CASE reader = "HasDiagState" /\ Answer = "success" /\ StateRead = "wanted"
      <4>1. ~reading' /\ found' = TRUE /\ record \in 1..Len(posted.states)
        BY <2>3, <3>1, <3>2, <3>5
        DEF Read, ReadDiagnostics, GetDiagMessage, HasDiagState, GetDiagState, Return,
            StateRead, Answer, TypeOK
      <4> QED
        BY <3>1, <3>5, <4>1 DEF Progress, ReportsAreComplete, StateRead
    <3>6. CASE Answer # "success" /\ reader # "GetDiagState"
      <4>1. 1..Len(posted.states) \subseteq seen
        BY <3>1, <3>6, AllSeenAtTheEnd
      <4>2. /\ seen' = seen /\ ~reading'
            /\ reader = "HasDiagState" => found' = FALSE
            /\ reader = "diagnostics" => noted' = (Answer = "error")
        BY <2>3, <3>6
        DEF Read, ReadDiagnostics, GetDiagMessage, HasDiagState, GetDiagState, Return
      <4>3. Answer = "error" \/ posted.behind = "no_data"
        BY <3>1, <3>6, ListsAssumption DEF Answer
      <4> QED
        BY <3>1, <3>6, <4>1, <4>2, <4>3 DEF Progress, ReportsAreComplete
    <3> QED
      BY <2>3, <3>3, <3>4, <3>5, <3>6
      DEF Read, ReadDiagnostics, GetDiagMessage, HasDiagState, GetDiagState
  <2> QED
    BY <2>1, <2>2, <2>3 DEF Next, Configure, Connect, vars, Readers
<1> QED
  BY <1>1, <1>2, TypeCorrect, PTL DEF Spec

-----------------------------------------------------------------------------
(* The end of it.                                                          *)

\* Records that a reader may still ask for, the one behind the overrun included.
RecordsLeft ==
    IF ~reading THEN 0 ELSE IF record < 1 THEN 1 ELSE MaxSmall + 2 - record

StepsLeft ==
    IF stage = "start" THEN MaxSmall + 3
    ELSE IF stage = "configured" THEN MaxSmall + 2
    ELSE RecordsLeft

LEMMA RecordsLeftBounded == TypeOK => RecordsLeft \in 0..(MaxSmall + 1)
  BY MaxSmallAssumption DEF TypeOK, RecordsLeft

\* A reader takes a record for success only, and goes on with the next number.
LEMMA ReadComesNearer == TypeOK /\ Read => RecordsLeft' < RecordsLeft
<1> SUFFICES ASSUME TypeOK, Read PROVE RecordsLeft' < RecordsLeft
  OBVIOUS
<1> USE MaxSmallAssumption
<1>1. reading /\ record \in -(MaxSmall + 1)..MaxSmall
  BY DEF Read, ReadDiagnostics, GetDiagMessage, HasDiagState, GetDiagState, TypeOK
<1>2. CASE reading' = FALSE
  BY <1>1, <1>2 DEF RecordsLeft
<1>3. CASE Answer = "success" /\ record' = NextRecord
  <2>1. record >= 1
    BY <1>1, <1>3 DEF Answer
  <2>2. CASE record = MaxSmall
    <3>1. record' < 1
      BY <1>3, <2>2 DEF NextRecord
    <3> QED
      BY <1>1, <2>1, <2>2, <3>1 DEF RecordsLeft
  <2>3. CASE record # MaxSmall
    <3>1. record' = record + 1
      BY <1>3, <2>3 DEF NextRecord
    <3> QED
      BY <1>1, <2>1, <3>1 DEF RecordsLeft
  <2> QED
    BY <2>2, <2>3
<1> QED
  BY <1>2, <1>3 DEF Read, ReadDiagnostics, GetDiagMessage, HasDiagState, GetDiagState,
     Return, Continue

(* Every step brings the report nearer to its end, whatever the driver       *)
(* answers and however many records it has: 16 bits of a record number run   *)
(* over once, behind which ODBC refuses to go on.  It is what ReadingEnds    *)
(* rests on, besides that a reader that is called does go on.               *)
THEOREM ReadersComeNearer ==
    Spec => []((reading => Connected) /\ StepsLeft \in Nat) /\ [][StepsLeft' < StepsLeft]_vars
<1> USE MaxSmallAssumption
<1> DEFINE Inv == reading => Connected
<1>1. Init => Inv
  BY DEF Init, NotReading
<1>2. TypeOK /\ Inv /\ [Next]_vars => Inv' /\ [StepsLeft' < StepsLeft]_vars
  <2> SUFFICES ASSUME TypeOK, Inv, [Next]_vars
               PROVE  Inv' /\ [StepsLeft' < StepsLeft]_vars
    OBVIOUS
  <2>1. CASE Configure
    <3>1. stage = "start" /\ stage' \in {"refused", "configured"} /\ reading = FALSE
          /\ UNCHANGED reading
      BY <2>1 DEF Configure, Connected, diagnosis
    <3> QED
      BY <3>1 DEF StepsLeft, RecordsLeft, Connected
  <2>2. CASE Connect
    <3>1. stage = "configured" /\ stage' = "connected" /\ reading = FALSE
          /\ (UNCHANGED reading \/ record' = 1)
      BY <2>2 DEF Connect, Connected, diagnosis, Open
    <3> QED
      BY <3>1 DEF StepsLeft, RecordsLeft, Connected
  <2>3. CASE Read /\ UNCHANGED <<environ, by, suite, env, stage, settings>>
    <3>1. reading /\ stage = "connected" /\ stage' = stage
      BY <2>3 DEF Read, ReadDiagnostics, GetDiagMessage, HasDiagState, GetDiagState, Connected
    <3> QED
      BY <2>3, <3>1, ReadComesNearer DEF StepsLeft, Connected
  <2>4. CASE UNCHANGED vars
    BY <2>4 DEF vars, diagnosis, Connected
  <2> QED
    BY <2>1, <2>2, <2>3, <2>4 DEF Next
<1>3. TypeOK => StepsLeft \in Nat
  BY RecordsLeftBounded DEF StepsLeft
<1> QED
  BY <1>1, <1>2, <1>3, TypeCorrect, PTL DEF Spec
=============================================================================
