-------------------------- MODULE TestSuite_proofs --------------------------
(***************************************************************************)
(* TLAPS proofs about TestSuite, for any number of processes, failing calls  *)
(* and kills: TearDown of both fixtures cleans up after every body, however *)
(* far it came.                                                            *)
(***************************************************************************)
EXTENDS TestSuite, SequenceTheorems, TLAPS

-----------------------------------------------------------------------------
(* Calls.                                                                  *)

Names ==
    {"alloc", "ask", "connect", "set", "prepare", "execute", "create", "fetch", "end", "get",
     "close", "close cursor", "point", "detach", "unbind", "autocommit off", "autocommit on",
     "commit", "rollback", "free", "disconnect", "drop"}

Conditions == {"always", "connected", "manual", "table"} \cup Handles

Addresses == {"column", "parameter", "attribute"} \X Buffers

Settable == {"connected", "manual_commit", "metadata_table"}

Calls ==
    {c \in [name : Names, of : 0..3 \cup Handles \cup Addresses \cup Settable \cup {None},
            check : {"assert", "expect", "none"}, when : Conditions] :
        /\ c.name \in {"alloc", "free"} => c.of \in Handles
        /\ c.name = "set" => c.of \in Settable
        /\ c.name = "execute" => c.of \in 0..3
        /\ c.name = "fetch" => c.of \in 1..3
        /\ c.name \in {"point", "detach"} => c.of \in Addresses}

-----------------------------------------------------------------------------
(* Types.                                                                  *)

OdbcType ==
    [live : SUBSET Handles, session : BOOLEAN, autocommit : BOOLEAN, work : BOOLEAN,
     cursor : 0..3 \cup {None}, addresses : SUBSET Addresses, surprise : BOOLEAN]

FixtureType ==
    [held : SUBSET Handles, connected : BOOLEAN, manual_commit : BOOLEAN,
     metadata_table : 1..MaxProcesses \cup {None}]

TypeInv ==
    /\ odbc \in OdbcType
    /\ fixture \in FixtureType
    /\ rest \in Seq(Calls)
    /\ phase \in {"none", "setup", "body", "teardown", "ended", "killed"}
    /\ test \in Tests \cup {None}
    /\ Running => test \in Tests /\ processes > 0
    /\ fatal \in BOOLEAN /\ failed \in BOOLEAN /\ unclean \in BOOLEAN
    /\ faults \in 0..MaxFaults /\ processes \in 0..MaxProcesses /\ kills \in 0..MaxKills

LEMMA NewProcessType == NewProcess \in OdbcType
  BY DEF NewProcess, OdbcType

LEMMA NewFixtureType == NewFixture \in FixtureType
  BY DEF NewFixture, FixtureType

LEMMA EffectType ==
  ASSUME TypeInv, NEW c \in Calls, Legal(c)
  PROVE  Effect(c) \in OdbcType
<1> USE DEF TypeInv, OdbcType
<1>1. CASE c.name = "alloc"
  BY <1>1 DEF Effect, Calls
<1>2. CASE c.name = "free"
  BY <1>2 DEF Effect, Calls, Freed
<1>3. CASE c.name \in {"connect", "disconnect"}
  BY <1>3 DEF Effect, Disconnected
<1>4. CASE c.name \in {"execute", "create"}
  BY <1>4 DEF Effect, Executed, Calls
<1>5. CASE c.name = "fetch"
  BY <1>5, NoneAssumption DEF Effect, Fetched, Calls, Legal
<1>6. CASE c.name \in {"close", "close cursor"}
  BY <1>6 DEF Effect
<1>7. CASE c.name \in {"point", "detach"}
  BY <1>7 DEF Effect, Calls
<1>8. CASE c.name = "unbind"
  BY <1>8 DEF Effect
<1>9. CASE c.name \in {"autocommit off", "autocommit on"}
  BY <1>9 DEF Effect
<1>10. CASE c.name \in {"commit", "rollback"}
  BY <1>10 DEF Effect
<1>11. CASE c.name \in {"ask", "set", "prepare", "end", "get", "drop"}
  BY <1>11 DEF Effect
<1> QED
  BY <1>1, <1>2, <1>3, <1>4, <1>5, <1>6, <1>7, <1>8, <1>9, <1>10, <1>11 DEF Calls, Names

LEMMA MembersType ==
  ASSUME TypeInv, Running, NEW c \in Calls
  PROVE  MembersAfter(c, TRUE) \in FixtureType /\ MembersAfter(c, FALSE) \in FixtureType
<1>1. processes \in 1..MaxProcesses
  BY BoundsAssumption DEF TypeInv
<1>2. CASE c.name \in {"alloc", "free"}
  BY <1>2 DEF TypeInv, FixtureType, MembersAfter, Calls
<1>3. CASE c.name = "set"
  BY <1>1, <1>3 DEF TypeInv, FixtureType, MembersAfter, Calls, Settable
<1>4. CASE c.name \notin {"alloc", "free", "set"}
  BY <1>4 DEF TypeInv, MembersAfter
<1> QED
  BY <1>2, <1>3, <1>4

-----------------------------------------------------------------------------
(* SetUp and the bodies of conformance.cpp.                                 *)

SetsMember(m) == Ignore("set", m)

\* They free nothing, and leave it to TearDown to disconnect and to commit.
ConformanceCalls ==
    {c \in Calls :
        /\ c.when = "always"
        /\ c.name \notin {"free", "disconnect", "drop", "autocommit on"}
        /\ c.name = "alloc" => c.of \in {"env", "dbc", "stmt"}
        /\ c.name = "set" => c = SetsMember(c.of)}

SetUpCalls ==
    {c \in ConformanceCalls :
        /\ c.name \notin {"create", "autocommit off"}
        /\ c.name = "set" => c.of = "connected"}

\* What the fixture remembers of the session is set right after the call that
\* changes it, which ends the sequence if it fails.
Remembered(name) == IF name = "connect" THEN "connected" ELSE "manual_commit"

Paired(s) ==
    \A i \in DOMAIN s : s[i].name \in {"connect", "autocommit off"} =>
        /\ s[i].check = "assert"
        /\ i + 1 \in DOMAIN s /\ s[i + 1] = SetsMember(Remembered(s[i].name))

\* The fixture is connected only after the call that connects,
Connects(s) ==
    \A i \in DOMAIN s : s[i] = SetsMember("connected") => i > 1 /\ s[i - 1].name = "connect"

\* and a table is created only once its name is remembered.
Named(s) ==
    \A i \in DOMAIN s : s[i].name = "create" =>
        \E j \in 1..(i - 1) : s[j] = SetsMember("metadata_table")

Awaits(m) == rest # <<>> /\ Head(rest) = SetsMember(m)

SessionInv ==
    \/ odbc.session /\ (fixture.connected \/ Awaits("connected"))
    \/ ~odbc.session /\ ~fixture.connected /\ Connects(rest)

WorkInv ==
    /\ ~odbc.autocommit => fixture.manual_commit \/ Awaits("manual_commit") \/ fatal
    /\ odbc.work => fixture.manual_commit

RunInv ==
    /\ rest \in Seq(ConformanceCalls) /\ Paired(rest)
    /\ fatal => rest = <<>>
    /\ odbc.live = fixture.held /\ fixture.held \subseteq {"env", "dbc", "stmt"}
    /\ ~odbc.surprise /\ ~unclean
    /\ SessionInv /\ WorkInv
    /\ fixture.metadata_table # None \/ Named(rest)
    /\ phase = "setup" =>
        /\ rest \in Seq(SetUpCalls)
        /\ odbc.autocommit /\ ~fixture.manual_commit /\ fixture.metadata_table = None
        /\ \/ fixture.connected \/ fatal
           \/ \E i \in DOMAIN rest : rest[i] = SetsMember("connected")
    /\ phase = "body" => fixture.connected

TablesInv == tables \subseteq 1..MaxProcesses

LEMMA TailOfSeq ==
  ASSUME NEW S, NEW s \in Seq(S), s # <<>>
  PROVE  /\ Head(s) \in S /\ Head(s) = s[1] /\ 1 \in DOMAIN s
         /\ Tail(s) \in Seq(S) /\ Len(Tail(s)) = Len(s) - 1
         /\ \A i \in DOMAIN Tail(s) : i + 1 \in DOMAIN s /\ Tail(s)[i] = s[i + 1]
         /\ \A i \in DOMAIN s : i > 1 => i - 1 \in DOMAIN Tail(s)
         /\ \A i \in DOMAIN s : i \in Nat /\ i > 0
         /\ DOMAIN s = 1..Len(s) /\ DOMAIN Tail(s) = 1..Len(Tail(s))
  OBVIOUS

\* What a call may change.
LEMMA ConformanceEffect ==
  ASSUME TypeInv, NEW c \in ConformanceCalls
  PROVE  /\ Effect(c).live = IF c.name = "alloc" THEN odbc.live \cup {c.of} ELSE odbc.live
         /\ Effect(c).session = (odbc.session \/ c.name = "connect")
         /\ Effect(c).autocommit = (odbc.autocommit /\ c.name # "autocommit off")
         /\ Effect(c).work => odbc.work \/ (c.name \in {"execute", "create"} /\ ~odbc.autocommit)
         /\ Effect(c).surprise = odbc.surprise
<1> USE DEF TypeInv, OdbcType
<1>1. CASE c.name = "alloc"
  BY <1>1 DEF Effect
<1>2. CASE c.name = "connect"
  BY <1>2 DEF Effect
<1>3. CASE c.name \in {"execute", "create"}
  BY <1>3 DEF Effect, Executed
<1>4. CASE c.name = "fetch"
  BY <1>4 DEF Effect
<1>5. CASE c.name \in {"close", "close cursor"}
  BY <1>5 DEF Effect
<1>6. CASE c.name \in {"point", "detach", "unbind"}
  BY <1>6 DEF Effect
<1>7. CASE c.name = "autocommit off"
  BY <1>7 DEF Effect
<1>8. CASE c.name \in {"commit", "rollback"}
  BY <1>8 DEF Effect
<1>9. CASE c.name \in {"ask", "set", "prepare", "end", "get"}
  BY <1>9 DEF Effect
<1> QED
  BY <1>1, <1>2, <1>3, <1>4, <1>5, <1>6, <1>7, <1>8, <1>9 DEF ConformanceCalls, Calls, Names

LEMMA ConformanceMembers ==
  ASSUME TypeInv, NEW c \in ConformanceCalls
  PROVE  /\ MembersAfter(c, TRUE).held =
                IF c.name = "alloc" THEN fixture.held \cup {c.of} ELSE fixture.held
         /\ MembersAfter(c, TRUE).connected =
                (fixture.connected \/ (c.name = "set" /\ c.of = "connected"))
         /\ MembersAfter(c, TRUE).manual_commit =
                (fixture.manual_commit \/ (c.name = "set" /\ c.of = "manual_commit"))
         /\ MembersAfter(c, TRUE).metadata_table =
                IF c.name = "set" /\ c.of = "metadata_table" THEN processes
                ELSE fixture.metadata_table
         /\ c.name # "set" => MembersAfter(c, FALSE) = fixture
  BY DEF TypeInv, FixtureType, MembersAfter, ConformanceCalls, Calls, Settable

LEMMA TailKeeps ==
  ASSUME NEW S, NEW s \in Seq(S), s # <<>>
  PROVE  /\ Paired(s) => Paired(Tail(s))
         /\ Connects(s) /\ Head(s).name # "connect" => Connects(Tail(s))
         /\ Named(s) /\ Head(s) # SetsMember("metadata_table") => Named(Tail(s))
<1> DEFINE T == Tail(s)
<1>1. /\ Head(s) = s[1] /\ \A i \in DOMAIN T : i + 1 \in DOMAIN s /\ T[i] = s[i + 1]
      /\ DOMAIN s = 1..Len(s) /\ DOMAIN T = 1..Len(T) /\ Len(T) = Len(s) - 1 /\ Len(s) \in Nat
  BY TailOfSeq
<1> HIDE DEF T
<1>2. ASSUME Paired(s), NEW i \in DOMAIN T, T[i].name \in {"connect", "autocommit off"}
      PROVE  /\ T[i].check = "assert"
             /\ i + 1 \in DOMAIN T /\ T[i + 1] = SetsMember(Remembered(T[i].name))
  <2> DEFINE k == i + 1
  <2>1. k \in DOMAIN s /\ s[k] = T[i]
    BY <1>1
  <2>2. s[k].check = "assert" /\ k + 1 \in DOMAIN s /\ s[k + 1] = SetsMember(Remembered(s[k].name))
    BY <1>2, <2>1 DEF Paired
  <2>3. k \in DOMAIN T /\ T[k] = s[k + 1]
    BY <1>1, <2>2
  <2> QED
    BY <2>1, <2>2, <2>3
<1>3. ASSUME Connects(s), Head(s).name # "connect", NEW i \in DOMAIN T,
             T[i] = SetsMember("connected")
      PROVE  i > 1 /\ T[i - 1].name = "connect"
  <2>1. i + 1 \in DOMAIN s /\ s[i + 1] = SetsMember("connected") /\ i \in Nat /\ i > 0
    BY <1>1, <1>3
  <2> DEFINE k == i + 1
  <2>2. k - 1 = i /\ s[k - 1].name = "connect"
    BY <2>1, <1>3 DEF Connects
  <2>3. i > 1
    <3>1. s[i].name = "connect"
      BY <2>2
    <3> QED
      BY <1>1, <1>3, <2>1, <3>1
  <2>4. i - 1 \in DOMAIN T /\ T[i - 1] = s[(i - 1) + 1]
    BY <1>1, <2>1, <2>3
  <2> QED
    BY <2>1, <2>2, <2>3, <2>4
<1>4. ASSUME Named(s), Head(s) # SetsMember("metadata_table"), NEW i \in DOMAIN T,
             T[i].name = "create"
      PROVE  \E j \in 1..(i - 1) : T[j] = SetsMember("metadata_table")
  <2>1. PICK j \in 1..i : s[j] = SetsMember("metadata_table")
    BY <1>1, <1>4 DEF Named
  <2>2. j > 1 /\ j - 1 \in DOMAIN T /\ T[j - 1] = s[j]
    BY <1>1, <1>4, <2>1
  <2> QED
    BY <2>1, <2>2
<1> QED
  BY <1>2, <1>3, <1>4 DEF Paired, Connects, Named, T

LEMMA HeadTells ==
  ASSUME NEW S, NEW s \in Seq(S), s # <<>>
  PROVE  /\ Paired(s) /\ Head(s).name \in {"connect", "autocommit off"} =>
                /\ Head(s).check = "assert" /\ Tail(s) # <<>>
                /\ Head(Tail(s)) = SetsMember(Remembered(Head(s).name))
         /\ Connects(s) => Head(s) # SetsMember("connected")
         /\ Named(s) => Head(s).name # "create"
<1>1. Head(s) = s[1] /\ 1 \in DOMAIN s /\ DOMAIN s = 1..Len(s) /\ Len(s) \in Nat
  BY TailOfSeq
<1>2. ASSUME Paired(s), Head(s).name \in {"connect", "autocommit off"}
      PROVE  /\ Head(s).check = "assert" /\ Tail(s) # <<>>
             /\ Head(Tail(s)) = SetsMember(Remembered(Head(s).name))
  <2>1. s[1].check = "assert" /\ 1 + 1 \in DOMAIN s /\ s[1 + 1] = SetsMember(Remembered(s[1].name))
    BY <1>1, <1>2 DEF Paired
  <2>2. Len(s) >= 2 /\ s[2] = SetsMember(Remembered(s[1].name))
    BY <1>1, <2>1
  <2> QED
    BY <1>1, <2>1, <2>2
<1>3. Connects(s) => Head(s) # SetsMember("connected")
  BY <1>1 DEF Connects
<1>4. Named(s) => Head(s).name # "create"
  BY <1>1 DEF Named
<1> QED
  BY <1>2, <1>3, <1>4

LEMMA EmptyKeeps == Paired(<<>>) /\ Connects(<<>>) /\ Named(<<>>)
  BY DEF Paired, Connects, Named

\* One call of SetUp or of a body: what Succeed and Fail make of it.
LEMMA RunStep ==
  ASSUME TypeInv, RunInv, phase \in {"setup", "body"}, Skip \/ Succeed \/ Fail
  PROVE  RunInv'
<1> DEFINE c == Upcoming
<1> USE DEF RunInv
<1>1. rest # <<>> /\ ~fatal /\ c \in ConformanceCalls /\ Tail(rest) \in Seq(ConformanceCalls)
      /\ (phase = "setup" => c \in SetUpCalls /\ Tail(rest) \in Seq(SetUpCalls))
  BY TailOfSeq DEF Skip, Succeed, Fail, Upcoming
<1>2. Holds(c.when)
  BY <1>1 DEF Holds, ConformanceCalls
<1>3. phase' = phase /\ rest' \in {Tail(rest), <<>>} /\ processes' = processes
  BY <1>2 DEF Skip, Succeed, Fail
<1>4. rest' \in Seq(ConformanceCalls) /\ (phase = "setup" => rest' \in Seq(SetUpCalls))
  BY <1>1, <1>3, EmptySeq
<1>5. Paired(rest')
  BY <1>1, <1>3, TailKeeps, EmptyKeeps
<1>6. fixture.metadata_table = None /\ c # SetsMember("metadata_table") => Named(rest')
  BY <1>1, <1>3, TailKeeps, EmptyKeeps DEF Upcoming
<1>7. Connects(rest) /\ c.name # "connect" => Connects(rest')
  BY <1>1, <1>3, TailKeeps, EmptyKeeps DEF Upcoming
<1>8. c.name = "set" => c = SetsMember(c.of) /\ c.of \in Settable
  BY <1>1 DEF ConformanceCalls, Calls
<1>9. /\ c.name \in {"connect", "autocommit off"} =>
            /\ c.check = "assert" /\ Tail(rest) # <<>>
            /\ Head(Tail(rest)) = SetsMember(Remembered(c.name))
      /\ Connects(rest) => c # SetsMember("connected")
      /\ Named(rest) => c.name # "create"
  BY <1>1, HeadTells DEF Upcoming
<1>10. c = Head(rest) /\ \A m \in Settable : SetsMember(m).name = "set" /\ SetsMember(m).of = m
  BY DEF Upcoming, SetsMember, Ignore, Call
<1>11. CASE Skip
  BY <1>2, <1>11 DEF Skip
<1>12. CASE Succeed
  <2>1. odbc' = Effect(c) /\ fixture' = MembersAfter(c, TRUE) /\ rest' = Tail(rest)
        /\ UNCHANGED <<fatal, unclean>>
    BY <1>12 DEF Succeed
  <2>2. odbc'.live = fixture'.held /\ fixture'.held \subseteq {"env", "dbc", "stmt"}
    <3>1. c.name = "alloc" => c.of \in {"env", "dbc", "stmt"}
      BY <1>1 DEF ConformanceCalls
    <3>2. odbc'.live = IF c.name = "alloc" THEN odbc.live \cup {c.of} ELSE odbc.live
      BY <1>1, <2>1, ConformanceEffect
    <3>3. fixture'.held = IF c.name = "alloc" THEN fixture.held \cup {c.of} ELSE fixture.held
      BY <1>1, <2>1, ConformanceMembers
    <3> HIDE DEF c
    <3> QED
      BY <3>1, <3>2, <3>3
  <2>3. ~odbc'.surprise /\ ~unclean'
    BY <1>1, <2>1, ConformanceEffect
  <2>4. SessionInv'
    BY <1>1, <1>7, <1>8, <1>9, <1>10, <2>1, ConformanceEffect, ConformanceMembers
    DEF SessionInv, Awaits, Remembered, Settable
  <2>5. WorkInv'
    BY <1>1, <1>8, <1>9, <1>10, <2>1, ConformanceEffect, ConformanceMembers
    DEF WorkInv, Awaits, Remembered, Settable
  <2>6. fixture'.metadata_table # None \/ Named(rest')
    <3>1. processes # None
      BY NoneAssumption, BoundsAssumption DEF TypeInv
    <3>2. fixture'.metadata_table = IF c.name = "set" /\ c.of = "metadata_table" THEN processes
                                    ELSE fixture.metadata_table
      BY <1>1, <2>1, ConformanceMembers
    <3>3. c.name = "set" /\ c.of = "metadata_table" <=> c = SetsMember("metadata_table")
      BY <1>8, <1>10 DEF Settable
    <3> HIDE DEF c
    <3> QED
      BY <1>6, <3>1, <3>2, <3>3
  <2>7. ASSUME phase = "setup"
        PROVE  odbc'.autocommit /\ ~fixture'.manual_commit /\ fixture'.metadata_table = None
    BY <1>1, <2>1, <2>7, ConformanceEffect, ConformanceMembers DEF SetUpCalls
  <2>8. ASSUME phase = "setup", ~fixture.connected, c # SetsMember("connected")
        PROVE  \E i \in DOMAIN rest' : rest'[i] = SetsMember("connected")
    <3>1. PICK i \in DOMAIN rest : rest[i] = SetsMember("connected")
      BY <1>1, <2>8
    <3>2. i > 1 /\ i - 1 \in DOMAIN Tail(rest) /\ Tail(rest)[i - 1] = rest[(i - 1) + 1]
      BY <1>1, <1>10, <2>8, <3>1, TailOfSeq
    <3>3. (i - 1) + 1 = i
      BY <1>1, <3>1, TailOfSeq
    <3> QED
      BY <2>1, <3>1, <3>2, <3>3
  <2>9. fixture.connected \/ c = SetsMember("connected") => fixture'.connected
    BY <1>1, <1>10, <2>1, ConformanceMembers DEF Settable
  <2> QED
    BY <1>1, <1>3, <1>4, <1>5, <2>1, <2>2, <2>3, <2>4, <2>5, <2>6, <2>7, <2>8, <2>9
<1>13. CASE Fail
  <2>1. /\ fixture' = MembersAfter(c, FALSE) /\ c.name # "set"
        /\ fatal' = (fatal \/ c.check = "assert")
        /\ rest' = IF c.check = "assert" THEN <<>> ELSE Tail(rest)
    BY <1>13 DEF Fail
  <2>5. odbc' = odbc \/ (c.name \in MayStillWork /\ odbc' = EffectOfFailed(c))
    BY <1>13 DEF Fail
  <2>6. ~unclean'
    BY <1>13 DEF Fail
  <2>2. fixture' = fixture
    BY <1>1, <2>1, ConformanceMembers
  <2>3. /\ odbc'.live = odbc.live /\ odbc'.session = odbc.session
        /\ odbc'.autocommit = odbc.autocommit
           \/ (c.name = "autocommit off" /\ odbc'.autocommit = FALSE)
        /\ odbc'.work => odbc.work \/ (c.name \in {"execute", "create"} /\ ~odbc.autocommit)
        /\ odbc'.surprise = odbc.surprise
    <3>1. CASE odbc' = odbc
      BY <3>1
    <3>2. CASE c.name = "execute" /\ odbc' = Executed(odbc, 0)
      BY <3>2 DEF Executed, TypeInv, OdbcType
    <3>3. CASE c.name \in {"create", "autocommit off"} /\ odbc' = Effect(c)
      BY <1>1, <3>3, ConformanceEffect DEF TypeInv, OdbcType
    <3> QED
      BY <1>1, <2>5, <3>1, <3>2, <3>3 DEF MayStillWork, EffectOfFailed, ConformanceCalls
  <2>4. SessionInv'
    <3>1. c.name = "connect" => rest' = <<>>
      BY <1>9, <2>1
    <3>2. Awaits("connected") => FALSE
      BY <1>10, <2>1 DEF Awaits, Settable
    <3>3. Connects(rest) => Connects(rest')
      BY <1>7, <3>1, EmptyKeeps
    <3> QED
      BY <2>2, <2>3, <3>2, <3>3 DEF SessionInv
  <2>7. WorkInv'
    <3>1. Awaits("manual_commit") => FALSE
      BY <1>10, <2>1 DEF Awaits, Settable
    <3>2. c.name = "autocommit off" => fatal'
      BY <1>9, <2>1
    <3> QED
      BY <1>1, <2>1, <2>2, <2>3, <3>1, <3>2 DEF WorkInv
  <2>8. fixture'.metadata_table # None \/ Named(rest')
    BY <1>6, <1>10, <2>1, <2>2 DEF Settable
  <2>9. fatal' => rest' = <<>>
    BY <1>1, <2>1
  <2>10. ASSUME phase = "setup"
         PROVE  /\ odbc'.autocommit /\ ~fixture'.manual_commit /\ fixture'.metadata_table = None
                /\ \/ fixture'.connected \/ fatal'
                   \/ \E i \in DOMAIN rest' : rest'[i] = SetsMember("connected")
    <3>1. odbc'.autocommit /\ ~fixture'.manual_commit /\ fixture'.metadata_table = None
      BY <1>1, <2>2, <2>3, <2>10 DEF SetUpCalls
    <3>2. ASSUME ~fixture.connected, ~fatal'
          PROVE  \E i \in DOMAIN rest' : rest'[i] = SetsMember("connected")
      <4>1. PICK i \in DOMAIN rest : rest[i] = SetsMember("connected")
        BY <1>1, <2>10, <3>2
      <4>2. i > 1 /\ i - 1 \in DOMAIN Tail(rest) /\ Tail(rest)[i - 1] = rest[(i - 1) + 1]
        BY <1>1, <1>10, <2>1, <4>1, TailOfSeq DEF Settable
      <4>3. (i - 1) + 1 = i
        BY <1>1, <4>1, TailOfSeq
      <4> QED
        BY <2>1, <3>2, <4>1, <4>2, <4>3
    <3> QED
      BY <2>2, <3>1, <3>2
  <2> QED
    BY <1>1, <1>3, <1>4, <1>5, <2>2, <2>3, <2>4, <2>6, <2>7, <2>8, <2>9, <2>10
<1> QED
  BY <1>11, <1>12, <1>13

-----------------------------------------------------------------------------
(* The sequences that the tests of conformance.cpp are made of.             *)

Careful(s) == s \in Seq(ConformanceCalls) /\ Paired(s) /\ Connects(s) /\ Named(s)

\* Calls that need no other one before or after them.
PlainCalls ==
    {c \in SetUpCalls : c.name \notin {"connect", "set"}}

LEMMA PlainCareful ==
  ASSUME NEW s \in Seq(PlainCalls)
  PROVE  Careful(s) /\ s \in Seq(SetUpCalls)
<1>1. PlainCalls \subseteq ConformanceCalls /\ PlainCalls \subseteq SetUpCalls
  BY DEF PlainCalls, SetUpCalls
<1>2. s \in Seq(ConformanceCalls) /\ s \in Seq(SetUpCalls)
  BY <1>1
<1>3. \A i \in DOMAIN s : s[i] \in PlainCalls
  OBVIOUS
<1>4. \A i \in DOMAIN s : s[i].name \notin {"connect", "autocommit off", "create", "set"}
  BY <1>3 DEF PlainCalls, SetUpCalls
<1>5. \A m \in Settable : SetsMember(m).name = "set"
  BY DEF SetsMember, Ignore, Call
<1>6. Paired(s) /\ Named(s)
  BY <1>4 DEF Paired, Named
<1>7. Connects(s)
  BY <1>4, <1>5 DEF Connects, Settable
<1> QED
  BY <1>2, <1>6, <1>7 DEF Careful

LEMMA CarefulConcat ==
  ASSUME NEW s, NEW u, Careful(s), Careful(u)
  PROVE  Careful(s \o u)
<1> DEFINE w == s \o u
<1>1. w \in Seq(ConformanceCalls) /\ Len(s) \in Nat /\ Len(u) \in Nat
      /\ DOMAIN s = 1..Len(s) /\ DOMAIN u = 1..Len(u) /\ DOMAIN w = 1..(Len(s) + Len(u))
  BY DEF Careful
<1>2. /\ \A i \in DOMAIN s : i \in DOMAIN w /\ w[i] = s[i]
      /\ \A i \in DOMAIN u : i + Len(s) \in DOMAIN w /\ w[i + Len(s)] = u[i]
      /\ \A i \in DOMAIN w : i \notin DOMAIN s => i - Len(s) \in DOMAIN u /\ w[i] = u[i - Len(s)]
  BY <1>1 DEF Careful
<1> HIDE DEF w
<1>3. ASSUME NEW i \in DOMAIN w, w[i].name \in {"connect", "autocommit off"}
      PROVE  /\ w[i].check = "assert"
             /\ i + 1 \in DOMAIN w /\ w[i + 1] = SetsMember(Remembered(w[i].name))
  <2>1. CASE i \in DOMAIN s
    BY <1>2, <1>3, <2>1 DEF Careful, Paired
  <2>2. CASE i \notin DOMAIN s
    <3> DEFINE k == i - Len(s)
    <3>1. k \in DOMAIN u /\ w[i] = u[k]
      BY <1>2, <2>2
    <3>2. /\ u[k].check = "assert" /\ k + 1 \in DOMAIN u
          /\ u[k + 1] = SetsMember(Remembered(u[k].name))
      BY <1>3, <3>1 DEF Careful, Paired
    <3>3. (k + 1) + Len(s) = i + 1
      <4>1. i \in Int /\ Len(s) \in Int
        BY <1>1
      <4> QED
        BY <4>1
    <3>4. w[(k + 1) + Len(s)] = u[k + 1] /\ (k + 1) + Len(s) \in DOMAIN w
      BY <1>2, <3>2
    <3> QED
      BY <3>1, <3>2, <3>3, <3>4
  <2> QED
    BY <2>1, <2>2
<1>4. ASSUME NEW i \in DOMAIN w, w[i] = SetsMember("connected")
      PROVE  i > 1 /\ w[i - 1].name = "connect"
  <2>1. CASE i \in DOMAIN s
    <3>1. i > 1 /\ s[i - 1].name = "connect"
      BY <1>2, <1>4, <2>1 DEF Careful, Connects
    <3>2. i - 1 \in DOMAIN s
      BY <1>1, <2>1, <3>1
    <3> QED
      BY <1>2, <3>1, <3>2
  <2>2. CASE i \notin DOMAIN s
    <3> DEFINE k == i - Len(s)
    <3>1. k \in DOMAIN u /\ w[i] = u[k]
      BY <1>2, <2>2
    <3>2. k > 1 /\ u[k - 1].name = "connect"
      BY <1>4, <3>1 DEF Careful, Connects
    <3>3. (k - 1) + Len(s) = i - 1 /\ i > 1 /\ k - 1 \in DOMAIN u
      BY <1>1, <1>4, <3>1, <3>2
    <3>4. w[(k - 1) + Len(s)] = u[k - 1]
      BY <1>2, <3>3
    <3> QED
      BY <3>2, <3>3, <3>4
  <2> QED
    BY <2>1, <2>2
<1>5. ASSUME NEW i \in DOMAIN w, w[i].name = "create"
      PROVE  \E j \in 1..(i - 1) : w[j] = SetsMember("metadata_table")
  <2>1. CASE i \in DOMAIN s
    <3>1. PICK j \in 1..(i - 1) : s[j] = SetsMember("metadata_table")
      BY <1>2, <1>5, <2>1 DEF Careful, Named
    <3>2. j \in DOMAIN s
      BY <1>1, <2>1
    <3> QED
      BY <1>2, <3>1, <3>2
  <2>2. CASE i \notin DOMAIN s
    <3> DEFINE k == i - Len(s)
    <3>1. k \in DOMAIN u /\ w[i] = u[k]
      BY <1>2, <2>2
    <3>2. PICK j \in 1..(k - 1) : u[j] = SetsMember("metadata_table")
      BY <1>5, <3>1 DEF Careful, Named
    <3>3. j \in DOMAIN u
      BY <1>1, <3>1
    <3>4. w[j + Len(s)] = u[j]
      BY <1>2, <3>3
    <3>5. j + Len(s) \in 1..(i - 1)
      BY <1>1, <1>5, <3>1, <3>3
    <3> QED
      BY <3>2, <3>4, <3>5
  <2> QED
    BY <2>1, <2>2
<1> QED
  BY <1>1, <1>3, <1>4, <1>5 DEF Careful, Paired, Connects, Named, w

\* The calls by name.
LEMMA PlainOnes ==
  /\ Conformance!Ask \in PlainCalls
  /\ Conformance!Prepare \in PlainCalls
  /\ \A n \in 0..3 : Conformance!Execute(n) \in PlainCalls
  /\ \A n \in 1..3 : Conformance!Fetch(n) \in PlainCalls
  /\ Conformance!GetData \in PlainCalls
  /\ Conformance!EndOfData \in PlainCalls
  /\ Conformance!Unbind \in PlainCalls
  /\ \A k \in {"column", "parameter", "attribute"} : \A b \in Buffers :
        Conformance!Point(k, b) \in PlainCalls
  /\ \A b \in Buffers : Conformance!Detach(b) \in PlainCalls
  /\ Conformance!CloseCursor \in PlainCalls
<1> USE DEF PlainCalls, SetUpCalls, ConformanceCalls, Calls, Names, Conditions,
            Conformance!Assert, Conformance!Expect, Conformance!Call
<1>1. Conformance!Ask \in PlainCalls /\ Conformance!Prepare \in PlainCalls
  BY DEF Conformance!Ask, Conformance!Prepare
<1>2. \A n \in 0..3 : Conformance!Execute(n) \in PlainCalls
  BY DEF Conformance!Execute
<1>3. \A n \in 1..3 : Conformance!Fetch(n) \in PlainCalls
  <2> TAKE n \in 1..3
  <2>1. n \in 0..3
    OBVIOUS
  <2> QED
    BY <2>1 DEF Conformance!Fetch
<1>4. Conformance!GetData \in PlainCalls /\ Conformance!EndOfData \in PlainCalls
  BY DEF Conformance!GetData, Conformance!EndOfData
<1>5. Conformance!Unbind \in PlainCalls /\ Conformance!CloseCursor \in PlainCalls
  BY DEF Conformance!Unbind, Conformance!CloseCursor
<1>6. \A k \in {"column", "parameter", "attribute"} : \A b \in Buffers :
        Conformance!Point(k, b) \in PlainCalls
  BY DEF Conformance!Point, Conformance!Points, Addresses
<1>7. \A b \in Buffers : Conformance!Detach(b) \in PlainCalls
  BY DEF Conformance!Detach, Conformance!Points, Addresses
<1> QED
  BY <1>1, <1>2, <1>3, <1>4, <1>5, <1>6, <1>7

-----------------------------------------------------------------------------
(* SetUp and the bodies.                                                    *)

LEMMA CarefulSetUp ==
  /\ Careful(Conformance!SetUp) /\ Conformance!SetUp \in Seq(SetUpCalls)
  /\ \E i \in DOMAIN Conformance!SetUp : Conformance!SetUp[i] = SetsMember("connected")
<1> DEFINE a(h) == Conformance!Assert("alloc", h)
           n == Conformance!Assert("connect", None)
           c == Conformance!Ignore("set", "connected")
           q == Conformance!Ask
           s == <<a("env"), q, a("dbc"), q, n, c, a("stmt")>>
<1>1. Conformance!SetUp = s
  BY DEF Conformance!SetUp
<1>2. \A h \in {"env", "dbc", "stmt"} : a(h) \in SetUpCalls /\ a(h).name = "alloc"
  BY DEF SetUpCalls, ConformanceCalls, Calls, Names, Conditions, Handles,
         Conformance!Assert, Conformance!Call
<1>3. n \in SetUpCalls /\ n.name = "connect" /\ n.check = "assert"
  BY DEF SetUpCalls, ConformanceCalls, Calls, Names, Conditions,
         Conformance!Assert, Conformance!Call
<1>4. c = SetsMember("connected") /\ c \in SetUpCalls /\ c.name = "set"
  BY DEF SetUpCalls, ConformanceCalls, Calls, Names, Conditions, Settable, SetsMember,
         Conformance!Ignore, Conformance!Call, Ignore, Call
<1>5. q \in SetUpCalls /\ q.name = "ask"
  BY PlainOnes DEF PlainCalls, Conformance!Ask, Conformance!Assert, Conformance!Call
<1>6. SetUpCalls \subseteq ConformanceCalls
  BY DEF SetUpCalls
<1> HIDE DEF a, n, c, q
<1>7. s \in Seq(SetUpCalls) /\ s \in Seq(ConformanceCalls) /\ DOMAIN s = 1..7
  BY <1>2, <1>3, <1>4, <1>5, <1>6
<1>8. /\ s[1] = a("env") /\ s[2] = q /\ s[3] = a("dbc") /\ s[4] = q
      /\ s[5] = n /\ s[6] = c /\ s[7] = a("stmt")
  OBVIOUS
<1> HIDE DEF s
<1>9. ASSUME NEW i \in DOMAIN s
      PROVE  /\ s[i].name \in {"connect", "autocommit off"} => i = 5
             /\ s[i] = SetsMember("connected") => i = 6
             /\ s[i].name # "create"
  <2>1. SetsMember("connected").name = "set"
    BY DEF SetsMember, Ignore, Call
  <2>2. i \in {1, 2, 3, 4, 5, 6, 7}
    BY <1>7
  <2> QED
    BY <1>2, <1>3, <1>4, <1>5, <1>8, <2>1, <2>2
<1>10. 5 + 1 \in DOMAIN s /\ s[5 + 1] = c
  BY <1>7, <1>8
<1>11. Paired(s)
  <2> SUFFICES ASSUME NEW i \in DOMAIN s, s[i].name \in {"connect", "autocommit off"}
               PROVE  /\ s[i].check = "assert"
                      /\ i + 1 \in DOMAIN s /\ s[i + 1] = SetsMember(Remembered(s[i].name))
    BY DEF Paired
  <2>1. i = 5 /\ s[i] = n
    BY <1>8, <1>9
  <2>2. i + 1 \in DOMAIN s /\ s[i + 1] = c
    BY <1>10, <2>1
  <2>3. Remembered("connect") = "connected"
    BY DEF Remembered
  <2> QED
    BY <1>3, <1>4, <2>1, <2>2, <2>3
<1>12. Connects(s)
  <2> SUFFICES ASSUME NEW i \in DOMAIN s, s[i] = SetsMember("connected")
               PROVE  i > 1 /\ s[i - 1].name = "connect"
    BY DEF Connects
  <2>1. i = 6
    BY <1>9
  <2> QED
    BY <1>3, <1>8, <2>1
<1>13. Named(s)
  BY <1>9 DEF Named
<1> QED
  BY <1>1, <1>4, <1>7, <1>8, <1>11, <1>12, <1>13 DEF Careful

LEMMA PlainParts ==
  /\ \A n \in 0..3 : Conformance!Run(n) \in Seq(PlainCalls)
  /\ Conformance!ExpectScalar \in Seq(PlainCalls)
  /\ \A n \in {1, 2} : Conformance!Catalog(n) \in Seq(PlainCalls)
  /\ Conformance!DataTypesSetUp \in Seq(PlainCalls)
  /\ Conformance!GetDataOfSample \in Seq(PlainCalls)
  /\ Conformance!ChunksOfSample \in Seq(PlainCalls)
<1>1. \A n \in 0..3 : Conformance!Run(n) \in Seq(PlainCalls)
  BY PlainOnes DEF Conformance!Run
<1>2. Conformance!ExpectScalar \in Seq(PlainCalls)
  BY PlainOnes DEF Conformance!ExpectScalar
<1>3. ASSUME NEW n \in {1, 2}
      PROVE  Conformance!Catalog(n) \in Seq(PlainCalls)
  <2> DEFINE m == 2 * n
             f == [i \in 1..m |-> IF i % 2 = 1 THEN Conformance!Fetch(1)
                                  ELSE Conformance!GetData]
             e == Conformance!Assert("end", None)
  <2>1. m \in Nat
    OBVIOUS
  <2>2. f \in [1..m -> PlainCalls]
    BY PlainOnes
  <2>3. f \in Seq(PlainCalls)
    BY <2>1, <2>2
  <2>4. e \in PlainCalls
    BY DEF PlainCalls, SetUpCalls, ConformanceCalls, Calls, Names, Conditions,
           Conformance!Assert, Conformance!Call
  <2>5. <<Conformance!Execute(n)>> \in Seq(PlainCalls)
    BY PlainOnes
  <2> HIDE DEF f, e
  <2>6. (<<Conformance!Execute(n)>> \o f) \o <<e>> \in Seq(PlainCalls)
    BY <2>3, <2>4, <2>5
  <2> QED
    BY <2>6 DEF Conformance!Catalog, f, e
<1>4. Conformance!DataTypesSetUp \in Seq(PlainCalls)
  <2>1. <<Conformance!Ask>> \in Seq(PlainCalls)
    BY PlainOnes
  <2>2. <<Conformance!Execute(3), Conformance!Fetch(1), Conformance!GetData,
          Conformance!Fetch(1), Conformance!GetData, Conformance!Fetch(1),
          Conformance!GetData, Conformance!EndOfData, Conformance!CloseCursor>>
            \in Seq(PlainCalls)
    BY PlainOnes
  <2> QED
    BY <1>1, <2>1, <2>2 DEF Conformance!DataTypesSetUp
<1>5. Conformance!GetDataOfSample \in Seq(PlainCalls)
  BY PlainOnes DEF Conformance!GetDataOfSample
<1>6. Conformance!ChunksOfSample \in Seq(PlainCalls)
  <2>1. Conformance!Chunks \in Seq(PlainCalls)
    <3>1. Conformance!Expect("get", None) \in PlainCalls
      BY DEF PlainCalls, SetUpCalls, ConformanceCalls, Calls, Names, Conditions,
             Conformance!Expect, Conformance!Call
    <3> QED
      BY <3>1, PlainOnes DEF Conformance!Chunks
  <2>2. <<Conformance!Execute(3)>> \in Seq(PlainCalls)
        /\ <<Conformance!EndOfData, Conformance!CloseCursor, Conformance!Unbind>>
              \in Seq(PlainCalls)
    BY PlainOnes
  <2> QED
    BY <2>1, <2>2 DEF Conformance!ChunksOfSample
<1> QED
  BY <1>1, <1>2, <1>3, <1>4, <1>5, <1>6

LEMMA CarefulTransactions == Careful(Conformance!Transactions)
<1> DEFINE off == Conformance!Assert("autocommit off", None)
           set == Conformance!Ignore("set", "manual_commit")
           s == <<off, set>>
<1>1. off \in ConformanceCalls /\ off.name = "autocommit off" /\ off.check = "assert"
  BY DEF ConformanceCalls, Calls, Names, Conditions, Conformance!Assert, Conformance!Call
<1>2. set = SetsMember("manual_commit") /\ set \in ConformanceCalls /\ set.name = "set"
      /\ set # SetsMember("connected") /\ off # SetsMember("connected")
  BY DEF ConformanceCalls, Calls, Names, Conditions, Settable, SetsMember,
         Conformance!Assert, Conformance!Ignore, Conformance!Call, Ignore, Call
<1> HIDE DEF off, set
<1>3. s \in Seq(ConformanceCalls) /\ DOMAIN s = 1..2 /\ s[1] = off /\ s[2] = set
  <2>1. off \in ConformanceCalls /\ set \in ConformanceCalls
    BY <1>1, <1>2
  <2> QED
    BY <2>1
<1> HIDE DEF s
<1>4. \A i \in DOMAIN s : i = 1 \/ i = 2
  BY <1>3
<1>5. 1 + 1 \in DOMAIN s /\ s[1 + 1] = set
  BY <1>3
<1>6. Paired(s)
  <2> SUFFICES ASSUME NEW i \in DOMAIN s, s[i].name \in {"connect", "autocommit off"}
               PROVE  /\ s[i].check = "assert"
                      /\ i + 1 \in DOMAIN s /\ s[i + 1] = SetsMember(Remembered(s[i].name))
    BY DEF Paired
  <2>1. i = 1 /\ s[i] = off
    BY <1>2, <1>3, <1>4
  <2>2. i + 1 \in DOMAIN s /\ s[i + 1] = set
    BY <1>5, <2>1
  <2>3. Remembered("autocommit off") = "manual_commit"
    BY DEF Remembered
  <2> QED
    BY <1>1, <1>2, <2>1, <2>2, <2>3
<1>7. Connects(s) /\ Named(s)
  BY <1>1, <1>2, <1>3, <1>4 DEF Connects, Named
<1>8. Careful(s)
  BY <1>3, <1>6, <1>7 DEF Careful
<1>9. Careful(Conformance!Run(0)) /\ Careful(Conformance!ExpectScalar)
  BY PlainParts, PlainCareful
<1>10. Careful(<<Conformance!Assert("rollback", None)>>)
      /\ Careful(<<Conformance!Assert("commit", None)>>)
  <2>1. Conformance!Assert("rollback", None) \in PlainCalls
        /\ Conformance!Assert("commit", None) \in PlainCalls
    BY DEF PlainCalls, SetUpCalls, ConformanceCalls, Calls, Names, Conditions,
           Conformance!Assert, Conformance!Call
  <2>2. <<Conformance!Assert("rollback", None)>> \in Seq(PlainCalls)
        /\ <<Conformance!Assert("commit", None)>> \in Seq(PlainCalls)
    BY <2>1
  <2> QED
    BY <2>2, PlainCareful
<1>11. Careful(Conformance!Run(0) \o s \o Conformance!Run(0))
  BY <1>8, <1>9, CarefulConcat
<1>12. Careful(Conformance!Run(0) \o s \o Conformance!Run(0)
               \o <<Conformance!Assert("rollback", None)>> \o Conformance!ExpectScalar)
  BY <1>9, <1>10, <1>11, CarefulConcat
<1>13. Careful(Conformance!Run(0) \o s \o Conformance!Run(0)
               \o <<Conformance!Assert("rollback", None)>> \o Conformance!ExpectScalar
               \o Conformance!Run(0) \o <<Conformance!Assert("commit", None)>>)
  BY <1>9, <1>10, <1>12, CarefulConcat
<1> QED
  BY <1>9, <1>13, CarefulConcat DEF Conformance!Transactions, s, off, set

LEMMA CarefulMetadata == Careful(Conformance!Metadata)
<1> DEFINE set == Conformance!Ignore("set", "metadata_table")
           create == Conformance!Assert("create", None)
           close == Conformance!CloseCursor
           s == <<set, create, close>>
<1>1. create \in ConformanceCalls /\ create.name = "create" /\ create # SetsMember("connected")
  BY DEF ConformanceCalls, Calls, Names, Conditions, Conformance!Assert, Conformance!Call,
         SetsMember, Ignore, Call
<1>2. set = SetsMember("metadata_table") /\ set \in ConformanceCalls /\ set.name = "set"
      /\ set # SetsMember("connected")
  BY DEF ConformanceCalls, Calls, Names, Conditions, Settable, SetsMember,
         Conformance!Assert, Conformance!Ignore, Conformance!Call, Ignore, Call
<1>3. close \in ConformanceCalls /\ close.name = "close" /\ close # SetsMember("connected")
  BY PlainOnes DEF PlainCalls, SetUpCalls, Conformance!CloseCursor, Conformance!Assert,
                   Conformance!Call, SetsMember, Ignore, Call
<1> HIDE DEF set, create, close
<1>4. s \in Seq(ConformanceCalls) /\ DOMAIN s = 1..3
      /\ s[1] = set /\ s[2] = create /\ s[3] = close
  BY <1>1, <1>2, <1>3
<1> HIDE DEF s
<1>5. \A i \in DOMAIN s : i = 1 \/ i = 2 \/ i = 3
  BY <1>4
<1>6. Paired(s) /\ Connects(s)
  BY <1>1, <1>2, <1>3, <1>4, <1>5 DEF Paired, Connects
<1>7. Named(s)
  <2> SUFFICES ASSUME NEW i \in DOMAIN s, s[i].name = "create"
               PROVE  \E j \in 1..(i - 1) : s[j] = SetsMember("metadata_table")
    BY DEF Named
  <2>1. i = 2
    BY <1>2, <1>3, <1>4, <1>5
  <2> QED
    BY <1>2, <1>4, <2>1
<1>8. Careful(s)
  BY <1>4, <1>6, <1>7 DEF Careful
<1>9. Careful(Conformance!Catalog(1)) /\ Careful(Conformance!Catalog(2))
  BY PlainParts, PlainCareful
<1>10. Careful(<<Conformance!CloseCursor>>)
  <2>1. <<Conformance!CloseCursor>> \in Seq(PlainCalls)
    BY PlainOnes
  <2> QED
    BY <2>1, PlainCareful
<1>11. Careful(s \o Conformance!Catalog(1) \o <<Conformance!CloseCursor>>)
  BY <1>8, <1>9, <1>10, CarefulConcat
<1> QED
  BY <1>9, <1>11, CarefulConcat DEF Conformance!Metadata, s, set, create, close

LEMMA PlainBodies ==
  /\ Conformance!Connection \in Seq(PlainCalls)
  /\ Conformance!Statements \in Seq(PlainCalls)
  /\ Conformance!Parameters \in Seq(PlainCalls)
  /\ Conformance!Diagnostics \in Seq(PlainCalls)
  /\ Conformance!Unicode \in Seq(PlainCalls)
  /\ Conformance!NullBinaryGetData \in Seq(PlainCalls)
  /\ Conformance!NullBinaryBindCol \in Seq(PlainCalls)
  /\ Conformance!FetchScrollEndOfDataRowsFetched \in Seq(PlainCalls)
  /\ Conformance!TimestampAlias \in Seq(PlainCalls)
  /\ Conformance!DataTypesGetData \in Seq(PlainCalls)
  /\ Conformance!BindColumns \in Seq(PlainCalls)
  /\ Conformance!FetchScroll \in Seq(PlainCalls)
  /\ Conformance!ChunkedGetData \in Seq(PlainCalls)
<1>1. /\ {"storage", "left", "right", "value", "buffers", "fetched", "status", "rows",
          "values", "after"} \subseteq Buffers
  BY TestBuffersAssumption DEF Buffers
<1>2. Conformance!Connection \in Seq(PlainCalls) /\ Conformance!Diagnostics \in Seq(PlainCalls)
  BY PlainOnes DEF Conformance!Connection, Conformance!Diagnostics
<1>3. Conformance!Statements \in Seq(PlainCalls)
  BY PlainOnes DEF Conformance!Statements
<1>4. Conformance!Parameters \in Seq(PlainCalls)
  BY <1>1, PlainOnes DEF Conformance!Parameters
<1>5. Conformance!Unicode \in Seq(PlainCalls)
  <2>1. <<Conformance!Prepare, Conformance!Point("parameter", "value")>> \in Seq(PlainCalls)
    BY <1>1, PlainOnes
  <2>2. <<Conformance!Execute(1), Conformance!Fetch(1), Conformance!GetData,
          Conformance!EndOfData>> \in Seq(PlainCalls)
    BY PlainOnes
  <2>3. Conformance!Run(0) \in Seq(PlainCalls)
    BY PlainParts
  <2> QED
    BY <2>1, <2>2, <2>3 DEF Conformance!Unicode
<1>6. /\ Conformance!Expect("get", None) \in PlainCalls
      /\ Conformance!Expect("fetch", 1) \in PlainCalls
      /\ Conformance!Assert("end", None) \in PlainCalls
  <2> USE DEF PlainCalls, SetUpCalls, ConformanceCalls, Calls, Names, Conditions,
              Conformance!Expect, Conformance!Assert, Conformance!Call
  <2>1. Conformance!Expect("get", None) \in PlainCalls
    OBVIOUS
  <2>2. Conformance!Expect("fetch", 1) \in PlainCalls
    <3>1. 1 \in 0..3 /\ 1 \in 1..3
      OBVIOUS
    <3> DEFINE one == 1
    <3>2. one \in 0..3 /\ one \in 1..3
      BY <3>1
    <3> HIDE DEF one
    <3>3. Conformance!Expect("fetch", one) \in PlainCalls
      BY <3>2
    <3> QED
      BY <3>3 DEF one
  <2>3. Conformance!Assert("end", None) \in PlainCalls
    OBVIOUS
  <2> QED
    BY <2>1, <2>2, <2>3
<1>7. Conformance!NullBinaryGetData \in Seq(PlainCalls)
  BY <1>6, PlainOnes DEF Conformance!NullBinaryGetData
<1>8. Conformance!NullBinaryBindCol \in Seq(PlainCalls)
  BY <1>1, <1>6, PlainOnes DEF Conformance!NullBinaryBindCol
<1>9. Conformance!FetchScrollEndOfDataRowsFetched \in Seq(PlainCalls)
  BY <1>1, <1>6, PlainOnes DEF Conformance!FetchScrollEndOfDataRowsFetched
<1>10. Conformance!TimestampAlias \in Seq(PlainCalls)
  <2>1. <<Conformance!Execute(1), Conformance!Fetch(1), Conformance!GetData,
          Conformance!CloseCursor>> \in Seq(PlainCalls)
    BY PlainOnes
  <2>2. <<Conformance!Execute(1), Conformance!Point("column", "after"), Conformance!Fetch(1),
          Conformance!EndOfData>> \in Seq(PlainCalls)
    BY <1>1, PlainOnes
  <2>3. Conformance!Run(0) \in Seq(PlainCalls)
    BY PlainParts
  <2> QED
    BY <2>1, <2>2, <2>3 DEF Conformance!TimestampAlias
<1>11. Conformance!DataTypesGetData \in Seq(PlainCalls)
       /\ Conformance!ChunkedGetData \in Seq(PlainCalls)
  BY PlainParts DEF Conformance!DataTypesGetData, Conformance!ChunkedGetData
<1>12. Conformance!BindColumns \in Seq(PlainCalls)
  BY <1>1, PlainOnes DEF Conformance!BindColumns
<1>13. Conformance!FetchScroll \in Seq(PlainCalls)
  BY <1>1, PlainOnes DEF Conformance!FetchScroll
<1> QED
  BY <1>2, <1>3, <1>4, <1>5, <1>7, <1>8, <1>9, <1>10, <1>11, <1>12, <1>13

LEMMA CarefulBodies ==
  ASSUME NEW t \in Conformance!Tests
  PROVE  Careful(Conformance!BodyOf(t))
<1>1. CASE t \in DOMAIN Conformance!Plain
  <2>1. Careful(Conformance!Plain[t])
    BY <1>1, PlainBodies, PlainCareful, CarefulTransactions, CarefulMetadata
    DEF Conformance!Plain
  <2> QED
    BY <1>1, <2>1 DEF Conformance!BodyOf
<1>2. CASE t \notin DOMAIN Conformance!Plain
  <2>1. t \in DOMAIN Conformance!OfDataTypes
    BY <1>2 DEF Conformance!Tests
  <2>2. Careful(Conformance!OfDataTypes[t])
    BY <2>1, PlainBodies, PlainCareful DEF Conformance!OfDataTypes
  <2> QED
    BY <1>2, <2>2 DEF Conformance!BodyOf
<1> QED
  BY <1>1, <1>2

LEMMA CarefulSetUps ==
  ASSUME NEW t \in Conformance!Tests
  PROVE  /\ Careful(Conformance!SetUpOf(t)) /\ Conformance!SetUpOf(t) \in Seq(SetUpCalls)
         /\ \E i \in DOMAIN Conformance!SetUpOf(t) :
               Conformance!SetUpOf(t)[i] = SetsMember("connected")
<1>1. CASE t \in DOMAIN Conformance!Plain
  BY <1>1, CarefulSetUp DEF Conformance!SetUpOf
<1>2. CASE t \notin DOMAIN Conformance!Plain
  <2> DEFINE s == Conformance!SetUp
             u == Conformance!DataTypesSetUp
  <2>1. Conformance!SetUpOf(t) = s \o u
    BY <1>2 DEF Conformance!SetUpOf
  <2>2. Careful(u) /\ u \in Seq(SetUpCalls)
    BY PlainParts, PlainCareful
  <2>3. PICK i \in DOMAIN s : s[i] = SetsMember("connected")
    BY CarefulSetUp
  <2>4. s \in Seq(SetUpCalls)
    BY CarefulSetUp
  <2> HIDE DEF s, u
  <2>5. s \o u \in Seq(SetUpCalls) /\ i \in DOMAIN (s \o u) /\ (s \o u)[i] = s[i]
    BY <2>2, <2>3, <2>4
  <2>6. Careful(s \o u)
    BY <2>2, CarefulSetUp, CarefulConcat DEF s
  <2> QED
    BY <2>1, <2>3, <2>5, <2>6
<1> QED
  BY <1>1, <1>2

-----------------------------------------------------------------------------
(* What is left of TearDown.                                                *)

Suffix(s, w) ==
    /\ Len(s) <= Len(w)
    /\ \A i \in DOMAIN s : s[i] = w[Len(w) - Len(s) + i]

LEMMA SuffixOfItself == ASSUME NEW S, NEW w \in Seq(S) PROVE Suffix(w, w)
<1>1. Len(w) \in Nat /\ DOMAIN w = 1..Len(w)
  OBVIOUS
<1>2. \A i \in DOMAIN w : Len(w) - Len(w) + i = i
  BY <1>1
<1> QED
  BY <1>1, <1>2 DEF Suffix

LEMMA SuffixTail ==
  ASSUME NEW S, NEW w \in Seq(S), NEW s \in Seq(S), s # <<>>, Suffix(s, w)
  PROVE  Suffix(Tail(s), w) /\ Head(s) = w[Len(w) - Len(s) + 1]
<1> DEFINE T == Tail(s)
<1>1. /\ Head(s) = s[1] /\ 1 \in DOMAIN s /\ \A i \in DOMAIN T : i + 1 \in DOMAIN s /\ T[i] = s[i + 1]
      /\ DOMAIN T = 1..Len(T) /\ Len(T) = Len(s) - 1 /\ Len(s) \in Nat /\ Len(w) \in Nat
  BY TailOfSeq
<1> HIDE DEF T
<1>2. ASSUME NEW i \in DOMAIN T
      PROVE  T[i] = w[Len(w) - Len(T) + i]
  <2> DEFINE k == i + 1
  <2>1. k \in DOMAIN s /\ T[i] = s[k]
    BY <1>1
  <2>2. s[k] = w[Len(w) - Len(s) + k]
    BY <2>1 DEF Suffix
  <2>3. i \in Int /\ Len(T) \in Int
    BY <1>1
  <2>4. Len(w) - Len(s) + k = Len(w) - Len(T) + i
    BY <1>1, <2>3
  <2> QED
    BY <2>1, <2>2, <2>4
<1>3. Len(T) <= Len(w)
  BY <1>1 DEF Suffix
<1> QED
  BY <1>1, <1>2, <1>3 DEF Suffix, T

\* A call by its four parts.
Parts(c, name, of, check, when) ==
    c.name = name /\ c.of = of /\ c.check = check /\ c.when = when

ConformanceCall(c, n) ==
    /\ n = 1 => Parts(c, "free", "stmt", "expect", "stmt")
    /\ n = 2 => Parts(c, "rollback", None, "expect", "manual")
    /\ n = 3 => Parts(c, "autocommit on", None, "expect", "manual")
    /\ n = 4 => Parts(c, "alloc", "cleanup", "expect", "table")
    /\ n = 5 => Parts(c, "drop", None, "expect", "cleanup")
    /\ n = 6 => Parts(c, "free", "cleanup", "expect", "cleanup")
    /\ n = 7 => Parts(c, "disconnect", None, "expect", "connected")
    /\ n = 8 => Parts(c, "free", "dbc", "expect", "dbc")
    /\ n = 9 => Parts(c, "free", "env", "expect", "env")

LEMMA ConformanceTearDownCalls ==
  /\ Conformance!TearDown \in Seq(Calls) /\ Len(Conformance!TearDown) = 9
  /\ \A n \in 1..9 : ConformanceCall(Conformance!TearDown[n], n)
<1> DEFINE e(name, of, when) == [Conformance!Call(name, of, "expect") EXCEPT !.when = when]
           a == e("free", "stmt", "stmt")
           b == e("rollback", None, "manual")
           c == e("autocommit on", None, "manual")
           d == e("alloc", "cleanup", "table")
           f == e("drop", None, "cleanup")
           g == e("free", "cleanup", "cleanup")
           h == e("disconnect", None, "connected")
           i == e("free", "dbc", "dbc")
           j == e("free", "env", "env")
           s == <<a, b, c, d, f, g, h, i, j>>
<1>1. Conformance!TearDown = s
  BY DEF Conformance!TearDown, Conformance!Reset, Conformance!If, Conformance!Expect
<1>2. /\ Parts(a, "free", "stmt", "expect", "stmt")
      /\ Parts(b, "rollback", None, "expect", "manual")
      /\ Parts(c, "autocommit on", None, "expect", "manual")
      /\ Parts(d, "alloc", "cleanup", "expect", "table")
      /\ Parts(f, "drop", None, "expect", "cleanup")
      /\ Parts(g, "free", "cleanup", "expect", "cleanup")
      /\ Parts(h, "disconnect", None, "expect", "connected")
      /\ Parts(i, "free", "dbc", "expect", "dbc")
      /\ Parts(j, "free", "env", "expect", "env")
  BY DEF Parts, Conformance!Call
<1>3. a \in Calls /\ g \in Calls /\ i \in Calls /\ j \in Calls
  BY DEF Calls, Names, Conditions, Handles, Conformance!Call
<1>4. b \in Calls /\ c \in Calls /\ f \in Calls /\ h \in Calls
  BY DEF Calls, Names, Conditions, Handles, Conformance!Call
<1>5. d \in Calls
  BY DEF Calls, Names, Conditions, Handles, Conformance!Call
<1> HIDE DEF a, b, c, d, f, g, h, i, j
<1>6. s \in Seq(Calls) /\ Len(s) = 9
  BY <1>3, <1>4, <1>5
<1>7. /\ s[1] = a /\ s[2] = b /\ s[3] = c /\ s[4] = d /\ s[5] = f
      /\ s[6] = g /\ s[7] = h /\ s[8] = i /\ s[9] = j
  OBVIOUS
<1> HIDE DEF s
<1>8. \A n \in 1..9 : ConformanceCall(s[n], n)
  BY <1>2, <1>7 DEF ConformanceCall
<1> QED
  BY <1>1, <1>6, <1>8

LEMMA StepType ==
  ASSUME TypeInv, Skip \/ Succeed \/ Fail
  PROVE  TypeInv'
<1> DEFINE c == Upcoming
<1>1. rest # <<>> /\ Running /\ c \in Calls /\ Tail(rest) \in Seq(Calls)
  BY TailOfSeq DEF TypeInv, Skip, Succeed, Fail, Upcoming
<1>2. rest' \in {Tail(rest), <<>>} /\ Running'
      /\ UNCHANGED <<phase, test, processes, kills>>
  BY DEF Skip, Succeed, Fail, Running
<1>3. rest' \in Seq(Calls)
  BY <1>1, <1>2, EmptySeq
<1>4. odbc' \in OdbcType
  <2>1. CASE UNCHANGED odbc
    BY <2>1 DEF TypeInv
  <2>2. CASE Legal(c) /\ odbc' = Effect(c)
    BY <1>1, <2>2, EffectType
  <2>3. CASE odbc' = Executed(odbc, 0)
    BY <2>3 DEF TypeInv, OdbcType, Executed
  <2> QED
    BY <2>1, <2>2, <2>3 DEF Skip, Succeed, Fail, EffectOfFailed
<1>5. fixture' \in FixtureType
  BY <1>1, MembersType DEF TypeInv, Skip, Succeed, Fail
<1>6. fatal' \in BOOLEAN /\ failed' \in BOOLEAN /\ unclean' \in BOOLEAN
  BY DEF TypeInv, Skip, Succeed, Fail
<1>7. faults' \in 0..MaxFaults
  <2>1. faults' = faults \/ (faults < MaxFaults /\ faults' = faults + 1)
    BY DEF Skip, Succeed, Fail
  <2> QED
    BY <2>1, BoundsAssumption DEF TypeInv
<1> QED
  BY <1>1, <1>2, <1>3, <1>4, <1>5, <1>6, <1>7 DEF TypeInv

-----------------------------------------------------------------------------
(* TearDown of conformance.cpp, by the number of calls that are left.       *)

FixtureTear(n) ==
    /\ fixture.held \subseteq {"env", "dbc", "stmt", "cleanup"}
    /\ n <= 8 => "stmt" \notin fixture.held
    /\ n \notin {4, 5} => "cleanup" \notin fixture.held
    /\ n <= 1 => "dbc" \notin fixture.held
    /\ n = 0 => "env" \notin fixture.held
    /\ fixture.metadata_table # None => fixture.connected

OdbcTear(n) ==
    /\ odbc.live = fixture.held /\ ~odbc.surprise
    /\ n > 2 => odbc.session = fixture.connected
    /\ n <= 2 => ~odbc.session
    /\ n > 7 /\ odbc.work => fixture.connected /\ fixture.manual_commit
    /\ n <= 7 => ~odbc.work
    /\ n = 5 /\ fixture.metadata_table # None => "cleanup" \in fixture.held
    /\ n <= 4 => fixture.metadata_table \notin tables

Torn(n) == FixtureTear(n) /\ (unclean => failed) /\ (~unclean => OdbcTear(n))

TearInv == Suffix(rest, Conformance!TearDown) /\ Torn(Len(rest))

\* What becomes of a call of TearDown.
Skipped(c) == ~Holds(c.when) /\ UNCHANGED <<odbc, tables, fixture, failed, unclean>>

Succeeds(c) ==
    /\ Holds(c.when) /\ Legal(c)
    /\ odbc' = Effect(c) /\ tables' = EffectOnTables(c) /\ fixture' = MembersAfter(c, TRUE)
    /\ UNCHANGED <<failed, unclean>>

Refused(c) ==
    /\ Holds(c.when) /\ ~Legal(c)
    /\ UNCHANGED <<odbc, tables, unclean>> /\ fixture' = MembersAfter(c, FALSE)
    /\ failed' = IF c.check = "none" THEN failed ELSE TRUE

Breaks(c) ==
    /\ Holds(c.when) /\ Legal(c)
    /\ fixture' = MembersAfter(c, FALSE)
    /\ failed' = IF c.check = "none" THEN failed ELSE TRUE
    /\ unclean' = TRUE

Tried(c) == Skipped(c) \/ Succeeds(c) \/ Refused(c) \/ Breaks(c)

LEMMA TearTries ==
  ASSUME TypeInv, phase = "teardown", Upcoming.check # "assert", Skip \/ Succeed \/ Fail
  PROVE  rest' = Tail(rest) /\ Tried(Upcoming)
<1>1. Skip => Skipped(Upcoming)
  BY DEF Skip, Skipped
<1>2. Succeed => Succeeds(Upcoming)
  BY DEF Succeed, Succeeds
<1>3. Fail => Refused(Upcoming) \/ Breaks(Upcoming)
  BY DEF TypeInv, Fail, Refused, Breaks
<1>4. rest' = Tail(rest)
  BY DEF Skip, Succeed, Fail
<1> QED
  BY <1>1, <1>2, <1>3, <1>4 DEF Tried


\* Handle::reset
LEMMA TriedFree ==
  ASSUME TypeInv, NEW h \in Handles, NEW c, c.name = "free", c.of = h, c.when = h, Tried(c)
  PROVE  /\ fixture'.held = fixture.held \ {h}
         /\ fixture'.connected = fixture.connected
         /\ fixture'.manual_commit = fixture.manual_commit
         /\ fixture'.metadata_table = fixture.metadata_table
         /\ c.check = "expect" /\ unclean' /\ (unclean => failed) => failed'
         /\ ~unclean' => ~unclean /\ tables' = tables
         /\ ~unclean' => /\ odbc'.session = odbc.session /\ odbc'.work = odbc.work
                         /\ odbc'.surprise = odbc.surprise
         /\ ~unclean' /\ Freeable(h) /\ odbc.live = fixture.held => odbc'.live = fixture'.held
         /\ ~unclean' /\ Freeable(h) =>
               odbc'.live = IF h \in fixture.held THEN odbc.live \ {h} ELSE odbc.live
<1>1. Holds(c.when) <=> h \in fixture.held
  BY DEF Holds, Handles
<1>2. Legal(c) <=> Freeable(h)
  BY DEF Legal
<1>3. MembersAfter(c, TRUE) = [fixture EXCEPT !.held = @ \ {h}]
      /\ MembersAfter(c, FALSE) = [fixture EXCEPT !.held = @ \ {h}]
  BY DEF MembersAfter
<1>4. Effect(c) = Freed(odbc, h) /\ EffectOnTables(c) = tables
  BY DEF Effect, EffectOnTables
<1>5. fixture \in FixtureType /\ odbc \in OdbcType
  BY DEF TypeInv
<1>6. CASE ~Holds(c.when)
  <2>1. UNCHANGED <<odbc, tables, fixture, failed, unclean>>
    BY <1>6 DEF Tried, Skipped, Succeeds, Refused, Breaks
  <2>2. fixture.held \ {h} = fixture.held
    BY <1>1, <1>6
  <2> QED
    BY <2>1, <2>2
<1>7. /\ Freed(odbc, h).session = odbc.session /\ Freed(odbc, h).work = odbc.work
      /\ Freed(odbc, h).surprise = odbc.surprise /\ Freed(odbc, h).live = odbc.live \ {h}
  BY <1>5 DEF Freed, OdbcType
<1>8. ASSUME fixture' = [fixture EXCEPT !.held = @ \ {h}]
      PROVE  /\ fixture'.held = fixture.held \ {h}
             /\ fixture'.connected = fixture.connected
             /\ fixture'.manual_commit = fixture.manual_commit
             /\ fixture'.metadata_table = fixture.metadata_table
  BY <1>5, <1>8 DEF FixtureType
<1>9. CASE Succeeds(c)
  <2>1. /\ fixture' = [fixture EXCEPT !.held = @ \ {h}] /\ odbc' = Freed(odbc, h)
        /\ tables' = tables /\ failed' = failed /\ unclean' = unclean
    BY <1>3, <1>4, <1>9 DEF Succeeds
  <2>2. h \in fixture.held
    BY <1>1, <1>9 DEF Succeeds
  <2>3. odbc'.live = odbc.live \ {h} /\ fixture'.held = fixture.held \ {h}
    BY <1>7, <1>8, <2>1
  <2>4. odbc.live = fixture.held => odbc'.live = fixture'.held
    BY <2>3
  <2> QED
    BY <1>7, <1>8, <2>1, <2>2, <2>3, <2>4
<1>10. CASE Refused(c)
  BY <1>2, <1>3, <1>8, <1>10 DEF Refused
<1>11. CASE Breaks(c)
  BY <1>3, <1>8, <1>11 DEF Breaks
<1> QED
  BY <1>6, <1>9, <1>10, <1>11 DEF Tried, Skipped

LEMMA TearStep ==
  ASSUME TypeInv, TablesInv, TearInv, phase = "teardown", Skip \/ Succeed \/ Fail
  PROVE  TearInv'
<1> DEFINE c == Upcoming
           w == Conformance!TearDown
           n == Len(rest)
<1>1. rest # <<>> /\ rest \in Seq(Calls) /\ n \in 1..9
      /\ Len(Tail(rest)) = n - 1 /\ ConformanceCall(c, 10 - n)
  <2>1. rest # <<>> /\ rest \in Seq(Calls)
    BY DEF TypeInv, Skip, Succeed, Fail
  <2>2. w \in Seq(Calls) /\ Len(w) = 9
    BY ConformanceTearDownCalls
  <2>3. n \in Nat /\ n > 0 /\ Len(Tail(rest)) = n - 1
    BY <2>1
  <2>4. n <= 9 /\ c = w[9 - n + 1]
    <3>1. Suffix(rest, w)
      BY DEF TearInv
    <3>2. Head(rest) = w[Len(w) - Len(rest) + 1]
      BY <2>1, <2>2, <3>1, SuffixTail
    <3> QED
      BY <2>2, <3>1, <3>2 DEF Suffix, Upcoming
  <2> HIDE DEF c, w, n
  <2>5. 9 - n + 1 = 10 - n /\ 10 - n \in 1..9 /\ n \in 1..9
    BY <2>3, <2>4
  <2>6. ConformanceCall(w[10 - n], 10 - n)
    BY <2>5, ConformanceTearDownCalls DEF w
  <2> QED
    BY <2>1, <2>3, <2>4, <2>5, <2>6 DEF n
<1>2. Suffix(Tail(rest), w)
  <2>1. w \in Seq(Calls)
    BY ConformanceTearDownCalls
  <2> QED
    BY <1>1, <2>1, SuffixTail DEF TearInv
<1>3. c.check = "expect"
  <2> HIDE DEF c, n
  <2> DEFINE m == 10 - n
  <2>1. m \in 1..9 /\ ConformanceCall(c, m)
    BY <1>1
  <2> HIDE DEF m
  <2>2. m \in {1, 2, 3, 4, 5, 6, 7, 8, 9}
    BY <2>1
  <2> QED
    BY <2>1, <2>2 DEF ConformanceCall, Parts
<1>4. rest' = Tail(rest) /\ Tried(c)
  BY <1>3, TearTries
<1>5. Suffix(rest', w) /\ Len(rest') = n - 1
  BY <1>1, <1>2, <1>4
<1>6. Torn(n)
  BY DEF TearInv
<1>7. fixture \in FixtureType /\ odbc \in OdbcType /\ unclean \in BOOLEAN /\ failed \in BOOLEAN
  BY DEF TypeInv
<1> HIDE DEF c, w
<1>11. ASSUME n = 9 PROVE Torn(8)'
  <2>1. Parts(c, "free", "stmt", "expect", "stmt")
    BY <1>1, <1>11 DEF ConformanceCall
  <2>2. Freeable("stmt") /\ Torn(9)
    BY <1>6, <1>11 DEF Freeable
  <2> QED
    BY <1>4, <2>1, <2>2, TriedFree DEF Parts, Torn, FixtureTear, OdbcTear, Handles
<1>12. ASSUME n = 8 PROVE Torn(7)'
  <2>1. Parts(c, "rollback", None, "expect", "manual")
    <3>1. ConformanceCall(c, 2)
      BY <1>1, <1>12
    <3> QED
      BY <3>1 DEF ConformanceCall
  <2>2. FixtureTear(8) /\ (unclean => failed) /\ (~unclean => OdbcTear(8))
    BY <1>6, <1>12 DEF Torn
  <2>3. (Holds(c.when) <=> fixture.connected /\ fixture.manual_commit) /\ (Legal(c) <=> TRUE)
    BY <2>1 DEF Parts, Holds, Legal
  <2>4. Effect(c) = [odbc EXCEPT !.work = FALSE, !.cursor = None] /\ EffectOnTables(c) = tables
    BY <2>1 DEF Parts, Effect, EffectOnTables
  <2>5. MembersAfter(c, FALSE) = fixture /\ MembersAfter(c, TRUE) = fixture
    BY <2>1 DEF Parts, MembersAfter
  <2>6. CASE Skipped(c)
    <3>1. UNCHANGED <<odbc, tables, fixture, failed, unclean>>
      BY <2>6 DEF Skipped
    <3>2. FixtureTear(7)' /\ (unclean' => failed')
      BY <2>2, <2>3, <2>6, <3>1 DEF Skipped, FixtureTear
    <3>3. ~unclean' => OdbcTear(7)'
      BY <2>2, <2>3, <2>6, <3>1 DEF Skipped, FixtureTear, OdbcTear
    <3> QED
      BY <3>2, <3>3 DEF Torn
  <2>7. CASE Succeeds(c)
    <3>1. odbc' = Effect(c) /\ tables' = EffectOnTables(c) /\ fixture' = MembersAfter(c, TRUE)
          /\ UNCHANGED <<failed, unclean>>
      BY <2>7 DEF Succeeds
    <3>2. /\ fixture'.held = fixture.held
          /\ fixture'.connected = fixture.connected
          /\ fixture'.manual_commit = fixture.manual_commit
          /\ fixture'.metadata_table = fixture.metadata_table
      BY <1>7, <2>5, <3>1 DEF FixtureType
    <3>3. /\ odbc'.live = odbc.live /\ odbc'.session = odbc.session
          /\ odbc'.work = FALSE /\ odbc'.surprise = odbc.surprise
      BY <1>7, <2>4, <3>1 DEF OdbcType
    <3>4. FixtureTear(7)'
      BY <2>2, <3>2 DEF FixtureTear
    <3>5. unclean' = unclean /\ failed' = failed /\ Holds(c.when) /\ Legal(c)
      BY <2>7 DEF Succeeds
    <3>6. tables' = EffectOnTables(c)
      BY <3>1
    <3>7. OdbcTear(8) => OdbcTear(7)'
      BY <2>2, <2>3, <2>4, <3>2, <3>3, <3>5, <3>6 DEF FixtureTear, OdbcTear
    <3> QED
      BY <2>2, <3>4, <3>5, <3>7 DEF Torn
  <2>8. CASE Refused(c)
    <3>1. fixture' = fixture /\ failed' = TRUE /\ unclean' = unclean
          /\ Holds(c.when) /\ ~Legal(c)
      BY <2>1, <2>5, <2>8 DEF Parts, Refused
    <3>2. unclean
      BY <2>2, <2>3, <3>1 DEF OdbcTear
    <3>3. FixtureTear(7)'
      BY <2>2, <2>3, <3>1 DEF FixtureTear
    <3> QED
      BY <3>1, <3>2, <3>3 DEF Torn
  <2>9. CASE Breaks(c)
    <3>1. fixture' = fixture /\ failed' = TRUE /\ unclean' = TRUE
      BY <2>1, <2>5, <2>9 DEF Parts, Breaks
    <3>2. FixtureTear(7)'
      BY <2>2, <3>1 DEF FixtureTear
    <3> QED
      BY <3>1, <3>2 DEF Torn
  <2> QED
    BY <1>4, <2>6, <2>7, <2>8, <2>9 DEF Tried
<1>13. ASSUME n = 7 PROVE Torn(6)'
  <2>1. Parts(c, "autocommit on", None, "expect", "manual")
    <3>1. ConformanceCall(c, 3)
      BY <1>1, <1>13
    <3> QED
      BY <3>1 DEF ConformanceCall
  <2>2. FixtureTear(7) /\ (unclean => failed) /\ (~unclean => OdbcTear(7))
    BY <1>6, <1>13 DEF Torn
  <2>3. (Holds(c.when) <=> fixture.connected /\ fixture.manual_commit) /\ (Legal(c) <=> TRUE)
    BY <2>1 DEF Parts, Holds, Legal
  <2>4. Effect(c) = [odbc EXCEPT !.autocommit = TRUE, !.work = FALSE,
                                      !.surprise = @ \/ odbc.work] /\ EffectOnTables(c) = tables
    BY <2>1 DEF Parts, Effect, EffectOnTables
  <2>5. MembersAfter(c, FALSE) = fixture /\ MembersAfter(c, TRUE) = fixture
    BY <2>1 DEF Parts, MembersAfter
  <2>6. CASE Skipped(c)
    <3>1. UNCHANGED <<odbc, tables, fixture, failed, unclean>>
      BY <2>6 DEF Skipped
    <3>2. FixtureTear(6)' /\ (unclean' => failed')
      BY <2>2, <2>3, <2>6, <3>1 DEF Skipped, FixtureTear
    <3>3. ~unclean' => OdbcTear(6)'
      BY <2>2, <2>3, <2>6, <3>1 DEF Skipped, FixtureTear, OdbcTear
    <3> QED
      BY <3>2, <3>3 DEF Torn
  <2>7. CASE Succeeds(c)
    <3>1. odbc' = Effect(c) /\ tables' = EffectOnTables(c) /\ fixture' = MembersAfter(c, TRUE)
          /\ UNCHANGED <<failed, unclean>>
      BY <2>7 DEF Succeeds
    <3>2. /\ fixture'.held = fixture.held
          /\ fixture'.connected = fixture.connected
          /\ fixture'.manual_commit = fixture.manual_commit
          /\ fixture'.metadata_table = fixture.metadata_table
      BY <1>7, <2>5, <3>1 DEF FixtureType
    <3>3. /\ odbc'.live = odbc.live /\ odbc'.session = odbc.session
          /\ odbc'.work = FALSE /\ odbc'.surprise = (odbc.surprise \/ odbc.work)
      BY <1>7, <2>4, <3>1 DEF OdbcType
    <3>4. FixtureTear(6)'
      BY <2>2, <3>2 DEF FixtureTear
    <3>5. unclean' = unclean /\ failed' = failed /\ Holds(c.when) /\ Legal(c)
      BY <2>7 DEF Succeeds
    <3>6. tables' = EffectOnTables(c)
      BY <3>1
    <3>7. OdbcTear(7) => OdbcTear(6)'
      <4> SUFFICES ASSUME OdbcTear(7) PROVE OdbcTear(6)'
        OBVIOUS
      <4>1. odbc.surprise = FALSE /\ odbc.work = FALSE
        BY <1>7 DEF OdbcTear, OdbcType
      <4>2. odbc'.surprise = FALSE /\ odbc'.work = FALSE
        BY <3>3, <4>1
      <4> QED
        BY <2>2, <2>3, <2>4, <3>2, <3>3, <3>6, <4>2 DEF FixtureTear, OdbcTear
    <3> QED
      BY <2>2, <3>4, <3>5, <3>7 DEF Torn
  <2>8. CASE Refused(c)
    <3>1. fixture' = fixture /\ failed' = TRUE /\ unclean' = unclean
          /\ Holds(c.when) /\ ~Legal(c)
      BY <2>1, <2>5, <2>8 DEF Parts, Refused
    <3>2. unclean
      BY <2>2, <2>3, <3>1 DEF OdbcTear
    <3>3. FixtureTear(6)'
      BY <2>2, <2>3, <3>1 DEF FixtureTear
    <3> QED
      BY <3>1, <3>2, <3>3 DEF Torn
  <2>9. CASE Breaks(c)
    <3>1. fixture' = fixture /\ failed' = TRUE /\ unclean' = TRUE
      BY <2>1, <2>5, <2>9 DEF Parts, Breaks
    <3>2. FixtureTear(6)'
      BY <2>2, <3>1 DEF FixtureTear
    <3> QED
      BY <3>1, <3>2 DEF Torn
  <2> QED
    BY <1>4, <2>6, <2>7, <2>8, <2>9 DEF Tried
<1>14. ASSUME n = 6 PROVE Torn(5)'
  <2>1. Parts(c, "alloc", "cleanup", "expect", "table")
    <3>1. ConformanceCall(c, 4)
      BY <1>1, <1>14
    <3> QED
      BY <3>1 DEF ConformanceCall
  <2>2. FixtureTear(6) /\ (unclean => failed) /\ (~unclean => OdbcTear(6))
    BY <1>6, <1>14 DEF Torn
  <2>3. /\ Holds(c.when) <=> fixture.connected /\ fixture.metadata_table # None
        /\ Legal(c) <=> Allocatable("cleanup")
    BY <2>1 DEF Parts, Holds, Legal
  <2>4. Effect(c) = [odbc EXCEPT !.live = @ \cup {"cleanup"}] /\ EffectOnTables(c) = tables
    BY <2>1 DEF Parts, Effect, EffectOnTables
  <2>5. /\ MembersAfter(c, FALSE) = fixture
        /\ MembersAfter(c, TRUE) = [fixture EXCEPT !.held = @ \cup {"cleanup"}]
    BY <2>1 DEF Parts, MembersAfter
  <2>6. CASE Skipped(c)
    <3>1. UNCHANGED <<odbc, tables, fixture, failed, unclean>>
      BY <2>6 DEF Skipped
    <3>2. FixtureTear(5)' /\ (unclean' => failed')
      BY <2>2, <2>3, <2>6, <3>1 DEF Skipped, FixtureTear
    <3>3. ~unclean' => OdbcTear(5)'
      BY <2>2, <2>3, <2>6, <3>1 DEF Skipped, FixtureTear, OdbcTear
    <3> QED
      BY <3>2, <3>3 DEF Torn
  <2>7. CASE Succeeds(c)
    <3>1. odbc' = Effect(c) /\ tables' = EffectOnTables(c) /\ fixture' = MembersAfter(c, TRUE)
          /\ UNCHANGED <<failed, unclean>>
      BY <2>7 DEF Succeeds
    <3>2. /\ fixture'.held = fixture.held \cup {"cleanup"}
          /\ fixture'.connected = fixture.connected
          /\ fixture'.manual_commit = fixture.manual_commit
          /\ fixture'.metadata_table = fixture.metadata_table
      BY <1>7, <2>5, <3>1 DEF FixtureType
    <3>3. /\ odbc'.live = odbc.live \cup {"cleanup"} /\ odbc'.session = odbc.session
          /\ odbc'.work = odbc.work /\ odbc'.surprise = odbc.surprise
      BY <1>7, <2>4, <3>1 DEF OdbcType
    <3>4. FixtureTear(5)'
      BY <2>2, <3>2 DEF FixtureTear
    <3>5. unclean' = unclean /\ failed' = failed /\ Holds(c.when) /\ Legal(c)
      BY <2>7 DEF Succeeds
    <3>6. tables' = EffectOnTables(c)
      BY <3>1
    <3>7. OdbcTear(6) => OdbcTear(5)'
      BY <2>2, <2>3, <2>4, <3>2, <3>3, <3>5, <3>6 DEF FixtureTear, OdbcTear
    <3> QED
      BY <2>2, <3>4, <3>5, <3>7 DEF Torn
  <2>8. CASE Refused(c)
    <3>1. fixture' = fixture /\ failed' = TRUE /\ unclean' = unclean
          /\ Holds(c.when) /\ ~Legal(c)
      BY <2>1, <2>5, <2>8 DEF Parts, Refused
    <3>2. unclean
      BY <2>2, <2>3, <3>1 DEF OdbcTear, Allocatable
    <3>3. FixtureTear(5)'
      BY <2>2, <2>3, <3>1 DEF FixtureTear
    <3> QED
      BY <3>1, <3>2, <3>3 DEF Torn
  <2>9. CASE Breaks(c)
    <3>1. fixture' = fixture /\ failed' = TRUE /\ unclean' = TRUE
      BY <2>1, <2>5, <2>9 DEF Parts, Breaks
    <3>2. FixtureTear(5)'
      BY <2>2, <3>1 DEF FixtureTear
    <3> QED
      BY <3>1, <3>2 DEF Torn
  <2> QED
    BY <1>4, <2>6, <2>7, <2>8, <2>9 DEF Tried
<1>15. ASSUME n = 5 PROVE Torn(4)'
  <2>1. Parts(c, "drop", None, "expect", "cleanup")
    <3>1. ConformanceCall(c, 5)
      BY <1>1, <1>15
    <3> QED
      BY <3>1 DEF ConformanceCall
  <2>2. FixtureTear(5) /\ (unclean => failed) /\ (~unclean => OdbcTear(5))
    BY <1>6, <1>15 DEF Torn
  <2>3. (Holds(c.when) <=> "cleanup" \in fixture.held) /\ (Legal(c) <=> TRUE)
    BY <2>1 DEF Parts, Holds, Legal
  <2>4. Effect(c) = odbc /\ EffectOnTables(c) = tables \ {fixture.metadata_table}
    BY <2>1 DEF Parts, Effect, EffectOnTables
  <2>5. MembersAfter(c, FALSE) = fixture /\ MembersAfter(c, TRUE) = fixture
    BY <2>1 DEF Parts, MembersAfter
  <2>6. CASE Skipped(c)
    <3>1. UNCHANGED <<odbc, tables, fixture, failed, unclean>>
      BY <2>6 DEF Skipped
    <3>2. FixtureTear(4)' /\ (unclean' => failed')
      BY <2>2, <2>3, <2>6, <3>1 DEF Skipped, FixtureTear
    <3>3. None \notin tables
      <4>1. \A k \in 1..MaxProcesses : k \in Nat
        BY BoundsAssumption
      <4> QED
        BY <4>1, NoneAssumption DEF TablesInv
    <3>4. "cleanup" \notin fixture.held
      BY <2>3, <2>6 DEF Skipped
    <3>5. ~unclean' => OdbcTear(4)'
      BY <2>2, <3>1, <3>3, <3>4 DEF FixtureTear, OdbcTear
    <3> QED
      BY <3>2, <3>5 DEF Torn
  <2>7. CASE Succeeds(c)
    <3>1. odbc' = Effect(c) /\ tables' = EffectOnTables(c) /\ fixture' = MembersAfter(c, TRUE)
          /\ UNCHANGED <<failed, unclean>>
      BY <2>7 DEF Succeeds
    <3>2. /\ fixture'.held = fixture.held
          /\ fixture'.connected = fixture.connected
          /\ fixture'.manual_commit = fixture.manual_commit
          /\ fixture'.metadata_table = fixture.metadata_table
      BY <1>7, <2>5, <3>1 DEF FixtureType
    <3>3. /\ odbc'.live = odbc.live /\ odbc'.session = odbc.session
          /\ odbc'.work = odbc.work /\ odbc'.surprise = odbc.surprise
      BY <1>7, <2>4, <3>1 DEF OdbcType
    <3>4. FixtureTear(4)'
      BY <2>2, <3>2 DEF FixtureTear
    <3>5. unclean' = unclean /\ failed' = failed /\ Holds(c.when) /\ Legal(c)
      BY <2>7 DEF Succeeds
    <3>6. tables' = EffectOnTables(c)
      BY <3>1
    <3>7. OdbcTear(5) => OdbcTear(4)'
      BY <2>2, <2>3, <2>4, <3>2, <3>3, <3>5, <3>6 DEF FixtureTear, OdbcTear
    <3> QED
      BY <2>2, <3>4, <3>5, <3>7 DEF Torn
  <2>8. CASE Refused(c)
    <3>1. fixture' = fixture /\ failed' = TRUE /\ unclean' = unclean
          /\ Holds(c.when) /\ ~Legal(c)
      BY <2>1, <2>5, <2>8 DEF Parts, Refused
    <3>2. unclean
      BY <2>2, <2>3, <3>1 DEF OdbcTear
    <3>3. FixtureTear(4)'
      BY <2>2, <2>3, <3>1 DEF FixtureTear
    <3> QED
      BY <3>1, <3>2, <3>3 DEF Torn
  <2>9. CASE Breaks(c)
    <3>1. fixture' = fixture /\ failed' = TRUE /\ unclean' = TRUE
      BY <2>1, <2>5, <2>9 DEF Parts, Breaks
    <3>2. FixtureTear(4)'
      BY <2>2, <3>1 DEF FixtureTear
    <3> QED
      BY <3>1, <3>2 DEF Torn
  <2> QED
    BY <1>4, <2>6, <2>7, <2>8, <2>9 DEF Tried
<1>16. ASSUME n = 4 PROVE Torn(3)'
  <2>1. Parts(c, "free", "cleanup", "expect", "cleanup")
    BY <1>1, <1>16 DEF ConformanceCall
  <2>2. Freeable("cleanup") /\ Torn(4)
    BY <1>6, <1>16 DEF Freeable
  <2> QED
    BY <1>4, <2>1, <2>2, TriedFree DEF Parts, Torn, FixtureTear, OdbcTear, Handles
<1>17. ASSUME n = 3 PROVE Torn(2)'
  <2>1. Parts(c, "disconnect", None, "expect", "connected")
    <3>1. ConformanceCall(c, 7)
      BY <1>1, <1>17
    <3> QED
      BY <3>1 DEF ConformanceCall
  <2>2. FixtureTear(3) /\ (unclean => failed) /\ (~unclean => OdbcTear(3))
    BY <1>6, <1>17 DEF Torn
  <2>3. (Holds(c.when) <=> fixture.connected) /\ (Legal(c) <=> odbc.session /\ ~odbc.work)
    BY <2>1 DEF Parts, Holds, Legal
  <2>4. Effect(c) = Disconnected(odbc) /\ EffectOnTables(c) = tables
    BY <2>1 DEF Parts, Effect, EffectOnTables
  <2>5. MembersAfter(c, FALSE) = fixture /\ MembersAfter(c, TRUE) = fixture
    BY <2>1 DEF Parts, MembersAfter
  <2>6. CASE Skipped(c)
    <3>1. UNCHANGED <<odbc, tables, fixture, failed, unclean>>
      BY <2>6 DEF Skipped
    <3>2. FixtureTear(2)' /\ (unclean' => failed')
      BY <2>2, <2>3, <2>6, <3>1 DEF Skipped, FixtureTear
    <3>3. ~unclean' => OdbcTear(2)'
      BY <2>2, <2>3, <2>6, <3>1 DEF Skipped, FixtureTear, OdbcTear
    <3> QED
      BY <3>2, <3>3 DEF Torn
  <2>7. CASE Succeeds(c)
    <3>1. odbc' = Effect(c) /\ tables' = EffectOnTables(c) /\ fixture' = MembersAfter(c, TRUE)
          /\ UNCHANGED <<failed, unclean>>
      BY <2>7 DEF Succeeds
    <3>2. /\ fixture'.held = fixture.held
          /\ fixture'.connected = fixture.connected
          /\ fixture'.manual_commit = fixture.manual_commit
          /\ fixture'.metadata_table = fixture.metadata_table
      BY <1>7, <2>5, <3>1 DEF FixtureType
    <3>3. /\ odbc'.live = odbc.live \ {"stmt", "extra", "cleanup"} /\ odbc'.session = FALSE
          /\ odbc'.work = odbc.work /\ odbc'.surprise = odbc.surprise
      BY <1>7, <2>4, <3>1 DEF OdbcType, Disconnected
    <3>4. FixtureTear(2)'
      BY <2>2, <3>2 DEF FixtureTear
    <3>5. unclean' = unclean /\ failed' = failed /\ Holds(c.when) /\ Legal(c)
      BY <2>7 DEF Succeeds
    <3>6. tables' = EffectOnTables(c)
      BY <3>1
    <3>7. OdbcTear(3) => OdbcTear(2)'
      BY <2>2, <2>3, <2>4, <3>2, <3>3, <3>5, <3>6 DEF FixtureTear, OdbcTear
    <3> QED
      BY <2>2, <3>4, <3>5, <3>7 DEF Torn
  <2>8. CASE Refused(c)
    <3>1. fixture' = fixture /\ failed' = TRUE /\ unclean' = unclean
          /\ Holds(c.when) /\ ~Legal(c)
      BY <2>1, <2>5, <2>8 DEF Parts, Refused
    <3>2. unclean
      BY <2>2, <2>3, <3>1 DEF OdbcTear
    <3>3. FixtureTear(2)'
      BY <2>2, <2>3, <3>1 DEF FixtureTear
    <3> QED
      BY <3>1, <3>2, <3>3 DEF Torn
  <2>9. CASE Breaks(c)
    <3>1. fixture' = fixture /\ failed' = TRUE /\ unclean' = TRUE
      BY <2>1, <2>5, <2>9 DEF Parts, Breaks
    <3>2. FixtureTear(2)'
      BY <2>2, <3>1 DEF FixtureTear
    <3> QED
      BY <3>1, <3>2 DEF Torn
  <2> QED
    BY <1>4, <2>6, <2>7, <2>8, <2>9 DEF Tried
<1>18. ASSUME n = 2 PROVE Torn(1)'
  <2>1. Parts(c, "free", "dbc", "expect", "dbc")
    BY <1>1, <1>18 DEF ConformanceCall
  <2>2. (~unclean => Freeable("dbc")) /\ Torn(2)
    BY <1>6, <1>18 DEF Freeable, Torn, OdbcTear
  <2> QED
    BY <1>4, <2>1, <2>2, TriedFree DEF Parts, Torn, FixtureTear, OdbcTear, Handles
<1>19. ASSUME n = 1 PROVE Torn(0)'
  <2>1. Parts(c, "free", "env", "expect", "env")
    BY <1>1, <1>19 DEF ConformanceCall
  <2>2. (~unclean => Freeable("env")) /\ Torn(1)
    BY <1>6, <1>19 DEF Freeable, Torn, FixtureTear, OdbcTear
  <2> QED
    BY <1>4, <2>1, <2>2, TriedFree DEF Parts, Torn, FixtureTear, OdbcTear, Handles
<1>20. Torn(Len(rest))'
  <2> USE DEF Torn, FixtureTear, OdbcTear
  <2>1. ASSUME n = 1 PROVE Torn(Len(rest))'
    <3>1. Len(rest') = 0
      BY <1>5, <2>1
    <3> QED
      BY <1>19, <2>1, <3>1
  <2>2. ASSUME n = 2 PROVE Torn(Len(rest))'
    <3>1. Len(rest') = 1
      BY <1>5, <2>2
    <3> QED
      BY <1>18, <2>2, <3>1
  <2>3. ASSUME n = 3 PROVE Torn(Len(rest))'
    <3>1. Len(rest') = 2
      BY <1>5, <2>3
    <3> QED
      BY <1>17, <2>3, <3>1
  <2>4. ASSUME n = 4 PROVE Torn(Len(rest))'
    <3>1. Len(rest') = 3
      BY <1>5, <2>4
    <3> QED
      BY <1>16, <2>4, <3>1
  <2>5. ASSUME n = 5 PROVE Torn(Len(rest))'
    <3>1. Len(rest') = 4
      BY <1>5, <2>5
    <3> QED
      BY <1>15, <2>5, <3>1
  <2>6. ASSUME n = 6 PROVE Torn(Len(rest))'
    <3>1. Len(rest') = 5
      BY <1>5, <2>6
    <3> QED
      BY <1>14, <2>6, <3>1
  <2>7. ASSUME n = 7 PROVE Torn(Len(rest))'
    <3>1. Len(rest') = 6
      BY <1>5, <2>7
    <3> QED
      BY <1>13, <2>7, <3>1
  <2>8. ASSUME n = 8 PROVE Torn(Len(rest))'
    <3>1. Len(rest') = 7
      BY <1>5, <2>8
    <3> QED
      BY <1>12, <2>8, <3>1
  <2>9. ASSUME n = 9 PROVE Torn(Len(rest))'
    <3>1. Len(rest') = 8
      BY <1>5, <2>9
    <3> QED
      BY <1>11, <2>9, <3>1
  <2>10. n \in {1, 2, 3, 4, 5, 6, 7, 8, 9}
    <3> HIDE DEF n
    <3> QED
      BY <1>1
  <2> QED
    BY <2>1, <2>2, <2>3, <2>4, <2>5, <2>6, <2>7, <2>8, <2>9, <2>10
<1> QED
  BY <1>5, <1>20 DEF TearInv, w

-----------------------------------------------------------------------------
(* SetUp and the bodies of the parity suites.                               *)

\* Every statement is its own transaction, and only extra statements are freed.
ParityCalls ==
    {c \in Calls :
        /\ c.when \in {"always", "extra"}
        /\ c.name \in {"alloc", "ask", "connect", "execute", "fetch", "end", "get",
                       "close cursor", "point", "unbind", "free"}
        /\ c.name = "alloc" => c.of \in {"env", "dbc", "stmt", "extra"}
        /\ c.name = "free" => c.of = "extra"
        /\ c.name = "point" => c.of[2] \in Members}

AllocDbc == Assert("alloc", "dbc")

\* Nothing connects before the handle is allocated.
Connectable(s) ==
    \A i \in DOMAIN s : s[i].name = "connect" => \E j \in 1..(i - 1) : s[j] = AllocDbc

ParityInv ==
    /\ rest \in Seq(ParityCalls) /\ ("dbc" \in fixture.held \/ Connectable(rest))
    /\ odbc.autocommit /\ ~odbc.work /\ ~odbc.surprise /\ ~unclean
    /\ fixture.metadata_table = None
    /\ fixture.held \subseteq {"env", "dbc", "stmt", "extra"}
    /\ fixture.held \subseteq odbc.live /\ odbc.live \subseteq fixture.held \cup {"extra"}
    /\ "extra" \in odbc.live => odbc.session
    /\ odbc.session => "dbc" \in fixture.held
    /\ \A a \in odbc.addresses : a[2] \in Members

LEMMA ParityEffect ==
  ASSUME TypeInv, NEW c \in ParityCalls
  PROVE  /\ Effect(c).live = IF c.name = "alloc" THEN odbc.live \cup {c.of}
                             ELSE IF c.name = "free" THEN odbc.live \ {"extra"} ELSE odbc.live
         /\ Effect(c).session = (odbc.session \/ c.name = "connect")
         /\ Effect(c).autocommit = odbc.autocommit
         /\ Effect(c).work => odbc.work \/ ~odbc.autocommit
         /\ Effect(c).surprise = odbc.surprise
         /\ \A a \in Effect(c).addresses :
               a \in odbc.addresses \/ (c.name = "point" /\ a = c.of)
<1> USE DEF TypeInv, OdbcType
<1>1. CASE c.name = "alloc"
  BY <1>1 DEF Effect
<1>2. CASE c.name = "connect"
  BY <1>2 DEF Effect
<1>3. CASE c.name = "execute"
  BY <1>3 DEF Effect, Executed
<1>4. CASE c.name = "fetch"
  BY <1>4 DEF Effect
<1>5. CASE c.name = "close cursor"
  BY <1>5 DEF Effect
<1>6. CASE c.name = "point"
  BY <1>6 DEF Effect
<1>7. CASE c.name = "unbind"
  BY <1>7 DEF Effect
<1>8. CASE c.name = "free"
  BY <1>8 DEF Effect, Freed, ParityCalls
<1>9. CASE c.name \in {"ask", "end", "get"}
  BY <1>9 DEF Effect
<1> QED
  BY <1>1, <1>2, <1>3, <1>4, <1>5, <1>6, <1>7, <1>8, <1>9 DEF ParityCalls

LEMMA ParityMembers ==
  ASSUME TypeInv, NEW c \in ParityCalls
  PROVE  /\ MembersAfter(c, TRUE).held =
                IF c.name = "alloc" THEN fixture.held \cup {c.of}
                ELSE IF c.name = "free" THEN fixture.held \ {"extra"} ELSE fixture.held
         /\ MembersAfter(c, FALSE).held =
                IF c.name = "free" THEN fixture.held \ {"extra"} ELSE fixture.held
         /\ MembersAfter(c, TRUE).metadata_table = fixture.metadata_table
         /\ MembersAfter(c, FALSE).metadata_table = fixture.metadata_table
  BY DEF TypeInv, FixtureType, MembersAfter, ParityCalls

LEMMA ConnectableTail ==
  ASSUME NEW S, NEW s \in Seq(S), s # <<>>, Connectable(s)
  PROVE  Head(s).name # "connect" /\ (Head(s) # AllocDbc => Connectable(Tail(s)))
<1> DEFINE T == Tail(s)
<1>1. /\ Head(s) = s[1] /\ 1 \in DOMAIN s
      /\ \A i \in DOMAIN T : i + 1 \in DOMAIN s /\ T[i] = s[i + 1]
      /\ DOMAIN s = 1..Len(s) /\ DOMAIN T = 1..Len(T) /\ Len(T) = Len(s) - 1 /\ Len(s) \in Nat
  BY TailOfSeq
<1> HIDE DEF T
<1>2. Head(s).name # "connect"
  BY <1>1 DEF Connectable
<1>3. ASSUME Head(s) # AllocDbc, NEW i \in DOMAIN T, T[i].name = "connect"
      PROVE  \E j \in 1..(i - 1) : T[j] = AllocDbc
  <2>1. PICK j \in 1..i : s[j] = AllocDbc
    BY <1>1, <1>3 DEF Connectable
  <2>2. j > 1 /\ j - 1 \in DOMAIN T /\ T[j - 1] = s[j]
    BY <1>1, <1>3, <2>1
  <2>3. j - 1 \in 1..(i - 1)
    BY <1>1, <2>1, <2>2
  <2> QED
    BY <2>1, <2>2, <2>3
<1> QED
  BY <1>2, <1>3 DEF Connectable, T

LEMMA ParityStep ==
  ASSUME TypeInv, ParityInv, phase \in {"setup", "body"}, Skip \/ Succeed \/ Fail
  PROVE  ParityInv' /\ Upcoming.name # "create"
<1> DEFINE c == Upcoming
<1> USE DEF ParityInv
<1>1. rest # <<>> /\ c = Head(rest) /\ c \in ParityCalls /\ Tail(rest) \in Seq(ParityCalls)
  BY TailOfSeq DEF Skip, Succeed, Fail, Upcoming
<1>2. c.name = "connect" => "dbc" \in fixture.held
  BY <1>1, ConnectableTail
<1>3. Connectable(rest) /\ c # AllocDbc => Connectable(Tail(rest))
  BY <1>1, ConnectableTail
<1>4. AllocDbc.name = "alloc" /\ AllocDbc.of = "dbc" /\ AllocDbc.check = "assert"
      /\ AllocDbc.when = "always"
  BY DEF AllocDbc, Assert, Call
<1>5. c.name # "create"
  BY <1>1 DEF ParityCalls
<1>6. CASE Skip
  <2>1. c # AllocDbc
    BY <1>4, <1>6 DEF Skip, Holds
  <2> QED
    BY <1>1, <1>3, <1>5, <1>6, <2>1 DEF Skip
<1>7. CASE Succeed
  <2>1. odbc' = Effect(c) /\ fixture' = MembersAfter(c, TRUE) /\ rest' = Tail(rest)
        /\ unclean' = unclean
    BY <1>7 DEF Succeed
  <2>2. c.name = "alloc" => c.of \in {"env", "dbc", "stmt", "extra"}
    BY <1>1 DEF ParityCalls
  <2>3. c.name = "alloc" /\ c.of = "extra" => odbc.session
    BY <1>7 DEF Succeed, Legal, Allocatable
  <2>4. /\ odbc'.live = IF c.name = "alloc" THEN odbc.live \cup {c.of}
                        ELSE IF c.name = "free" THEN odbc.live \ {"extra"} ELSE odbc.live
        /\ odbc'.session = (odbc.session \/ c.name = "connect")
        /\ odbc'.autocommit = odbc.autocommit
        /\ odbc'.work => odbc.work \/ ~odbc.autocommit
        /\ odbc'.surprise = odbc.surprise
        /\ \A a \in odbc'.addresses : a \in odbc.addresses \/ (c.name = "point" /\ a = c.of)
    BY <1>1, <2>1, ParityEffect
  <2>5. /\ fixture'.held = IF c.name = "alloc" THEN fixture.held \cup {c.of}
                           ELSE IF c.name = "free" THEN fixture.held \ {"extra"} ELSE fixture.held
        /\ fixture'.metadata_table = fixture.metadata_table
    BY <1>1, <2>1, ParityMembers
  <2>6. c.name = "point" => c.of[2] \in Members
    BY <1>1 DEF ParityCalls
  <2>7. "dbc" \in fixture'.held \/ Connectable(rest')
    <3> HIDE DEF c
    <3>1. CASE c = AllocDbc
      BY <1>4, <2>5, <3>1
    <3>2. CASE c # AllocDbc
      BY <1>3, <2>1, <2>5, <3>2
    <3> QED
      BY <3>1, <3>2
  <2> HIDE DEF c
  <2>8. /\ fixture'.held \subseteq {"env", "dbc", "stmt", "extra"}
        /\ fixture'.held \subseteq odbc'.live /\ odbc'.live \subseteq fixture'.held \cup {"extra"}
    BY <2>2, <2>4, <2>5
  <2>9. ("extra" \in odbc'.live => odbc'.session) /\ (odbc'.session => "dbc" \in fixture'.held)
    BY <1>2, <2>2, <2>3, <2>4, <2>5
  <2>10. \A a \in odbc'.addresses : a[2] \in Members
    BY <2>4, <2>6
  <2>11. odbc'.autocommit /\ ~odbc'.work /\ ~odbc'.surprise
    BY <2>4
  <2> QED
    BY <1>1, <1>5, <2>1, <2>5, <2>7, <2>8, <2>9, <2>10, <2>11 DEF c
<1>8. CASE Fail
  <2>1. fixture' = MembersAfter(c, FALSE) /\ unclean' = unclean
        /\ rest' = IF c.check = "assert" THEN <<>> ELSE Tail(rest)
    BY <1>8 DEF Fail, TypeInv
  <2>2. odbc' = odbc \/ odbc' = Executed(odbc, 0)
    BY <1>1, <1>8 DEF Fail, MayStillWork, EffectOfFailed, ParityCalls
  <2>3. /\ odbc'.live = odbc.live /\ odbc'.session = odbc.session
        /\ odbc'.autocommit = odbc.autocommit
        /\ odbc'.work => odbc.work \/ ~odbc.autocommit
        /\ odbc'.surprise = odbc.surprise /\ odbc'.addresses = odbc.addresses
    BY <2>2 DEF Executed, TypeInv, OdbcType
  <2>4. /\ fixture'.held = IF c.name = "free" THEN fixture.held \ {"extra"} ELSE fixture.held
        /\ fixture'.metadata_table = fixture.metadata_table
    BY <1>1, <2>1, ParityMembers
  <2>5. Connectable(<<>>)
    BY DEF Connectable
  <2>6. "dbc" \in fixture'.held \/ Connectable(rest')
    <3> HIDE DEF c
    <3>1. CASE c = AllocDbc
      BY <1>4, <2>1, <2>5, <3>1
    <3>2. CASE c # AllocDbc
      BY <1>3, <2>1, <2>4, <2>5, <3>2
    <3> QED
      BY <3>1, <3>2
  <2>7. rest' \in Seq(ParityCalls)
    BY <1>1, <2>1, EmptySeq
  <2> HIDE DEF c
  <2>8. /\ fixture'.held \subseteq {"env", "dbc", "stmt", "extra"}
        /\ fixture'.held \subseteq odbc'.live /\ odbc'.live \subseteq fixture'.held \cup {"extra"}
        /\ odbc'.session => "dbc" \in fixture'.held
    BY <2>3, <2>4
  <2>9. odbc'.autocommit /\ ~odbc'.work /\ ~odbc'.surprise
    BY <2>3
  <2> QED
    BY <1>5, <2>1, <2>3, <2>4, <2>6, <2>7, <2>8, <2>9 DEF c
<1> QED
  BY <1>6, <1>7, <1>8

LEMMA ConnectableConcat ==
  ASSUME NEW s \in Seq(ParityCalls), NEW u \in Seq(ParityCalls), Connectable(s), Connectable(u)
  PROVE  s \o u \in Seq(ParityCalls) /\ Connectable(s \o u)
<1> DEFINE w == s \o u
<1>1. w \in Seq(ParityCalls) /\ Len(s) \in Nat /\ Len(u) \in Nat
      /\ DOMAIN s = 1..Len(s) /\ DOMAIN u = 1..Len(u) /\ DOMAIN w = 1..(Len(s) + Len(u))
  OBVIOUS
<1>2. /\ \A i \in DOMAIN s : i \in DOMAIN w /\ w[i] = s[i]
      /\ \A i \in DOMAIN u : i + Len(s) \in DOMAIN w /\ w[i + Len(s)] = u[i]
      /\ \A i \in DOMAIN w : i \notin DOMAIN s => i - Len(s) \in DOMAIN u /\ w[i] = u[i - Len(s)]
  BY <1>1
<1> HIDE DEF w
<1>3. ASSUME NEW i \in DOMAIN w, w[i].name = "connect"
      PROVE  \E j \in 1..(i - 1) : w[j] = AllocDbc
  <2>1. CASE i \in DOMAIN s
    <3>1. PICK j \in 1..(i - 1) : s[j] = AllocDbc
      BY <1>2, <1>3, <2>1 DEF Connectable
    <3>2. j \in DOMAIN s
      BY <1>1, <2>1
    <3> QED
      BY <1>2, <3>1, <3>2
  <2>2. CASE i \notin DOMAIN s
    <3> DEFINE k == i - Len(s)
    <3>1. k \in DOMAIN u /\ w[i] = u[k]
      BY <1>2, <2>2
    <3>2. PICK j \in 1..(k - 1) : u[j] = AllocDbc
      BY <1>3, <3>1 DEF Connectable
    <3>3. j \in DOMAIN u
      BY <1>1, <3>1
    <3>4. w[j + Len(s)] = u[j]
      BY <1>2, <3>3
    <3>5. j + Len(s) \in 1..(i - 1)
      BY <1>1, <1>3, <3>1, <3>3
    <3> QED
      BY <3>2, <3>4, <3>5
  <2> QED
    BY <2>1, <2>2
<1> QED
  BY <1>1, <1>3 DEF Connectable, w

\* Calls that connect nothing.
LooseCalls == {c \in ParityCalls : c.name # "connect"}

LEMMA LooseConnectable ==
  ASSUME NEW s \in Seq(LooseCalls)
  PROVE  s \in Seq(ParityCalls) /\ Connectable(s)
<1>1. LooseCalls \subseteq ParityCalls
  BY DEF LooseCalls
<1>2. \A i \in DOMAIN s : s[i] \in LooseCalls
  OBVIOUS
<1>3. Connectable(s)
  BY <1>2 DEF Connectable, LooseCalls
<1> QED
  BY <1>1, <1>3

LEMMA LooseOnes ==
  /\ Parity!Ask \in LooseCalls /\ Parity!Unbind \in LooseCalls
  /\ Parity!CloseCursor \in LooseCalls
  /\ \A n \in 0..3 : Parity!ExecDirect(n) \in LooseCalls
  /\ Parity!ExecDirectIgnoreError \in LooseCalls
  /\ Parity!AllocStmt \in LooseCalls /\ Parity!FreeStmt \in LooseCalls
  /\ Parity!BindBuffer \in LooseCalls
  /\ \A h \in {"env", "dbc", "stmt"} : Parity!Assert("alloc", h) \in LooseCalls
  /\ \A n \in 1..3 : Parity!Assert("fetch", n) \in LooseCalls /\ Parity!Expect("fetch", n) \in LooseCalls
  /\ \A n \in 0..3 \cup {None} : Parity!Expect("get", n) \in LooseCalls
  /\ Parity!Assert("get", None) \in LooseCalls /\ Parity!Expect("end", None) \in LooseCalls
<1> USE DEF LooseCalls, ParityCalls, Calls, Names, Conditions, Handles,
            Parity!Assert, Parity!Expect, Parity!Ignore, Parity!Call
<1>1. Parity!Ask \in LooseCalls /\ Parity!Unbind \in LooseCalls /\ Parity!CloseCursor \in LooseCalls
  BY DEF Parity!Ask, Parity!Unbind, Parity!CloseCursor
<1>2. \A n \in 0..3 : Parity!ExecDirect(n) \in LooseCalls
  BY DEF Parity!ExecDirect
<1>3. Parity!ExecDirectIgnoreError \in LooseCalls
  <2> DEFINE zero == 0
  <2>1. zero \in 0..3
    OBVIOUS
  <2> HIDE DEF zero
  <2>2. Parity!Ignore("execute", zero) \in LooseCalls
    BY <2>1
  <2> QED
    BY <2>2 DEF Parity!ExecDirectIgnoreError, zero
<1>4. Parity!AllocStmt \in LooseCalls /\ Parity!FreeStmt \in LooseCalls
  BY DEF Parity!AllocStmt, Parity!FreeStmt, Parity!If
<1>5. Parity!BindBuffer \in LooseCalls
  BY TestBuffersAssumption DEF Parity!BindBuffer, Parity!Points, Addresses, Buffers
<1>6. \A h \in {"env", "dbc", "stmt"} : Parity!Assert("alloc", h) \in LooseCalls
  OBVIOUS
<1>7. ASSUME NEW n \in 1..3
      PROVE  Parity!Assert("fetch", n) \in LooseCalls /\ Parity!Expect("fetch", n) \in LooseCalls
  <2>1. n \in 0..3
    OBVIOUS
  <2> QED
    BY <2>1
<1>8. \A n \in 0..3 \cup {None} : Parity!Expect("get", n) \in LooseCalls
  OBVIOUS
<1>9. Parity!Assert("get", None) \in LooseCalls /\ Parity!Expect("end", None) \in LooseCalls
  OBVIOUS
<1> QED
  BY <1>1, <1>2, <1>3, <1>4, <1>5, <1>6, <1>7, <1>8, <1>9

LEMMA ParitySetUp ==
  Parity!SuiteSetUp \in Seq(ParityCalls) /\ Connectable(Parity!SuiteSetUp)
<1> DEFINE a == Parity!Assert("alloc", "dbc")
           q == Parity!Ask
           n == Parity!Assert("connect", None)
           t == Parity!Assert("alloc", "stmt")
           s == <<a, q, n, t>>
<1>1. a = AllocDbc
  BY DEF Parity!Assert, Parity!Call, AllocDbc, Assert, Call
<1>2. n \in ParityCalls
  BY DEF ParityCalls, Calls, Names, Conditions, Parity!Assert, Parity!Call
<1>3. a \in LooseCalls /\ q \in LooseCalls /\ t \in LooseCalls
  BY LooseOnes
<1> HIDE DEF a, q, n, t
<1>4. s \in Seq(ParityCalls) /\ DOMAIN s = 1..4
      /\ s[1] = a /\ s[2] = q /\ s[3] = n /\ s[4] = t
  BY <1>2, <1>3 DEF LooseCalls
<1> HIDE DEF s
<1>5. Connectable(s)
  <2> SUFFICES ASSUME NEW i \in DOMAIN s, s[i].name = "connect"
               PROVE  \E j \in 1..(i - 1) : s[j] = AllocDbc
    BY DEF Connectable
  <2>1. i = 3
    <3>1. i \in {1, 2, 3, 4}
      BY <1>4
    <3> QED
      BY <1>3, <1>4, <3>1 DEF LooseCalls
  <2> QED
    BY <1>1, <1>4, <2>1
<1>6. Parity!SetUp \in Seq(LooseCalls) /\ <<Parity!Ask>> \in Seq(LooseCalls)
  BY LooseOnes DEF Parity!SetUp
<1>7. Parity!SetUp \o <<Parity!Ask>> \in Seq(LooseCalls)
  BY <1>6
<1>8. /\ Parity!SetUp \o <<Parity!Ask>> \o s \in Seq(ParityCalls)
      /\ Connectable(Parity!SetUp \o <<Parity!Ask>> \o s)
  BY <1>4, <1>5, <1>7, LooseConnectable, ConnectableConcat
<1>9. /\ Parity!SetUp \o <<Parity!Ask>> \o s \o <<Parity!Ask>> \in Seq(ParityCalls)
      /\ Connectable(Parity!SetUp \o <<Parity!Ask>> \o s \o <<Parity!Ask>>)
  BY <1>6, <1>8, LooseConnectable, ConnectableConcat
<1> QED
  BY <1>9 DEF Parity!SuiteSetUp, Parity!Connect, s, a, q, n, t

LEMMA LooseParts ==
  /\ Parity!Convert(TRUE, TRUE) \in Seq(LooseCalls) /\ Parity!Convert(TRUE, FALSE) \in Seq(LooseCalls)
  /\ Parity!Convert(FALSE, TRUE) \in Seq(LooseCalls) /\ Parity!Convert(FALSE, FALSE) \in Seq(LooseCalls)
  /\ Parity!BindIf(TRUE) \in Seq(LooseCalls) /\ Parity!BindIf(FALSE) \in Seq(LooseCalls)
  /\ Parity!EndUnless(TRUE) \in Seq(LooseCalls) /\ Parity!EndUnless(FALSE) \in Seq(LooseCalls)
<1> DEFINE one == 1
<1>1. one \in 1..3 /\ one \in 0..3 \cup {None}
  OBVIOUS
<1> HIDE DEF one
<1>2. Parity!Expect("get", one) \in LooseCalls /\ Parity!Expect("fetch", one) \in LooseCalls
      /\ Parity!Assert("fetch", one) \in LooseCalls /\ Parity!Expect("get", None) \in LooseCalls
  BY <1>1, LooseOnes
<1>3. <<Parity!Expect("get", one)>> \in Seq(LooseCalls)
      /\ <<Parity!Expect("fetch", one)>> \in Seq(LooseCalls)
      /\ <<Parity!Assert("fetch", one), Parity!Expect("get", None)>> \in Seq(LooseCalls)
  BY <1>2
<1>4. Parity!BindIf(TRUE) \in Seq(LooseCalls) /\ Parity!BindIf(FALSE) \in Seq(LooseCalls)
  BY LooseOnes, EmptySeq DEF Parity!BindIf
<1>5. Parity!EndUnless(TRUE) \in Seq(LooseCalls) /\ Parity!EndUnless(FALSE) \in Seq(LooseCalls)
  BY LooseOnes, EmptySeq DEF Parity!EndUnless
<1> QED
  BY <1>3, <1>4, <1>5 DEF Parity!Convert, one

\* A contract is put together from parts.
LEMMA LooseRun ==
  ASSUME NEW b \in Seq(LooseCalls), NEW v \in Seq(LooseCalls), NEW e \in Seq(LooseCalls)
  PROVE  /\ <<Parity!ExecDirect(1), Parity!Ask, Parity!Ask>> \o b \o v \o e
                \o <<Parity!Unbind, Parity!CloseCursor>>
                \o <<Parity!ExecDirect(1), Parity!Assert("fetch", 1), Parity!Assert("get", None),
                     Parity!CloseCursor>> \in Seq(LooseCalls)
         /\ <<Parity!ExecDirect(2), Parity!Ask>> \o b \o v \o v
                \o <<Parity!Expect("end", None), Parity!Unbind, Parity!CloseCursor>>
            \in Seq(LooseCalls)
<1> DEFINE p == <<Parity!ExecDirect(1), Parity!Ask, Parity!Ask>>
           q == <<Parity!Unbind, Parity!CloseCursor>>
           r == <<Parity!ExecDirect(1), Parity!Assert("fetch", 1), Parity!Assert("get", None),
                  Parity!CloseCursor>>
           x == <<Parity!ExecDirect(2), Parity!Ask>>
           y == <<Parity!Expect("end", None), Parity!Unbind, Parity!CloseCursor>>
<1>1. p \in Seq(LooseCalls) /\ q \in Seq(LooseCalls)
  BY LooseOnes
<1>2. r \in Seq(LooseCalls)
  BY LooseOnes
<1>3. x \in Seq(LooseCalls) /\ y \in Seq(LooseCalls)
  BY LooseOnes
<1> HIDE DEF p, q, r, x, y
<1>4. p \o b \o v \o e \o q \o r \in Seq(LooseCalls)
  BY <1>1, <1>2
<1>5. x \o b \o v \o v \o y \in Seq(LooseCalls)
  BY <1>3
<1> QED
  BY <1>4, <1>5 DEF p, q, r, x, y

LEMMA ParityBodies ==
  ASSUME NEW t \in Parity!Tests
  PROVE  Parity!BodyOf(t) \in Seq(ParityCalls) /\ Connectable(Parity!BodyOf(t))
<1>1. /\ Parity!RunContract(FALSE, FALSE) \in Seq(LooseCalls)
      /\ Parity!RunContract(TRUE, FALSE) \in Seq(LooseCalls)
      /\ Parity!RunContract(FALSE, TRUE) \in Seq(LooseCalls)
      /\ Parity!RunContract(TRUE, TRUE) \in Seq(LooseCalls)
  BY LooseParts, LooseRun DEF Parity!RunContract
<1>2. /\ Parity!ReferenceContract(FALSE) \in Seq(LooseCalls)
      /\ Parity!ReferenceContract(TRUE) \in Seq(LooseCalls)
  BY LooseParts, LooseRun, EmptySeq DEF Parity!ReferenceContract, Parity!CheckRow
<1>3. <<Parity!ExecDirectIgnoreError, Parity!AllocStmt, Parity!ExecDirect(1),
        Parity!FreeStmt, Parity!CloseCursor>> \in Seq(LooseCalls)
  BY LooseOnes
<1>4. <<Parity!ExecDirect(1), Parity!AllocStmt, Parity!ExecDirectIgnoreError>>
        \in Seq(LooseCalls)
  BY LooseOnes
<1>5. Parity!Cases[t] \in Seq(LooseCalls)
  <2>1. t \in {"IntervalGetData", "IntervalBindCol", "RejectedIntervalGetData",
              "RejectedIntervalBindCol", "NumericGetData", "NumericBindCol",
              "ExtraFreed", "ExtraLeft"}
    BY DEF Parity!Tests, Parity!Cases
  <2>2. Parity!Cases["IntervalGetData"] = Parity!RunContract(FALSE, FALSE)
        /\ Parity!Cases["IntervalBindCol"] = Parity!RunContract(TRUE, FALSE)
        /\ Parity!Cases["RejectedIntervalGetData"] = Parity!RunContract(FALSE, TRUE)
        /\ Parity!Cases["RejectedIntervalBindCol"] = Parity!RunContract(TRUE, TRUE)
        /\ Parity!Cases["NumericGetData"] = Parity!ReferenceContract(FALSE)
        /\ Parity!Cases["NumericBindCol"] = Parity!ReferenceContract(TRUE)
    BY DEF Parity!Cases
  <2>3. CASE t = "ExtraFreed"
    BY <1>3, <2>3 DEF Parity!Cases
  <2>4. CASE t = "ExtraLeft"
    BY <1>4, <2>4 DEF Parity!Cases
  <2> QED
    BY <1>1, <1>2, <2>1, <2>2, <2>3, <2>4
<1> QED
  BY <1>5, LooseConnectable DEF Parity!BodyOf

-----------------------------------------------------------------------------
(* TearDown of the parity suites.                                           *)

ParityCall(c, n) ==
    /\ n = 1 => Parts(c, "free", "extra", "none", "extra")
    /\ n = 2 => Parts(c, "free", "stmt", "none", "stmt")
    /\ n = 3 => Parts(c, "disconnect", None, "none", "dbc")
    /\ n = 4 => Parts(c, "free", "dbc", "none", "dbc")
    /\ n = 5 => Parts(c, "free", "env", "none", "env")

LEMMA ParityTearDownCalls ==
  /\ Parity!TearDown \in Seq(Calls) /\ Len(Parity!TearDown) = 5
  /\ \A n \in 1..5 : ParityCall(Parity!TearDown[n], n)
<1> DEFINE e(name, of, when) == [Parity!Call(name, of, "none") EXCEPT !.when = when]
           a == e("free", "extra", "extra")
           b == e("free", "stmt", "stmt")
           c == e("disconnect", None, "dbc")
           d == e("free", "dbc", "dbc")
           f == e("free", "env", "env")
           s == <<a, b, c, d, f>>
<1>1. Parity!TearDown = s
  BY DEF Parity!TearDown, Parity!If, Parity!Ignore
<1>2. /\ Parts(a, "free", "extra", "none", "extra")
      /\ Parts(b, "free", "stmt", "none", "stmt")
      /\ Parts(c, "disconnect", None, "none", "dbc")
      /\ Parts(d, "free", "dbc", "none", "dbc")
      /\ Parts(f, "free", "env", "none", "env")
  BY DEF Parts, Parity!Call
<1>3. a \in Calls /\ b \in Calls /\ c \in Calls /\ d \in Calls /\ f \in Calls
  BY DEF Calls, Names, Conditions, Handles, Parity!Call
<1> HIDE DEF a, b, c, d, f
<1>4. s \in Seq(Calls) /\ Len(s) = 5
  BY <1>3
<1>5. s[1] = a /\ s[2] = b /\ s[3] = c /\ s[4] = d /\ s[5] = f
  OBVIOUS
<1> HIDE DEF s
<1>6. \A n \in 1..5 : ParityCall(s[n], n)
  BY <1>2, <1>5 DEF ParityCall
<1> QED
  BY <1>1, <1>4, <1>6

ParityFixtureTear(n) ==
    /\ fixture.held \subseteq {"env", "dbc", "stmt", "extra"}
    /\ n <= 4 => "extra" \notin fixture.held
    /\ n <= 3 => "stmt" \notin fixture.held
    /\ n <= 1 => "dbc" \notin fixture.held
    /\ n = 0 => "env" \notin fixture.held
    /\ fixture.metadata_table = None
    /\ n > 4 => \A a \in odbc.addresses : a[2] \in Members

ParityOdbcTear(n) ==
    /\ fixture.held \subseteq odbc.live /\ ~odbc.surprise /\ ~odbc.work
    /\ n > 2 => /\ odbc.live \subseteq fixture.held \cup {"extra"}
                /\ "extra" \in odbc.live => odbc.session
                /\ odbc.session => "dbc" \in fixture.held
    /\ n <= 2 => odbc.live = fixture.held /\ ~odbc.session

ParityTorn(n) == ParityFixtureTear(n) /\ (~unclean => ParityOdbcTear(n))

ParityTearInv == Suffix(rest, Parity!TearDown) /\ ParityTorn(Len(rest))

LEMMA ParityTearStep ==
  ASSUME TypeInv, ParityTearInv, phase = "teardown", Skip \/ Succeed \/ Fail
  PROVE  ParityTearInv'
<1> DEFINE c == Upcoming
           w == Parity!TearDown
           n == Len(rest)
<1>1. rest # <<>> /\ rest \in Seq(Calls) /\ n \in 1..5
      /\ Len(Tail(rest)) = n - 1 /\ ParityCall(c, 6 - n)
  <2>1. rest # <<>> /\ rest \in Seq(Calls)
    BY DEF TypeInv, Skip, Succeed, Fail
  <2>2. w \in Seq(Calls) /\ Len(w) = 5
    BY ParityTearDownCalls
  <2>3. n \in Nat /\ n > 0 /\ Len(Tail(rest)) = n - 1
    BY <2>1
  <2>4. n <= 5 /\ c = w[5 - n + 1]
    <3>1. Suffix(rest, w)
      BY DEF ParityTearInv
    <3>2. Head(rest) = w[Len(w) - Len(rest) + 1]
      BY <2>1, <2>2, <3>1, SuffixTail
    <3> QED
      BY <2>2, <3>1, <3>2 DEF Suffix, Upcoming
  <2> HIDE DEF c, w, n
  <2>5. 5 - n + 1 = 6 - n /\ 6 - n \in 1..5 /\ n \in 1..5
    BY <2>3, <2>4
  <2>6. ParityCall(w[6 - n], 6 - n)
    BY <2>5, ParityTearDownCalls DEF w
  <2> QED
    BY <2>1, <2>3, <2>4, <2>5, <2>6 DEF n
<1>2. Suffix(Tail(rest), w)
  <2>1. w \in Seq(Calls)
    BY ParityTearDownCalls
  <2> QED
    BY <1>1, <2>1, SuffixTail DEF ParityTearInv
<1>3. c.check # "assert"
  <2> DEFINE m == 6 - n
  <2>1. m \in 1..5 /\ ParityCall(c, m)
    <3> HIDE DEF n
    <3> QED
      BY <1>1
  <2> HIDE DEF m
  <2>2. m \in {1, 2, 3, 4, 5}
    BY <2>1
  <2> QED
    BY <2>1, <2>2 DEF ParityCall, Parts
<1>4. rest' = Tail(rest) /\ Tried(c)
  BY <1>3, TearTries
<1>5. Suffix(rest', w) /\ Len(rest') = n - 1
  BY <1>1, <1>2, <1>4
<1>6. ParityTorn(n)
  BY DEF ParityTearInv
<1>7. fixture \in FixtureType /\ odbc \in OdbcType /\ unclean \in BOOLEAN
  BY DEF TypeInv
<1> HIDE DEF c, w
<1>11. ASSUME n = 5 PROVE ParityTorn(4)'
  <2>1. Parts(c, "free", "extra", "none", "extra")
    BY <1>1, <1>11 DEF ParityCall
  <2>2. Freeable("extra") /\ ParityTorn(5)
    BY <1>6, <1>11 DEF Freeable
  <2> QED
    BY <1>4, <2>1, <2>2, TriedFree
    DEF Parts, ParityTorn, ParityFixtureTear, ParityOdbcTear, Handles
<1>12. ASSUME n = 4 PROVE ParityTorn(3)'
  <2>1. Parts(c, "free", "stmt", "none", "stmt")
    BY <1>1, <1>12 DEF ParityCall
  <2>2. Freeable("stmt") /\ ParityTorn(4)
    BY <1>6, <1>12 DEF Freeable
  <2> QED
    BY <1>4, <2>1, <2>2, TriedFree
    DEF Parts, ParityTorn, ParityFixtureTear, ParityOdbcTear, Handles
<1>13. ASSUME n = 3 PROVE ParityTorn(2)'
  <2>1. Parts(c, "disconnect", None, "none", "dbc")
    <3>1. ParityCall(c, 3)
      BY <1>1, <1>13
    <3> QED
      BY <3>1 DEF ParityCall
  <2>2. ParityFixtureTear(3) /\ (~unclean => ParityOdbcTear(3))
    BY <1>6, <1>13 DEF ParityTorn
  <2>3. (Holds(c.when) <=> "dbc" \in fixture.held) /\ (Legal(c) <=> odbc.session /\ ~odbc.work)
    BY <2>1 DEF Parts, Holds, Legal
  <2>4. Effect(c) = Disconnected(odbc)
    BY <2>1 DEF Parts, Effect
  <2>5. MembersAfter(c, FALSE) = fixture /\ MembersAfter(c, TRUE) = fixture
    BY <2>1 DEF Parts, MembersAfter
  <2>6. fixture' = fixture
    BY <1>4, <2>5 DEF Tried, Skipped, Succeeds, Refused, Breaks
  <2>7. ParityFixtureTear(2)'
    BY <2>2, <2>6 DEF ParityFixtureTear
  <2>8. CASE Skipped(c)
    <3>1. odbc' = odbc /\ unclean' = unclean /\ ~Holds(c.when)
      BY <2>8 DEF Skipped
    <3>2. ParityOdbcTear(3) => ParityOdbcTear(2)'
      BY <2>2, <2>3, <2>6, <3>1 DEF ParityFixtureTear, ParityOdbcTear
    <3> QED
      BY <2>2, <2>7, <3>1, <3>2 DEF ParityTorn
  <2>9. CASE Succeeds(c)
    <3>1. odbc' = Disconnected(odbc) /\ unclean' = unclean
      BY <2>4, <2>9 DEF Succeeds
    <3>2. /\ odbc'.live = odbc.live \ {"stmt", "extra", "cleanup"} /\ odbc'.session = FALSE
          /\ odbc'.work = odbc.work /\ odbc'.surprise = odbc.surprise
      BY <1>7, <3>1 DEF Disconnected, OdbcType
    <3>3. ParityOdbcTear(3) => ParityOdbcTear(2)'
      BY <2>2, <2>6, <3>2 DEF ParityFixtureTear, ParityOdbcTear
    <3> QED
      BY <2>2, <2>7, <3>1, <3>3 DEF ParityTorn
  <2>10. CASE Refused(c)
    <3>1. odbc' = odbc /\ unclean' = unclean /\ ~Legal(c)
      BY <2>10 DEF Refused
    <3>2. ParityOdbcTear(3) => ParityOdbcTear(2)'
      BY <2>2, <2>3, <2>6, <3>1 DEF ParityFixtureTear, ParityOdbcTear
    <3> QED
      BY <2>2, <2>7, <3>1, <3>2 DEF ParityTorn
  <2>11. CASE Breaks(c)
    BY <2>7, <2>11 DEF Breaks, ParityTorn
  <2> QED
    BY <1>4, <2>8, <2>9, <2>10, <2>11 DEF Tried
<1>14. ASSUME n = 2 PROVE ParityTorn(1)'
  <2>1. Parts(c, "free", "dbc", "none", "dbc")
    BY <1>1, <1>14 DEF ParityCall
  <2>2. (~unclean => Freeable("dbc")) /\ ParityTorn(2)
    BY <1>6, <1>14 DEF Freeable, ParityTorn, ParityOdbcTear
  <2> QED
    BY <1>4, <2>1, <2>2, TriedFree
    DEF Parts, ParityTorn, ParityFixtureTear, ParityOdbcTear, Handles
<1>15. ASSUME n = 1 PROVE ParityTorn(0)'
  <2>1. Parts(c, "free", "env", "none", "env")
    BY <1>1, <1>15 DEF ParityCall
  <2>2. (~unclean => Freeable("env")) /\ ParityTorn(1)
    BY <1>6, <1>15 DEF Freeable, ParityTorn, ParityFixtureTear, ParityOdbcTear
  <2> QED
    BY <1>4, <2>1, <2>2, TriedFree
    DEF Parts, ParityTorn, ParityFixtureTear, ParityOdbcTear, Handles
<1>20. ParityTorn(Len(rest))'
  <2> USE DEF ParityTorn, ParityFixtureTear, ParityOdbcTear
  <2>1. ASSUME n = 1 PROVE ParityTorn(Len(rest))'
    <3>1. Len(rest') = 0
      BY <1>5, <2>1
    <3> QED
      BY <1>15, <2>1, <3>1
  <2>2. ASSUME n = 2 PROVE ParityTorn(Len(rest))'
    <3>1. Len(rest') = 1
      BY <1>5, <2>2
    <3> QED
      BY <1>14, <2>2, <3>1
  <2>3. ASSUME n = 3 PROVE ParityTorn(Len(rest))'
    <3>1. Len(rest') = 2
      BY <1>5, <2>3
    <3> QED
      BY <1>13, <2>3, <3>1
  <2>4. ASSUME n = 4 PROVE ParityTorn(Len(rest))'
    <3>1. Len(rest') = 3
      BY <1>5, <2>4
    <3> QED
      BY <1>12, <2>4, <3>1
  <2>5. ASSUME n = 5 PROVE ParityTorn(Len(rest))'
    <3>1. Len(rest') = 4
      BY <1>5, <2>5
    <3> QED
      BY <1>11, <2>5, <3>1
  <2>6. n \in {1, 2, 3, 4, 5}
    <3> HIDE DEF n
    <3> QED
      BY <1>1
  <2> QED
    BY <2>1, <2>2, <2>3, <2>4, <2>5, <2>6
<1> QED
  BY <1>5, <1>20 DEF ParityTearInv, w

-----------------------------------------------------------------------------
(* The inductive invariant.                                                *)

Finished ==
    /\ ~unclean => Clean /\ ~odbc.surprise
    /\ unclean /\ test \in Conformance!Tests => failed

PhaseInv ==
    /\ phase \in {"setup", "body"} =>
        IF test \in Conformance!Tests THEN RunInv ELSE ParityInv
    /\ phase = "teardown" =>
        IF test \in Conformance!Tests THEN TearInv ELSE ParityTearInv
    /\ phase = "ended" => Finished
    /\ phase \in {"none", "killed"} => ~odbc.surprise

IInv == TypeInv /\ TablesInv /\ PhaseInv

LEMMA InitInv == Init => IInv
<1> SUFFICES ASSUME Init PROVE IInv
  OBVIOUS
<1>1. TypeInv
  <2>1. odbc \in OdbcType /\ fixture \in FixtureType /\ rest \in Seq(Calls)
    BY NewProcessType, NewFixtureType, EmptySeq DEF Init
  <2>2. faults \in 0..MaxFaults /\ processes \in 0..MaxProcesses /\ kills \in 0..MaxKills
    BY BoundsAssumption DEF Init
  <2>3. phase = "none" /\ test \in Tests \cup {None}
        /\ fatal \in BOOLEAN /\ failed \in BOOLEAN /\ unclean \in BOOLEAN
    BY DEF Init
  <2> QED
    BY <2>1, <2>2, <2>3 DEF TypeInv, Running
<1>2. TablesInv /\ PhaseInv
  BY DEF Init, TablesInv, PhaseInv, NewProcess
<1> QED
  BY <1>1, <1>2 DEF IInv

\* A table is created only where the fixture remembers its name.
LEMMA TablesStep ==
  ASSUME TypeInv, TablesInv, Skip \/ Succeed \/ Fail,
         Upcoming.name = "create" => fixture.metadata_table # None
  PROVE  TablesInv'
<1>1. fixture.metadata_table \in 1..MaxProcesses \cup {None}
  BY DEF TypeInv, FixtureType
<1>2. EffectOnTables(Upcoming) \subseteq 1..MaxProcesses
  BY <1>1 DEF EffectOnTables, TablesInv
<1>3. tables' = tables \/ tables' = EffectOnTables(Upcoming)
  BY DEF Skip, Succeed, Fail
<1> QED
  BY <1>2, <1>3 DEF TablesInv

LEMMA TearNames ==
  ASSUME TypeInv, TearInv, rest # <<>>
  PROVE  Upcoming.name # "create"
<1> DEFINE w == Conformance!TearDown
           m == Len(w) - Len(rest) + 1
<1>1. w \in Seq(Calls) /\ Len(w) = 9 /\ rest \in Seq(Calls) /\ Suffix(rest, w)
  BY ConformanceTearDownCalls DEF TypeInv, TearInv
<1>2. Upcoming = w[m]
  BY <1>1, SuffixTail DEF Upcoming
<1>3. m \in 1..9
  BY <1>1 DEF Suffix
<1> HIDE DEF m, w
<1>4. ConformanceCall(Upcoming, m)
  BY <1>2, <1>3, ConformanceTearDownCalls DEF w
<1>5. m \in {1, 2, 3, 4, 5, 6, 7, 8, 9}
  BY <1>3
<1> QED
  BY <1>4, <1>5 DEF ConformanceCall, Parts

LEMMA ParityTearNames ==
  ASSUME TypeInv, ParityTearInv, rest # <<>>
  PROVE  Upcoming.name # "create"
<1> DEFINE w == Parity!TearDown
           m == Len(w) - Len(rest) + 1
<1>1. w \in Seq(Calls) /\ Len(w) = 5 /\ rest \in Seq(Calls) /\ Suffix(rest, w)
  BY ParityTearDownCalls DEF TypeInv, ParityTearInv
<1>2. Upcoming = w[m]
  BY <1>1, SuffixTail DEF Upcoming
<1>3. m \in 1..5
  BY <1>1 DEF Suffix
<1> HIDE DEF m, w
<1>4. ParityCall(Upcoming, m)
  BY <1>2, <1>3, ParityTearDownCalls DEF w
<1>5. m \in {1, 2, 3, 4, 5}
  BY <1>3
<1> QED
  BY <1>4, <1>5 DEF ParityCall, Parts

LEMMA CallInv ==
  ASSUME IInv, Skip \/ Succeed \/ Fail
  PROVE  IInv'
<1>1. TypeInv /\ TablesInv /\ PhaseInv /\ Running /\ rest # <<>>
      /\ phase' = phase /\ test' = test
  BY DEF IInv, Skip, Succeed, Fail
<1>2. TypeInv'
  BY <1>1, StepType
<1>3. CASE phase \in {"setup", "body"} /\ test \in Conformance!Tests
  <2>1. RunInv
    BY <1>1, <1>3 DEF PhaseInv
  <2>2. RunInv'
    BY <1>1, <1>3, <2>1, RunStep
  <2>3. Upcoming.name = "create" => fixture.metadata_table # None
    BY <1>1, <2>1, HeadTells DEF RunInv, Upcoming
  <2> QED
    BY <1>1, <1>2, <1>3, <2>2, <2>3, TablesStep DEF IInv, PhaseInv
<1>4. CASE phase \in {"setup", "body"} /\ test \notin Conformance!Tests
  <2>1. ParityInv
    BY <1>1, <1>4 DEF PhaseInv
  <2>2. ParityInv' /\ Upcoming.name # "create"
    BY <1>1, <1>4, <2>1, ParityStep
  <2> QED
    BY <1>1, <1>2, <1>4, <2>2, TablesStep DEF IInv, PhaseInv
<1>5. CASE phase = "teardown" /\ test \in Conformance!Tests
  <2>1. TearInv
    BY <1>1, <1>5 DEF PhaseInv
  <2>2. TearInv'
    BY <1>1, <1>5, <2>1, TearStep
  <2>3. Upcoming.name # "create"
    BY <1>1, <2>1, TearNames
  <2> QED
    BY <1>1, <1>2, <1>5, <2>2, <2>3, TablesStep DEF IInv, PhaseInv
<1>6. CASE phase = "teardown" /\ test \notin Conformance!Tests
  <2>1. ParityTearInv
    BY <1>1, <1>6 DEF PhaseInv
  <2>2. ParityTearInv'
    BY <1>1, <1>6, <2>1, ParityTearStep
  <2>3. Upcoming.name # "create"
    BY <1>1, <2>1, ParityTearNames
  <2> QED
    BY <1>1, <1>2, <1>6, <2>2, <2>3, TablesStep DEF IInv, PhaseInv
<1> QED
  BY <1>1, <1>3, <1>4, <1>5, <1>6 DEF Running

LEMMA FreshTypes ==
  ASSUME TypeInv, NEW t \in Tests, Start(t, SetUpOf(t)),
         rest' \in Seq(ConformanceCalls) \/ rest' \in Seq(ParityCalls)
  PROVE  TypeInv'
<1>1. ConformanceCalls \subseteq Calls /\ ParityCalls \subseteq Calls
  BY DEF ConformanceCalls, ParityCalls
<1>2. rest' \in Seq(Calls)
  BY <1>1
<1>3. processes' \in 0..MaxProcesses /\ processes' > 0
  BY BoundsAssumption DEF TypeInv, Start
<1>4. faults' \in 0..MaxFaults
  BY BoundsAssumption DEF Start
<1> QED
  BY <1>2, <1>3, <1>4, NewProcessType, NewFixtureType DEF TypeInv, Start, Running

LEMMA StartInv ==
  ASSUME IInv, NEW t \in Tests, Start(t, SetUpOf(t))
  PROVE  IInv'
<1>1. odbc' = NewProcess /\ fixture' = NewFixture /\ phase' = "setup" /\ test' = t
      /\ rest' = SetUpOf(t) /\ fatal' = FALSE /\ failed' = FALSE /\ unclean' = FALSE
      /\ faults' = 0 /\ processes' = processes + 1 /\ processes < MaxProcesses
      /\ tables' = tables /\ kills' = kills
  BY DEF Start
<1>2. CASE t \in Conformance!Tests
  <2>1. /\ rest' \in Seq(ConformanceCalls) /\ rest' \in Seq(SetUpCalls)
        /\ Paired(rest') /\ Connects(rest') /\ Named(rest')
        /\ \E i \in DOMAIN rest' : rest'[i] = SetsMember("connected")
    BY <1>1, <1>2, CarefulSetUps DEF SetUpOf, Careful
  <2>2. RunInv'
    BY <1>1, <2>1
    DEF RunInv, NewProcess, NewFixture, SessionInv, WorkInv, Awaits
  <2> QED
    BY <1>1, <1>2, <2>1, <2>2, FreshTypes DEF IInv, PhaseInv, TablesInv
<1>3. CASE t \notin Conformance!Tests
  <2>1. rest' \in Seq(ParityCalls) /\ Connectable(rest')
    BY <1>1, <1>3, ParitySetUp DEF SetUpOf
  <2>2. ParityInv'
    BY <1>1, <2>1 DEF ParityInv, NewProcess, NewFixture
  <2> QED
    BY <1>1, <1>3, <2>1, <2>2, FreshTypes DEF IInv, PhaseInv, TablesInv
<1> QED
  BY <1>2, <1>3

LEMMA EnterBodyInv ==
  ASSUME IInv, EnterBody(BodyOf(test))
  PROVE  IInv'
<1>1. TypeInv /\ TablesInv /\ PhaseInv
  BY DEF IInv
<1>2. /\ phase = "setup" /\ phase' = "body" /\ rest = <<>> /\ ~fatal /\ rest' = BodyOf(test)
      /\ UNCHANGED <<odbc, tables, fixture, test, fatal, failed,
                     faults, processes, kills, unclean>>
  BY DEF EnterBody
<1>3. test \in Tests /\ processes > 0
  BY <1>1, <1>2 DEF TypeInv, Running
<1>4. CASE test \in Conformance!Tests
  <2>1. Careful(rest')
    BY <1>2, <1>4, CarefulBodies DEF BodyOf
  <2>2. RunInv
    BY <1>1, <1>2, <1>4 DEF PhaseInv
  <2>3. fixture.connected /\ odbc.session
    BY <1>2, <2>2 DEF RunInv, SessionInv, Awaits
  <2>4. SessionInv' /\ WorkInv'
    BY <1>2, <2>2, <2>3 DEF RunInv, SessionInv, WorkInv, Awaits
  <2>5. RunInv'
    BY <1>2, <2>1, <2>2, <2>3, <2>4 DEF RunInv, Careful
  <2>a. ConformanceCalls \subseteq Calls
    BY DEF ConformanceCalls
  <2>6. rest' \in Seq(Calls)
    BY <2>1, <2>a DEF Careful
  <2>7. TypeInv'
    BY <1>1, <1>2, <1>3, <2>6 DEF TypeInv, Running
  <2> QED
    BY <1>1, <1>2, <1>4, <2>5, <2>7 DEF IInv, PhaseInv, TablesInv
<1>5. CASE test \notin Conformance!Tests
  <2>1. rest' \in Seq(ParityCalls) /\ Connectable(rest')
    BY <1>2, <1>3, <1>5, ParityBodies DEF BodyOf, Tests
  <2>2. ParityInv
    BY <1>1, <1>2, <1>5 DEF PhaseInv
  <2>3. ParityInv'
    BY <1>2, <2>1, <2>2 DEF ParityInv
  <2>a. ParityCalls \subseteq Calls
    BY DEF ParityCalls
  <2>4. rest' \in Seq(Calls)
    BY <2>1, <2>a
  <2>5. TypeInv'
    BY <1>1, <1>2, <1>3, <2>4 DEF TypeInv, Running
  <2> QED
    BY <1>1, <1>2, <1>5, <2>3, <2>5 DEF IInv, PhaseInv, TablesInv
<1> QED
  BY <1>4, <1>5

LEMMA EnterTearDownInv ==
  ASSUME IInv, EnterTearDown(TearDownOf(test))
  PROVE  IInv'
<1>1. TypeInv /\ TablesInv /\ PhaseInv
  BY DEF IInv
<1>2. /\ phase = "body" \/ (phase = "setup" /\ fatal)
      /\ phase' = "teardown" /\ rest = <<>> /\ rest' = TearDownOf(test)
      /\ UNCHANGED <<odbc, tables, fixture, test, fatal, failed,
                     faults, processes, kills, unclean>>
  BY DEF EnterTearDown
<1>3. test \in Tests /\ processes > 0
  BY <1>1, <1>2 DEF TypeInv, Running
<1>4. CASE test \in Conformance!Tests
  <2>1. /\ rest' = Conformance!TearDown
        /\ Conformance!TearDown \in Seq(Calls) /\ Len(Conformance!TearDown) = 9
    BY <1>2, <1>4, ConformanceTearDownCalls DEF TearDownOf
  <2>2. RunInv
    BY <1>1, <1>2, <1>4 DEF PhaseInv
  <2>3. odbc.session = fixture.connected
    BY <1>1, <1>2, <2>2 DEF RunInv, SessionInv, Awaits, TypeInv, OdbcType, FixtureType
  <2>4. odbc.work => fixture.connected /\ fixture.manual_commit
    BY <1>2, <2>2 DEF RunInv, WorkInv
  <2>5. fixture.metadata_table # None => fixture.connected
    BY <1>2, <2>2 DEF RunInv
  <2>6. FixtureTear(9)'
    BY <1>2, <2>2, <2>5 DEF RunInv, FixtureTear
  <2>7. OdbcTear(9)'
    BY <1>2, <2>2, <2>3, <2>4 DEF RunInv, OdbcTear
  <2>8. ~unclean'
    BY <1>2, <2>2 DEF RunInv
  <2>9. Torn(Len(rest))'
    BY <2>1, <2>6, <2>7, <2>8 DEF Torn, FixtureTear, OdbcTear
  <2>10. Suffix(rest', Conformance!TearDown)
    BY <2>1, SuffixOfItself
  <2>11. TypeInv'
    BY <1>1, <1>2, <1>3, <2>1 DEF TypeInv, Running
  <2> QED
    BY <1>1, <1>2, <1>4, <2>9, <2>10, <2>11 DEF IInv, PhaseInv, TablesInv, TearInv
<1>5. CASE test \notin Conformance!Tests
  <2>1. /\ rest' = Parity!TearDown
        /\ Parity!TearDown \in Seq(Calls) /\ Len(Parity!TearDown) = 5
    BY <1>2, <1>5, ParityTearDownCalls DEF TearDownOf
  <2>2. ParityInv
    BY <1>1, <1>2, <1>5 DEF PhaseInv
  <2>3. ParityFixtureTear(5)'
    BY <1>2, <2>2 DEF ParityInv, ParityFixtureTear
  <2>4. ParityOdbcTear(5)'
    BY <1>2, <2>2 DEF ParityInv, ParityOdbcTear
  <2>5. ParityTorn(Len(rest))'
    BY <2>1, <2>3, <2>4 DEF ParityTorn, ParityFixtureTear, ParityOdbcTear
  <2>6. Suffix(rest', Parity!TearDown)
    BY <2>1, SuffixOfItself
  <2>7. TypeInv'
    BY <1>1, <1>2, <1>3, <2>1 DEF TypeInv, Running
  <2> QED
    BY <1>1, <1>2, <1>5, <2>5, <2>6, <2>7 DEF IInv, PhaseInv, TablesInv, ParityTearInv
<1> QED
  BY <1>4, <1>5

LEMMA EndInv ==
  ASSUME IInv, End
  PROVE  IInv'
<1>1. TypeInv /\ TablesInv /\ PhaseInv
  BY DEF IInv
<1>2. /\ phase = "teardown" /\ phase' = "ended" /\ rest = <<>> /\ rest' = <<>>
      /\ UNCHANGED <<odbc, tables, fixture, test, fatal, failed,
                     faults, processes, kills, unclean>>
  BY DEF End
<1>3. Len(rest) = 0
  BY <1>2
<1>4. TypeInv'
  BY <1>1, <1>2, EmptySeq DEF TypeInv, Running
<1>5. Finished
  <2>1. CASE test \in Conformance!Tests
    <3>1. TearInv
      BY <1>1, <1>2, <2>1 DEF PhaseInv
    <3>2. FixtureTear(0) /\ (unclean => failed) /\ (~unclean => OdbcTear(0))
      BY <1>3, <3>1 DEF TearInv, Torn
    <3>3. fixture.held = {}
      BY <3>2 DEF FixtureTear
    <3> QED
      BY <3>2, <3>3 DEF Finished, Clean, OdbcTear
  <2>2. CASE test \notin Conformance!Tests
    <3>1. ParityTearInv
      BY <1>1, <1>2, <2>2 DEF PhaseInv
    <3>2. ParityFixtureTear(0) /\ (~unclean => ParityOdbcTear(0))
      BY <1>3, <3>1 DEF ParityTearInv, ParityTorn
    <3>3. fixture.held = {}
      BY <3>2 DEF ParityFixtureTear
    <3>4. None \notin tables
      <4>1. \A k \in 1..MaxProcesses : k \in Nat
        BY BoundsAssumption
      <4> QED
        BY <1>1, <4>1, NoneAssumption DEF TablesInv
    <3> QED
      BY <2>2, <3>2, <3>3, <3>4 DEF Finished, Clean, ParityFixtureTear, ParityOdbcTear
  <2> QED
    BY <2>1, <2>2
<1>6. Finished'
  BY <1>2, <1>5 DEF Finished, Clean
<1> QED
  BY <1>1, <1>2, <1>4, <1>6 DEF IInv, PhaseInv, TablesInv

LEMMA KillInv ==
  ASSUME IInv, Kill
  PROVE  IInv'
<1>1. TypeInv /\ TablesInv /\ PhaseInv
  BY DEF IInv
<1>2. kills' \in 0..MaxKills
  BY <1>1, BoundsAssumption DEF TypeInv, Kill
<1>3. TypeInv'
  BY <1>1, <1>2, NewProcessType, EmptySeq DEF TypeInv, Kill, Running
<1> QED
  BY <1>1, <1>3 DEF IInv, PhaseInv, TablesInv, Kill, NewProcess

LEMMA NextInv == IInv /\ [Next]_vars => IInv'
<1> SUFFICES ASSUME IInv, [Next]_vars PROVE IInv'
  OBVIOUS
<1>1. CASE \E t \in Tests : Start(t, SetUpOf(t))
  BY <1>1, StartInv
<1>2. CASE Skip \/ Succeed \/ Fail
  BY <1>2, CallInv
<1>3. CASE Kill
  BY <1>3, KillInv
<1>4. CASE EnterBody(BodyOf(test))
  BY <1>4, EnterBodyInv
<1>5. CASE EnterTearDown(TearDownOf(test))
  BY <1>5, EnterTearDownInv
<1>6. CASE End
  BY <1>6, EndInv
<1>7. CASE UNCHANGED vars
  BY <1>7
  DEF vars, IInv, TypeInv, TablesInv, PhaseInv, RunInv, SessionInv, WorkInv, Awaits,
      TearInv, Torn, FixtureTear, OdbcTear, ParityInv, ParityTearInv, ParityTorn,
      ParityFixtureTear, ParityOdbcTear, Finished, Clean, Running
<1> QED
  BY <1>1, <1>2, <1>3, <1>4, <1>5, <1>6, <1>7 DEF Next

LEMMA Invariance == Spec => []IInv
  BY InitInv, NextInv, PTL DEF Spec

-----------------------------------------------------------------------------
(* The theorems.                                                           *)

\* The processes, their handles and the server's tables keep their types,
\* whatever calls fail and whatever is killed.
THEOREM TypeCorrect == Spec => []TypeOK
<1>1. IInv => TypeOK
  <2> SUFFICES ASSUME IInv PROVE TypeOK
    OBVIOUS
  <2>1. TypeInv /\ TablesInv
    BY DEF IInv
  <2>2. \A a \in odbc.addresses :
          a[1] \in {"column", "parameter", "attribute"} /\ a[2] \in Buffers
    BY <2>1 DEF TypeInv, OdbcType, Addresses
  <2> QED
    BY <2>1, <2>2 DEF TypeOK, TypeInv, TablesInv, OdbcType, FixtureType
<1> QED
  BY <1>1, Invariance, PTL

\* However SetUp and the body of a test end, TearDown leaves no handle,
\* session, transaction or table behind, unless a call of its own breaks.
THEOREM LeavesNothingAlways == Spec => []LeavesNothing
<1>1. IInv => LeavesNothing
  BY DEF IInv, PhaseInv, Finished, LeavesNothing
<1> QED
  BY <1>1, Invariance, PTL

\* A green test of conformance.cpp has cleaned up: EXPECT looks at each call.
THEOREM GreenMeansCleanAlways == Spec => []GreenMeansClean
<1>1. IInv => GreenMeansClean
  BY DEF IInv, TypeInv, PhaseInv, Finished, GreenMeansClean
<1> QED
  BY <1>1, Invariance, PTL

\* Autocommit is turned on when no transaction of the test is open any more.
THEOREM CommitsOnlyOnRequestAlways == Spec => []CommitsOnlyOnRequest
<1>1. IInv => CommitsOnlyOnRequest
  <2> SUFFICES ASSUME IInv, ~unclean PROVE ~odbc.surprise
    BY DEF CommitsOnlyOnRequest
  <2> USE DEF IInv, PhaseInv
  <2>1. CASE phase \in {"setup", "body"}
    BY <2>1 DEF RunInv, ParityInv
  <2>2. CASE phase = "teardown"
    BY <2>2 DEF TearInv, Torn, OdbcTear, ParityTearInv, ParityTorn, ParityOdbcTear
  <2>3. CASE phase = "ended"
    BY <2>3 DEF Finished
  <2>4. CASE phase \in {"none", "killed"}
    BY <2>4
  <2> QED
    BY <2>1, <2>2, <2>3, <2>4 DEF TypeInv
<1> QED
  BY <1>1, Invariance, PTL

\* No call of TearDown but the one that frees the statement finds it pointing
\* to a variable of the body.
THEOREM NoDanglingAddressesAlways == Spec => []NoDanglingAddresses
<1>1. IInv => NoDanglingAddresses
  <2> SUFFICES ASSUME IInv, phase = "teardown", rest # <<>>, "stmt" \in fixture.held,
                      ~(Upcoming.name = "free" /\ Upcoming.of = "stmt")
               PROVE  \A a \in odbc.addresses : a[2] \in Members
    BY DEF NoDanglingAddresses
  <2>1. TypeInv /\ rest \in Seq(Calls) /\ Len(rest) \in Nat
    BY DEF IInv, TypeInv
  <2>2. CASE test \in Conformance!Tests
    <3>1. TearInv
      BY <2>2 DEF IInv, PhaseInv
    <3>2. Conformance!TearDown \in Seq(Calls) /\ Len(Conformance!TearDown) = 9
          /\ ConformanceCall(Conformance!TearDown[1], 1)
      BY ConformanceTearDownCalls
    <3>3. Len(rest) = 9
      BY <2>1, <3>1, <3>2 DEF TearInv, Suffix, Torn, FixtureTear
    <3>4. Upcoming = Conformance!TearDown[9 - 9 + 1]
      BY <2>1, <3>1, <3>2, <3>3, SuffixTail DEF TearInv, Upcoming
    <3> QED
      BY <3>2, <3>4 DEF ConformanceCall, Parts
  <2>3. CASE test \notin Conformance!Tests
    <3>1. ParityTearInv
      BY <2>3 DEF IInv, PhaseInv
    <3>2. Parity!TearDown \in Seq(Calls) /\ Len(Parity!TearDown) = 5
          /\ ParityCall(Parity!TearDown[2], 2)
      BY ParityTearDownCalls
    <3> DEFINE n == Len(rest)
    <3>a. n \in Nat /\ n <= 5
      BY <2>1, <3>1, <3>2 DEF ParityTearInv, Suffix
    <3>b. ~(n <= 3)
      BY <3>1 DEF ParityTearInv, ParityTorn, ParityFixtureTear
    <3>c. n \in {4, 5}
      <4> HIDE DEF n
      <4> QED
        BY <3>a, <3>b
    <3>3. Len(rest) \in {4, 5}
      BY <3>c
    <3>4. Upcoming = Parity!TearDown[5 - Len(rest) + 1]
      BY <2>1, <3>1, <3>2, SuffixTail DEF ParityTearInv, Upcoming
    <3>5. Len(rest) # 4
      <4> SUFFICES ASSUME Len(rest) = 4 PROVE FALSE
        OBVIOUS
      <4>1. 5 - Len(rest) + 1 = 2
        OBVIOUS
      <4>2. Upcoming = Parity!TearDown[2]
        BY <3>4, <4>1
      <4> QED
        BY <3>2, <4>2 DEF ParityCall, Parts
    <3> QED
      BY <3>1, <3>3, <3>5 DEF ParityTearInv, ParityTorn, ParityFixtureTear
  <2> QED
    BY <2>2, <2>3
<1> QED
  BY <1>1, Invariance, PTL

-----------------------------------------------------------------------------
(* No test is red without a call that failed against the rules: every SetUp  *)
(* and every body makes calls that are legal where it makes them.            *)

Cursors == 0..3 \cup {None}

\* What the next calls depend on: how far the process is connected (an
\* environment, then a session), the rows left, and what became of the name of
\* the table.
Stages == [level : 0..2, cursor : Cursors, table : {"none", "named", "created"}]

At(x, table) == [level |-> 2, cursor |-> x, table |-> table]

Fresh == [level |-> 0, cursor |-> None, table |-> "none"]

Ready == At(None, "none")

\* The call is legal at the stage a.
Passes(c, a) ==
    /\ c.name \notin {"disconnect", "drop", "autocommit on"}
    /\ c.name = "alloc" =>
          \/ c.of = "env"
          \/ c.of = "dbc" /\ a.level > 0
          \/ c.of \in {"stmt", "extra"} /\ a.level = 2
    /\ c.name = "free" => c.of = "extra"
    /\ c.name = "connect" => a.level = 1
    /\ c.name = "set" => c.of # "metadata_table" \/ a.table = "none"
    /\ c.name \in {"prepare", "execute", "create"} => a.cursor = None
    /\ c.name = "create" => a.table = "named"
    /\ c.name = "fetch" => a.cursor \in 1..3
    /\ c.name = "end" => a.cursor = 0
    /\ c.name \in {"get", "close cursor"} => a.cursor \in 0..3

Left(c, x) ==
    CASE c.name = "execute" -> IF c.of = 0 THEN None ELSE c.of
      [] c.name = "fetch" -> IF x < c.of THEN 0 ELSE x - c.of
      [] c.name \in {"create", "close", "close cursor", "commit", "rollback"} -> None
      [] OTHER -> x

Goes(c, a) ==
    [level |-> IF c.name = "connect" THEN 2
               ELSE IF c.name = "alloc" /\ a.level = 0 THEN 1 ELSE a.level,
     cursor |-> Left(c, a.cursor),
     table |-> IF c.name = "create" THEN "created"
               ELSE IF c.name = "set" /\ c.of = "metadata_table" THEN "named"
               ELSE a.table]

\* A call takes a test from one stage to the next.  One that is skipped leads
\* nowhere else, and a statement whose errors are ignored may be refused.
Plays(c, a, b) ==
    \/ Passes(c, a) /\ b = Goes(c, a) /\ (c.when # "always" => b = a)
    \/ c.name = "execute" /\ c.check = "none" /\ c.when = "always" /\ ~Passes(c, a) /\ b = a

Playable(s, a, b) ==
    \E g \in Seq(Stages) :
        /\ Len(g) = Len(s) + 1 /\ g[1] = a /\ g[Len(g)] = b
        /\ \A i \in 1..Len(s) : Plays(s[i], g[i], g[i + 1])

LEMMA PlayNothing ==
  ASSUME NEW a \in Stages, NEW b
  PROVE  Playable(<<>>, a, b) <=> a = b
<1> DEFINE g == <<a>>
<1>1. g \in Seq(Stages) /\ Len(g) = Len(<<>>) + 1 /\ g[1] = a /\ g[Len(g)] = a
  OBVIOUS
<1>2. \A i \in 1..Len(<<>>) : Plays(<<>>[i], g[i], g[i + 1])
  OBVIOUS
<1>3. Playable(<<>>, a, a)
  BY <1>1, <1>2 DEF Playable
<1>4. Playable(<<>>, a, b) => a = b
  BY DEF Playable
<1> QED
  BY <1>3, <1>4

LEMMA PlayHead ==
  ASSUME NEW S, NEW s \in Seq(S), s # <<>>, NEW a, NEW b, Playable(s, a, b)
  PROVE  \E m \in Stages : Plays(Head(s), a, m) /\ Playable(Tail(s), m, b)
<1> DEFINE T == Tail(s)
<1>1. PICK g \in Seq(Stages) :
          /\ Len(g) = Len(s) + 1 /\ g[1] = a /\ g[Len(g)] = b
          /\ \A i \in 1..Len(s) : Plays(s[i], g[i], g[i + 1])
  BY DEF Playable
<1> DEFINE h == Tail(g)
<1>2. Head(s) = s[1] /\ Len(s) \in Nat /\ Len(s) > 0 /\ Len(T) = Len(s) - 1
      /\ \A i \in 1..Len(T) : T[i] = s[i + 1]
  OBVIOUS
<1>3. h \in Seq(Stages) /\ Len(h) = Len(g) - 1 /\ \A i \in 1..Len(h) : h[i] = g[i + 1]
  BY <1>1, <1>2
<1> HIDE DEF T, h
<1>4. Len(h) = Len(T) + 1 /\ h[1] = g[2] /\ h[Len(h)] = b /\ g[2] \in Stages
  BY <1>1, <1>2, <1>3
<1>5. Plays(s[1], g[1], g[2])
  <2>1. 1 \in 1..Len(s) /\ 1 + 1 = 2
    BY <1>2
  <2> QED
    BY <1>1, <2>1
<1>6. ASSUME NEW i \in 1..Len(T)
      PROVE  Plays(T[i], h[i], h[i + 1])
  <2> DEFINE k == i + 1
  <2>1. k \in 1..Len(s) /\ i \in 1..Len(h) /\ k \in 1..Len(h)
    BY <1>1, <1>2, <1>3, <1>4
  <2>2. T[i] = s[k] /\ h[i] = g[k] /\ h[k] = g[k + 1]
    BY <1>2, <1>3, <2>1
  <2>3. Plays(s[k], g[k], g[k + 1])
    BY <1>1, <2>1
  <2> QED
    BY <2>2, <2>3
<1>7. Playable(T, g[2], b)
  BY <1>3, <1>4, <1>6 DEF Playable
<1> QED
  BY <1>1, <1>2, <1>4, <1>5, <1>7 DEF T

LEMMA PlayConcat ==
  ASSUME NEW S, NEW s \in Seq(S), NEW u \in Seq(S),
         NEW a, NEW m, NEW b, Playable(s, a, m), Playable(u, m, b)
  PROVE  Playable(s \o u, a, b)
<1> DEFINE w == s \o u
<1>1. PICK g \in Seq(Stages) :
          /\ Len(g) = Len(s) + 1 /\ g[1] = a /\ g[Len(g)] = m
          /\ \A i \in 1..Len(s) : Plays(s[i], g[i], g[i + 1])
  BY DEF Playable
<1>2. PICK h \in Seq(Stages) :
          /\ Len(h) = Len(u) + 1 /\ h[1] = m /\ h[Len(h)] = b
          /\ \A i \in 1..Len(u) : Plays(u[i], h[i], h[i + 1])
  BY DEF Playable
<1> DEFINE L == Len(s)
           f == [i \in 1..(L + Len(u) + 1) |-> IF i <= L THEN g[i] ELSE h[i - L]]
<1>3. L \in Nat /\ Len(u) \in Nat /\ Len(w) = L + Len(u)
      /\ \A i \in 1..L : w[i] = s[i]
  OBVIOUS
<1>4. \A i \in 1..Len(u) : w[i + L] = u[i]
  OBVIOUS
<1>5. f \in Seq(Stages) /\ Len(f) = L + Len(u) + 1
  <2>1. ASSUME NEW i \in 1..(L + Len(u) + 1)
        PROVE  (IF i <= L THEN g[i] ELSE h[i - L]) \in Stages
    BY <1>1, <1>2, <1>3
  <2>2. f \in [1..(L + Len(u) + 1) -> Stages] /\ L + Len(u) + 1 \in Nat
    BY <2>1, <1>3
  <2> QED
    BY <2>2
<1>6. \A i \in 1..Len(f) : f[i] = IF i <= L THEN g[i] ELSE h[i - L]
  BY <1>5
<1> HIDE DEF f, w, L
<1>7. f[L + 1] = m /\ L + 1 \in 1..Len(f)
  <2>1. L + 1 \in 1..Len(f) /\ ~(L + 1 <= L) /\ (L + 1) - L = 1
    BY <1>3, <1>5
  <2> QED
    BY <1>2, <1>6, <2>1
<1>8. f[1] = a
  <2>1. 1 \in 1..Len(f)
    BY <1>3, <1>5
  <2>2. CASE L = 0
    BY <1>1, <1>7, <2>2 DEF L
  <2>3. CASE L # 0
    <3>1. 1 <= L
      BY <1>3, <2>3
    <3> QED
      BY <1>1, <1>6, <2>1, <3>1
  <2> QED
    BY <2>2, <2>3
<1>9. f[Len(f)] = b
  <2>1. Len(f) \in 1..Len(f) /\ ~(Len(f) <= L) /\ Len(f) - L = Len(h)
    BY <1>2, <1>3, <1>5
  <2> QED
    BY <1>2, <1>6, <2>1
<1>10. ASSUME NEW i \in 1..Len(w)
      PROVE  Plays(w[i], f[i], f[i + 1])
  <2>1. i \in 1..Len(f) /\ i + 1 \in 1..Len(f)
    BY <1>3, <1>5
  <2>2. CASE i < L
    <3>1. i \in 1..L /\ i <= L /\ i + 1 <= L
      BY <1>3, <2>2
    <3>2. w[i] = s[i] /\ f[i] = g[i] /\ f[i + 1] = g[i + 1]
      BY <1>3, <1>6, <2>1, <3>1
    <3> QED
      BY <1>1, <3>1, <3>2 DEF L
  <2>3. CASE i = L
    <3>1. i \in 1..L /\ i <= L /\ f[i + 1] = m
      BY <1>3, <1>7, <2>3
    <3>2. w[i] = s[i] /\ f[i] = g[i] /\ g[i + 1] = m
      BY <1>1, <1>3, <1>6, <2>1, <2>3, <3>1 DEF L
    <3> QED
      BY <1>1, <3>1, <3>2 DEF L
  <2>4. CASE i > L
    <3> DEFINE k == i - L
    <3>1. k \in 1..Len(u) /\ k + L = i
      BY <1>3, <2>4
    <3>2. ~(i <= L) /\ ~(i + 1 <= L) /\ (i + 1) - L = k + 1
      BY <1>3, <2>4
    <3>3. f[i] = h[k]
      BY <1>6, <2>1, <3>2
    <3>4. f[i + 1] = h[k + 1]
      BY <1>6, <2>1, <3>2
    <3> HIDE DEF k
    <3>5. w[k + L] = u[k]
      BY <1>4, <3>1
    <3>6. Plays(u[k], h[k], h[k + 1])
      BY <1>2, <3>1
    <3> QED
      BY <3>1, <3>3, <3>4, <3>5, <3>6
  <2> QED
    BY <1>3, <2>2, <2>3, <2>4
<1>11. Len(f) = Len(w) + 1
  BY <1>3, <1>5
<1> QED
  BY <1>5, <1>8, <1>9, <1>10, <1>11 DEF Playable, w

\* At a connected stage, only the rows left count.
Turns(c, x, y) ==
    \A t \in {"none", "named", "created"} : Plays(c, At(x, t), At(y, t))

Turning(s, x, y) ==
    /\ s \in Seq(Calls)
    /\ \A t \in {"none", "named", "created"} : Playable(s, At(x, t), At(y, t))

LEMMA TurnNothing ==
  ASSUME NEW x \in Cursors
  PROVE  Turning(<<>>, x, x)
<1>1. \A t \in {"none", "named", "created"} : At(x, t) \in Stages
  BY DEF At, Stages
<1> QED
  BY <1>1, PlayNothing, EmptySeq DEF Turning

LEMMA TurnConcat ==
  ASSUME NEW s, NEW u, NEW x, NEW y, NEW z, Turning(s, x, y), Turning(u, y, z)
  PROVE  Turning(s \o u, x, z)
<1>0. s \in Seq(Calls) /\ u \in Seq(Calls) /\ s \o u \in Seq(Calls)
  BY DEF Turning
<1> SUFFICES ASSUME NEW t \in {"none", "named", "created"}
             PROVE  Playable(s \o u, At(x, t), At(z, t))
  BY <1>0 DEF Turning
<1>1. Playable(s, At(x, t), At(y, t)) /\ Playable(u, At(y, t), At(z, t))
  BY DEF Turning
<1> QED
  BY <1>0, <1>1, PlayConcat

\* The rows left before each call and after the last one.
Traced(s, r) == Len(r) = Len(s) + 1 /\ \A i \in 1..Len(s) : Turns(s[i], r[i], r[i + 1])

LEMMA TurnTuple ==
  ASSUME NEW s \in Seq(Calls), NEW r \in Seq(Cursors), Traced(s, r)
  PROVE  Turning(s, r[1], r[Len(s) + 1])
<1> SUFFICES ASSUME NEW t \in {"none", "named", "created"}
             PROVE  Playable(s, At(r[1], t), At(r[Len(s) + 1], t))
  BY DEF Turning
<1> DEFINE g == [i \in 1..Len(r) |-> At(r[i], t)]
<1>1. Len(s) \in Nat /\ Len(r) = Len(s) + 1 /\ \A i \in 1..Len(r) : r[i] \in Cursors
  BY DEF Traced
<1>2. \A i \in 1..Len(r) : At(r[i], t) \in Stages
  BY <1>1 DEF At, Stages
<1>3. g \in [1..Len(r) -> Stages] /\ Len(r) \in Nat
  BY <1>1, <1>2
<1>4. g \in Seq(Stages) /\ Len(g) = Len(r)
  BY <1>3
<1>5. \A i \in 1..Len(r) : g[i] = At(r[i], t)
  OBVIOUS
<1> HIDE DEF g
<1>6. g[1] = At(r[1], t) /\ g[Len(g)] = At(r[Len(s) + 1], t)
  <2>1. 1 \in 1..Len(r) /\ Len(g) \in 1..Len(r)
    BY <1>1, <1>4
  <2> QED
    BY <1>1, <1>4, <1>5, <2>1
<1>7. ASSUME NEW i \in 1..Len(s)
      PROVE  Plays(s[i], g[i], g[i + 1])
  <2>1. i \in 1..Len(r) /\ i + 1 \in 1..Len(r)
    BY <1>1
  <2>2. Turns(s[i], r[i], r[i + 1])
    BY DEF Traced
  <2>3. Plays(s[i], At(r[i], t), At(r[i + 1], t))
    BY <2>2 DEF Turns
  <2> QED
    BY <1>5, <2>1, <2>3
<1> QED
  BY <1>1, <1>4, <1>6, <1>7 DEF Playable

LEMMA OneTurning ==
  ASSUME NEW c \in Calls, NEW x \in Cursors, NEW y \in Cursors, Turns(c, x, y)
  PROVE  Turning(<<c>>, x, y)
<1> DEFINE s == <<c>>
           r == <<x, y>>
<1>1. s \in Seq(Calls) /\ Len(s) = 1 /\ s[1] = c
  OBVIOUS
<1>2. r \in Seq(Cursors) /\ Len(r) = 2 /\ r[1] = x /\ r[2] = y
  OBVIOUS
<1> HIDE DEF s, r
<1>3. Traced(s, r)
  BY <1>1, <1>2 DEF Traced
<1>4. Turning(s, r[1], r[Len(s) + 1])
  BY <1>1, <1>2, <1>3, TurnTuple
<1> QED
  BY <1>1, <1>2, <1>4 DEF s

\* What each kind of call does to the rows left.
LEMMA CallTurns ==
  ASSUME NEW c \in Calls, c.when = "always"
  PROVE  /\ c.name \in {"ask", "point", "detach", "unbind", "autocommit off"} =>
              \A x \in Cursors : Turns(c, x, x)
         /\ c.name = "set" /\ c.of = "manual_commit" => \A x \in Cursors : Turns(c, x, x)
         /\ c.name = "alloc" /\ c.of = "extra" => \A x \in Cursors : Turns(c, x, x)
         /\ c.name \in {"close", "commit", "rollback"} => \A x \in Cursors : Turns(c, x, None)
         /\ c.name = "prepare" => Turns(c, None, None)
         /\ c.name = "execute" /\ c.of = 0 => Turns(c, None, None)
         /\ c.name = "execute" /\ c.of # 0 => Turns(c, None, c.of)
         /\ c.name = "execute" /\ c.check = "none" => \A x \in 0..3 : Turns(c, x, x)
         /\ c.name = "get" => \A x \in 0..3 : Turns(c, x, x)
         /\ c.name = "close cursor" => \A x \in 0..3 : Turns(c, x, None)
         /\ c.name = "end" => Turns(c, 0, 0)
<1> USE DEF Turns, Plays, Passes, Goes, Left, At, Cursors
<1>1. ASSUME c.name \in {"ask", "point", "detach", "unbind", "autocommit off"}
      PROVE  \A x \in Cursors : Turns(c, x, x)
  <2> TAKE x \in Cursors
  <2>1. \A t : Goes(c, At(x, t)) = At(x, t)
    BY <1>1
  <2>2. \A t : Passes(c, At(x, t))
    BY <1>1
  <2> QED
    BY <2>1, <2>2
<1>2. c.name = "set" /\ c.of = "manual_commit" => \A x \in Cursors : Turns(c, x, x)
  OBVIOUS
<1>3. c.name = "alloc" /\ c.of = "extra" => \A x \in Cursors : Turns(c, x, x)
  OBVIOUS
<1>4. c.name \in {"close", "commit", "rollback"} => \A x \in Cursors : Turns(c, x, None)
  OBVIOUS
<1>5. c.name = "prepare" => Turns(c, None, None)
  OBVIOUS
<1>6. c.name = "execute" /\ c.of = 0 => Turns(c, None, None)
  OBVIOUS
<1>7. c.name = "execute" /\ c.of # 0 => Turns(c, None, c.of)
  OBVIOUS
<1>8. c.name = "execute" /\ c.check = "none" => \A x \in 0..3 : Turns(c, x, x)
  <2>1. None \notin 0..3
    BY NoneAssumption
  <2> QED
    BY <2>1
<1>9. c.name = "get" => \A x \in 0..3 : Turns(c, x, x)
  OBVIOUS
<1>10. c.name = "close cursor" => \A x \in 0..3 : Turns(c, x, None)
  OBVIOUS
<1>11. c.name = "end" => Turns(c, 0, 0)
  OBVIOUS
<1> QED
  BY <1>1, <1>2, <1>3, <1>4, <1>5, <1>6, <1>7, <1>8, <1>9, <1>10, <1>11

LEMMA FetchTurns ==
  ASSUME NEW c \in Calls, c.when = "always", c.name = "fetch", NEW x \in 1..3, NEW y \in 0..3,
         y = IF x < c.of THEN 0 ELSE x - c.of
  PROVE  Turns(c, x, y)
  BY DEF Turns, Plays, Passes, Goes, Left, At

\* FreeStmt
LEMMA FreeTurns ==
  ASSUME NEW c \in Calls, c.name = "free", c.of = "extra", NEW x \in Cursors
  PROVE  Turns(c, x, x)
  BY DEF Turns, Plays, Passes, Goes, Left, At

LEMMA PlainAreCalls ==
  ASSUME NEW c \in PlainCalls
  PROVE  c \in Calls /\ c.when = "always"
  BY DEF PlainCalls, SetUpCalls, ConformanceCalls

LEMMA SomeCursors == {0, 1, 2, 3, None} \subseteq Cursors
  BY DEF Cursors

\* The calls of conformance.cpp by name.
LEMMA ConformanceTurns ==
  /\ \A x \in Cursors : Turns(Conformance!Ask, x, x)
  /\ \A x \in Cursors : Turns(Conformance!Unbind, x, x)
  /\ \A x \in Cursors : \A k \in {"column", "parameter", "attribute"} : \A b \in Buffers :
        Turns(Conformance!Point(k, b), x, x)
  /\ \A x \in Cursors : \A b \in Buffers : Turns(Conformance!Detach(b), x, x)
  /\ \A x \in Cursors : Turns(Conformance!CloseCursor, x, None)
  /\ \A x \in 0..3 : Turns(Conformance!GetData, x, x)
  /\ Turns(Conformance!Prepare, None, None)
  /\ Turns(Conformance!Execute(0), None, None)
  /\ \A n \in 1..3 : Turns(Conformance!Execute(n), None, n)
  /\ Turns(Conformance!EndOfData, 0, 0)
  /\ Turns(Conformance!Fetch(1), 3, 2) /\ Turns(Conformance!Fetch(1), 2, 1)
  /\ Turns(Conformance!Fetch(1), 1, 0)
  /\ Turns(Conformance!Fetch(2), 3, 1) /\ Turns(Conformance!Fetch(2), 1, 0)
<1> USE DEF Conformance!Assert, Conformance!Expect, Conformance!Call
<1>1. \A x \in Cursors : Turns(Conformance!Ask, x, x)
  <2>1. Conformance!Ask.name = "ask"
    BY DEF Conformance!Ask
  <2> QED
    BY <2>1, PlainOnes, PlainAreCalls, CallTurns
<1>2. \A x \in Cursors : Turns(Conformance!Unbind, x, x)
  <2>1. Conformance!Unbind.name = "unbind"
    BY DEF Conformance!Unbind
  <2> QED
    BY <2>1, PlainOnes, PlainAreCalls, CallTurns
<1>3. ASSUME NEW x \in Cursors, NEW k \in {"column", "parameter", "attribute"}, NEW b \in Buffers
      PROVE  Turns(Conformance!Point(k, b), x, x)
  <2>1. Conformance!Point(k, b).name = "point"
    BY DEF Conformance!Point
  <2> QED
    BY <2>1, PlainOnes, PlainAreCalls, CallTurns
<1>4. ASSUME NEW x \in Cursors, NEW b \in Buffers
      PROVE  Turns(Conformance!Detach(b), x, x)
  <2>1. Conformance!Detach(b).name = "detach"
    BY DEF Conformance!Detach
  <2> QED
    BY <2>1, PlainOnes, PlainAreCalls, CallTurns
<1>5. \A x \in Cursors : Turns(Conformance!CloseCursor, x, None)
  <2>1. Conformance!CloseCursor.name = "close"
    BY DEF Conformance!CloseCursor
  <2> QED
    BY <2>1, PlainOnes, PlainAreCalls, CallTurns
<1>6. \A x \in 0..3 : Turns(Conformance!GetData, x, x)
  <2>1. Conformance!GetData.name = "get"
    BY DEF Conformance!GetData
  <2> QED
    BY <2>1, PlainOnes, PlainAreCalls, CallTurns
<1>7. Turns(Conformance!Prepare, None, None)
  <2>1. Conformance!Prepare.name = "prepare"
    BY DEF Conformance!Prepare
  <2> QED
    BY <2>1, PlainOnes, PlainAreCalls, CallTurns
<1>8. ASSUME NEW n \in 0..3
      PROVE  Turns(Conformance!Execute(n), None, IF n = 0 THEN None ELSE n)
  <2>1. Conformance!Execute(n).name = "execute" /\ Conformance!Execute(n).of = n
    BY DEF Conformance!Execute
  <2> QED
    BY <2>1, PlainOnes, PlainAreCalls, CallTurns
<1>9. Turns(Conformance!EndOfData, 0, 0)
  <2>1. Conformance!EndOfData.name = "end"
    BY DEF Conformance!EndOfData
  <2> QED
    BY <2>1, PlainOnes, PlainAreCalls, CallTurns
<1>10. ASSUME NEW k \in 1..3, NEW x \in 1..3, NEW y \in 0..3, y = IF x < k THEN 0 ELSE x - k
       PROVE  Turns(Conformance!Fetch(k), x, y)
  <2>1. Conformance!Fetch(k).name = "fetch" /\ Conformance!Fetch(k).of = k
    BY DEF Conformance!Fetch
  <2>2. Conformance!Fetch(k) \in Calls /\ Conformance!Fetch(k).when = "always"
    BY PlainOnes, PlainAreCalls
  <2> HIDE DEF Conformance!Assert
  <2> QED
    BY <1>10, <2>1, <2>2, FetchTurns
<1>11. Turns(Conformance!Fetch(1), 3, 2) /\ Turns(Conformance!Fetch(1), 2, 1)
       /\ Turns(Conformance!Fetch(1), 1, 0)
       /\ Turns(Conformance!Fetch(2), 3, 1) /\ Turns(Conformance!Fetch(2), 1, 0)
  BY <1>10
<1>12. Turns(Conformance!Execute(0), None, None)
       /\ \A n \in 1..3 : Turns(Conformance!Execute(n), None, n)
  BY <1>8
<1> QED
  BY <1>1, <1>2, <1>3, <1>4, <1>5, <1>6, <1>7, <1>9, <1>11, <1>12

LEMMA TestBuffers ==
  {"storage", "left", "right", "value", "buffers", "fetched", "status", "rows", "values", "after"}
      \subseteq Buffers
  BY TestBuffersAssumption DEF Buffers

LEMMA OtherOnes ==
  /\ Conformance!Expect("get", None) \in PlainCalls /\ Conformance!Expect("fetch", 1) \in PlainCalls
  /\ Conformance!Assert("end", None) \in PlainCalls
  /\ Conformance!Assert("rollback", None) \in PlainCalls
  /\ Conformance!Assert("commit", None) \in PlainCalls
<1> DEFINE one == 1
<1>1. one \in 0..3 /\ one \in 1..3
  OBVIOUS
<1> HIDE DEF one
<1>2. Conformance!Expect("fetch", one) \in PlainCalls
  BY <1>1 DEF PlainCalls, SetUpCalls, ConformanceCalls, Calls, Names, Conditions,
              Conformance!Expect, Conformance!Call
<1>3. /\ Conformance!Expect("get", None) \in PlainCalls
      /\ Conformance!Assert("end", None) \in PlainCalls
      /\ Conformance!Assert("rollback", None) \in PlainCalls
      /\ Conformance!Assert("commit", None) \in PlainCalls
  BY DEF PlainCalls, SetUpCalls, ConformanceCalls, Calls, Names, Conditions,
         Conformance!Expect, Conformance!Assert, Conformance!Call
<1> QED
  BY <1>2, <1>3 DEF one

LEMMA OtherTurns ==
  /\ \A x \in 0..3 : Turns(Conformance!Expect("get", None), x, x)
  /\ Turns(Conformance!Expect("fetch", 1), 1, 0)
  /\ Turns(Conformance!Assert("end", None), 0, 0)
  /\ \A x \in Cursors : Turns(Conformance!Assert("rollback", None), x, None)
  /\ \A x \in Cursors : Turns(Conformance!Assert("commit", None), x, None)
<1>1. /\ Conformance!Expect("get", None).name = "get"
      /\ Conformance!Expect("fetch", 1).name = "fetch" /\ Conformance!Expect("fetch", 1).of = 1
      /\ Conformance!Assert("end", None).name = "end"
      /\ Conformance!Assert("rollback", None).name = "rollback"
      /\ Conformance!Assert("commit", None).name = "commit"
  BY DEF Conformance!Expect, Conformance!Assert, Conformance!Call
<1>2. Turns(Conformance!Expect("fetch", 1), 1, 0)
  <2> DEFINE c == Conformance!Expect("fetch", 1)
  <2>1. c \in Calls /\ c.when = "always" /\ c.name = "fetch" /\ c.of = 1
    BY <1>1, OtherOnes, PlainAreCalls
  <2> HIDE DEF c
  <2>2. Turns(c, 1, 0)
    BY <2>1, FetchTurns
  <2> QED
    BY <2>2 DEF c
<1> QED
  BY <1>1, <1>2, OtherOnes, PlainAreCalls, CallTurns

LEMMA RunTurns == Turning(Conformance!Run(0), None, None)
<1> DEFINE s == <<Conformance!Execute(0), Conformance!CloseCursor>>
           r == <<None, None, None>>
<1>1. s \in Seq(Calls) /\ Len(s) = 2
  BY PlainOnes, PlainAreCalls
<1>2. r \in Seq(Cursors) /\ Len(r) = 3 /\ r[1] = None /\ r[3] = None
  BY SomeCursors
<1>3. /\ Turns(s[1], r[1], r[2]) /\ Turns(s[2], r[2], r[3])
  BY SomeCursors, ConformanceTurns
<1> HIDE DEF s, r
<1>4. Traced(s, r)
  <2>1. \A i \in 1..2 : i \in {1, 2}
    OBVIOUS
  <2> QED
    BY <1>1, <1>2, <1>3, <2>1 DEF Traced
<1>5. Turning(s, r[1], r[Len(s) + 1])
  BY <1>1, <1>2, <1>4, TurnTuple
<1> QED
  BY <1>1, <1>2, <1>5 DEF s, Conformance!Run

LEMMA ExpectScalarTurns == Turning(Conformance!ExpectScalar, None, None)
<1> DEFINE s == <<Conformance!Execute(1), Conformance!Fetch(1), Conformance!GetData,
                  Conformance!EndOfData, Conformance!CloseCursor>>
           r == <<None, 1, 0, 0, 0, None>>
<1>1. s \in Seq(Calls) /\ Len(s) = 5
  BY PlainOnes, PlainAreCalls
<1>2. r \in Seq(Cursors) /\ Len(r) = 6 /\ r[1] = None /\ r[6] = None
  BY SomeCursors
<1>3. /\ Turns(s[1], r[1], r[2]) /\ Turns(s[2], r[2], r[3]) /\ Turns(s[3], r[3], r[4])
      /\ Turns(s[4], r[4], r[5]) /\ Turns(s[5], r[5], r[6])
  BY SomeCursors, ConformanceTurns
<1> HIDE DEF s, r
<1>4. Traced(s, r)
  <2>1. \A i \in 1..5 : i \in {1, 2, 3, 4, 5}
    OBVIOUS
  <2> QED
    BY <1>1, <1>2, <1>3, <2>1 DEF Traced
<1>5. Turning(s, r[1], r[Len(s) + 1])
  BY <1>1, <1>2, <1>4, TurnTuple
<1> QED
  BY <1>1, <1>2, <1>5 DEF s, Conformance!ExpectScalar

LEMMA GetDataOfSampleTurns == Turning(Conformance!GetDataOfSample, None, None)
<1> DEFINE s == <<Conformance!Execute(3), Conformance!Fetch(1), Conformance!Ask,
                  Conformance!GetData, Conformance!Fetch(1), Conformance!Ask,
                  Conformance!GetData, Conformance!Fetch(1), Conformance!Ask,
                  Conformance!GetData, Conformance!EndOfData, Conformance!CloseCursor,
                  Conformance!Unbind>>
           r == <<None, 3, 2, 2, 2, 1, 1, 1, 0, 0, 0, 0, None, None>>
<1>1. s \in Seq(Calls) /\ Len(s) = 13
  BY PlainOnes, PlainAreCalls
<1>2. r \in Seq(Cursors) /\ Len(r) = 14 /\ r[1] = None /\ r[14] = None
  BY SomeCursors
<1>3. /\ Turns(s[1], r[1], r[2]) /\ Turns(s[2], r[2], r[3]) /\ Turns(s[3], r[3], r[4])
      /\ Turns(s[4], r[4], r[5]) /\ Turns(s[5], r[5], r[6]) /\ Turns(s[6], r[6], r[7])
      /\ Turns(s[7], r[7], r[8]) /\ Turns(s[8], r[8], r[9])
      /\ Turns(s[9], r[9], r[10]) /\ Turns(s[10], r[10], r[11])
      /\ Turns(s[11], r[11], r[12]) /\ Turns(s[12], r[12], r[13])
      /\ Turns(s[13], r[13], r[14])
  BY SomeCursors, ConformanceTurns
<1> HIDE DEF s, r
<1>4. Traced(s, r)
  <2>1. \A i \in 1..13 : i \in {1, 2, 3, 4, 5, 6, 7, 8, 9, 10, 11, 12, 13}
    OBVIOUS
  <2> QED
    BY <1>1, <1>2, <1>3, <2>1 DEF Traced
<1>5. Turning(s, r[1], r[Len(s) + 1])
  BY <1>1, <1>2, <1>4, TurnTuple
<1> QED
  BY <1>1, <1>2, <1>5 DEF s, Conformance!GetDataOfSample

LEMMA ConnectionTurns == Turning(Conformance!Connection, None, None)
<1> DEFINE s == <<Conformance!Ask, Conformance!Ask, Conformance!Ask>>
           r == <<None, None, None, None>>
<1>1. s \in Seq(Calls) /\ Len(s) = 3
  BY PlainOnes, PlainAreCalls
<1>2. r \in Seq(Cursors) /\ Len(r) = 4 /\ r[1] = None /\ r[4] = None
  BY SomeCursors
<1>3. /\ Turns(s[1], r[1], r[2]) /\ Turns(s[2], r[2], r[3]) /\ Turns(s[3], r[3], r[4])
  BY SomeCursors, ConformanceTurns
<1> HIDE DEF s, r
<1>4. Traced(s, r)
  <2>1. \A i \in 1..3 : i \in {1, 2, 3}
    OBVIOUS
  <2> QED
    BY <1>1, <1>2, <1>3, <2>1 DEF Traced
<1>5. Turning(s, r[1], r[Len(s) + 1])
  BY <1>1, <1>2, <1>4, TurnTuple
<1> QED
  BY <1>1, <1>2, <1>5 DEF s, Conformance!Connection

LEMMA DiagnosticsTurns == Turning(Conformance!Diagnostics, None, None)
<1> DEFINE s == <<Conformance!Ask, Conformance!Ask>>
           r == <<None, None, None>>
<1>1. s \in Seq(Calls) /\ Len(s) = 2
  BY PlainOnes, PlainAreCalls
<1>2. r \in Seq(Cursors) /\ Len(r) = 3 /\ r[1] = None /\ r[3] = None
  BY SomeCursors
<1>3. /\ Turns(s[1], r[1], r[2]) /\ Turns(s[2], r[2], r[3])
  BY SomeCursors, ConformanceTurns
<1> HIDE DEF s, r
<1>4. Traced(s, r)
  <2>1. \A i \in 1..2 : i \in {1, 2}
    OBVIOUS
  <2> QED
    BY <1>1, <1>2, <1>3, <2>1 DEF Traced
<1>5. Turning(s, r[1], r[Len(s) + 1])
  BY <1>1, <1>2, <1>4, TurnTuple
<1> QED
  BY <1>1, <1>2, <1>5 DEF s, Conformance!Diagnostics

LEMMA StatementsTurns == Turning(Conformance!Statements, None, 0)
<1> DEFINE s == <<Conformance!Execute(1), Conformance!Ask, Conformance!Ask,
                  Conformance!Fetch(1), Conformance!GetData, Conformance!EndOfData>>
           r == <<None, 1, 1, 1, 0, 0, 0>>
<1>1. s \in Seq(Calls) /\ Len(s) = 6
  BY PlainOnes, PlainAreCalls
<1>2. r \in Seq(Cursors) /\ Len(r) = 7 /\ r[1] = None /\ r[7] = 0
  BY SomeCursors
<1>3. /\ Turns(s[1], r[1], r[2]) /\ Turns(s[2], r[2], r[3]) /\ Turns(s[3], r[3], r[4])
      /\ Turns(s[4], r[4], r[5]) /\ Turns(s[5], r[5], r[6]) /\ Turns(s[6], r[6], r[7])
  BY SomeCursors, ConformanceTurns
<1> HIDE DEF s, r
<1>4. Traced(s, r)
  <2>1. \A i \in 1..6 : i \in {1, 2, 3, 4, 5, 6}
    OBVIOUS
  <2> QED
    BY <1>1, <1>2, <1>3, <2>1 DEF Traced
<1>5. Turning(s, r[1], r[Len(s) + 1])
  BY <1>1, <1>2, <1>4, TurnTuple
<1> QED
  BY <1>1, <1>2, <1>5 DEF s, Conformance!Statements

LEMMA ParametersTurns == Turning(Conformance!Parameters, None, 0)
<1> DEFINE s == <<Conformance!Prepare, Conformance!Point("parameter", "left"),
                  Conformance!Point("parameter", "right"), Conformance!Execute(1),
                  Conformance!Fetch(1), Conformance!GetData, Conformance!EndOfData>>
           r == <<None, None, None, None, 1, 0, 0, 0>>
<1>1. s \in Seq(Calls) /\ Len(s) = 7
  BY TestBuffers, PlainOnes, PlainAreCalls
<1>2. r \in Seq(Cursors) /\ Len(r) = 8 /\ r[1] = None /\ r[8] = 0
  BY SomeCursors
<1>3. /\ Turns(s[1], r[1], r[2]) /\ Turns(s[2], r[2], r[3]) /\ Turns(s[3], r[3], r[4])
      /\ Turns(s[4], r[4], r[5]) /\ Turns(s[5], r[5], r[6]) /\ Turns(s[6], r[6], r[7])
      /\ Turns(s[7], r[7], r[8])
  BY SomeCursors, TestBuffers, ConformanceTurns
<1> HIDE DEF s, r
<1>4. Traced(s, r)
  <2>1. \A i \in 1..7 : i \in {1, 2, 3, 4, 5, 6, 7}
    OBVIOUS
  <2> QED
    BY <1>1, <1>2, <1>3, <2>1 DEF Traced
<1>5. Turning(s, r[1], r[Len(s) + 1])
  BY <1>1, <1>2, <1>4, TurnTuple
<1> QED
  BY <1>1, <1>2, <1>5 DEF s, Conformance!Parameters

LEMMA BindColumnsTurns == Turning(Conformance!BindColumns, None, None)
<1> DEFINE s == <<Conformance!Execute(3), Conformance!Ask,
                  Conformance!Point("column", "buffers"), Conformance!Fetch(1),
                  Conformance!Fetch(1), Conformance!Fetch(1), Conformance!EndOfData,
                  Conformance!CloseCursor, Conformance!Unbind>>
           r == <<None, 3, 3, 3, 2, 1, 0, 0, None, None>>
<1>1. s \in Seq(Calls) /\ Len(s) = 9
  BY TestBuffers, PlainOnes, PlainAreCalls
<1>2. r \in Seq(Cursors) /\ Len(r) = 10 /\ r[1] = None /\ r[10] = None
  BY SomeCursors
<1>3. /\ Turns(s[1], r[1], r[2]) /\ Turns(s[2], r[2], r[3]) /\ Turns(s[3], r[3], r[4])
      /\ Turns(s[4], r[4], r[5]) /\ Turns(s[5], r[5], r[6]) /\ Turns(s[6], r[6], r[7])
      /\ Turns(s[7], r[7], r[8]) /\ Turns(s[8], r[8], r[9]) /\ Turns(s[9], r[9], r[10])
  BY SomeCursors, TestBuffers, ConformanceTurns
<1> HIDE DEF s, r
<1>4. Traced(s, r)
  <2>1. \A i \in 1..9 : i \in {1, 2, 3, 4, 5, 6, 7, 8, 9}
    OBVIOUS
  <2> QED
    BY <1>1, <1>2, <1>3, <2>1 DEF Traced
<1>5. Turning(s, r[1], r[Len(s) + 1])
  BY <1>1, <1>2, <1>4, TurnTuple
<1> QED
  BY <1>1, <1>2, <1>5 DEF s, Conformance!BindColumns

LEMMA FetchScrollTurns == Turning(Conformance!FetchScroll, None, None)
<1> DEFINE s == <<Conformance!Ask, Conformance!Ask,
                  Conformance!Point("attribute", "fetched"),
                  Conformance!Point("attribute", "status"), Conformance!Execute(3),
                  Conformance!Point("column", "rows"), Conformance!Ask,
                  Conformance!Fetch(2), Conformance!Fetch(2), Conformance!EndOfData,
                  Conformance!CloseCursor, Conformance!Unbind,
                  Conformance!Detach("fetched"), Conformance!Detach("status")>>
           r == <<None, None, None, None, None, 3, 3, 3, 1, 0, 0, None, None, None,
                  None>>
<1>1. s \in Seq(Calls) /\ Len(s) = 14
  BY TestBuffers, PlainOnes, PlainAreCalls
<1>2. r \in Seq(Cursors) /\ Len(r) = 15 /\ r[1] = None /\ r[15] = None
  BY SomeCursors
<1>3. /\ Turns(s[1], r[1], r[2]) /\ Turns(s[2], r[2], r[3]) /\ Turns(s[3], r[3], r[4])
      /\ Turns(s[4], r[4], r[5]) /\ Turns(s[5], r[5], r[6]) /\ Turns(s[6], r[6], r[7])
      /\ Turns(s[7], r[7], r[8]) /\ Turns(s[8], r[8], r[9])
      /\ Turns(s[9], r[9], r[10]) /\ Turns(s[10], r[10], r[11])
      /\ Turns(s[11], r[11], r[12]) /\ Turns(s[12], r[12], r[13])
      /\ Turns(s[13], r[13], r[14]) /\ Turns(s[14], r[14], r[15])
  BY SomeCursors, TestBuffers, ConformanceTurns
<1> HIDE DEF s, r
<1>4. Traced(s, r)
  <2>1. \A i \in 1..14 : i \in {1, 2, 3, 4, 5, 6, 7, 8, 9, 10, 11, 12, 13, 14}
    OBVIOUS
  <2> QED
    BY <1>1, <1>2, <1>3, <2>1 DEF Traced
<1>5. Turning(s, r[1], r[Len(s) + 1])
  BY <1>1, <1>2, <1>4, TurnTuple
<1> QED
  BY <1>1, <1>2, <1>5 DEF s, Conformance!FetchScroll

LEMMA NullBinaryGetDataTurns == Turning(Conformance!NullBinaryGetData, None, None)
<1> DEFINE s == <<Conformance!Execute(1), Conformance!Fetch(1),
                  Conformance!Expect("get", None), Conformance!EndOfData,
                  Conformance!CloseCursor>>
           r == <<None, 1, 0, 0, 0, None>>
<1>1. s \in Seq(Calls) /\ Len(s) = 5
  BY PlainOnes, OtherOnes, PlainAreCalls
<1>2. r \in Seq(Cursors) /\ Len(r) = 6 /\ r[1] = None /\ r[6] = None
  BY SomeCursors
<1>3. /\ Turns(s[1], r[1], r[2]) /\ Turns(s[2], r[2], r[3]) /\ Turns(s[3], r[3], r[4])
      /\ Turns(s[4], r[4], r[5]) /\ Turns(s[5], r[5], r[6])
  BY SomeCursors, ConformanceTurns, OtherTurns
<1> HIDE DEF s, r
<1>4. Traced(s, r)
  <2>1. \A i \in 1..5 : i \in {1, 2, 3, 4, 5}
    OBVIOUS
  <2> QED
    BY <1>1, <1>2, <1>3, <2>1 DEF Traced
<1>5. Turning(s, r[1], r[Len(s) + 1])
  BY <1>1, <1>2, <1>4, TurnTuple
<1> QED
  BY <1>1, <1>2, <1>5 DEF s, Conformance!NullBinaryGetData

LEMMA NullBinaryBindColTurns == Turning(Conformance!NullBinaryBindCol, None, None)
<1> DEFINE s == <<Conformance!Execute(1), Conformance!Point("column", "storage"),
                  Conformance!Expect("fetch", 1), Conformance!EndOfData,
                  Conformance!Unbind, Conformance!CloseCursor>>
           r == <<None, 1, 1, 0, 0, 0, None>>
<1>1. s \in Seq(Calls) /\ Len(s) = 6
  BY TestBuffers, PlainOnes, OtherOnes, PlainAreCalls
<1>2. r \in Seq(Cursors) /\ Len(r) = 7 /\ r[1] = None /\ r[7] = None
  BY SomeCursors
<1>3. /\ Turns(s[1], r[1], r[2]) /\ Turns(s[2], r[2], r[3]) /\ Turns(s[3], r[3], r[4])
      /\ Turns(s[4], r[4], r[5]) /\ Turns(s[5], r[5], r[6]) /\ Turns(s[6], r[6], r[7])
  BY SomeCursors, TestBuffers, ConformanceTurns, OtherTurns
<1> HIDE DEF s, r
<1>4. Traced(s, r)
  <2>1. \A i \in 1..6 : i \in {1, 2, 3, 4, 5, 6}
    OBVIOUS
  <2> QED
    BY <1>1, <1>2, <1>3, <2>1 DEF Traced
<1>5. Turning(s, r[1], r[Len(s) + 1])
  BY <1>1, <1>2, <1>4, TurnTuple
<1> QED
  BY <1>1, <1>2, <1>5 DEF s, Conformance!NullBinaryBindCol

LEMMA FetchScrollEndOfDataRowsFetchedTurns == Turning(Conformance!FetchScrollEndOfDataRowsFetched, None, 0)
<1> DEFINE s == <<Conformance!Ask, Conformance!Point("attribute", "fetched"),
                  Conformance!Execute(3), Conformance!Point("column", "values"),
                  Conformance!Fetch(2), Conformance!Fetch(2),
                  Conformance!Assert("end", None), Conformance!Detach("fetched")>>
           r == <<None, None, None, 3, 3, 1, 0, 0, 0>>
<1>1. s \in Seq(Calls) /\ Len(s) = 8
  BY TestBuffers, PlainOnes, OtherOnes, PlainAreCalls
<1>2. r \in Seq(Cursors) /\ Len(r) = 9 /\ r[1] = None /\ r[9] = 0
  BY SomeCursors
<1>3. /\ Turns(s[1], r[1], r[2]) /\ Turns(s[2], r[2], r[3]) /\ Turns(s[3], r[3], r[4])
      /\ Turns(s[4], r[4], r[5]) /\ Turns(s[5], r[5], r[6]) /\ Turns(s[6], r[6], r[7])
      /\ Turns(s[7], r[7], r[8]) /\ Turns(s[8], r[8], r[9])
  BY SomeCursors, TestBuffers, ConformanceTurns, OtherTurns
<1> HIDE DEF s, r
<1>4. Traced(s, r)
  <2>1. \A i \in 1..8 : i \in {1, 2, 3, 4, 5, 6, 7, 8}
    OBVIOUS
  <2> QED
    BY <1>1, <1>2, <1>3, <2>1 DEF Traced
<1>5. Turning(s, r[1], r[Len(s) + 1])
  BY <1>1, <1>2, <1>4, TurnTuple
<1> QED
  BY <1>1, <1>2, <1>5 DEF s, Conformance!FetchScrollEndOfDataRowsFetched

LEMMA DataTypesSetUpTurns == Turning(Conformance!DataTypesSetUp, None, None)
<1>1. Turning(<<Conformance!Ask>>, None, None)
  <2> DEFINE s == <<Conformance!Ask>>
             r == <<None, None>>
  <2>1. s \in Seq(Calls) /\ Len(s) = 1
    BY PlainOnes, PlainAreCalls
  <2>2. r \in Seq(Cursors) /\ Len(r) = 2 /\ r[1] = None /\ r[2] = None
    BY SomeCursors
  <2>3. Turns(s[1], r[1], r[2])
    BY SomeCursors, ConformanceTurns
  <2> HIDE DEF s, r
  <2>4. Traced(s, r)
    BY <2>1, <2>2, <2>3 DEF Traced
  <2>5. Turning(s, r[1], r[Len(s) + 1])
    BY <2>1, <2>2, <2>4, TurnTuple
  <2> QED
    BY <2>1, <2>2, <2>5 DEF s
<1>2. Turning(<<Conformance!Execute(3), Conformance!Fetch(1), Conformance!GetData,
                Conformance!Fetch(1), Conformance!GetData, Conformance!Fetch(1),
                Conformance!GetData, Conformance!EndOfData,
                Conformance!CloseCursor>>, None, None)
  <2> DEFINE s == <<Conformance!Execute(3), Conformance!Fetch(1), Conformance!GetData,
                    Conformance!Fetch(1), Conformance!GetData, Conformance!Fetch(1),
                    Conformance!GetData, Conformance!EndOfData, Conformance!CloseCursor>>
             r == <<None, 3, 2, 2, 1, 1, 0, 0, 0, None>>
  <2>1. s \in Seq(Calls) /\ Len(s) = 9
    BY PlainOnes, PlainAreCalls
  <2>2. r \in Seq(Cursors) /\ Len(r) = 10 /\ r[1] = None /\ r[10] = None
    BY SomeCursors
  <2>3. /\ Turns(s[1], r[1], r[2]) /\ Turns(s[2], r[2], r[3]) /\ Turns(s[3], r[3], r[4])
        /\ Turns(s[4], r[4], r[5]) /\ Turns(s[5], r[5], r[6]) /\ Turns(s[6], r[6], r[7])
        /\ Turns(s[7], r[7], r[8]) /\ Turns(s[8], r[8], r[9]) /\ Turns(s[9], r[9], r[10])
    BY SomeCursors, ConformanceTurns
  <2> HIDE DEF s, r
  <2>4. Traced(s, r)
    <3>1. \A i \in 1..9 : i \in {1, 2, 3, 4, 5, 6, 7, 8, 9}
      OBVIOUS
    <3> QED
      BY <2>1, <2>2, <2>3, <3>1 DEF Traced
  <2>5. Turning(s, r[1], r[Len(s) + 1])
    BY <2>1, <2>2, <2>4, TurnTuple
  <2> QED
    BY <2>1, <2>2, <2>5 DEF s
<1> QED
  BY <1>1, <1>2, RunTurns, TurnConcat DEF Conformance!DataTypesSetUp

LEMMA DataTypesGetDataTurns == Turning(Conformance!DataTypesGetData, None, None)
  BY GetDataOfSampleTurns, TurnConcat DEF Conformance!DataTypesGetData

LEMMA ChunksTurn ==
  /\ Turning(Conformance!Chunks, 3, 2) /\ Turning(Conformance!Chunks, 2, 1)
  /\ Turning(Conformance!Chunks, 1, 0)
<1>1. Turning(Conformance!Chunks, 3, 2)
  <2> DEFINE s == <<Conformance!Fetch(1), Conformance!GetData, Conformance!GetData,
                    Conformance!Expect("get", None)>>
             r == <<3, 2, 2, 2, 2>>
  <2>1. s \in Seq(Calls) /\ Len(s) = 4
    BY PlainOnes, OtherOnes, PlainAreCalls
  <2>2. r \in Seq(Cursors) /\ Len(r) = 5 /\ r[1] = 3 /\ r[5] = 2
    BY SomeCursors
  <2>3. /\ Turns(s[1], r[1], r[2]) /\ Turns(s[2], r[2], r[3]) /\ Turns(s[3], r[3], r[4])
        /\ Turns(s[4], r[4], r[5])
    BY SomeCursors, ConformanceTurns, OtherTurns
  <2> HIDE DEF s, r
  <2>4. Traced(s, r)
    <3>1. \A i \in 1..4 : i \in {1, 2, 3, 4}
      OBVIOUS
    <3> QED
      BY <2>1, <2>2, <2>3, <3>1 DEF Traced
  <2>5. Turning(s, r[1], r[Len(s) + 1])
    BY <2>1, <2>2, <2>4, TurnTuple
  <2> QED
    BY <2>1, <2>2, <2>5 DEF s, Conformance!Chunks
<1>2. Turning(Conformance!Chunks, 2, 1)
  <2> DEFINE s == <<Conformance!Fetch(1), Conformance!GetData, Conformance!GetData,
                    Conformance!Expect("get", None)>>
             r == <<2, 1, 1, 1, 1>>
  <2>1. s \in Seq(Calls) /\ Len(s) = 4
    BY PlainOnes, OtherOnes, PlainAreCalls
  <2>2. r \in Seq(Cursors) /\ Len(r) = 5 /\ r[1] = 2 /\ r[5] = 1
    BY SomeCursors
  <2>3. /\ Turns(s[1], r[1], r[2]) /\ Turns(s[2], r[2], r[3]) /\ Turns(s[3], r[3], r[4])
        /\ Turns(s[4], r[4], r[5])
    BY SomeCursors, ConformanceTurns, OtherTurns
  <2> HIDE DEF s, r
  <2>4. Traced(s, r)
    <3>1. \A i \in 1..4 : i \in {1, 2, 3, 4}
      OBVIOUS
    <3> QED
      BY <2>1, <2>2, <2>3, <3>1 DEF Traced
  <2>5. Turning(s, r[1], r[Len(s) + 1])
    BY <2>1, <2>2, <2>4, TurnTuple
  <2> QED
    BY <2>1, <2>2, <2>5 DEF s, Conformance!Chunks
<1>3. Turning(Conformance!Chunks, 1, 0)
  <2> DEFINE s == <<Conformance!Fetch(1), Conformance!GetData, Conformance!GetData,
                    Conformance!Expect("get", None)>>
             r == <<1, 0, 0, 0, 0>>
  <2>1. s \in Seq(Calls) /\ Len(s) = 4
    BY PlainOnes, OtherOnes, PlainAreCalls
  <2>2. r \in Seq(Cursors) /\ Len(r) = 5 /\ r[1] = 1 /\ r[5] = 0
    BY SomeCursors
  <2>3. /\ Turns(s[1], r[1], r[2]) /\ Turns(s[2], r[2], r[3]) /\ Turns(s[3], r[3], r[4])
        /\ Turns(s[4], r[4], r[5])
    BY SomeCursors, ConformanceTurns, OtherTurns
  <2> HIDE DEF s, r
  <2>4. Traced(s, r)
    <3>1. \A i \in 1..4 : i \in {1, 2, 3, 4}
      OBVIOUS
    <3> QED
      BY <2>1, <2>2, <2>3, <3>1 DEF Traced
  <2>5. Turning(s, r[1], r[Len(s) + 1])
    BY <2>1, <2>2, <2>4, TurnTuple
  <2> QED
    BY <2>1, <2>2, <2>5 DEF s, Conformance!Chunks
<1> QED
  BY <1>1, <1>2, <1>3

LEMMA ChunkedTurns == Turning(Conformance!ChunkedGetData, None, None)
<1>1. Turning(<<Conformance!Execute(3)>>, None, 3)
  <2> DEFINE s == <<Conformance!Execute(3)>>
             r == <<None, 3>>
  <2>1. s \in Seq(Calls) /\ Len(s) = 1
    BY PlainOnes, PlainAreCalls
  <2>2. r \in Seq(Cursors) /\ Len(r) = 2 /\ r[1] = None /\ r[2] = 3
    BY SomeCursors
  <2>3. Turns(s[1], r[1], r[2])
    BY SomeCursors, ConformanceTurns
  <2> HIDE DEF s, r
  <2>4. Traced(s, r)
    BY <2>1, <2>2, <2>3 DEF Traced
  <2>5. Turning(s, r[1], r[Len(s) + 1])
    BY <2>1, <2>2, <2>4, TurnTuple
  <2> QED
    BY <2>1, <2>2, <2>5 DEF s
<1>2. Turning(<<Conformance!EndOfData, Conformance!CloseCursor,
                Conformance!Unbind>>, 0, None)
  <2> DEFINE s == <<Conformance!EndOfData, Conformance!CloseCursor, Conformance!Unbind>>
             r == <<0, 0, None, None>>
  <2>1. s \in Seq(Calls) /\ Len(s) = 3
    BY PlainOnes, PlainAreCalls
  <2>2. r \in Seq(Cursors) /\ Len(r) = 4 /\ r[1] = 0 /\ r[4] = None
    BY SomeCursors
  <2>3. /\ Turns(s[1], r[1], r[2]) /\ Turns(s[2], r[2], r[3]) /\ Turns(s[3], r[3], r[4])
    BY SomeCursors, ConformanceTurns
  <2> HIDE DEF s, r
  <2>4. Traced(s, r)
    <3>1. \A i \in 1..3 : i \in {1, 2, 3}
      OBVIOUS
    <3> QED
      BY <2>1, <2>2, <2>3, <3>1 DEF Traced
  <2>5. Turning(s, r[1], r[Len(s) + 1])
    BY <2>1, <2>2, <2>4, TurnTuple
  <2> QED
    BY <2>1, <2>2, <2>5 DEF s
<1>3. Turning(Conformance!ChunksOfSample, None, None)
  BY <1>1, <1>2, ChunksTurn, TurnConcat DEF Conformance!ChunksOfSample
<1> QED
  BY <1>3, TurnConcat DEF Conformance!ChunkedGetData

LEMMA UnicodeTurns == Turning(Conformance!Unicode, None, 0)
<1>1. Turning(<<Conformance!Prepare,
                Conformance!Point("parameter", "value")>>, None, None)
  <2> DEFINE s == <<Conformance!Prepare, Conformance!Point("parameter", "value")>>
             r == <<None, None, None>>
  <2>1. s \in Seq(Calls) /\ Len(s) = 2
    BY TestBuffers, PlainOnes, PlainAreCalls
  <2>2. r \in Seq(Cursors) /\ Len(r) = 3 /\ r[1] = None /\ r[3] = None
    BY SomeCursors
  <2>3. /\ Turns(s[1], r[1], r[2]) /\ Turns(s[2], r[2], r[3])
    BY SomeCursors, TestBuffers, ConformanceTurns
  <2> HIDE DEF s, r
  <2>4. Traced(s, r)
    <3>1. \A i \in 1..2 : i \in {1, 2}
      OBVIOUS
    <3> QED
      BY <2>1, <2>2, <2>3, <3>1 DEF Traced
  <2>5. Turning(s, r[1], r[Len(s) + 1])
    BY <2>1, <2>2, <2>4, TurnTuple
  <2> QED
    BY <2>1, <2>2, <2>5 DEF s
<1>2. Turning(<<Conformance!Execute(1), Conformance!Fetch(1), Conformance!GetData,
                Conformance!EndOfData>>, None, 0)
  <2> DEFINE s == <<Conformance!Execute(1), Conformance!Fetch(1), Conformance!GetData,
                    Conformance!EndOfData>>
             r == <<None, 1, 0, 0, 0>>
  <2>1. s \in Seq(Calls) /\ Len(s) = 4
    BY PlainOnes, PlainAreCalls
  <2>2. r \in Seq(Cursors) /\ Len(r) = 5 /\ r[1] = None /\ r[5] = 0
    BY SomeCursors
  <2>3. /\ Turns(s[1], r[1], r[2]) /\ Turns(s[2], r[2], r[3]) /\ Turns(s[3], r[3], r[4])
        /\ Turns(s[4], r[4], r[5])
    BY SomeCursors, ConformanceTurns
  <2> HIDE DEF s, r
  <2>4. Traced(s, r)
    <3>1. \A i \in 1..4 : i \in {1, 2, 3, 4}
      OBVIOUS
    <3> QED
      BY <2>1, <2>2, <2>3, <3>1 DEF Traced
  <2>5. Turning(s, r[1], r[Len(s) + 1])
    BY <2>1, <2>2, <2>4, TurnTuple
  <2> QED
    BY <2>1, <2>2, <2>5 DEF s
<1> QED
  BY <1>1, <1>2, RunTurns, TurnConcat DEF Conformance!Unicode

LEMMA TimestampAliasTurns == Turning(Conformance!TimestampAlias, None, 0)
<1>1. Turning(<<Conformance!Execute(1), Conformance!Fetch(1), Conformance!GetData,
                Conformance!CloseCursor>>, None, None)
  <2> DEFINE s == <<Conformance!Execute(1), Conformance!Fetch(1), Conformance!GetData,
                    Conformance!CloseCursor>>
             r == <<None, 1, 0, 0, None>>
  <2>1. s \in Seq(Calls) /\ Len(s) = 4
    BY PlainOnes, PlainAreCalls
  <2>2. r \in Seq(Cursors) /\ Len(r) = 5 /\ r[1] = None /\ r[5] = None
    BY SomeCursors
  <2>3. /\ Turns(s[1], r[1], r[2]) /\ Turns(s[2], r[2], r[3]) /\ Turns(s[3], r[3], r[4])
        /\ Turns(s[4], r[4], r[5])
    BY SomeCursors, ConformanceTurns
  <2> HIDE DEF s, r
  <2>4. Traced(s, r)
    <3>1. \A i \in 1..4 : i \in {1, 2, 3, 4}
      OBVIOUS
    <3> QED
      BY <2>1, <2>2, <2>3, <3>1 DEF Traced
  <2>5. Turning(s, r[1], r[Len(s) + 1])
    BY <2>1, <2>2, <2>4, TurnTuple
  <2> QED
    BY <2>1, <2>2, <2>5 DEF s
<1>2. Turning(<<Conformance!Execute(1), Conformance!Point("column", "after"),
                Conformance!Fetch(1), Conformance!EndOfData>>, None, 0)
  <2> DEFINE s == <<Conformance!Execute(1), Conformance!Point("column", "after"),
                    Conformance!Fetch(1), Conformance!EndOfData>>
             r == <<None, 1, 1, 0, 0>>
  <2>1. s \in Seq(Calls) /\ Len(s) = 4
    BY TestBuffers, PlainOnes, PlainAreCalls
  <2>2. r \in Seq(Cursors) /\ Len(r) = 5 /\ r[1] = None /\ r[5] = 0
    BY SomeCursors
  <2>3. /\ Turns(s[1], r[1], r[2]) /\ Turns(s[2], r[2], r[3]) /\ Turns(s[3], r[3], r[4])
        /\ Turns(s[4], r[4], r[5])
    BY SomeCursors, TestBuffers, ConformanceTurns
  <2> HIDE DEF s, r
  <2>4. Traced(s, r)
    <3>1. \A i \in 1..4 : i \in {1, 2, 3, 4}
      OBVIOUS
    <3> QED
      BY <2>1, <2>2, <2>3, <3>1 DEF Traced
  <2>5. Turning(s, r[1], r[Len(s) + 1])
    BY <2>1, <2>2, <2>4, TurnTuple
  <2> QED
    BY <2>1, <2>2, <2>5 DEF s
<1> QED
  BY <1>1, <1>2, RunTurns, TurnConcat DEF Conformance!TimestampAlias

LEMMA TransactionsTurns == Turning(Conformance!Transactions, None, None)
<1> DEFINE off == Conformance!Assert("autocommit off", None)
           set == Conformance!Ignore("set", "manual_commit")
<1>1. /\ off \in Calls /\ off.when = "always" /\ off.name = "autocommit off"
      /\ set \in Calls /\ set.when = "always" /\ set.name = "set" /\ set.of = "manual_commit"
  BY DEF Calls, Names, Conditions, Settable, Conformance!Assert, Conformance!Ignore, Conformance!Call
<1> HIDE DEF off, set
<1>2. off \in Calls /\ set \in Calls
  BY <1>1
<1>3. Turns(off, None, None) /\ Turns(set, None, None)
  BY <1>1, SomeCursors, CallTurns
<1>4. Turning(<<off, set>>, None, None)
  <2> DEFINE s == <<off, set>>
             r == <<None, None, None>>
  <2>1. s \in Seq(Calls) /\ Len(s) = 2
    BY <1>2, PlainAreCalls
  <2>2. r \in Seq(Cursors) /\ Len(r) = 3 /\ r[1] = None /\ r[3] = None
    BY SomeCursors
  <2>3. /\ Turns(s[1], r[1], r[2]) /\ Turns(s[2], r[2], r[3])
    BY SomeCursors, <1>3
  <2> HIDE DEF s, r
  <2>4. Traced(s, r)
    <3>1. \A i \in 1..2 : i \in {1, 2}
      OBVIOUS
    <3> QED
      BY <2>1, <2>2, <2>3, <3>1 DEF Traced
  <2>5. Turning(s, r[1], r[Len(s) + 1])
    BY <2>1, <2>2, <2>4, TurnTuple
  <2> QED
    BY <2>1, <2>2, <2>5 DEF s
<1>5. Turning(<<Conformance!Assert("rollback", None)>>, None, None)
  <2> DEFINE s == <<Conformance!Assert("rollback", None)>>
             r == <<None, None>>
  <2>1. s \in Seq(Calls) /\ Len(s) = 1
    BY OtherOnes, PlainAreCalls
  <2>2. r \in Seq(Cursors) /\ Len(r) = 2 /\ r[1] = None /\ r[2] = None
    BY SomeCursors
  <2>3. Turns(s[1], r[1], r[2])
    BY SomeCursors, OtherTurns
  <2> HIDE DEF s, r
  <2>4. Traced(s, r)
    BY <2>1, <2>2, <2>3 DEF Traced
  <2>5. Turning(s, r[1], r[Len(s) + 1])
    BY <2>1, <2>2, <2>4, TurnTuple
  <2> QED
    BY <2>1, <2>2, <2>5 DEF s
<1>6. Turning(<<Conformance!Assert("commit", None)>>, None, None)
  <2> DEFINE s == <<Conformance!Assert("commit", None)>>
             r == <<None, None>>
  <2>1. s \in Seq(Calls) /\ Len(s) = 1
    BY OtherOnes, PlainAreCalls
  <2>2. r \in Seq(Cursors) /\ Len(r) = 2 /\ r[1] = None /\ r[2] = None
    BY SomeCursors
  <2>3. Turns(s[1], r[1], r[2])
    BY SomeCursors, OtherTurns
  <2> HIDE DEF s, r
  <2>4. Traced(s, r)
    BY <2>1, <2>2, <2>3 DEF Traced
  <2>5. Turning(s, r[1], r[Len(s) + 1])
    BY <2>1, <2>2, <2>4, TurnTuple
  <2> QED
    BY <2>1, <2>2, <2>5 DEF s
<1> DEFINE p == Conformance!Run(0) \o <<off, set>> \o Conformance!Run(0)
           q == p \o <<Conformance!Assert("rollback", None)>> \o Conformance!ExpectScalar
           t == q \o Conformance!Run(0) \o <<Conformance!Assert("commit", None)>>
<1>7. Turning(p, None, None)
  BY <1>4, RunTurns, TurnConcat
<1> HIDE DEF p
<1>8. Turning(q, None, None)
  BY <1>5, <1>7, ExpectScalarTurns, TurnConcat
<1> HIDE DEF q
<1>9. Turning(t, None, None)
  BY <1>6, <1>8, RunTurns, TurnConcat
<1> HIDE DEF t
<1>10. Turning(t \o Conformance!ExpectScalar, None, None)
  BY <1>9, ExpectScalarTurns, TurnConcat
<1> QED
  BY <1>10 DEF Conformance!Transactions, t, q, p, off, set

LEMMA CatalogTurns ==
  /\ Turning(Conformance!Catalog(1), None, 0) /\ Turning(Conformance!Catalog(2), None, 0)
<1>1. Turning(<<Conformance!Assert("end", None)>>, 0, 0)
  <2> DEFINE s == <<Conformance!Assert("end", None)>>
             r == <<0, 0>>
  <2>1. s \in Seq(Calls) /\ Len(s) = 1
    BY OtherOnes, PlainAreCalls
  <2>2. r \in Seq(Cursors) /\ Len(r) = 2 /\ r[1] = 0 /\ r[2] = 0
    BY SomeCursors
  <2>3. Turns(s[1], r[1], r[2])
    BY SomeCursors, OtherTurns
  <2> HIDE DEF s, r
  <2>4. Traced(s, r)
    BY <2>1, <2>2, <2>3 DEF Traced
  <2>5. Turning(s, r[1], r[Len(s) + 1])
    BY <2>1, <2>2, <2>4, TurnTuple
  <2> QED
    BY <2>1, <2>2, <2>5 DEF s
<1>2. ASSUME NEW n \in {1, 2}, NEW r \in Seq(Cursors), Len(r) = 2 * n + 1,
             \A i \in 1..(2 * n) :
                 Turns(IF i % 2 = 1 THEN Conformance!Fetch(1) ELSE Conformance!GetData,
                       r[i], r[i + 1]),
             r[1] = n, r[2 * n + 1] = 0
      PROVE  Turning(Conformance!Catalog(n), None, 0)
  <2> DEFINE m == 2 * n
             f == [i \in 1..m |-> IF i % 2 = 1 THEN Conformance!Fetch(1)
                                  ELSE Conformance!GetData]
  <2>1. m \in Nat /\ Conformance!Fetch(1) \in Calls /\ Conformance!GetData \in Calls
    BY PlainOnes, PlainAreCalls
  <2>2. f \in [1..m -> Calls]
    BY <2>1
  <2>3. f \in Seq(Calls) /\ Len(f) = m
    BY <2>1, <2>2
  <2>4. Traced(f, r)
    BY <1>2, <2>3 DEF Traced
  <2>5. Turning(f, n, 0)
    BY <1>2, <2>3, <2>4, TurnTuple
  <2> HIDE DEF f
  <2>6. Turning(<<Conformance!Execute(n)>>, None, n)
    BY SomeCursors, ConformanceTurns, PlainOnes, PlainAreCalls, OneTurning
  <2>7. Turning(<<Conformance!Execute(n)>> \o f \o <<Conformance!Assert("end", None)>>, None, 0)
    BY <1>1, <2>5, <2>6, TurnConcat
  <2> QED
    BY <2>7 DEF Conformance!Catalog, f
<1>3. Turning(Conformance!Catalog(1), None, 0)
  <2> DEFINE r == <<1, 0, 0>>
  <2>1. r \in Seq(Cursors) /\ Len(r) = 3 /\ r[1] = 1 /\ r[2] = 0 /\ r[3] = 0
    BY SomeCursors
  <2> HIDE DEF r
  <2>2. ASSUME NEW i \in 1..2
        PROVE  Turns(IF i % 2 = 1 THEN Conformance!Fetch(1) ELSE Conformance!GetData,
                     r[i], r[i + 1])
    <3>1. i = 1 \/ i = 2
      OBVIOUS
    <3> QED
      BY <2>1, <3>1, ConformanceTurns
  <2> QED
    BY <1>2, <2>1, <2>2
<1>4. Turning(Conformance!Catalog(2), None, 0)
  <2> DEFINE r == <<2, 1, 1, 0, 0>>
  <2>1. r \in Seq(Cursors) /\ Len(r) = 5
        /\ r[1] = 2 /\ r[2] = 1 /\ r[3] = 1 /\ r[4] = 0 /\ r[5] = 0
    BY SomeCursors
  <2> HIDE DEF r
  <2>2. ASSUME NEW i \in 1..4
        PROVE  Turns(IF i % 2 = 1 THEN Conformance!Fetch(1) ELSE Conformance!GetData,
                     r[i], r[i + 1])
    <3>1. i = 1 \/ i = 2 \/ i = 3 \/ i = 4
      OBVIOUS
    <3> QED
      BY <2>1, <3>1, ConformanceTurns
  <2> QED
    BY <1>2, <2>1, <2>2
<1> QED
  BY <1>3, <1>4

Staged(s, g) == Len(g) = Len(s) + 1 /\ \A i \in 1..Len(s) : Plays(s[i], g[i], g[i + 1])

LEMMA PlayTuple ==
  ASSUME NEW s \in Seq(Calls), NEW g \in Seq(Stages), Staged(s, g)
  PROVE  Playable(s, g[1], g[Len(s) + 1])
  BY DEF Playable, Staged

LEMMA MetadataPlays == Playable(Conformance!Metadata, Ready, At(0, "created"))
<1> DEFINE set == Conformance!Ignore("set", "metadata_table")
           create == Conformance!Assert("create", None)
           close == Conformance!CloseCursor
           s == <<set, create, close>>
           a == At(None, "none")
           b == At(None, "named")
           c == At(None, "created")
           g == <<a, b, c, c>>
<1>1. /\ set \in Calls /\ create \in Calls /\ close \in Calls
      /\ set.name = "set" /\ set.of = "metadata_table" /\ set.when = "always"
      /\ create.name = "create" /\ create.when = "always"
  BY PlainOnes, PlainAreCalls
  DEF Calls, Names, Conditions, Settable, Conformance!Assert, Conformance!Ignore, Conformance!Call
<1>2. Plays(close, c, c)
  BY SomeCursors, ConformanceTurns DEF Turns
<1> HIDE DEF set, create, close
<1>3. Plays(set, a, b)
  BY <1>1 DEF Plays, Passes, Goes, Left, At
<1>4. Plays(create, b, c)
  BY <1>1 DEF Plays, Passes, Goes, Left, At
<1>5. a \in Stages /\ b \in Stages /\ c \in Stages
  BY DEF At, Stages, Cursors
<1> HIDE DEF a, b, c
<1>6. set \in Calls /\ create \in Calls /\ close \in Calls
  BY <1>1
<1>7. s \in Seq(Calls) /\ Len(s) = 3 /\ s[1] = set /\ s[2] = create /\ s[3] = close
  BY <1>6
<1>8. g \in Seq(Stages) /\ Len(g) = 4 /\ g[1] = a /\ g[2] = b /\ g[3] = c /\ g[4] = c
  BY <1>5
<1> HIDE DEF s, g
<1>9. Staged(s, g)
  <2>1. \A i \in 1..3 : i \in {1, 2, 3}
    OBVIOUS
  <2> QED
    BY <1>2, <1>3, <1>4, <1>7, <1>8, <2>1 DEF Staged
<1>10. Playable(s, a, c)
  <2>1. Playable(s, g[1], g[Len(s) + 1])
    BY <1>7, <1>8, <1>9, PlayTuple
  <2> QED
    BY <1>7, <1>8, <2>1
<1>11. Turning(<<Conformance!CloseCursor>>, 0, None)
  BY SomeCursors, ConformanceTurns, PlainOnes, PlainAreCalls, OneTurning
<1> DEFINE p == s \o Conformance!Catalog(1)
           q == p \o <<Conformance!CloseCursor>>
<1>12. Playable(p, a, At(0, "created")) /\ p \in Seq(Calls)
  BY <1>7, <1>10, CatalogTurns, PlayConcat DEF Turning, c
<1> HIDE DEF p
<1>13. Playable(q, a, c) /\ q \in Seq(Calls)
  <2> DEFINE k == <<Conformance!CloseCursor>>
  <2>1. k \in Seq(Calls) /\ Playable(k, At(0, "created"), c)
    BY <1>11 DEF Turning, c
  <2> HIDE DEF k
  <2>2. Playable(p \o k, a, c) /\ p \o k \in Seq(Calls)
    BY <1>12, <2>1, PlayConcat
  <2> QED
    BY <2>2 DEF k
<1> HIDE DEF q
<1>14. Playable(q \o Conformance!Catalog(2), a, At(0, "created"))
  BY <1>13, CatalogTurns, PlayConcat DEF Turning, c
<1> QED
  BY <1>14 DEF Conformance!Metadata, Ready, a, q, p, s, set, create, close

\* Before a session: an environment or nothing.
Down(n) == [level |-> n, cursor |-> None, table |-> "none"]

LEMMA OpeningTurns ==
  ASSUME NEW c \in Calls, c.when = "always"
  PROVE  /\ c.name = "ask" => \A n \in 0..2 : Plays(c, Down(n), Down(n))
         /\ c.name = "alloc" /\ c.of = "env" => Plays(c, Down(0), Down(1))
         /\ c.name = "alloc" /\ c.of = "dbc" => Plays(c, Down(1), Down(1))
         /\ c.name = "connect" => Plays(c, Down(1), Down(2))
         /\ c.name = "set" /\ c.of = "connected" => Plays(c, Down(2), Down(2))
         /\ c.name = "alloc" /\ c.of = "stmt" => Plays(c, Down(2), Down(2))
<1> USE DEF Plays, Passes, Goes, Left, Down
<1>1. c.name = "ask" => \A n \in 0..2 : Plays(c, Down(n), Down(n))
  OBVIOUS
<1>2. c.name = "alloc" /\ c.of = "env" => Plays(c, Down(0), Down(1))
  OBVIOUS
<1>3. c.name = "alloc" /\ c.of = "dbc" => Plays(c, Down(1), Down(1))
  OBVIOUS
<1>4. c.name = "connect" => Plays(c, Down(1), Down(2))
  OBVIOUS
<1>5. c.name = "set" /\ c.of = "connected" => Plays(c, Down(2), Down(2))
  OBVIOUS
<1>6. c.name = "alloc" /\ c.of = "stmt" => Plays(c, Down(2), Down(2))
  OBVIOUS
<1> QED
  BY <1>1, <1>2, <1>3, <1>4, <1>5, <1>6

LEMMA SetUpPlays == Playable(Conformance!SetUp, Fresh, Ready)
<1> DEFINE a(h) == Conformance!Assert("alloc", h)
           n == Conformance!Assert("connect", None)
           c == Conformance!Ignore("set", "connected")
           q == Conformance!Ask
           s == <<a("env"), q, a("dbc"), q, n, c, a("stmt")>>
           g == <<Down(0), Down(1), Down(1), Down(1), Down(1), Down(2), Down(2), Down(2)>>
<1>1. Conformance!SetUp = s
  BY DEF Conformance!SetUp
<1>2. \A h \in {"env", "dbc", "stmt"} :
          a(h) \in Calls /\ a(h).name = "alloc" /\ a(h).of = h /\ a(h).when = "always"
  BY DEF Calls, Names, Conditions, Handles, Conformance!Assert, Conformance!Call
<1>3. n \in Calls /\ n.name = "connect" /\ n.when = "always"
  BY DEF Calls, Names, Conditions, Conformance!Assert, Conformance!Call
<1>4. c \in Calls /\ c.name = "set" /\ c.of = "connected" /\ c.when = "always"
  BY DEF Calls, Names, Conditions, Settable, Conformance!Ignore, Conformance!Call
<1>5. q \in Calls /\ q.name = "ask" /\ q.when = "always"
  BY PlainOnes, PlainAreCalls DEF Conformance!Ask, Conformance!Assert, Conformance!Call
<1> HIDE DEF a, n, c, q
<1>6. /\ Plays(a("env"), Down(0), Down(1)) /\ Plays(q, Down(1), Down(1))
      /\ Plays(a("dbc"), Down(1), Down(1)) /\ Plays(n, Down(1), Down(2))
      /\ Plays(c, Down(2), Down(2)) /\ Plays(a("stmt"), Down(2), Down(2))
  BY <1>2, <1>3, <1>4, <1>5, OpeningTurns
<1>7. a("env") \in Calls /\ a("dbc") \in Calls /\ a("stmt") \in Calls
      /\ n \in Calls /\ c \in Calls /\ q \in Calls
  BY <1>2, <1>3, <1>4, <1>5
<1>8. Down(0) \in Stages /\ Down(1) \in Stages /\ Down(2) \in Stages
  BY DEF Down, Stages, Cursors
<1>9. s \in Seq(Calls) /\ Len(s) = 7
      /\ s[1] = a("env") /\ s[2] = q /\ s[3] = a("dbc") /\ s[4] = q
      /\ s[5] = n /\ s[6] = c /\ s[7] = a("stmt")
  BY <1>7
<1>10. g \in Seq(Stages) /\ Len(g) = 8
       /\ g[1] = Down(0) /\ g[2] = Down(1) /\ g[3] = Down(1) /\ g[4] = Down(1)
       /\ g[5] = Down(1) /\ g[6] = Down(2) /\ g[7] = Down(2) /\ g[8] = Down(2)
  BY <1>8
<1> HIDE DEF s, g
<1>11. Staged(s, g)
  <2>1. \A i \in 1..7 : i \in {1, 2, 3, 4, 5, 6, 7}
    OBVIOUS
  <2> QED
    BY <1>6, <1>9, <1>10, <2>1 DEF Staged
<1>12. Playable(s, g[1], g[Len(s) + 1])
  BY <1>9, <1>10, <1>11, PlayTuple
<1>13. Fresh = Down(0) /\ Ready = Down(2)
  BY DEF Fresh, Ready, Down, At
<1> QED
  BY <1>1, <1>9, <1>10, <1>12, <1>13

LEMMA LooseAreCalls ==
  ASSUME NEW c \in LooseCalls
  PROVE  c \in Calls
  BY DEF LooseCalls, ParityCalls

\* The calls of the parity suites by name.
LEMMA ParityTurns ==
  /\ \A x \in Cursors : Turns(Parity!Ask, x, x)
  /\ \A x \in Cursors : Turns(Parity!Unbind, x, x)
  /\ \A x \in Cursors : Turns(Parity!BindBuffer, x, x)
  /\ \A x \in Cursors : Turns(Parity!AllocStmt, x, x)
  /\ \A x \in Cursors : Turns(Parity!FreeStmt, x, x)
  /\ \A x \in 0..3 : Turns(Parity!CloseCursor, x, None)
  /\ \A n \in 1..3 : Turns(Parity!ExecDirect(n), None, n)
  /\ Turns(Parity!ExecDirectIgnoreError, None, None)
  /\ \A x \in 0..3 : Turns(Parity!ExecDirectIgnoreError, x, x)
  /\ Turns(Parity!Assert("fetch", 1), 2, 1) /\ Turns(Parity!Assert("fetch", 1), 1, 0)
  /\ Turns(Parity!Expect("fetch", 1), 2, 1) /\ Turns(Parity!Expect("fetch", 1), 1, 0)
  /\ \A x \in 0..3 : Turns(Parity!Assert("get", None), x, x)
  /\ \A x \in 0..3 : Turns(Parity!Expect("get", None), x, x)
  /\ \A x \in 0..3 : Turns(Parity!Expect("get", 1), x, x)
  /\ Turns(Parity!Expect("end", None), 0, 0)
<1> USE DEF Parity!Assert, Parity!Expect, Parity!Ignore, Parity!Call
<1>1. \A x \in Cursors : Turns(Parity!Ask, x, x)
  <2>1. Parity!Ask.name = "ask" /\ Parity!Ask.when = "always"
    BY DEF Parity!Ask
  <2> QED
    BY <2>1, LooseOnes, LooseAreCalls, CallTurns
<1>2. \A x \in Cursors : Turns(Parity!Unbind, x, x)
  <2>1. Parity!Unbind.name = "unbind" /\ Parity!Unbind.when = "always"
    BY DEF Parity!Unbind
  <2> QED
    BY <2>1, LooseOnes, LooseAreCalls, CallTurns
<1>3. \A x \in Cursors : Turns(Parity!BindBuffer, x, x)
  <2>1. Parity!BindBuffer.name = "point" /\ Parity!BindBuffer.when = "always"
    BY DEF Parity!BindBuffer
  <2> QED
    BY <2>1, LooseOnes, LooseAreCalls, CallTurns
<1>4. \A x \in Cursors : Turns(Parity!AllocStmt, x, x)
  <2>1. /\ Parity!AllocStmt.name = "alloc" /\ Parity!AllocStmt.of = "extra"
        /\ Parity!AllocStmt.when = "always"
    BY DEF Parity!AllocStmt
  <2> QED
    BY <2>1, LooseOnes, LooseAreCalls, CallTurns
<1>5. \A x \in Cursors : Turns(Parity!FreeStmt, x, x)
  <2>1. Parity!FreeStmt.name = "free" /\ Parity!FreeStmt.of = "extra"
    BY DEF Parity!FreeStmt, Parity!If
  <2> QED
    BY <2>1, LooseOnes, LooseAreCalls, FreeTurns
<1>6. \A x \in 0..3 : Turns(Parity!CloseCursor, x, None)
  <2>1. Parity!CloseCursor.name = "close cursor" /\ Parity!CloseCursor.when = "always"
    BY DEF Parity!CloseCursor
  <2> QED
    BY <2>1, LooseOnes, LooseAreCalls, CallTurns
<1>7. ASSUME NEW n \in 1..3
      PROVE  Turns(Parity!ExecDirect(n), None, n)
  <2>1. /\ Parity!ExecDirect(n).name = "execute" /\ Parity!ExecDirect(n).of = n
        /\ Parity!ExecDirect(n).when = "always" /\ n \in 0..3
    BY DEF Parity!ExecDirect
  <2>2. Parity!ExecDirect(n) \in Calls /\ n # 0
    BY <2>1, LooseOnes, LooseAreCalls
  <2> HIDE DEF Parity!Assert
  <2> QED
    BY <2>1, <2>2, CallTurns
<1>8. /\ Turns(Parity!ExecDirectIgnoreError, None, None)
      /\ \A x \in 0..3 : Turns(Parity!ExecDirectIgnoreError, x, x)
  <2>1. /\ Parity!ExecDirectIgnoreError.name = "execute" /\ Parity!ExecDirectIgnoreError.of = 0
        /\ Parity!ExecDirectIgnoreError.when = "always"
        /\ Parity!ExecDirectIgnoreError.check = "none"
    BY DEF Parity!ExecDirectIgnoreError
  <2> QED
    BY <2>1, LooseOnes, LooseAreCalls, CallTurns
<1>9. ASSUME NEW c \in LooseCalls, c.name = "fetch", c.of = 1, c.when = "always"
      PROVE  Turns(c, 2, 1) /\ Turns(c, 1, 0)
  <2>1. c \in Calls
    BY LooseAreCalls
  <2>2. Turns(c, 2, 1)
    BY <1>9, <2>1, FetchTurns
  <2>3. Turns(c, 1, 0)
    BY <1>9, <2>1, FetchTurns
  <2> QED
    BY <2>2, <2>3
<1>10. /\ Turns(Parity!Assert("fetch", 1), 2, 1) /\ Turns(Parity!Assert("fetch", 1), 1, 0)
       /\ Turns(Parity!Expect("fetch", 1), 2, 1) /\ Turns(Parity!Expect("fetch", 1), 1, 0)
  <2> DEFINE a == Parity!Assert("fetch", 1)
             e == Parity!Expect("fetch", 1)
  <2>1. /\ a.name = "fetch" /\ a.of = 1 /\ a.when = "always"
        /\ e.name = "fetch" /\ e.of = 1 /\ e.when = "always"
    OBVIOUS
  <2>2. a \in LooseCalls /\ e \in LooseCalls
    BY LooseOnes
  <2> HIDE DEF a, e
  <2>3. Turns(a, 2, 1) /\ Turns(a, 1, 0) /\ Turns(e, 2, 1) /\ Turns(e, 1, 0)
    BY <1>9, <2>1, <2>2
  <2> QED
    BY <2>3 DEF a, e
<1>11. ASSUME NEW c \in LooseCalls, c.name = "get", c.when = "always", NEW x \in 0..3
       PROVE  Turns(c, x, x)
  BY <1>11, LooseAreCalls, CallTurns
<1>12. ASSUME NEW x \in 0..3
       PROVE  /\ Turns(Parity!Assert("get", None), x, x) /\ Turns(Parity!Expect("get", None), x, x)
              /\ Turns(Parity!Expect("get", 1), x, x)
  <2> DEFINE a == Parity!Assert("get", None)
             e == Parity!Expect("get", None)
             f == Parity!Expect("get", 1)
  <2>1. /\ a.name = "get" /\ a.when = "always" /\ e.name = "get" /\ e.when = "always"
        /\ f.name = "get" /\ f.when = "always"
    OBVIOUS
  <2>2. a \in LooseCalls /\ e \in LooseCalls /\ f \in LooseCalls
    BY LooseOnes
  <2> HIDE DEF a, e, f
  <2>3. Turns(a, x, x) /\ Turns(e, x, x) /\ Turns(f, x, x)
    BY <1>11, <2>1, <2>2
  <2> QED
    BY <2>3 DEF a, e, f
<1>13. Turns(Parity!Expect("end", None), 0, 0)
  <2>1. Parity!Expect("end", None).name = "end" /\ Parity!Expect("end", None).when = "always"
    OBVIOUS
  <2> QED
    BY <2>1, LooseOnes, LooseAreCalls, CallTurns
<1> QED
  BY <1>1, <1>2, <1>3, <1>4, <1>5, <1>6, <1>7, <1>8, <1>10, <1>12, <1>13

LEMMA ConvertTurns ==
  /\ Turning(Parity!Convert(TRUE, TRUE), 1, 1)
  /\ \A n \in {1, 2} : Turning(Parity!Convert(TRUE, FALSE), n, n - 1)
  /\ \A n \in {1, 2} : \A v \in BOOLEAN : Turning(Parity!Convert(FALSE, v), n, n - 1)
<1>1. Turning(<<Parity!Expect("get", 1)>>, 1, 1)
  <2> DEFINE s == <<Parity!Expect("get", 1)>>
             r == <<1, 1>>
  <2>1. s \in Seq(Calls) /\ Len(s) = 1
    BY LooseOnes, LooseAreCalls
  <2>2. r \in Seq(Cursors) /\ Len(r) = 2 /\ r[1] = 1 /\ r[2] = 1
    BY SomeCursors
  <2>3. Turns(s[1], r[1], r[2])
    BY SomeCursors, ParityTurns
  <2> HIDE DEF s, r
  <2>4. Traced(s, r)
    BY <2>1, <2>2, <2>3 DEF Traced
  <2>5. Turning(s, r[1], r[Len(s) + 1])
    BY <2>1, <2>2, <2>4, TurnTuple
  <2> QED
    BY <2>1, <2>2, <2>5 DEF s
<1>2. Turning(<<Parity!Expect("fetch", 1)>>, 2, 1)
  <2> DEFINE s == <<Parity!Expect("fetch", 1)>>
             r == <<2, 1>>
  <2>1. s \in Seq(Calls) /\ Len(s) = 1
    BY LooseOnes, LooseAreCalls
  <2>2. r \in Seq(Cursors) /\ Len(r) = 2 /\ r[1] = 2 /\ r[2] = 1
    BY SomeCursors
  <2>3. Turns(s[1], r[1], r[2])
    BY SomeCursors, ParityTurns
  <2> HIDE DEF s, r
  <2>4. Traced(s, r)
    BY <2>1, <2>2, <2>3 DEF Traced
  <2>5. Turning(s, r[1], r[Len(s) + 1])
    BY <2>1, <2>2, <2>4, TurnTuple
  <2> QED
    BY <2>1, <2>2, <2>5 DEF s
<1>3. Turning(<<Parity!Expect("fetch", 1)>>, 1, 0)
  <2> DEFINE s == <<Parity!Expect("fetch", 1)>>
             r == <<1, 0>>
  <2>1. s \in Seq(Calls) /\ Len(s) = 1
    BY LooseOnes, LooseAreCalls
  <2>2. r \in Seq(Cursors) /\ Len(r) = 2 /\ r[1] = 1 /\ r[2] = 0
    BY SomeCursors
  <2>3. Turns(s[1], r[1], r[2])
    BY SomeCursors, ParityTurns
  <2> HIDE DEF s, r
  <2>4. Traced(s, r)
    BY <2>1, <2>2, <2>3 DEF Traced
  <2>5. Turning(s, r[1], r[Len(s) + 1])
    BY <2>1, <2>2, <2>4, TurnTuple
  <2> QED
    BY <2>1, <2>2, <2>5 DEF s
<1>4. Turning(<<Parity!Assert("fetch", 1), Parity!Expect("get", None)>>, 2, 1)
  <2> DEFINE s == <<Parity!Assert("fetch", 1), Parity!Expect("get", None)>>
             r == <<2, 1, 1>>
  <2>1. s \in Seq(Calls) /\ Len(s) = 2
    BY LooseOnes, LooseAreCalls
  <2>2. r \in Seq(Cursors) /\ Len(r) = 3 /\ r[1] = 2 /\ r[3] = 1
    BY SomeCursors
  <2>3. /\ Turns(s[1], r[1], r[2]) /\ Turns(s[2], r[2], r[3])
    BY SomeCursors, ParityTurns
  <2> HIDE DEF s, r
  <2>4. Traced(s, r)
    <3>1. \A i \in 1..2 : i \in {1, 2}
      OBVIOUS
    <3> QED
      BY <2>1, <2>2, <2>3, <3>1 DEF Traced
  <2>5. Turning(s, r[1], r[Len(s) + 1])
    BY <2>1, <2>2, <2>4, TurnTuple
  <2> QED
    BY <2>1, <2>2, <2>5 DEF s
<1>5. Turning(<<Parity!Assert("fetch", 1), Parity!Expect("get", None)>>, 1, 0)
  <2> DEFINE s == <<Parity!Assert("fetch", 1), Parity!Expect("get", None)>>
             r == <<1, 0, 0>>
  <2>1. s \in Seq(Calls) /\ Len(s) = 2
    BY LooseOnes, LooseAreCalls
  <2>2. r \in Seq(Cursors) /\ Len(r) = 3 /\ r[1] = 1 /\ r[3] = 0
    BY SomeCursors
  <2>3. /\ Turns(s[1], r[1], r[2]) /\ Turns(s[2], r[2], r[3])
    BY SomeCursors, ParityTurns
  <2> HIDE DEF s, r
  <2>4. Traced(s, r)
    <3>1. \A i \in 1..2 : i \in {1, 2}
      OBVIOUS
    <3> QED
      BY <2>1, <2>2, <2>3, <3>1 DEF Traced
  <2>5. Turning(s, r[1], r[Len(s) + 1])
    BY <2>1, <2>2, <2>4, TurnTuple
  <2> QED
    BY <2>1, <2>2, <2>5 DEF s
<1>6. Turning(Parity!Convert(TRUE, TRUE), 1, 1)
  BY <1>1 DEF Parity!Convert
<1>7. Turning(Parity!Convert(TRUE, FALSE), 2, 1) /\ Turning(Parity!Convert(TRUE, FALSE), 1, 0)
  BY <1>2, <1>3 DEF Parity!Convert
<1>8. \A v \in BOOLEAN :
         Turning(Parity!Convert(FALSE, v), 2, 1) /\ Turning(Parity!Convert(FALSE, v), 1, 0)
  BY <1>4, <1>5 DEF Parity!Convert
<1>9. 2 - 1 = 1 /\ 1 - 1 = 0
  OBVIOUS
<1> QED
  BY <1>6, <1>7, <1>8, <1>9

LEMMA BindTurns ==
  ASSUME NEW v \in BOOLEAN, NEW x \in Cursors
  PROVE  Turning(Parity!BindIf(v), x, x)
<1>1. Turning(<<Parity!BindBuffer>>, x, x)
  <2> DEFINE s == <<Parity!BindBuffer>>
             r == <<x, x>>
  <2>1. s \in Seq(Calls) /\ Len(s) = 1
    BY LooseOnes, LooseAreCalls
  <2>2. r \in Seq(Cursors) /\ Len(r) = 2 /\ r[1] = x /\ r[2] = x
    BY SomeCursors
  <2>3. Turns(s[1], r[1], r[2])
    BY SomeCursors, ParityTurns
  <2> HIDE DEF s, r
  <2>4. Traced(s, r)
    BY <2>1, <2>2, <2>3 DEF Traced
  <2>5. Turning(s, r[1], r[Len(s) + 1])
    BY <2>1, <2>2, <2>4, TurnTuple
  <2> QED
    BY <2>1, <2>2, <2>5 DEF s
<1>2. Turning(<<>>, x, x)
  BY TurnNothing
<1> QED
  BY <1>1, <1>2 DEF Parity!BindIf

LEMMA EndTurns ==
  /\ \A x \in Cursors : Turning(Parity!EndUnless(TRUE), x, x)
  /\ Turning(Parity!EndUnless(FALSE), 0, 0)
<1>1. Turning(<<Parity!Expect("end", None)>>, 0, 0)
  <2> DEFINE s == <<Parity!Expect("end", None)>>
             r == <<0, 0>>
  <2>1. s \in Seq(Calls) /\ Len(s) = 1
    BY LooseOnes, LooseAreCalls
  <2>2. r \in Seq(Cursors) /\ Len(r) = 2 /\ r[1] = 0 /\ r[2] = 0
    BY SomeCursors
  <2>3. Turns(s[1], r[1], r[2])
    BY SomeCursors, ParityTurns
  <2> HIDE DEF s, r
  <2>4. Traced(s, r)
    BY <2>1, <2>2, <2>3 DEF Traced
  <2>5. Turning(s, r[1], r[Len(s) + 1])
    BY <2>1, <2>2, <2>4, TurnTuple
  <2> QED
    BY <2>1, <2>2, <2>5 DEF s
<1>2. \A x \in Cursors : Turning(<<>>, x, x)
  BY TurnNothing
<1> QED
  BY <1>1, <1>2 DEF Parity!EndUnless

LEMMA RunContractTurns ==
  ASSUME NEW b \in BOOLEAN, NEW v \in BOOLEAN
  PROVE  Turning(Parity!RunContract(b, v), None, None)
<1>1. Turning(<<Parity!ExecDirect(1), Parity!Ask, Parity!Ask>>, None, 1)
  <2> DEFINE s == <<Parity!ExecDirect(1), Parity!Ask, Parity!Ask>>
             r == <<None, 1, 1, 1>>
  <2>1. s \in Seq(Calls) /\ Len(s) = 3
    BY LooseOnes, LooseAreCalls
  <2>2. r \in Seq(Cursors) /\ Len(r) = 4 /\ r[1] = None /\ r[4] = 1
    BY SomeCursors
  <2>3. /\ Turns(s[1], r[1], r[2]) /\ Turns(s[2], r[2], r[3]) /\ Turns(s[3], r[3], r[4])
    BY SomeCursors, ParityTurns
  <2> HIDE DEF s, r
  <2>4. Traced(s, r)
    <3>1. \A i \in 1..3 : i \in {1, 2, 3}
      OBVIOUS
    <3> QED
      BY <2>1, <2>2, <2>3, <3>1 DEF Traced
  <2>5. Turning(s, r[1], r[Len(s) + 1])
    BY <2>1, <2>2, <2>4, TurnTuple
  <2> QED
    BY <2>1, <2>2, <2>5 DEF s
<1>2. ASSUME NEW x \in 0..3
      PROVE  Turning(<<Parity!Unbind, Parity!CloseCursor>>, x, None)
  <2>0. x \in Cursors
    BY DEF Cursors
  <2> DEFINE s == <<Parity!Unbind, Parity!CloseCursor>>
             r == <<x, x, None>>
  <2>1. s \in Seq(Calls) /\ Len(s) = 2
    BY LooseOnes, LooseAreCalls
  <2>2. r \in Seq(Cursors) /\ Len(r) = 3 /\ r[1] = x /\ r[3] = None
    BY <2>0, SomeCursors
  <2>3. /\ Turns(s[1], r[1], r[2]) /\ Turns(s[2], r[2], r[3])
    BY <2>0, SomeCursors, ParityTurns
  <2> HIDE DEF s, r
  <2>4. Traced(s, r)
    <3>1. \A i \in 1..2 : i \in {1, 2}
      OBVIOUS
    <3> QED
      BY <2>1, <2>2, <2>3, <3>1 DEF Traced
  <2>5. Turning(s, r[1], r[Len(s) + 1])
    BY <2>1, <2>2, <2>4, TurnTuple
  <2> QED
    BY <2>1, <2>2, <2>5 DEF s
<1>3. Turning(<<Parity!ExecDirect(1), Parity!Assert("fetch", 1),
                Parity!Assert("get", None), Parity!CloseCursor>>, None, None)
  <2> DEFINE s == <<Parity!ExecDirect(1), Parity!Assert("fetch", 1),
                    Parity!Assert("get", None), Parity!CloseCursor>>
             r == <<None, 1, 0, 0, None>>
  <2>1. s \in Seq(Calls) /\ Len(s) = 4
    BY LooseOnes, LooseAreCalls
  <2>2. r \in Seq(Cursors) /\ Len(r) = 5 /\ r[1] = None /\ r[5] = None
    BY SomeCursors
  <2>3. /\ Turns(s[1], r[1], r[2]) /\ Turns(s[2], r[2], r[3]) /\ Turns(s[3], r[3], r[4])
        /\ Turns(s[4], r[4], r[5])
    BY SomeCursors, ParityTurns
  <2> HIDE DEF s, r
  <2>4. Traced(s, r)
    <3>1. \A i \in 1..4 : i \in {1, 2, 3, 4}
      OBVIOUS
    <3> QED
      BY <2>1, <2>2, <2>3, <3>1 DEF Traced
  <2>5. Turning(s, r[1], r[Len(s) + 1])
    BY <2>1, <2>2, <2>4, TurnTuple
  <2> QED
    BY <2>1, <2>2, <2>5 DEF s
<1>4. \E x \in 0..3 : Turning(Parity!Convert(b, v), 1, x) /\ Turning(Parity!EndUnless(v), x, x)
  <2>1. CASE b = TRUE /\ v = TRUE
    <3>1. Turning(Parity!Convert(TRUE, TRUE), 1, 1) /\ Turning(Parity!EndUnless(TRUE), 1, 1)
      BY SomeCursors, ConvertTurns, EndTurns
    <3>2. Turning(Parity!Convert(b, v), 1, 1) /\ Turning(Parity!EndUnless(v), 1, 1)
      BY <2>1, <3>1, Zenon
    <3>3. 1 \in 0..3
      OBVIOUS
    <3> QED
      BY <3>2, <3>3
  <2>2. Turning(Parity!EndUnless(v), 0, 0)
    <3>1. CASE v = TRUE
      BY <3>1, SomeCursors, EndTurns
    <3>2. CASE v = FALSE
      BY <3>2, EndTurns
    <3> QED
      BY <3>1, <3>2
  <2>3. CASE ~(b = TRUE /\ v = TRUE)
    <3>1. Turning(Parity!Convert(b, v), 1, 0)
      <4>1. Turning(Parity!Convert(TRUE, FALSE), 1, 1 - 1)
            /\ \A u \in BOOLEAN : Turning(Parity!Convert(FALSE, u), 1, 1 - 1)
        BY ConvertTurns
      <4>2. b = FALSE \/ (b = TRUE /\ v = FALSE)
        BY <2>3
      <4>3. 1 - 1 = 0
        OBVIOUS
      <4> QED
        BY <4>1, <4>2, <4>3
    <3> QED
      BY <2>2, <3>1
  <2> QED
    BY <2>1, <2>3
<1>5. PICK x \in 0..3 : Turning(Parity!Convert(b, v), 1, x) /\ Turning(Parity!EndUnless(v), x, x)
  BY <1>4
<1>6. Turning(Parity!BindIf(b), 1, 1)
  BY SomeCursors, BindTurns
<1> DEFINE p == <<Parity!ExecDirect(1), Parity!Ask, Parity!Ask>>
           q == <<Parity!Unbind, Parity!CloseCursor>>
           r == <<Parity!ExecDirect(1), Parity!Assert("fetch", 1), Parity!Assert("get", None),
                  Parity!CloseCursor>>
<1>7. Turning(p, None, 1) /\ Turning(q, x, None) /\ Turning(r, None, None)
  BY <1>1, <1>2, <1>3
<1> HIDE DEF p, q, r
<1> DEFINE m == p \o Parity!BindIf(b) \o Parity!Convert(b, v)
<1>8. Turning(m, None, x)
  BY <1>5, <1>6, <1>7, TurnConcat
<1> HIDE DEF m
<1>9. Turning(m \o Parity!EndUnless(v) \o q \o r, None, None)
  BY <1>5, <1>7, <1>8, TurnConcat
<1> QED
  BY <1>9 DEF Parity!RunContract, m, p, q, r

LEMMA ReferenceContractTurns ==
  ASSUME NEW b \in BOOLEAN
  PROVE  Turning(Parity!ReferenceContract(b), None, None)
<1>1. Turning(<<Parity!ExecDirect(2), Parity!Ask>>, None, 2)
  <2> DEFINE s == <<Parity!ExecDirect(2), Parity!Ask>>
             r == <<None, 2, 2>>
  <2>1. s \in Seq(Calls) /\ Len(s) = 2
    BY LooseOnes, LooseAreCalls
  <2>2. r \in Seq(Cursors) /\ Len(r) = 3 /\ r[1] = None /\ r[3] = 2
    BY SomeCursors
  <2>3. /\ Turns(s[1], r[1], r[2]) /\ Turns(s[2], r[2], r[3])
    BY SomeCursors, ParityTurns
  <2> HIDE DEF s, r
  <2>4. Traced(s, r)
    <3>1. \A i \in 1..2 : i \in {1, 2}
      OBVIOUS
    <3> QED
      BY <2>1, <2>2, <2>3, <3>1 DEF Traced
  <2>5. Turning(s, r[1], r[Len(s) + 1])
    BY <2>1, <2>2, <2>4, TurnTuple
  <2> QED
    BY <2>1, <2>2, <2>5 DEF s
<1>2. Turning(<<Parity!Expect("end", None), Parity!Unbind, Parity!CloseCursor>>, 0, None)
  <2> DEFINE s == <<Parity!Expect("end", None), Parity!Unbind, Parity!CloseCursor>>
             r == <<0, 0, 0, None>>
  <2>1. s \in Seq(Calls) /\ Len(s) = 3
    BY LooseOnes, LooseAreCalls
  <2>2. r \in Seq(Cursors) /\ Len(r) = 4 /\ r[1] = 0 /\ r[4] = None
    BY SomeCursors
  <2>3. /\ Turns(s[1], r[1], r[2]) /\ Turns(s[2], r[2], r[3]) /\ Turns(s[3], r[3], r[4])
    BY SomeCursors, ParityTurns
  <2> HIDE DEF s, r
  <2>4. Traced(s, r)
    <3>1. \A i \in 1..3 : i \in {1, 2, 3}
      OBVIOUS
    <3> QED
      BY <2>1, <2>2, <2>3, <3>1 DEF Traced
  <2>5. Turning(s, r[1], r[Len(s) + 1])
    BY <2>1, <2>2, <2>4, TurnTuple
  <2> QED
    BY <2>1, <2>2, <2>5 DEF s
<1>3. Turning(Parity!CheckRow(b), 2, 1) /\ Turning(Parity!CheckRow(b), 1, 0)
  <2>1. /\ \A n \in {1, 2} : Turning(Parity!Convert(TRUE, FALSE), n, n - 1)
        /\ \A n \in {1, 2} : Turning(Parity!Convert(FALSE, FALSE), n, n - 1)
    BY ConvertTurns
  <2>2. 2 - 1 = 1 /\ 1 - 1 = 0
    OBVIOUS
  <2>3. \A n \in {1, 2} : Turning(Parity!Convert(b, FALSE), n, n - 1)
    BY <2>1
  <2>4. Turning(Parity!Convert(b, FALSE), 2, 2 - 1) /\ Turning(Parity!Convert(b, FALSE), 1, 1 - 1)
    BY <2>3
  <2> QED
    BY <2>2, <2>4 DEF Parity!CheckRow
<1>4. Turning(Parity!BindIf(b), 2, 2)
  BY SomeCursors, BindTurns
<1> DEFINE p == <<Parity!ExecDirect(2), Parity!Ask>> \o Parity!BindIf(b)
<1>5. Turning(p, None, 2)
  BY <1>1, <1>4, TurnConcat
<1> HIDE DEF p
<1>6. Turning(p \o Parity!CheckRow(b) \o Parity!CheckRow(b), None, 0)
  BY <1>3, <1>5, TurnConcat
<1> QED
  BY <1>2, <1>6, TurnConcat DEF Parity!ReferenceContract, p

LEMMA ExtraTurns ==
  /\ Turning(Parity!Cases["ExtraFreed"], None, None)
  /\ Turning(Parity!Cases["ExtraLeft"], None, 1)
<1>1. Turning(<<Parity!ExecDirectIgnoreError, Parity!AllocStmt, Parity!ExecDirect(1),
                Parity!FreeStmt, Parity!CloseCursor>>, None, None)
  <2> DEFINE s == <<Parity!ExecDirectIgnoreError, Parity!AllocStmt, Parity!ExecDirect(1),
                    Parity!FreeStmt, Parity!CloseCursor>>
             r == <<None, None, None, 1, 1, None>>
  <2>1. s \in Seq(Calls) /\ Len(s) = 5
    BY LooseOnes, LooseAreCalls
  <2>2. r \in Seq(Cursors) /\ Len(r) = 6 /\ r[1] = None /\ r[6] = None
    BY SomeCursors
  <2>3. /\ Turns(s[1], r[1], r[2]) /\ Turns(s[2], r[2], r[3]) /\ Turns(s[3], r[3], r[4])
        /\ Turns(s[4], r[4], r[5]) /\ Turns(s[5], r[5], r[6])
    BY SomeCursors, ParityTurns
  <2> HIDE DEF s, r
  <2>4. Traced(s, r)
    <3>1. \A i \in 1..5 : i \in {1, 2, 3, 4, 5}
      OBVIOUS
    <3> QED
      BY <2>1, <2>2, <2>3, <3>1 DEF Traced
  <2>5. Turning(s, r[1], r[Len(s) + 1])
    BY <2>1, <2>2, <2>4, TurnTuple
  <2> QED
    BY <2>1, <2>2, <2>5 DEF s
<1>2. Turning(<<Parity!ExecDirect(1), Parity!AllocStmt,
                Parity!ExecDirectIgnoreError>>, None, 1)
  <2> DEFINE s == <<Parity!ExecDirect(1), Parity!AllocStmt, Parity!ExecDirectIgnoreError>>
             r == <<None, 1, 1, 1>>
  <2>1. s \in Seq(Calls) /\ Len(s) = 3
    BY LooseOnes, LooseAreCalls
  <2>2. r \in Seq(Cursors) /\ Len(r) = 4 /\ r[1] = None /\ r[4] = 1
    BY SomeCursors
  <2>3. /\ Turns(s[1], r[1], r[2]) /\ Turns(s[2], r[2], r[3]) /\ Turns(s[3], r[3], r[4])
    BY SomeCursors, ParityTurns
  <2> HIDE DEF s, r
  <2>4. Traced(s, r)
    <3>1. \A i \in 1..3 : i \in {1, 2, 3}
      OBVIOUS
    <3> QED
      BY <2>1, <2>2, <2>3, <3>1 DEF Traced
  <2>5. Turning(s, r[1], r[Len(s) + 1])
    BY <2>1, <2>2, <2>4, TurnTuple
  <2> QED
    BY <2>1, <2>2, <2>5 DEF s
<1> QED
  BY <1>1, <1>2 DEF Parity!Cases

LEMMA ParitySetUpPlays == Playable(Parity!SuiteSetUp, Fresh, Ready)
<1> DEFINE a(h) == Parity!Assert("alloc", h)
           n == Parity!Assert("connect", None)
           q == Parity!Ask
           s == <<a("env"), q>>
           u == <<q>>
           w == <<a("dbc"), q, n, a("stmt")>>
<1>1. Parity!SuiteSetUp = s \o u \o w \o u
  BY DEF Parity!SuiteSetUp, Parity!SetUp, Parity!Connect
<1>2. \A h \in {"env", "dbc", "stmt"} :
          a(h) \in Calls /\ a(h).name = "alloc" /\ a(h).of = h /\ a(h).when = "always"
  BY DEF Calls, Names, Conditions, Handles, Parity!Assert, Parity!Call
<1>3. n \in Calls /\ n.name = "connect" /\ n.when = "always"
  BY DEF Calls, Names, Conditions, Parity!Assert, Parity!Call
<1>4. q \in Calls /\ q.name = "ask" /\ q.when = "always"
  BY LooseOnes, LooseAreCalls DEF Parity!Ask, Parity!Assert, Parity!Call
<1> HIDE DEF a, n, q
<1>5. /\ Plays(a("env"), Down(0), Down(1)) /\ Plays(q, Down(1), Down(1))
      /\ Plays(a("dbc"), Down(1), Down(1)) /\ Plays(n, Down(1), Down(2))
      /\ Plays(q, Down(2), Down(2)) /\ Plays(a("stmt"), Down(2), Down(2))
  BY <1>2, <1>3, <1>4, OpeningTurns
<1>6. a("env") \in Calls /\ a("dbc") \in Calls /\ a("stmt") \in Calls
      /\ n \in Calls /\ q \in Calls
  BY <1>2, <1>3, <1>4
<1>7. Down(0) \in Stages /\ Down(1) \in Stages /\ Down(2) \in Stages
  BY DEF Down, Stages, Cursors
<1>8. s \in Seq(Calls) /\ Playable(s, Down(0), Down(1))
  <2> DEFINE g == <<Down(0), Down(1), Down(1)>>
  <2>1. s \in Seq(Calls) /\ Len(s) = 2 /\ s[1] = a("env") /\ s[2] = q
    BY <1>6
  <2>2. g \in Seq(Stages) /\ Len(g) = 3 /\ g[1] = Down(0) /\ g[2] = Down(1) /\ g[3] = Down(1)
    BY <1>7
  <2> HIDE DEF s, g
  <2>3. \A i \in 1..2 : i \in {1, 2}
    OBVIOUS
  <2>4. Staged(s, g)
    BY <1>5, <2>1, <2>2, <2>3 DEF Staged
  <2>5. Playable(s, g[1], g[Len(s) + 1])
    BY <2>1, <2>2, <2>4, PlayTuple
  <2> QED
    BY <2>1, <2>2, <2>5
<1>9. ASSUME NEW k \in {1, 2}
      PROVE  u \in Seq(Calls) /\ Playable(u, Down(k), Down(k))
  <2> DEFINE g == <<Down(k), Down(k)>>
  <2>1. u \in Seq(Calls) /\ Len(u) = 1 /\ u[1] = q
    BY <1>6
  <2>2. g \in Seq(Stages) /\ Len(g) = 2 /\ g[1] = Down(k) /\ g[2] = Down(k)
    BY <1>7
  <2>3. Plays(q, Down(k), Down(k))
    BY <1>5
  <2> HIDE DEF u, g
  <2>4. Staged(u, g)
    BY <2>1, <2>2, <2>3 DEF Staged
  <2>5. Playable(u, g[1], g[Len(u) + 1])
    BY <2>1, <2>2, <2>4, PlayTuple
  <2> QED
    BY <2>1, <2>2, <2>5
<1>10. w \in Seq(Calls) /\ Playable(w, Down(1), Down(2))
  <2> DEFINE g == <<Down(1), Down(1), Down(1), Down(2), Down(2)>>
  <2>1. w \in Seq(Calls) /\ Len(w) = 4
        /\ w[1] = a("dbc") /\ w[2] = q /\ w[3] = n /\ w[4] = a("stmt")
    BY <1>6
  <2>2. g \in Seq(Stages) /\ Len(g) = 5 /\ g[1] = Down(1) /\ g[2] = Down(1) /\ g[3] = Down(1)
        /\ g[4] = Down(2) /\ g[5] = Down(2)
    BY <1>7
  <2> HIDE DEF w, g
  <2>3. \A i \in 1..4 : i \in {1, 2, 3, 4}
    OBVIOUS
  <2>4. Staged(w, g)
    BY <1>5, <2>1, <2>2, <2>3 DEF Staged
  <2>5. Playable(w, g[1], g[Len(w) + 1])
    BY <2>1, <2>2, <2>4, PlayTuple
  <2> QED
    BY <2>1, <2>2, <2>5
<1> HIDE DEF s, u, w
<1>11. u \in Seq(Calls) /\ Playable(u, Down(1), Down(1)) /\ Playable(u, Down(2), Down(2))
  BY <1>9
<1> DEFINE e == s \o u
           f == e \o w
<1>12. e \in Seq(Calls) /\ Playable(e, Down(0), Down(1))
  BY <1>8, <1>11, PlayConcat
<1> HIDE DEF e
<1>13. f \in Seq(Calls) /\ Playable(f, Down(0), Down(2))
  BY <1>10, <1>12, PlayConcat
<1> HIDE DEF f
<1>14. Playable(f \o u, Down(0), Down(2))
  BY <1>11, <1>13, PlayConcat
<1>15. Fresh = Down(0) /\ Ready = Down(2)
  BY DEF Fresh, Ready, Down, At
<1> QED
  BY <1>1, <1>14, <1>15 DEF e, f

\* Every SetUp leads from nothing to the stage at which a body begins,
LEMMA SetUpsPlay ==
  ASSUME NEW t \in Tests
  PROVE  Playable(SetUpOf(t), Fresh, Ready)
<1>1. CASE t \in Conformance!Tests /\ t \in DOMAIN Conformance!Plain
  BY <1>1, SetUpPlays DEF SetUpOf, Conformance!SetUpOf
<1>2. CASE t \in Conformance!Tests /\ t \notin DOMAIN Conformance!Plain
  <2>1. SetUpOf(t) = Conformance!SetUp \o Conformance!DataTypesSetUp
    BY <1>2 DEF SetUpOf, Conformance!SetUpOf
  <2>2. Conformance!DataTypesSetUp \in Seq(Calls)
        /\ Playable(Conformance!DataTypesSetUp, Ready, Ready)
    BY DataTypesSetUpTurns DEF Turning, Ready
  <2>3. Conformance!SetUp \in Seq(Calls)
    <3>1. ConformanceCalls \subseteq Calls
      BY DEF ConformanceCalls
    <3> QED
      BY <3>1, CarefulSetUp DEF Careful
  <2> QED
    BY <2>1, <2>2, <2>3, SetUpPlays, PlayConcat
<1>3. CASE t \notin Conformance!Tests
  BY <1>3, ParitySetUpPlays DEF SetUpOf
<1> QED
  BY <1>1, <1>2, <1>3

\* and every body from there to some other.
LEMMA BodiesPlay ==
  ASSUME NEW t \in Tests
  PROVE  \E b : Playable(BodyOf(t), Ready, b)
<1>1. ASSUME NEW s, NEW y, Turning(s, None, y)
      PROVE  \E b : Playable(s, Ready, b)
  BY <1>1 DEF Turning, Ready
<1>2. CASE t \in DOMAIN Conformance!Plain
  <2>1. \E b : Playable(Conformance!Plain[t], Ready, b)
    BY <1>1, <1>2, MetadataPlays, ConnectionTurns, StatementsTurns, ParametersTurns,
       TransactionsTurns, DiagnosticsTurns, UnicodeTurns, NullBinaryGetDataTurns,
       NullBinaryBindColTurns, FetchScrollEndOfDataRowsFetchedTurns, TimestampAliasTurns
    DEF Conformance!Plain
  <2>2. BodyOf(t) = Conformance!Plain[t]
    BY <1>2 DEF BodyOf, Conformance!Tests, Conformance!BodyOf
  <2> QED
    BY <2>1, <2>2
<1>3. CASE t \in Conformance!Tests /\ t \notin DOMAIN Conformance!Plain
  <2>1. t \in DOMAIN Conformance!OfDataTypes /\ BodyOf(t) = Conformance!OfDataTypes[t]
    BY <1>3 DEF BodyOf, Conformance!Tests, Conformance!BodyOf
  <2>2. \E b : Playable(Conformance!OfDataTypes[t], Ready, b)
    BY <1>1, <2>1, DataTypesGetDataTurns, BindColumnsTurns, FetchScrollTurns, ChunkedTurns
    DEF Conformance!OfDataTypes
  <2> QED
    BY <2>1, <2>2
<1>4. CASE t \notin Conformance!Tests
  <2>1. t \in Parity!Tests /\ BodyOf(t) = Parity!Cases[t]
    BY <1>4 DEF Tests, BodyOf, Parity!BodyOf
  <2>2. t \in {"IntervalGetData", "IntervalBindCol", "RejectedIntervalGetData",
              "RejectedIntervalBindCol", "NumericGetData", "NumericBindCol",
              "ExtraFreed", "ExtraLeft"}
    BY <2>1 DEF Parity!Tests, Parity!Cases
  <2>3. /\ Parity!Cases["IntervalGetData"] = Parity!RunContract(FALSE, FALSE)
        /\ Parity!Cases["IntervalBindCol"] = Parity!RunContract(TRUE, FALSE)
        /\ Parity!Cases["RejectedIntervalGetData"] = Parity!RunContract(FALSE, TRUE)
        /\ Parity!Cases["RejectedIntervalBindCol"] = Parity!RunContract(TRUE, TRUE)
        /\ Parity!Cases["NumericGetData"] = Parity!ReferenceContract(FALSE)
        /\ Parity!Cases["NumericBindCol"] = Parity!ReferenceContract(TRUE)
    BY DEF Parity!Cases
  <2>4. /\ Turning(Parity!RunContract(FALSE, FALSE), None, None)
        /\ Turning(Parity!RunContract(TRUE, FALSE), None, None)
        /\ Turning(Parity!RunContract(FALSE, TRUE), None, None)
        /\ Turning(Parity!RunContract(TRUE, TRUE), None, None)
        /\ Turning(Parity!ReferenceContract(FALSE), None, None)
        /\ Turning(Parity!ReferenceContract(TRUE), None, None)
    BY RunContractTurns, ReferenceContractTurns
  <2>5. \E y : Turning(Parity!Cases[t], None, y)
    BY <2>2, <2>3, <2>4, ExtraTurns
  <2> QED
    BY <1>1, <2>1, <2>5
<1> QED
  BY <1>2, <1>3, <1>4

\* The stage a is where the process is.
Matches(a) ==
    /\ odbc.cursor = a.cursor
    /\ a.level > 0 => "env" \in odbc.live
    /\ a.level = 2 => odbc.session
    /\ a.table # "created" => processes \notin tables
    /\ a.table # "none" => fixture.metadata_table = processes

OnTrack ==
    \E a \in Stages : \E b :
        Matches(a) /\ Playable(rest, a, b) /\ (phase = "setup" => b = Ready)

\* As long as no call failed against the rules, what is left of SetUp or the
\* body can be played.  A table has the number of a process that was started,
\* so the one that a new process creates does not exist.
ReasonInv ==
    /\ tables \subseteq 1..processes
    /\ Running => fixture.metadata_table \in {None, processes}
    /\ faults = 0 => ~failed /\ ~unclean
    /\ faults = 0 /\ phase \in {"setup", "body"} => OnTrack

LEMMA NoneIsNoCount == \A x \in 0..3 : x # None
  BY NoneAssumption

LEMMA PassedIsLegal ==
  ASSUME TypeInv, NEW c \in Calls, NEW a \in Stages, Matches(a), Passes(c, a)
  PROVE  Legal(c)
<1> USE DEF Passes, Matches, Legal
<1>1. CASE c.name = "alloc"
  BY <1>1 DEF Allocatable, Stages
<1>2. CASE c.name = "free"
  BY <1>2 DEF Freeable
<1>3. CASE c.name \in {"prepare", "execute"}
  BY <1>3
<1>4. CASE c.name = "create"
  BY <1>4
<1>5. CASE c.name = "fetch"
  BY <1>5, NoneAssumption
<1>6. CASE c.name = "end"
  BY <1>6
<1>7. CASE c.name = "get"
  BY <1>7, NoneAssumption
<1>8. CASE c.name = "close cursor"
  <2>1. odbc.cursor \in 0..3
    BY <1>8
  <2>2. odbc.cursor # None
    BY <2>1, NoneIsNoCount
  <2> QED
    BY <1>8, <2>2
<1>9. CASE c.name \in {"ask", "connect", "set", "close", "point", "detach", "unbind",
                       "autocommit off", "commit", "rollback"}
  BY <1>9
<1> QED
  BY <1>1, <1>2, <1>3, <1>4, <1>5, <1>6, <1>7, <1>8, <1>9 DEF Calls, Names

\* What a successful call does to what the stage tells.
LEMMA PlayedEffect ==
  ASSUME TypeInv, NEW c \in Calls, NEW a \in Stages, Matches(a), Passes(c, a)
  PROVE  /\ Effect(c).cursor = Left(c, a.cursor)
         /\ "env" \in odbc.live => "env" \in Effect(c).live
         /\ c.name = "alloc" /\ c.of = "env" => "env" \in Effect(c).live
         /\ odbc.session \/ c.name = "connect" => Effect(c).session
         /\ c.name # "create" => EffectOnTables(c) = tables
<1> USE DEF TypeInv, OdbcType, Passes, Matches, Left
<1>1. CASE c.name = "alloc"
  BY <1>1 DEF Effect, EffectOnTables
<1>2. CASE c.name = "free"
  BY <1>2 DEF Effect, EffectOnTables, Freed
<1>3. CASE c.name = "connect"
  BY <1>3 DEF Effect, EffectOnTables
<1>4. CASE c.name = "execute"
  BY <1>4 DEF Effect, EffectOnTables, Executed
<1>5. CASE c.name = "create"
  BY <1>5 DEF Effect, EffectOnTables, Executed
<1>6. CASE c.name = "fetch"
  BY <1>6 DEF Effect, EffectOnTables, Fetched
<1>7. CASE c.name \in {"close", "close cursor"}
  BY <1>7 DEF Effect, EffectOnTables
<1>8. CASE c.name \in {"point", "detach", "unbind"}
  BY <1>8 DEF Effect, EffectOnTables
<1>9. CASE c.name = "autocommit off"
  BY <1>9 DEF Effect, EffectOnTables
<1>10. CASE c.name \in {"commit", "rollback"}
  BY <1>10 DEF Effect, EffectOnTables
<1>11. CASE c.name \in {"ask", "set", "prepare", "end", "get"}
  BY <1>11 DEF Effect, EffectOnTables
<1> QED
  BY <1>1, <1>2, <1>3, <1>4, <1>5, <1>6, <1>7, <1>8, <1>9, <1>10, <1>11 DEF Calls, Names

LEMMA NamesTable ==
  ASSUME TypeInv, NEW c \in Calls, NEW v \in BOOLEAN
  PROVE  MembersAfter(c, v).metadata_table =
             IF c.name = "set" /\ c.of = "metadata_table" THEN processes
             ELSE fixture.metadata_table
<1> USE DEF TypeInv, FixtureType, MembersAfter
<1>1. CASE c.name \in {"alloc", "free"}
  BY <1>1
<1>2. CASE c.name = "set"
  <2>1. c.of \in Settable
    BY <1>2 DEF Calls
  <2> QED
    BY <1>2, <2>1 DEF Settable
<1>3. CASE c.name \notin {"alloc", "free", "set"}
  BY <1>3
<1> QED
  BY <1>1, <1>2, <1>3

\* A call that succeeds brings the process where the stage goes.
LEMMA PlayMoves ==
  ASSUME TypeInv, NEW c \in Calls, NEW a \in Stages, Matches(a), Passes(c, a),
         odbc' = Effect(c), tables' = EffectOnTables(c), fixture' = MembersAfter(c, TRUE),
         processes' = processes
  PROVE  Goes(c, a) \in Stages /\ Matches(Goes(c, a))'
<1> DEFINE b == Goes(c, a)
<1>1. /\ b.cursor = Left(c, a.cursor)
      /\ b.level = IF c.name = "connect" THEN 2
                   ELSE IF c.name = "alloc" /\ a.level = 0 THEN 1 ELSE a.level
      /\ b.table = IF c.name = "create" THEN "created"
                   ELSE IF c.name = "set" /\ c.of = "metadata_table" THEN "named" ELSE a.table
  BY DEF Goes
<1>2. a.level \in 0..2 /\ a.cursor \in Cursors /\ a.table \in {"none", "named", "created"}
  BY DEF Stages
<1>3. Left(c, a.cursor) \in Cursors
  <2>1. CASE c.name = "execute"
    BY <2>1 DEF Left, Calls, Cursors
  <2>2. CASE c.name = "fetch"
    <3>1. c.of \in 1..3 /\ a.cursor \in 1..3
      BY <2>2 DEF Calls, Passes
    <3> QED
      BY <2>2, <3>1 DEF Left, Cursors
  <2>3. CASE c.name \notin {"execute", "fetch"}
    BY <1>2, <2>3 DEF Left, Cursors
  <2> QED
    BY <2>1, <2>2, <2>3
<1>4. b \in Stages
  BY <1>2, <1>3 DEF Goes, Stages
<1>5. odbc'.cursor = b.cursor
  BY <1>1, PlayedEffect
<1>6. b.level > 0 => "env" \in odbc'.live
  <2>1. a.level > 0 => "env" \in odbc.live
    BY DEF Matches
  <2>2. a.level = 0 /\ c.name = "alloc" => c.of = "env"
    BY DEF Passes
  <2>3. c.name = "connect" => a.level = 1
    BY DEF Passes
  <2>4. /\ "env" \in odbc.live => "env" \in odbc'.live
        /\ c.name = "alloc" /\ c.of = "env" => "env" \in odbc'.live
    BY PlayedEffect
  <2> HIDE DEF b
  <2> QED
    BY <1>1, <1>2, <2>1, <2>2, <2>3, <2>4
<1>7. b.level = 2 => odbc'.session
  <2>1. a.level = 2 => odbc.session
    BY DEF Matches
  <2>2. odbc.session \/ c.name = "connect" => odbc'.session
    BY PlayedEffect
  <2> HIDE DEF b
  <2> QED
    BY <1>1, <1>2, <2>1, <2>2
<1>8. b.table # "created" => processes \notin tables'
  <2>1. c.name # "create" => tables' = tables
    BY PlayedEffect
  <2>2. c.name = "set" => c.of # "metadata_table" \/ a.table = "none"
    BY DEF Passes
  <2>3. a.table # "created" => processes \notin tables
    BY DEF Matches
  <2> HIDE DEF b
  <2> QED
    BY <1>1, <2>1, <2>2, <2>3
<1>9. b.table # "none" => fixture'.metadata_table = processes
  <2>1. fixture'.metadata_table =
             IF c.name = "set" /\ c.of = "metadata_table" THEN processes
             ELSE fixture.metadata_table
    BY NamesTable
  <2>2. c.name = "create" => a.table = "named"
    BY DEF Passes
  <2>3. a.table # "none" => fixture.metadata_table = processes
    BY DEF Matches
  <2> HIDE DEF b
  <2> QED
    BY <1>1, <2>1, <2>2, <2>3
<1> HIDE DEF b
<1>10. Matches(b)'
  BY <1>5, <1>6, <1>7, <1>8, <1>9 DEF Matches
<1> QED
  BY <1>4, <1>10 DEF b

LEMMA TrackStep ==
  ASSUME IInv, ReasonInv, phase \in {"setup", "body"}, Skip \/ Succeed \/ Fail,
         faults = 0, faults' = 0
  PROVE  OnTrack' /\ ~failed' /\ ~unclean'
<1> DEFINE c == Upcoming
<1>1. /\ TypeInv /\ ~failed /\ ~unclean /\ rest # <<>> /\ rest \in Seq(Calls)
      /\ phase' = phase /\ processes' = processes
  BY DEF IInv, TypeInv, ReasonInv, Skip, Succeed, Fail
<1>2. c \in Calls /\ c = Head(rest)
  BY <1>1 DEF Upcoming
<1>3. PICK a \in Stages :
          \E y : Matches(a) /\ Playable(rest, a, y) /\ (phase = "setup" => y = Ready)
  BY DEF ReasonInv, OnTrack
<1>4. PICK z : Matches(a) /\ Playable(rest, a, z) /\ (phase = "setup" => z = Ready)
  BY <1>3
<1>5. PICK m \in Stages : Plays(c, a, m) /\ Playable(Tail(rest), m, z)
  BY <1>1, <1>2, <1>4, PlayHead
<1>6. ASSUME rest' = Tail(rest), Matches(m)'
      PROVE  OnTrack'
  BY <1>1, <1>4, <1>5, <1>6 DEF OnTrack
<1>7. ASSUME UNCHANGED <<odbc, tables, fixture>>, m = a
      PROVE  Matches(m)'
  BY <1>1, <1>4, <1>7 DEF Matches
<1>8. Passes(c, a) => Legal(c)
  BY <1>1, <1>2, <1>4, PassedIsLegal
<1>9. c.when = "always" => Holds(c.when)
  BY DEF Holds
<1>10. CASE Skip
  <2>1. m = a
    BY <1>5, <1>9, <1>10 DEF Skip, Plays
  <2> QED
    BY <1>1, <1>6, <1>7, <1>10, <2>1 DEF Skip
<1>11. CASE Succeed
  <2>1. /\ Legal(c) /\ odbc' = Effect(c) /\ tables' = EffectOnTables(c)
        /\ fixture' = MembersAfter(c, TRUE) /\ rest' = Tail(rest)
        /\ UNCHANGED <<failed, unclean>>
    BY <1>11 DEF Succeed
  <2>2. Passes(c, a)
    <3>1. ASSUME c.name = "execute"
          PROVE  Passes(c, a)
      BY <1>4, <2>1, <3>1 DEF Legal, Matches, Passes
    <3> QED
      BY <1>5, <3>1 DEF Plays
  <2>3. m = Goes(c, a)
    BY <1>5, <2>2 DEF Plays
  <2>4. Matches(m)'
    BY <1>1, <1>2, <1>4, <2>1, <2>2, <2>3, PlayMoves
  <2> QED
    BY <1>1, <1>6, <2>1, <2>4
<1>12. CASE Fail
  <2>1. ~Legal(c)
    BY <1>12, BoundsAssumption DEF Fail
  <2>2. c.name = "execute" /\ c.check = "none" /\ m = a
    BY <1>5, <1>8, <2>1 DEF Plays
  <2>3. /\ UNCHANGED <<odbc, tables>> /\ fixture' = MembersAfter(c, FALSE)
        /\ failed' = (failed \/ c.check # "none")
        /\ rest' = (IF c.check = "assert" THEN <<>> ELSE Tail(rest))
        /\ unclean' = (unclean \/ (phase = "teardown" /\ Legal(c)))
    BY <2>1, <1>12 DEF Fail
  <2>4. fixture' = fixture
    BY <2>2, <2>3 DEF MembersAfter
  <2>5. ~failed' /\ ~unclean' /\ rest' = Tail(rest)
    BY <1>1, <2>1, <2>2, <2>3
  <2> QED
    BY <1>6, <1>7, <2>2, <2>3, <2>4, <2>5
<1> QED
  BY <1>10, <1>11, <1>12

\* As long as no call of TearDown broke, each is legal that the fixture makes.
LEMMA TearLegal ==
  ASSUME IInv, phase = "teardown", test \in Conformance!Tests, ~unclean, rest # <<>>,
         Holds(Upcoming.when)
  PROVE  Legal(Upcoming)
<1> DEFINE c == Upcoming
           w == Conformance!TearDown
           n == Len(rest)
<1>1. TypeInv /\ TearInv
  BY DEF IInv, PhaseInv
<1>2. w \in Seq(Calls) /\ Len(w) = 9 /\ rest \in Seq(Calls) /\ Suffix(rest, w)
  BY <1>1, ConformanceTearDownCalls DEF TypeInv, TearInv
<1>3. c = w[9 - n + 1] /\ n \in 1..9
  <2>1. Upcoming = w[Len(w) - Len(rest) + 1]
    BY <1>2, SuffixTail DEF Upcoming
  <2>2. n \in Nat /\ n > 0 /\ n <= 9
    BY <1>2 DEF Suffix
  <2>3. c = w[9 - n + 1]
    BY <1>2, <2>1
  <2> HIDE DEF n
  <2>4. n \in 1..9
    BY <2>2
  <2> QED
    BY <2>3, <2>4
<1>4. FixtureTear(n) /\ OdbcTear(n)
  BY <1>1 DEF TearInv, Torn
<1> HIDE DEF n
<1>5. ConformanceCall(c, 10 - n)
  <2>1. 9 - n + 1 = 10 - n /\ 10 - n \in 1..9
    BY <1>3
  <2> QED
    BY <1>2, <1>3, <2>1, ConformanceTearDownCalls
<1> SUFFICES Legal(c)
  OBVIOUS
<1>6. Holds(c.when)
  OBVIOUS
<1> HIDE DEF c, w
<1>7. CASE n = 9
  <2>1. Parts(c, "free", "stmt", "expect", "stmt")
    BY <1>5, <1>7 DEF ConformanceCall
  <2> QED
    BY <2>1 DEF Parts, Legal, Freeable
<1>8. CASE n = 8 \/ n = 7 \/ n = 5
  <2>1. CASE n = 8
    <3>1. Parts(c, "rollback", None, "expect", "manual")
      BY <1>5, <2>1 DEF ConformanceCall
    <3> QED
      BY <3>1 DEF Parts, Legal
  <2>2. CASE n = 7
    <3>0. 10 - n = 3
      BY <2>2
    <3>1. Parts(c, "autocommit on", None, "expect", "manual")
      BY <1>5, <3>0 DEF ConformanceCall
    <3> QED
      BY <3>1 DEF Parts, Legal
  <2>3. CASE n = 5
    <3>1. Parts(c, "drop", None, "expect", "cleanup")
      BY <1>5, <2>3 DEF ConformanceCall
    <3> QED
      BY <3>1 DEF Parts, Legal
  <2> QED
    BY <1>8, <2>1, <2>2, <2>3
<1>9. CASE n = 6
  <2>1. Parts(c, "alloc", "cleanup", "expect", "table")
    BY <1>5, <1>9 DEF ConformanceCall
  <2>2. fixture.connected
    BY <1>6, <2>1 DEF Parts, Holds
  <2>3. odbc.session = fixture.connected
    BY <1>4, <1>9 DEF OdbcTear
  <2> QED
    BY <2>1, <2>2, <2>3 DEF Parts, Legal, Allocatable
<1>10. CASE n = 4
  <2>1. Parts(c, "free", "cleanup", "expect", "cleanup")
    BY <1>5, <1>10 DEF ConformanceCall
  <2> QED
    BY <2>1 DEF Parts, Legal, Freeable
<1>11. CASE n = 3
  <2>1. Parts(c, "disconnect", None, "expect", "connected")
    BY <1>5, <1>11 DEF ConformanceCall
  <2>2. fixture.connected
    BY <1>6, <2>1 DEF Parts, Holds
  <2>3. odbc.session = fixture.connected /\ ~odbc.work
    BY <1>4, <1>11 DEF OdbcTear
  <2> QED
    BY <2>1, <2>2, <2>3 DEF Parts, Legal
<1>12. CASE n = 2
  <2>1. Parts(c, "free", "dbc", "expect", "dbc")
    BY <1>5, <1>12 DEF ConformanceCall
  <2>2. ~odbc.session
    BY <1>4, <1>12 DEF OdbcTear
  <2> QED
    BY <2>1, <2>2 DEF Parts, Legal, Freeable
<1>13. CASE n = 1
  <2>1. Parts(c, "free", "env", "expect", "env")
    BY <1>5, <1>13 DEF ConformanceCall
  <2>2. "dbc" \notin odbc.live
    BY <1>4, <1>13 DEF OdbcTear, FixtureTear
  <2> QED
    BY <2>1, <2>2 DEF Parts, Legal, Freeable
<1> QED
  BY <1>3, <1>7, <1>8, <1>9, <1>10, <1>11, <1>12, <1>13

\* Nobody looks at what the calls of the parity suites' TearDown return.
LEMMA TearUnchecked ==
  ASSUME IInv, phase = "teardown", test \notin Conformance!Tests, rest # <<>>
  PROVE  Upcoming.check = "none"
<1> DEFINE w == Parity!TearDown
           m == Len(w) - Len(rest) + 1
<1>1. TypeInv /\ ParityTearInv
  BY DEF IInv, PhaseInv
<1>2. w \in Seq(Calls) /\ Len(w) = 5 /\ rest \in Seq(Calls) /\ Suffix(rest, w)
  BY <1>1, ParityTearDownCalls DEF TypeInv, ParityTearInv
<1>3. Upcoming = w[m]
  BY <1>2, SuffixTail DEF Upcoming
<1>4. m \in 1..5
  BY <1>2 DEF Suffix
<1> HIDE DEF m, w
<1>5. ParityCall(Upcoming, m)
  BY <1>3, <1>4, ParityTearDownCalls DEF w
<1>6. m \in {1, 2, 3, 4, 5}
  BY <1>4
<1> QED
  BY <1>5, <1>6 DEF ParityCall, Parts

LEMMA TearReason ==
  ASSUME IInv, ReasonInv, phase = "teardown", Skip \/ Succeed \/ Fail, faults = 0, faults' = 0
  PROVE  ~failed' /\ ~unclean'
<1>1. ~failed /\ ~unclean /\ rest # <<>>
  BY DEF ReasonInv, Skip, Succeed, Fail
<1>2. CASE Skip
  BY <1>1, <1>2 DEF Skip
<1>3. CASE Succeed
  BY <1>1, <1>3 DEF Succeed
<1>4. CASE Fail
  <2>1. ~Legal(Upcoming) /\ Holds(Upcoming.when)
    BY <1>4, BoundsAssumption DEF Fail
  <2>2. test \notin Conformance!Tests
    BY <1>1, <2>1, TearLegal
  <2>3. Upcoming.check = "none"
    BY <1>1, <2>2, TearUnchecked
  <2> QED
    BY <1>1, <1>4, <2>1, <2>3 DEF Fail
<1> QED
  BY <1>2, <1>3, <1>4

LEMMA CreatesNamed ==
  ASSUME IInv, Running, rest # <<>>, Upcoming.name = "create"
  PROVE  fixture.metadata_table # None
<1>1. TypeInv /\ PhaseInv
  BY DEF IInv
<1>2. CASE phase \in {"setup", "body"} /\ test \in Conformance!Tests
  <2>1. RunInv
    BY <1>1, <1>2 DEF PhaseInv
  <2> QED
    BY <2>1, HeadTells DEF RunInv, Upcoming
<1>3. CASE phase \in {"setup", "body"} /\ test \notin Conformance!Tests
  <2>1. rest \in Seq(ParityCalls)
    BY <1>1, <1>3 DEF PhaseInv, ParityInv
  <2>2. Upcoming \in ParityCalls
    BY <2>1 DEF Upcoming
  <2> QED
    BY <2>2 DEF ParityCalls
<1>4. CASE phase = "teardown" /\ test \in Conformance!Tests
  BY <1>1, <1>4, TearNames DEF PhaseInv
<1>5. CASE phase = "teardown" /\ test \notin Conformance!Tests
  BY <1>1, <1>5, ParityTearNames DEF PhaseInv
<1> QED
  BY <1>2, <1>3, <1>4, <1>5 DEF Running

LEMMA ReasonCall ==
  ASSUME IInv, ReasonInv, Skip \/ Succeed \/ Fail
  PROVE  ReasonInv'
<1> DEFINE c == Upcoming
<1>1. TypeInv /\ Running /\ rest # <<>> /\ rest \in Seq(Calls) /\ processes \in Nat /\ processes > 0
      /\ phase' = phase /\ processes' = processes
  <2>1. TypeInv /\ Running /\ rest # <<>> /\ phase' = phase /\ processes' = processes
    BY DEF IInv, Skip, Succeed, Fail
  <2>2. rest \in Seq(Calls) /\ processes \in 0..MaxProcesses /\ processes > 0
    BY <2>1 DEF TypeInv
  <2> QED
    BY <2>1, <2>2, BoundsAssumption
<1>2. c \in Calls
  BY <1>1 DEF Upcoming
<1>3. fixture.metadata_table \in {None, processes}
  BY <1>1 DEF ReasonInv
<1>4. tables' \subseteq 1..processes
  <2>1. c.name = "create" => fixture.metadata_table = processes
    BY <1>1, <1>3, CreatesNamed
  <2>2. tables \subseteq 1..processes
    BY DEF ReasonInv
  <2>3. EffectOnTables(c) \subseteq 1..processes
    BY <1>1, <2>1, <2>2 DEF EffectOnTables
  <2>4. tables' = tables \/ tables' = EffectOnTables(c)
    BY DEF Skip, Succeed, Fail
  <2> QED
    BY <2>2, <2>3, <2>4
<1>5. fixture'.metadata_table \in {None, processes}
  <2>1. MembersAfter(c, TRUE).metadata_table \in {None, processes}
        /\ MembersAfter(c, FALSE).metadata_table \in {None, processes}
    BY <1>1, <1>2, <1>3, NamesTable
  <2>2. fixture' \in {fixture, MembersAfter(c, TRUE), MembersAfter(c, FALSE)}
    BY DEF Skip, Succeed, Fail
  <2> QED
    BY <1>3, <2>1, <2>2
<1>6. faults' = 0 => faults = 0
  <2>1. faults' = faults \/ faults' = faults + 1
    BY DEF Skip, Succeed, Fail
  <2>2. faults \in Nat
    BY <1>1, BoundsAssumption DEF TypeInv
  <2> QED
    BY <2>1, <2>2
<1>7. CASE phase \in {"setup", "body"}
  BY <1>1, <1>4, <1>5, <1>6, <1>7, TrackStep DEF ReasonInv
<1>8. CASE phase = "teardown"
  BY <1>1, <1>4, <1>5, <1>6, <1>8, TearReason DEF ReasonInv
<1> QED
  BY <1>1, <1>7, <1>8 DEF Running

LEMMA ReasonStart ==
  ASSUME IInv, ReasonInv, NEW t \in Tests, Start(t, SetUpOf(t))
  PROVE  ReasonInv'
<1>1. processes \in Nat /\ processes' = processes + 1 /\ tables' = tables
      /\ phase' = "setup" /\ rest' = SetUpOf(t) /\ odbc' = NewProcess /\ fixture' = NewFixture
      /\ ~failed' /\ ~unclean'
  BY BoundsAssumption DEF IInv, TypeInv, Start
<1>2. tables \subseteq 1..processes
  BY DEF ReasonInv
<1>3. tables' \subseteq 1..processes'
  BY <1>1, <1>2
<1>4. processes' \notin tables'
  BY <1>1, <1>2
<1>5. Fresh \in Stages
  BY DEF Fresh, Stages, Cursors
<1>6. Matches(Fresh)'
  BY <1>1, <1>4 DEF Matches, Fresh, NewProcess
<1>7. OnTrack'
  BY <1>1, <1>5, <1>6, SetUpsPlay DEF OnTrack
<1>8. fixture'.metadata_table = None
  BY <1>1 DEF NewFixture
<1> QED
  BY <1>1, <1>3, <1>7, <1>8 DEF ReasonInv

LEMMA ReasonEnterBody ==
  ASSUME IInv, ReasonInv, EnterBody(BodyOf(test))
  PROVE  ReasonInv'
<1>1. phase = "setup" /\ rest = <<>> /\ phase' = "body" /\ rest' = BodyOf(test)
      /\ UNCHANGED <<odbc, tables, fixture, failed, faults, unclean, processes>>
  BY DEF EnterBody
<1>2. test \in Tests /\ Running
  BY <1>1 DEF IInv, TypeInv, Running
<1>3. ASSUME faults = 0
      PROVE  OnTrack'
  <2>1. PICK a \in Stages : Matches(a) /\ Playable(rest, a, Ready)
    BY <1>1, <1>3 DEF ReasonInv, OnTrack
  <2>2. a = Ready
    BY <1>1, <2>1, PlayNothing
  <2>3. Matches(a)'
    BY <1>1, <2>1 DEF Matches
  <2>4. PICK z : Playable(BodyOf(test), Ready, z)
    BY <1>2, BodiesPlay
  <2> QED
    BY <1>1, <2>2, <2>3, <2>4 DEF OnTrack
<1> QED
  BY <1>1, <1>2, <1>3 DEF ReasonInv, Running

LEMMA ReasonElse ==
  ASSUME ReasonInv, EnterTearDown(TearDownOf(test)) \/ End \/ Kill \/ UNCHANGED vars
  PROVE  ReasonInv'
<1>1. CASE EnterTearDown(TearDownOf(test))
  BY <1>1 DEF EnterTearDown, ReasonInv, Running
<1>2. CASE End
  BY <1>2 DEF End, ReasonInv, Running
<1>3. CASE Kill
  BY <1>3 DEF Kill, ReasonInv, Running
<1>4. CASE UNCHANGED vars
  BY <1>4 DEF vars, ReasonInv, Running, OnTrack, Matches
<1> QED
  BY <1>1, <1>2, <1>3, <1>4

\* A test is red only if some call failed that ODBC lets succeed, for any
\* number of processes before it and wherever they were killed: no SetUp, body
\* or TearDown of either fixture makes a call that is illegal there, and none
\* meets a table that an earlier process left.
THEOREM RedHasReasonAlways == Spec => []RedHasReason
<1>1. Init => ReasonInv
  BY DEF Init, ReasonInv, Running
<1>2. IInv /\ ReasonInv /\ [Next]_vars => ReasonInv'
  <2> SUFFICES ASSUME IInv, ReasonInv, [Next]_vars PROVE ReasonInv'
    OBVIOUS
  <2>1. CASE \E t \in Tests : Start(t, SetUpOf(t))
    BY <2>1, ReasonStart
  <2>2. CASE Skip \/ Succeed \/ Fail
    BY <2>2, ReasonCall
  <2>3. CASE EnterBody(BodyOf(test))
    BY <2>3, ReasonEnterBody
  <2>4. CASE EnterTearDown(TearDownOf(test)) \/ End \/ Kill \/ UNCHANGED vars
    BY <2>4, ReasonElse
  <2> QED
    BY <2>1, <2>2, <2>3, <2>4 DEF Next
<1>3. IInv /\ ReasonInv => RedHasReason
  <2> SUFFICES ASSUME IInv, ReasonInv, failed PROVE faults > 0
    BY DEF RedHasReason
  <2>1. faults \in Nat
    BY BoundsAssumption DEF IInv, TypeInv
  <2>2. faults # 0
    BY DEF ReasonInv
  <2> QED
    BY <2>1, <2>2
<1> QED
  BY <1>1, <1>2, <1>3, Invariance, PTL DEF Spec
=============================================================================
