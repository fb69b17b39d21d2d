-------------------------- MODULE Recoveries_proofs --------------------------
(***************************************************************************)
(* TLAPS proofs about Recoveries, for every set of original issues, every   *)
(* family of sets of cases and every bound.                                *)
(***************************************************************************)
EXTENDS Recoveries, SequenceLemmas

-----------------------------------------------------------------------------
(* Bodies.                                                                 *)

LEMMA StartIsFirst ==
    ASSUME NEW body \in Seq(Parts), NEW o, Has(body, Marker(o))
    PROVE  /\ Start(body, o) \in 1..Len(body)
           /\ body[Start(body, o)] = Marker(o)
           /\ \A j \in 1..(Start(body, o) - 1) : body[j] # Marker(o)
<1> DEFINE T == {k \in 1..Len(body) : body[k] = Marker(o)}
<1>1. DOMAIN body = 1..Len(body) /\ Len(body) \in Nat
  BY SeqElements
<1>2. T \subseteq Nat /\ T # {}
  BY <1>1 DEF Has, ToSet
<1>3. PICK k \in T : \A j \in T : k <= j
  BY <1>2, LeastExists
<1>4. \A j \in 1..(k - 1) : body[j] # Marker(o)
  BY <1>1, <1>3
<1>5. \E m \in DOMAIN body : body[m] = Marker(o) /\ \A j \in 1..(m - 1) : body[j] # Marker(o)
  BY <1>1, <1>3, <1>4
<1> QED BY <1>1, <1>5 DEF Start

LEMMA EndIsNext ==
    ASSUME NEW body \in Seq(Parts), NEW o, Has(body, Marker(o)), IsManaged(body, o)
    PROVE  /\ End(body, o) \in Start(body, o)..Len(body)
           /\ body[End(body, o)] = EndMarker
           /\ \A j \in Start(body, o)..(End(body, o) - 1) : body[j] # EndMarker
<1> DEFINE T == EndsFrom(body, Start(body, o))
<1>1. Len(body) \in Nat /\ Start(body, o) \in 1..Len(body)
  BY SeqElements, StartIsFirst
<1>2. T \subseteq Nat /\ T # {}
  BY <1>1 DEF EndsFrom, IsManaged
<1>3. \E k \in T : \A j \in T : k <= j
  BY <1>2, LeastExists
<1>4. End(body, o) \in T /\ \A j \in T : End(body, o) <= j
  BY <1>3 DEF End
<1> QED BY <1>1, <1>4 DEF EndsFrom

LEMMA PartsAround ==
    ASSUME NEW body \in Seq(Parts), NEW o, Has(body, Marker(o)), IsManaged(body, o)
    PROVE  /\ Before(body, o) \in Seq(Parts)
           /\ After(body, o) \in Seq(Parts)
           /\ ToSet(Before(body, o)) \subseteq ToSet(body)
           /\ ToSet(After(body, o)) \subseteq ToSet(body)
<1> DEFINE start == Start(body, o)
           end == End(body, o)
<1>1. /\ Len(body) \in Nat /\ start \in 1..Len(body) /\ end \in 1..Len(body)
      /\ ToSet(body) = {body[i] : i \in 1..Len(body)}
  BY SeqElements, StartIsFirst, EndIsNext
<1> HIDE DEF start, end
<1>2. /\ SubSeq(body, 1, start - 1) \in Seq(Parts)
      /\ ToSet(SubSeq(body, 1, start - 1)) = {body[i] : i \in 1..(start - 1)}
  BY <1>1, SubSeqElements
<1>3. /\ SubSeq(body, end + 1, Len(body)) \in Seq(Parts)
      /\ ToSet(SubSeq(body, end + 1, Len(body))) = {body[i] : i \in (end + 1)..Len(body)}
  BY <1>1, SubSeqElements
<1>4. {body[i] : i \in 1..(start - 1)} \subseteq ToSet(body)
  BY <1>1
<1>5. {body[i] : i \in (end + 1)..Len(body)} \subseteq ToSet(body)
  BY <1>1
<1> QED BY <1>2, <1>3, <1>4, <1>5 DEF Before, After, start, end

LEMMA SpliceElements ==
    ASSUME NEW body \in Seq(Parts), NEW o, Has(body, Marker(o)), IsManaged(body, o),
           NEW section \in Seq(Parts)
    PROVE  /\ Splice(body, o, section) \in Seq(Parts)
           /\ ToSet(Splice(body, o, section)) \subseteq ToSet(body) \cup ToSet(section)
           /\ ToSet(section) \subseteq ToSet(Splice(body, o, section))
<1> DEFINE front == Before(body, o) \o section
<1>1. front \in Seq(Parts)
  BY PartsAround, ConcatProperties
<1>2. ToSet(front) = ToSet(Before(body, o)) \cup ToSet(section)
  BY PartsAround, ConcatElements
<1>3. Splice(body, o, section) = front \o After(body, o)
  BY DEF Splice
<1> HIDE DEF front
<1>4. Splice(body, o, section) \in Seq(Parts)
  BY <1>1, <1>3, PartsAround, ConcatProperties
<1>5. ToSet(Splice(body, o, section)) = ToSet(front) \cup ToSet(After(body, o))
  BY <1>1, <1>3, PartsAround, ConcatElements
<1> QED BY <1>2, <1>4, <1>5, PartsAround

LEMMA SectionElements ==
    ASSUME NEW o \in Originals, NEW cases \in CaseSets, NEW run \in Nat
    PROVE  /\ Section(o, cases, run) \in Seq(Parts)
           /\ ToSet(Section(o, cases, run)) =
                {Marker(o), Signature(cases), Evidence(run), EndMarker}
<1>1. {Marker(o), Signature(cases), Evidence(run), EndMarker} \subseteq Parts
  BY DEF Marker, Signature, Evidence, EndMarker, Parts
<1>2. DOMAIN Section(o, cases, run) = 1..4
  BY DEF Section
<1> QED BY <1>1, <1>2 DEF Section, ToSet

LEMMA PartsDiffer ==
    /\ \A o, p : Marker(o) = Marker(p) => o = p
    /\ \A o, c : Marker(o) # Signature(c)
    /\ \A o, r : Marker(o) # Evidence(r)
    /\ \A o, n : Marker(o) # Note(n)
    /\ \A o : Marker(o) # EndMarker
    /\ \A c, n : Signature(c) # Note(n)
    /\ \A c : Signature(c) # EndMarker
  BY DEF Marker, Signature, Evidence, Note, EndMarker

\* Two bodies say the same to the job: they have the same markers and signatures.
SameMeaning(b, c) ==
    /\ \A o \in Originals : Has(b, Marker(o)) <=> Has(c, Marker(o))
    /\ \A cases \in CaseSets : Has(b, Signature(cases)) <=> Has(c, Signature(cases))

LEMMA NotesKeepMeaning ==
    ASSUME NEW body \in Seq(Parts), NEW k \in 1..(Len(body) + 1), NEW n \in Nat
    PROVE  /\ InsertAt(body, k, Note(n)) \in Seq(Parts)
           /\ SameMeaning(InsertAt(body, k, Note(n)), body)
<1>1. Note(n) \in Parts
  BY DEF Note, Parts
<1>2. /\ InsertAt(body, k, Note(n)) \in Seq(Parts)
      /\ ToSet(InsertAt(body, k, Note(n))) = ToSet(body) \cup {Note(n)}
  BY <1>1, InsertElements
<1> QED BY <1>2, PartsDiffer DEF SameMeaning, Has

LEMMA ErasingKeepsMeaning ==
    ASSUME NEW body \in Seq(Parts), NEW k \in DOMAIN body, body[k] = EndMarker
    PROVE  /\ RemoveAt(body, k) \in Seq(Parts)
           /\ SameMeaning(RemoveAt(body, k), body)
<1>1. /\ RemoveAt(body, k) \in Seq(Parts)
      /\ ToSet(RemoveAt(body, k)) \cup {EndMarker} = ToSet(body)
  BY RemoveElements
<1> QED BY <1>1, PartsDiffer DEF SameMeaning, Has

-----------------------------------------------------------------------------
(* The inductive invariant.                                                *)

\* A job that runs has a report, and only groups of it are left.
JobInv ==
    /\ phase # "idle" => report \in ReportType
    /\ phase = "publish" => todo \subseteq DOMAIN report.groups

\* An issue is the notification of at most one original.
OneMarkerInv ==
    \A i \in 1..Len(issues), o, p \in Originals :
        Has(issues[i].body, Marker(o)) /\ Has(issues[i].body, Marker(p)) => o = p

\* What the snapshot still says of GitHub: which issue belongs to which
\* original, and for the groups that are left the sets of cases; the issues
\* that are not in it were created by this job for groups that are done.
SnapshotInv ==
    phase = "publish" =>
        /\ Len(snapshot) <= Len(issues)
        /\ \A i \in 1..Len(snapshot), o \in Originals :
            /\ Has(issues[i].body, Marker(o)) <=> Has(snapshot[i].body, Marker(o))
            /\ o \in todo /\ Has(snapshot[i].body, Marker(o)) =>
                /\ SameMeaning(issues[i].body, snapshot[i].body)
                /\ i \notin touched => issues[i] = snapshot[i]
        /\ \A i \in (Len(snapshot) + 1)..Len(issues), o \in todo :
            ~Has(issues[i].body, Marker(o))

\* Apart from what people reopened, what is open was open in the snapshot, and
\* an original has one open notification.
ReopenInv ==
    /\ \A o \in Originals : \A i, j \in OpenFor(o) \ reopened : i = j
    /\ phase = "publish" =>
        \A i \in 1..Len(snapshot) \ reopened :
            issues[i].state = "open" => snapshot[i].state = "open"

IInv == TypeOK /\ JobInv /\ OneMarkerInv /\ SnapshotInv /\ ReopenInv

-----------------------------------------------------------------------------
(* What steps do to the issues.                                            *)

LEMMA IssueFacts ==
    ASSUME TypeOK
    PROVE  /\ Len(issues) \in Nat /\ DOMAIN issues = 1..Len(issues)
           /\ Len(snapshot) \in Nat /\ DOMAIN snapshot = 1..Len(snapshot)
           /\ \A i \in 1..Len(issues) : issues[i] \in IssueType /\ issues[i].body \in Seq(Parts)
           /\ \A i \in 1..Len(snapshot) :
                snapshot[i] \in IssueType /\ snapshot[i].body \in Seq(Parts)
<1>1. issues \in Seq(IssueType) /\ snapshot \in Seq(IssueType)
  BY DEF TypeOK
<1>2. /\ Len(issues) \in Nat /\ DOMAIN issues = 1..Len(issues)
      /\ Len(snapshot) \in Nat /\ DOMAIN snapshot = 1..Len(snapshot)
  BY <1>1, LenProperties
<1>3. /\ \A i \in 1..Len(issues) : issues[i] \in IssueType
      /\ \A i \in 1..Len(snapshot) : snapshot[i] \in IssueType
  BY <1>1, ElementOfSeq
<1>4. \A item \in IssueType : item.body \in Seq(Parts)
  BY DEF IssueType
<1> QED BY <1>2, <1>3, <1>4

\* One issue is replaced by another one.
LEMMA OneEdited ==
    ASSUME TypeOK, NEW i \in 1..Len(issues), NEW item \in IssueType,
           issues' = [issues EXCEPT ![i] = item]
    PROVE  /\ issues' \in Seq(IssueType)
           /\ Len(issues') = Len(issues)
           /\ \A j \in 1..Len(issues) : issues'[j] = IF j = i THEN item ELSE issues[j]
  BY ExceptSeq DEF TypeOK

\* A move of people keeps every issue and what it means to the job, and is
\* recorded.
PeopleKeep ==
    /\ issues' \in Seq(IssueType)
    /\ Len(issues') = Len(issues)
    /\ touched' \subseteq 1..Len(issues) /\ reopened' \subseteq 1..Len(issues)
    /\ reopened \subseteq reopened'
    /\ \A i \in 1..Len(issues) :
        /\ SameMeaning(issues'[i].body, issues[i].body)
        /\ i \notin reopened' /\ issues'[i].state = "open" => issues[i].state = "open"
        /\ phase = "publish" /\ i \notin touched' =>
            i \notin touched /\ issues'[i] = issues[i]

LEMMA EditKeeps ==
    ASSUME TypeOK, NEW i \in 1..Len(issues), NEW item \in IssueType, NEW move, Act(move, i),
           issues' = [issues EXCEPT ![i] = item],
           SameMeaning(item.body, issues[i].body),
           move = "reopen" \/ (item.state = "open" => issues[i].state = "open")
    PROVE  PeopleKeep
<1>1. /\ issues' \in Seq(IssueType)
      /\ Len(issues') = Len(issues)
      /\ \A j \in 1..Len(issues) : issues'[j] = IF j = i THEN item ELSE issues[j]
  BY OneEdited
<1>2. /\ touched' = IF phase = "publish" THEN touched \cup {i} ELSE touched
      /\ reopened' = IF move = "reopen" THEN reopened \cup {i} ELSE reopened
  BY DEF Act
<1>3. touched \subseteq 1..Len(issues) /\ reopened \subseteq 1..Len(issues)
  BY IssueFacts DEF TypeOK
<1>4. ASSUME NEW j \in 1..Len(issues)
      PROVE  /\ SameMeaning(issues'[j].body, issues[j].body)
             /\ j \notin reopened' /\ issues'[j].state = "open" => issues[j].state = "open"
             /\ phase = "publish" /\ j \notin touched' =>
                    j \notin touched /\ issues'[j] = issues[j]
  <2>1. CASE j = i
    BY <1>1, <1>2, <2>1
  <2>2. CASE j # i
    <3>1. issues'[j] = issues[j]
      BY <1>1, <2>2
    <3>2. SameMeaning(issues[j].body, issues[j].body)
      BY DEF SameMeaning
    <3> QED BY <1>2, <3>1, <3>2
  <2> QED BY <2>1, <2>2
<1> QED BY <1>1, <1>2, <1>3, <1>4 DEF PeopleKeep

LEMMA PeopleStep ==
    ASSUME TypeOK, People
    PROVE  /\ PeopleKeep
           /\ UNCHANGED <<pending, phase, report, snapshot, todo, outcome, audits, reruns, deaths>>
           /\ acts < MaxActs /\ acts' = acts + 1
<1>1. PICK i \in 1..Len(issues) :
        \/ Close(i) \/ Reopen(i) \/ Retitle(i)
        \/ \E k \in 1..(Len(issues[i].body) + 1) : Annotate(i, k) \/ EraseEnd(i, k)
  BY IssueFacts DEF People
<1>2. issues[i] \in IssueType /\ issues[i].body \in Seq(Parts)
  BY IssueFacts
<1>3. \A j \in 1..Len(issues) : SameMeaning(issues[j].body, issues[j].body)
  BY DEF SameMeaning
<1>4. ASSUME Close(i)
      PROVE  PeopleKeep /\ Act("close", i)
  <2> DEFINE item == [issues[i] EXCEPT !.state = "closed"]
  <2>1. issues' = [issues EXCEPT ![i] = item]
    BY <1>4 DEF Close
  <2>2. item \in IssueType /\ item.state = "closed" /\ item.body = issues[i].body
    BY <1>2 DEF IssueType
  <2> HIDE DEF item
  <2>3. Act("close", i)
    BY <1>4 DEF Close
  <2> QED BY <1>3, <2>1, <2>2, <2>3, EditKeeps
<1>5. ASSUME Reopen(i)
      PROVE  PeopleKeep /\ Act("reopen", i)
  <2> DEFINE item == [issues[i] EXCEPT !.state = "open"]
  <2>1. issues' = [issues EXCEPT ![i] = item]
    BY <1>5 DEF Reopen
  <2>2. item \in IssueType /\ item.body = issues[i].body
    BY <1>2 DEF IssueType
  <2> HIDE DEF item
  <2>3. Act("reopen", i)
    BY <1>5 DEF Reopen
  <2> QED BY <1>3, <2>1, <2>2, <2>3, EditKeeps
<1>6. ASSUME Retitle(i)
      PROVE  PeopleKeep /\ Act("retitle", i)
  <2> DEFINE item == [issues[i] EXCEPT !.title = None]
  <2>1. issues' = [issues EXCEPT ![i] = item]
    BY <1>6 DEF Retitle
  <2>2. item \in IssueType /\ item.state = issues[i].state /\ item.body = issues[i].body
    BY <1>2 DEF IssueType, Titles
  <2> HIDE DEF item
  <2>3. Act("retitle", i)
    BY <1>6 DEF Retitle
  <2> QED BY <1>3, <2>1, <2>2, <2>3, EditKeeps
<1>7. ASSUME NEW k \in 1..(Len(issues[i].body) + 1), Annotate(i, k)
      PROVE  PeopleKeep /\ Act("annotate", i)
  <2> DEFINE new == InsertAt(issues[i].body, k, Note(acts + 1))
             item == [issues[i] EXCEPT !.body = new]
  <2>1. issues' = [issues EXCEPT ![i] = item]
    BY <1>7 DEF Annotate
  <2>2. new \in Seq(Parts) /\ SameMeaning(new, issues[i].body)
    <3>1. acts + 1 \in Nat
      BY RecoveriesAssumption DEF TypeOK
    <3> QED BY <1>2, <3>1, NotesKeepMeaning
  <2> HIDE DEF new
  <2>3. item \in IssueType /\ item.state = issues[i].state /\ item.body = new
    BY <1>2, <2>2 DEF IssueType
  <2> HIDE DEF item
  <2>4. Act("annotate", i)
    BY <1>7 DEF Annotate
  <2> QED BY <2>1, <2>2, <2>3, <2>4, EditKeeps
<1>8. ASSUME NEW k \in 1..(Len(issues[i].body) + 1), EraseEnd(i, k)
      PROVE  PeopleKeep /\ Act("erase", i)
  <2> DEFINE new == RemoveAt(issues[i].body, k)
             item == [issues[i] EXCEPT !.body = new]
  <2>1. issues' = [issues EXCEPT ![i] = item]
    BY <1>8 DEF EraseEnd
  <2>2. new \in Seq(Parts) /\ SameMeaning(new, issues[i].body)
    BY <1>2, <1>8, ErasingKeepsMeaning DEF EraseEnd
  <2> HIDE DEF new
  <2>3. item \in IssueType /\ item.state = issues[i].state /\ item.body = new
    BY <1>2, <2>2 DEF IssueType
  <2> HIDE DEF item
  <2>4. Act("erase", i)
    BY <1>8 DEF EraseEnd
  <2> QED BY <2>1, <2>2, <2>3, <2>4, EditKeeps
<1>9. (PeopleKeep /\ \E move \in AllMoves : Act(move, i))
        => /\ PeopleKeep
           /\ UNCHANGED <<pending, phase, report, snapshot, todo, outcome, audits, reruns, deaths>>
           /\ acts < MaxActs /\ acts' = acts + 1
  BY DEF Act, job
<1> QED BY <1>1, <1>4, <1>5, <1>6, <1>7, <1>8, <1>9 DEF AllMoves

LEMMA OpenedFacts ==
    ASSUME TypeOK, NEW o \in Originals
    PROVE  /\ IsFiniteSet(Opened(o))
           /\ \A i \in Opened(o) : /\ i \in 1..Len(snapshot)
                                   /\ snapshot[i].state = "open"
                                   /\ Has(snapshot[i].body, Marker(o))
<1>1. IsFiniteSet(1..Len(snapshot)) /\ DOMAIN snapshot = 1..Len(snapshot)
  BY IssueFacts, FS_Interval
<1>2. Opened(o) \subseteq 1..Len(snapshot)
  BY <1>1 DEF Opened, Matches
<1>3. IsFiniteSet(Opened(o))
  BY <1>1, <1>2, FS_Subset
<1> QED BY <1>2, <1>3 DEF Opened, Matches

LEMMA OpenedIsManaged ==
    ASSUME TypeOK, NEW o \in Originals, ~Unpublishable(o), NEW i \in Opened(o)
    PROVE  IsManaged(snapshot[i].body, o) /\ Opened(o) = {i}
<1>1. IsFiniteSet(Opened(o)) /\ Opened(o) # {}
  BY OpenedFacts
<1>2. Cardinality(Opened(o)) \in Nat /\ Cardinality(Opened(o)) # 0
  BY <1>1, FS_CardinalityType, FS_EmptySet
<1>3. Cardinality(Opened(o)) = 1
  BY <1>2 DEF Unpublishable
<1>4. \E x : Opened(o) = {x}
  BY <1>1, <1>3, FS_Singleton
<1> QED BY <1>3, <1>4 DEF Unpublishable

\* The group at the head of the loop.
LEMMA NextGroupFacts ==
    ASSUME TypeOK, JobInv, NEW o \in Originals, IsNext(o)
    PROVE  /\ phase = "publish" /\ o \in todo /\ o \in DOMAIN report.groups
           /\ report \in ReportType
           /\ report.groups[o] \in CaseSets /\ report.run \in Nat
           /\ NewTitle(o) \in Titles
           /\ NewSection(o) \in Seq(Parts)
           /\ \A p \in Originals : Has(NewSection(o), Marker(p)) <=> p = o
<1>1. phase = "publish" /\ o \in todo
  BY DEF IsNext
<1>2. report \in ReportType /\ o \in DOMAIN report.groups
  BY <1>1 DEF JobInv
<1>3. report.run \in Nat /\ report.groups \in Groups
  BY <1>2, RecoveriesAssumption DEF ReportType
<1>4. \A groups \in Groups : \A p \in DOMAIN groups : groups[p] \in CaseSets
  BY DEF Groups
<1>5. report.groups[o] \in CaseSets
  BY <1>2, <1>3, <1>4
<1>6. Cardinality(report.groups[o]) \in Nat
  BY <1>5, RecoveriesAssumption, FS_CardinalityType
<1>7. NewTitle(o) \in Titles
  BY <1>6 DEF NewTitle, Title, Titles
<1>8. /\ NewSection(o) \in Seq(Parts)
      /\ ToSet(NewSection(o)) = {Marker(o), Signature(report.groups[o]),
                                 Evidence(report.run), EndMarker}
  BY <1>3, <1>5, SectionElements DEF NewSection
<1>9. \A p \in Originals : Has(NewSection(o), Marker(p)) <=> p = o
  BY <1>8, PartsDiffer DEF Has
<1> QED BY <1>1, <1>2, <1>3, <1>5, <1>7, <1>8, <1>9

\* An update rewrites the notification of o, which stays one of o alone.
LEMMA UpdateStep ==
    ASSUME TypeOK, JobInv, OneMarkerInv, SnapshotInv, NEW o \in Originals, Update(o)
    PROVE  \E i \in Opened(o) :
            /\ i \in 1..Len(snapshot) /\ i \in 1..Len(issues)
            /\ issues' \in Seq(IssueType) /\ Len(issues') = Len(issues)
            /\ \A j \in 1..Len(issues) : j # i => issues'[j] = issues[j]
            /\ issues'[i].state = issues[i].state
            /\ \A p \in Originals : Has(issues'[i].body, Marker(p)) <=> p = o
            /\ Has(issues[i].body, Marker(o))
<1>1. IsNext(o) /\ ~Unpublishable(o) /\ phase = "publish" /\ o \in todo
  BY NextGroupFacts DEF Update
<1>2. PICK i \in Opened(o) :
        LET body == Splice(snapshot[i].body, o, NewSection(o)) IN
        IF body # snapshot[i].body \/ NewTitle(o) # snapshot[i].title
        THEN issues' = [issues EXCEPT ![i].title = NewTitle(o), ![i].body = body]
        ELSE UNCHANGED issues
  BY DEF Update
<1>3. /\ i \in 1..Len(snapshot) /\ Has(snapshot[i].body, Marker(o))
      /\ IsManaged(snapshot[i].body, o)
      /\ snapshot[i].body \in Seq(Parts)
  BY <1>1, OpenedFacts, OpenedIsManaged, IssueFacts
<1>4. i \in 1..Len(issues) /\ Has(issues[i].body, Marker(o)) /\ issues[i] \in IssueType
  BY <1>1, <1>3, IssueFacts DEF SnapshotInv
<1>5. \A p \in Originals : Has(snapshot[i].body, Marker(p)) => p = o
  BY <1>1, <1>3, <1>4 DEF SnapshotInv, OneMarkerInv
<1> DEFINE body == Splice(snapshot[i].body, o, NewSection(o))
           item == [issues[i] EXCEPT !.title = NewTitle(o), !.body = body]
<1>6. /\ body \in Seq(Parts)
      /\ ToSet(body) \subseteq ToSet(snapshot[i].body) \cup ToSet(NewSection(o))
      /\ ToSet(NewSection(o)) \subseteq ToSet(body)
  BY <1>1, <1>3, NextGroupFacts, SpliceElements
<1>7. \A p \in Originals : Has(body, Marker(p)) <=> p = o
  BY <1>1, <1>5, <1>6, NextGroupFacts DEF Has
<1>8. CASE issues' = [issues EXCEPT ![i].title = NewTitle(o), ![i].body = body]
  <2> HIDE DEF body
  <2>1. issues' = [issues EXCEPT ![i] = item]
    BY <1>4, <1>8, IssueFacts
  <2>2. item \in IssueType /\ item.state = issues[i].state /\ item.body = body
    BY <1>1, <1>4, <1>6, NextGroupFacts DEF IssueType
  <2> HIDE DEF item
  <2>3. /\ issues' \in Seq(IssueType) /\ Len(issues') = Len(issues)
        /\ \A j \in 1..Len(issues) : issues'[j] = IF j = i THEN item ELSE issues[j]
    BY <1>4, <2>1, <2>2, OneEdited
  <2> QED BY <1>3, <1>4, <1>7, <2>2, <2>3
<1>9. CASE UNCHANGED issues
  <2>1. issues' \in Seq(IssueType)
    BY <1>9 DEF TypeOK
  <2>2. \A p \in Originals : Has(issues'[i].body, Marker(p)) <=> p = o
    BY <1>4, <1>9 DEF OneMarkerInv
  <2> QED BY <1>3, <1>4, <1>9, <2>1, <2>2
<1> QED BY <1>2, <1>8, <1>9

-----------------------------------------------------------------------------
(* The invariant is inductive.                                             *)

LEMMA InitInv == Init => IInv
<1> SUFFICES ASSUME Init PROVE IInv
  OBVIOUS
<1>1. issues = <<>> /\ snapshot = <<>> /\ phase = "idle" /\ todo = {}
  BY DEF Init
<1>2. <<>> \in Seq(IssueType) /\ Len(<<>>) = 0
  BY EmptySeq
<1>3. TypeOK
  BY <1>1, <1>2, RecoveriesAssumption DEF Init, TypeOK
<1>4. JobInv /\ SnapshotInv
  BY <1>1 DEF JobInv, SnapshotInv
<1>5. OneMarkerInv /\ ReopenInv
  BY <1>1, <1>2 DEF OneMarkerInv, ReopenInv, OpenFor
<1> QED BY <1>3, <1>4, <1>5 DEF IInv

\* Steps that touch no issue.
LEMMA IssuesUntouched ==
    ASSUME IInv, UNCHANGED issues,
           \/ phase' # "publish"
           \/ UNCHANGED <<phase, snapshot, touched>> /\ todo' \subseteq todo,
           UNCHANGED reopened
    PROVE  OneMarkerInv' /\ SnapshotInv' /\ ReopenInv'
<1>1. OneMarkerInv'
  BY DEF IInv, OneMarkerInv
<1>2. \A o : OpenFor(o)' = OpenFor(o)
  BY DEF OpenFor
<1>3. SnapshotInv'
  <2>1. CASE phase' # "publish"
    BY <2>1 DEF SnapshotInv
  <2>2. CASE UNCHANGED <<phase, snapshot, touched>> /\ todo' \subseteq todo
    BY <2>2 DEF IInv, SnapshotInv
  <2> QED BY <2>1, <2>2
<1>4. ReopenInv'
  <2>1. CASE phase' # "publish"
    BY <1>2, <2>1 DEF IInv, ReopenInv
  <2>2. CASE UNCHANGED <<phase, snapshot, touched>> /\ todo' \subseteq todo
    BY <1>2, <2>2 DEF IInv, ReopenInv
  <2> QED BY <2>1, <2>2
<1> QED BY <1>1, <1>3, <1>4

\* EndJob leaves the job well typed.
LEMMA EndJobType ==
    ASSUME IInv, NEW how \in {"done", "rejected", "failed", "died"}, EndJob(how),
           UNCHANGED issues, deaths' \in 0..MaxDeaths
    PROVE  IInv'
<1>1. <<>> \in Seq(IssueType)
  BY EmptySeq
<1>2. TypeOK'
  BY <1>1 DEF IInv, TypeOK, EndJob
<1>3. phase' = "idle" /\ UNCHANGED reopened
  BY DEF EndJob
<1>4. JobInv'
  BY <1>3 DEF JobInv
<1> QED BY <1>2, <1>3, <1>4, IssuesUntouched DEF IInv

LEMMA SubmitInv ==
    ASSUME IInv, NEW groups \in Groups, NEW valid \in BOOLEAN, Submit(groups, valid)
    PROVE  IInv'
<1>1. TypeOK'
  <2>1. Len(audits) \in Nat /\ Len(audits) + 1 \in 1..MaxRuns
    BY RecoveriesAssumption DEF IInv, TypeOK, Submit
  <2>2. pending' \in ReportType
    BY <2>1 DEF Submit, ReportType
  <2>3. audits' \in Seq(ReportType) /\ Len(audits') = Len(audits) + 1
    BY <2>2, AppendProperties DEF IInv, TypeOK, Submit
  <2> QED BY <2>1, <2>2, <2>3 DEF IInv, TypeOK, Submit, job, history
<1>2. JobInv'
  BY DEF IInv, JobInv, Submit, job, history
<1>3. OneMarkerInv' /\ SnapshotInv' /\ ReopenInv'
  BY IssuesUntouched DEF Submit, job, history
<1> QED BY <1>1, <1>2, <1>3 DEF IInv

LEMMA RerunInv ==
    ASSUME IInv, NEW audit \in ToSet(audits), Rerun(audit)
    PROVE  IInv'
<1>1. TypeOK'
  <2>1. audit \in ReportType
    BY SeqElements DEF IInv, TypeOK, ToSet
  <2>2. reruns' \in 0..MaxReruns
    BY RecoveriesAssumption DEF IInv, TypeOK, Rerun
  <2> QED BY <2>1, <2>2 DEF IInv, TypeOK, Rerun, job, history
<1>2. JobInv'
  BY DEF IInv, JobInv, Rerun, job, history
<1>3. OneMarkerInv' /\ SnapshotInv' /\ ReopenInv'
  BY IssuesUntouched DEF Rerun, job, history
<1> QED BY <1>1, <1>2, <1>3 DEF IInv

LEMMA CancelWaitingInv ==
    ASSUME IInv, CancelWaiting
    PROVE  IInv'
<1>1. TypeOK'
  <2>1. deaths' \in 0..MaxDeaths
    BY RecoveriesAssumption DEF IInv, TypeOK, CancelWaiting
  <2> QED BY <2>1 DEF IInv, TypeOK, CancelWaiting, job, history
<1>2. JobInv'
  BY DEF IInv, JobInv, CancelWaiting, job, history
<1>3. OneMarkerInv' /\ SnapshotInv' /\ ReopenInv'
  BY IssuesUntouched DEF CancelWaiting, job, history
<1> QED BY <1>1, <1>2, <1>3 DEF IInv

LEMMA StartJobInv ==
    ASSUME IInv, StartJob
    PROVE  IInv'
<1>1. TypeOK'
  BY DEF IInv, TypeOK, StartJob, history
<1>2. JobInv'
  BY DEF IInv, TypeOK, JobInv, StartJob, history
<1>3. OneMarkerInv' /\ SnapshotInv' /\ ReopenInv'
  BY IssuesUntouched DEF StartJob, history
<1> QED BY <1>1, <1>2, <1>3 DEF IInv

LEMMA ListIssuesInv ==
    ASSUME IInv, ListIssues
    PROVE  IInv'
<1>1. report \in ReportType
  BY DEF IInv, JobInv, ListIssues, history
<1>2. DOMAIN report.groups \subseteq Originals
  <2>1. \A groups \in Groups : DOMAIN groups \subseteq Originals
    BY DEF Groups
  <2> QED BY <1>1, <2>1 DEF ReportType
<1>3. TypeOK'
  BY <1>2 DEF IInv, TypeOK, ListIssues, history
<1>4. JobInv'
  BY <1>1 DEF JobInv, ListIssues, history
<1>5. issues' = issues /\ snapshot' = issues /\ reopened' = reopened /\ Len(issues) \in Nat
  BY IssueFacts DEF IInv, ListIssues, history
<1>6. OneMarkerInv'
  BY <1>5 DEF IInv, OneMarkerInv
<1>7. SnapshotInv'
  BY <1>5 DEF SnapshotInv, SameMeaning
<1>8. ReopenInv'
  <2>1. \A o : OpenFor(o)' = OpenFor(o)
    BY <1>5 DEF OpenFor
  <2> QED BY <1>5, <2>1 DEF IInv, ReopenInv
<1> QED BY <1>3, <1>4, <1>6, <1>7, <1>8 DEF IInv

LEMMA SuppressInv ==
    ASSUME IInv, NEW o \in Originals, Suppress(o)
    PROVE  IInv'
<1>1. UNCHANGED issues /\ Published(o)
  BY DEF Suppress
<1>2. TypeOK'
  BY <1>1 DEF IInv, TypeOK, Published, history
<1>3. JobInv'
  BY <1>1 DEF IInv, JobInv, Published, history
<1>4. OneMarkerInv' /\ SnapshotInv' /\ ReopenInv'
  BY <1>1, IssuesUntouched DEF Published, history
<1> QED BY <1>2, <1>3, <1>4 DEF IInv

LEMMA PeopleInv ==
    ASSUME IInv, People
    PROVE  IInv'
<1>1. /\ PeopleKeep
      /\ UNCHANGED <<pending, phase, report, snapshot, todo, outcome, audits, reruns, deaths>>
      /\ acts < MaxActs /\ acts' = acts + 1
  BY PeopleStep DEF IInv
<1>2. TypeOK'
  <2>1. acts' \in 0..MaxActs
    BY <1>1, RecoveriesAssumption DEF IInv, TypeOK
  <2> QED BY <1>1, <2>1 DEF IInv, TypeOK, PeopleKeep
<1>3. JobInv'
  BY <1>1 DEF IInv, JobInv
<1>4. \A i \in 1..Len(issues), o \in Originals :
        Has(issues'[i].body, Marker(o)) <=> Has(issues[i].body, Marker(o))
  BY <1>1 DEF PeopleKeep, SameMeaning
<1>5. Len(issues') = Len(issues) /\ Len(issues) \in Nat /\ Len(snapshot) \in Nat
      /\ DOMAIN issues = 1..Len(issues) /\ DOMAIN issues' = 1..Len(issues)
  BY <1>1, <1>2, IssueFacts, LenProperties DEF PeopleKeep, IInv
<1>6. OneMarkerInv'
  BY <1>4, <1>5 DEF IInv, OneMarkerInv
<1>7. SnapshotInv'
  <2> SUFFICES ASSUME phase = "publish"
               PROVE  /\ Len(snapshot) <= Len(issues)
                      /\ \A i \in 1..Len(snapshot), o \in Originals :
                            /\ Has(issues'[i].body, Marker(o)) <=> Has(snapshot[i].body, Marker(o))
                            /\ o \in todo /\ Has(snapshot[i].body, Marker(o)) =>
                                /\ SameMeaning(issues'[i].body, snapshot[i].body)
                                /\ i \notin touched' => issues'[i] = snapshot[i]
                      /\ \A i \in (Len(snapshot) + 1)..Len(issues), o \in todo :
                            ~Has(issues'[i].body, Marker(o))
    BY <1>1, <1>5 DEF SnapshotInv
  <2>1. Len(snapshot) <= Len(issues) /\ todo \subseteq Originals
    BY DEF IInv, SnapshotInv, TypeOK
  <2>2. \A i \in 1..Len(snapshot), o \in Originals :
            Has(issues'[i].body, Marker(o)) <=> Has(snapshot[i].body, Marker(o))
    BY <1>4, <1>5, <2>1 DEF IInv, SnapshotInv
  <2>3. ASSUME NEW i \in 1..Len(snapshot), NEW o \in todo, Has(snapshot[i].body, Marker(o))
        PROVE  /\ SameMeaning(issues'[i].body, snapshot[i].body)
               /\ i \notin touched' => issues'[i] = snapshot[i]
    <3>1. /\ SameMeaning(issues[i].body, snapshot[i].body)
          /\ i \notin touched => issues[i] = snapshot[i]
      BY <2>1, <2>3 DEF IInv, SnapshotInv
    <3>2. /\ SameMeaning(issues'[i].body, issues[i].body)
          /\ i \notin touched' => i \notin touched /\ issues'[i] = issues[i]
      BY <1>1, <1>5, <2>1 DEF PeopleKeep
    <3> QED BY <3>1, <3>2 DEF SameMeaning
  <2>4. \A i \in (Len(snapshot) + 1)..Len(issues), o \in todo :
            ~Has(issues'[i].body, Marker(o))
    <3>1. \A i \in (Len(snapshot) + 1)..Len(issues) : i \in 1..Len(issues)
      BY <1>5
    <3>2. \A i \in (Len(snapshot) + 1)..Len(issues), o \in todo :
            ~Has(issues[i].body, Marker(o))
      BY DEF IInv, SnapshotInv
    <3> QED BY <1>4, <2>1, <3>1, <3>2
  <2> QED BY <2>1, <2>2, <2>3, <2>4
<1>8. ReopenInv'
  <2>1. /\ reopened \subseteq reopened'
        /\ \A i \in 1..Len(issues) \ reopened' :
                issues'[i].state = "open" => issues[i].state = "open"
    BY <1>1 DEF PeopleKeep
  <2>2. \A o \in Originals : OpenFor(o)' \ reopened' \subseteq OpenFor(o) \ reopened
    BY <1>4, <1>5, <2>1 DEF OpenFor
  <2>3. \A o \in Originals : \A i, j \in OpenFor(o)' \ reopened' : i = j
    BY <2>2 DEF IInv, ReopenInv
  <2>4. phase = "publish" =>
            \A i \in 1..Len(snapshot) \ reopened' :
                issues'[i].state = "open" => snapshot[i].state = "open"
    BY <1>5, <2>1 DEF IInv, ReopenInv, SnapshotInv
  <2> QED BY <1>1, <2>3, <2>4 DEF ReopenInv
<1> QED BY <1>2, <1>3, <1>6, <1>7, <1>8 DEF IInv

LEMMA UpdateInv ==
    ASSUME IInv, NEW o \in Originals, Update(o)
    PROVE  IInv'
<1>1. PICK i \in Opened(o) :
        /\ i \in 1..Len(snapshot) /\ i \in 1..Len(issues)
        /\ issues' \in Seq(IssueType) /\ Len(issues') = Len(issues)
        /\ \A j \in 1..Len(issues) : j # i => issues'[j] = issues[j]
        /\ issues'[i].state = issues[i].state
        /\ \A p \in Originals : Has(issues'[i].body, Marker(p)) <=> p = o
        /\ Has(issues[i].body, Marker(o))
  BY UpdateStep DEF IInv
<1>2. Published(o) /\ phase = "publish"
  BY DEF Update, IsNext
<1>3. TypeOK'
  <2>1. DOMAIN issues' = DOMAIN issues
    BY <1>1, IssueFacts, LenProperties DEF IInv
  <2> QED BY <1>1, <1>2, <2>1 DEF IInv, TypeOK, Published, history
<1>4. JobInv'
  BY <1>2 DEF IInv, JobInv, Published, history
<1>5. \A j \in 1..Len(issues), p \in Originals :
        Has(issues'[j].body, Marker(p)) <=> Has(issues[j].body, Marker(p))
  BY <1>1 DEF IInv, OneMarkerInv
<1>6. \A j \in 1..Len(issues) : issues'[j].state = issues[j].state
  BY <1>1
<1>7. Len(issues) \in Nat /\ Len(snapshot) \in Nat
      /\ DOMAIN issues = 1..Len(issues) /\ DOMAIN issues' = 1..Len(issues)
  BY <1>1, IssueFacts, LenProperties DEF IInv
<1>8. OneMarkerInv'
  BY <1>1, <1>5 DEF IInv, OneMarkerInv
<1>9. SnapshotInv'
  <2>1. Len(snapshot) <= Len(issues) /\ todo \subseteq Originals
    BY <1>2 DEF IInv, SnapshotInv, TypeOK
  <2>2. \A j \in 1..Len(snapshot), p \in Originals :
            Has(issues'[j].body, Marker(p)) <=> Has(snapshot[j].body, Marker(p))
    BY <1>2, <1>5, <1>7, <2>1 DEF IInv, SnapshotInv
  <2>3. ASSUME NEW j \in 1..Len(snapshot), NEW p \in todo \ {o},
               Has(snapshot[j].body, Marker(p))
        PROVE  /\ SameMeaning(issues'[j].body, snapshot[j].body)
               /\ j \notin touched => issues'[j] = snapshot[j]
    <3>1. j # i
      BY <1>1, <2>1, <2>2, <2>3
    <3>2. issues'[j] = issues[j]
      BY <1>1, <1>7, <2>1, <3>1
    <3> QED BY <1>2, <2>1, <2>3, <3>2 DEF IInv, SnapshotInv
  <2>4. \A j \in (Len(snapshot) + 1)..Len(issues), p \in todo \ {o} :
            ~Has(issues'[j].body, Marker(p))
    <3>1. \A j \in (Len(snapshot) + 1)..Len(issues) : j \in 1..Len(issues)
      BY <1>7
    <3> QED BY <1>2, <1>5, <2>1, <3>1 DEF IInv, SnapshotInv
  <2> QED BY <1>1, <1>2, <2>1, <2>2, <2>3, <2>4 DEF SnapshotInv, Published, history
<1>10. ReopenInv'
  <2>1. \A p \in Originals : OpenFor(p)' = OpenFor(p)
    BY <1>5, <1>6, <1>7 DEF OpenFor
  <2>2. \A j \in 1..Len(snapshot) \ reopened :
            issues'[j].state = "open" => snapshot[j].state = "open"
    BY <1>2, <1>6, <1>7 DEF IInv, ReopenInv, SnapshotInv
  <2> QED BY <1>2, <2>1, <2>2 DEF IInv, ReopenInv, Published, history
<1> QED BY <1>3, <1>4, <1>8, <1>9, <1>10 DEF IInv

\* A creation appends one open notification, of o alone.
LEMMA CreateStep ==
    ASSUME IInv, NEW o \in Originals, Create(o)
    PROVE  /\ issues' \in Seq(IssueType) /\ Len(issues') = Len(issues) + 1
           /\ \A j \in 1..Len(issues) : issues'[j] = issues[j]
           /\ issues'[Len(issues) + 1] = NewIssue(o)
           /\ \A p \in Originals : Has(NewIssue(o).body, Marker(p)) <=> p = o
           /\ \A i \in 1..Len(issues) :
                Has(issues[i].body, Marker(o)) =>
                    i \in 1..Len(snapshot) /\ Has(snapshot[i].body, Marker(o))
<1>1. IsNext(o) /\ issues' = Append(issues, NewIssue(o))
  BY DEF Create
<1>2. NewIssue(o) \in IssueType
  BY <1>1, NextGroupFacts DEF IInv, NewIssue, IssueType
<1>3. /\ issues' \in Seq(IssueType) /\ Len(issues') = Len(issues) + 1
      /\ \A j \in 1..Len(issues) : issues'[j] = issues[j]
      /\ issues'[Len(issues) + 1] = NewIssue(o)
  BY <1>1, <1>2, AppendProperties DEF IInv, TypeOK
<1>4. \A p \in Originals : Has(NewIssue(o).body, Marker(p)) <=> p = o
  BY <1>1, NextGroupFacts DEF IInv, NewIssue
<1>5. ASSUME NEW i \in 1..Len(issues), Has(issues[i].body, Marker(o))
      PROVE  i \in 1..Len(snapshot) /\ Has(snapshot[i].body, Marker(o))
  <2>1. phase = "publish" /\ o \in todo
    BY <1>1, NextGroupFacts DEF IInv
  <2>2. Len(issues) \in Nat /\ Len(snapshot) \in Nat
    BY IssueFacts DEF IInv
  <2>3. i \notin (Len(snapshot) + 1)..Len(issues)
    BY <1>5, <2>1 DEF IInv, SnapshotInv
  <2>4. i \in 1..Len(snapshot)
    BY <2>2, <2>3
  <2> QED BY <1>5, <2>1, <2>4 DEF IInv, SnapshotInv
<1> QED BY <1>3, <1>4, <1>5

LEMMA CreateInv ==
    ASSUME IInv, NEW o \in Originals, Create(o)
    PROVE  IInv'
<1> DEFINE n == Len(issues)
<1>1. /\ issues' \in Seq(IssueType) /\ Len(issues') = n + 1
      /\ \A j \in 1..n : issues'[j] = issues[j]
      /\ issues'[n + 1] = NewIssue(o)
      /\ \A p \in Originals : Has(NewIssue(o).body, Marker(p)) <=> p = o
      /\ \A i \in 1..n :
            Has(issues[i].body, Marker(o)) =>
                i \in 1..Len(snapshot) /\ Has(snapshot[i].body, Marker(o))
  BY CreateStep
<1>2. Published(o) /\ phase = "publish" /\ Opened(o) = {}
  BY DEF Create, IsNext
<1>3. /\ n \in Nat /\ Len(snapshot) \in Nat
      /\ DOMAIN issues = 1..n /\ DOMAIN issues' = 1..(n + 1)
      /\ DOMAIN snapshot = 1..Len(snapshot)
  BY <1>1, IssueFacts, LenProperties DEF IInv
<1> HIDE DEF n
<1>4. TypeOK'
  <2>1. DOMAIN issues \subseteq DOMAIN issues'
    BY <1>3
  <2> QED BY <1>1, <1>2, <2>1 DEF IInv, TypeOK, Published, history
<1>5. JobInv'
  BY <1>2 DEF IInv, JobInv, Published, history
<1>6. OneMarkerInv'
  BY <1>1, <1>3 DEF IInv, OneMarkerInv, n
<1>7. SnapshotInv'
  <2>1. Len(snapshot) <= n /\ todo \subseteq Originals
    BY <1>2 DEF IInv, SnapshotInv, TypeOK, n
  <2>2. \A j \in 1..Len(snapshot) : issues'[j] = issues[j]
    BY <1>1, <1>3, <2>1
  <2>3. \A j \in (Len(snapshot) + 1)..(n + 1), p \in todo \ {o} :
            ~Has(issues'[j].body, Marker(p))
    <3>1. \A j \in (Len(snapshot) + 1)..n, p \in todo : ~Has(issues[j].body, Marker(p))
      BY <1>2 DEF IInv, SnapshotInv, n
    <3>2. \A j \in (Len(snapshot) + 1)..n : issues'[j] = issues[j]
      BY <1>1, <1>3
    <3>3. \A j \in (Len(snapshot) + 1)..(n + 1) :
            j \in (Len(snapshot) + 1)..n \/ j = n + 1
      BY <1>3
    <3> QED BY <1>1, <2>1, <3>1, <3>2, <3>3
  <2>4. \A j \in 1..Len(snapshot), p \in Originals :
            /\ Has(issues'[j].body, Marker(p)) <=> Has(snapshot[j].body, Marker(p))
            /\ p \in todo /\ Has(snapshot[j].body, Marker(p)) =>
                /\ SameMeaning(issues'[j].body, snapshot[j].body)
                /\ j \notin touched => issues'[j] = snapshot[j]
    BY <1>2, <2>2 DEF IInv, SnapshotInv
  <2>5. Len(snapshot) <= n + 1 /\ todo' = todo \ {o} /\ UNCHANGED <<phase, snapshot, touched>>
    BY <1>2, <1>3, <2>1 DEF Published, history
  <2> QED BY <1>1, <1>3, <2>3, <2>4, <2>5 DEF SnapshotInv
<1>8. ReopenInv'
  <2>1. \A i \in 1..Len(snapshot) \ reopened :
            issues[i].state = "open" => snapshot[i].state = "open"
    BY <1>2 DEF IInv, ReopenInv
  <2>2. \A i \in (1..n) \ reopened :
            Has(issues[i].body, Marker(o)) => issues[i].state # "open"
    BY <1>1, <1>2, <1>3, <2>1 DEF Opened, Matches
  <2>3. ASSUME NEW p \in Originals
        PROVE  \A i, j \in OpenFor(p)' \ reopened : i = j
    <3>1. CASE p = o
      <4>1. OpenFor(p)' \ reopened \subseteq {n + 1}
        BY <1>1, <1>3, <2>2, <3>1 DEF OpenFor
      <4> QED BY <4>1
    <3>2. CASE p # o
      <4>1. OpenFor(p)' \ reopened \subseteq OpenFor(p) \ reopened
        BY <1>1, <1>3, <3>2 DEF OpenFor
      <4> QED BY <4>1 DEF IInv, ReopenInv
    <3> QED BY <3>1, <3>2
  <2>4. \A i \in 1..Len(snapshot) \ reopened :
            issues'[i].state = "open" => snapshot[i].state = "open"
    <3>1. Len(snapshot) <= n
      BY <1>2 DEF IInv, SnapshotInv, n
    <3> QED BY <1>1, <1>3, <2>1, <3>1
  <2> QED BY <1>2, <2>3, <2>4 DEF ReopenInv, Published, history
<1> QED BY <1>4, <1>5, <1>6, <1>7, <1>8 DEF IInv

LEMMA NextInv == IInv /\ [Next]_vars => IInv'
<1> SUFFICES ASSUME IInv, [Next]_vars PROVE IInv'
  OBVIOUS
<1>1. ASSUME NEW groups \in Groups, NEW valid \in BOOLEAN, Submit(groups, valid)
      PROVE  IInv'
  BY <1>1, SubmitInv
<1>2. ASSUME (\E audit \in ToSet(audits) : Rerun(audit)) \/ CancelWaiting
      PROVE  IInv'
  BY <1>2, RerunInv, CancelWaitingInv
<1>3. CASE StartJob
  BY <1>3, StartJobInv
<1>4. CASE JobDies
  <2>1. deaths' \in 0..MaxDeaths
    BY <1>4, RecoveriesAssumption DEF IInv, TypeOK, JobDies
  <2> QED BY <1>4, <2>1, EndJobType DEF JobDies
<1>5. CASE RejectReport
  BY <1>5, EndJobType DEF RejectReport, IInv, TypeOK
<1>6. CASE NothingToFile
  BY <1>6, EndJobType DEF NothingToFile, IInv, TypeOK
<1>7. CASE FinishJob
  BY <1>7, EndJobType DEF FinishJob, IInv, TypeOK
<1>8. CASE ListIssues
  BY <1>8, ListIssuesInv
<1>9. ASSUME NEW o \in Originals, RaiseError(o)
      PROVE  IInv'
  BY <1>9, EndJobType DEF RaiseError, IInv, TypeOK
<1>10. ASSUME NEW o \in Originals, Update(o) \/ Suppress(o) \/ Create(o)
       PROVE  IInv'
  BY <1>10, UpdateInv, SuppressInv, CreateInv
<1>11. CASE People
  BY <1>11, PeopleInv
<1>12. CASE UNCHANGED vars
  <2>1. TypeOK' /\ JobInv'
    BY <1>12 DEF IInv, TypeOK, JobInv, vars
  <2> QED BY <1>12, <2>1, IssuesUntouched DEF IInv, vars
<1> QED BY <1>1, <1>2, <1>3, <1>4, <1>5, <1>6, <1>7, <1>8, <1>9, <1>10, <1>11, <1>12
        DEF Next, JobStep

-----------------------------------------------------------------------------
(* Theorems.                                                               *)

(* IInv holds in every state.                                              *)
THEOREM Invariant == Spec => []IInv
<1>1. Init => IInv
  BY InitInv
<1>2. IInv /\ [Next]_vars => IInv'
  BY NextInv
<1> QED BY <1>1, <1>2, PTL DEF Spec

(* Whatever people and the runner do, GitHub's issues, the queue and the    *)
(* job of report_recoveries.py keep their types.                           *)
THEOREM TypeCorrect == Spec => []TypeOK
<1>1. IInv => TypeOK
  BY DEF IInv
<1> QED BY <1>1, Invariant, PTL

(* However jobs die, are queued and are run again, and whatever people write, *)
(* close, reopen or damage meanwhile: of two open notifications of one      *)
(* original issue, somebody has reopened one.                              *)
THEOREM OneOpenNotificationAlways == Spec => []OneOpenNotification
<1>1. IInv => OneOpenNotification
  BY DEF IInv, ReopenInv, OneOpenNotification
<1> QED BY <1>1, Invariant, PTL

-----------------------------------------------------------------------------
(* What steps of the job may do.                                           *)

\* Only a creation adds an issue, only an update changes one.
LEMMA JobKeepsIssues ==
    ASSUME IInv, [Next]_vars, acts' = acts
    PROVE  \/ UNCHANGED issues
           \/ \E o \in Originals : Update(o) \/ Create(o)
<1>1. ~People
  <2>1. SUFFICES ASSUME People PROVE FALSE
    OBVIOUS
  <2>2. acts' = acts + 1 /\ acts \in 0..MaxActs
    BY <2>1, PeopleStep DEF IInv, TypeOK
  <2> QED BY <2>2, RecoveriesAssumption
<1>2. ASSUME NEW groups \in Groups, NEW valid \in BOOLEAN, Submit(groups, valid)
      PROVE  UNCHANGED issues
  BY <1>2 DEF Submit
<1>3. (\E audit : Rerun(audit)) \/ CancelWaiting
        \/ StartJob \/ JobDies \/ RejectReport \/ NothingToFile \/ ListIssues \/ FinishJob
        => UNCHANGED issues
  BY DEF Rerun, CancelWaiting, StartJob, JobDies, RejectReport, NothingToFile, ListIssues, FinishJob
<1>4. ASSUME NEW o \in Originals, RaiseError(o) \/ Suppress(o)
      PROVE  UNCHANGED issues
  BY <1>4 DEF RaiseError, Suppress
<1>5. UNCHANGED vars => UNCHANGED issues
  BY DEF vars
<1> QED BY <1>1, <1>2, <1>3, <1>4, <1>5 DEF Next, JobStep

(* A notification that report_recoveries.py creates is news: no issue, open *)
(* or closed, covers the same cases of the same original at that moment,    *)
(* though the job looks only at the issues it listed before, and people     *)
(* annotate, close, reopen and retitle meanwhile.                          *)
THEOREM NewsOnlyAlways == Spec => NewsOnly
<1> DEFINE News ==
        Len(issues') > Len(issues) =>
            \A o \in Originals, cases \in CaseSets :
                Covers(Last(issues'), o, cases) =>
                    \A i \in DOMAIN issues : ~Covers(issues[i], o, cases)
<1>1. ASSUME IInv, [Next]_vars PROVE News
  <2> SUFFICES ASSUME Len(issues') > Len(issues),
                      NEW p \in Originals, NEW cases \in CaseSets,
                      Covers(Last(issues'), p, cases),
                      NEW i \in DOMAIN issues, Covers(issues[i], p, cases)
               PROVE  FALSE
    OBVIOUS
  <2>1. Len(issues) \in Nat /\ DOMAIN issues = 1..Len(issues)
    BY <1>1, IssueFacts DEF IInv
  <2>2. ~People
    BY <1>1, <2>1, PeopleStep DEF IInv, PeopleKeep
  <2>3. acts' = acts \/ UNCHANGED issues
    BY <1>1, <2>2 DEF Next, JobStep, Submit, Rerun, CancelWaiting, StartJob, JobDies, RejectReport,
        NothingToFile, ListIssues, FinishJob, EndJob, RaiseError, Update, Suppress, Create,
        Published, vars
  <2>4. ~UNCHANGED issues
    BY <2>1
  <2>5. PICK o \in Originals : Update(o) \/ Create(o)
    BY <1>1, <2>3, <2>4, JobKeepsIssues
  <2>6. ~Update(o)
    BY <1>1, <2>1, UpdateStep DEF IInv
  <2>7. Create(o)
    BY <2>5, <2>6
  <2>8. /\ issues' \in Seq(IssueType) /\ Len(issues') = Len(issues) + 1
        /\ issues'[Len(issues) + 1] = NewIssue(o)
        /\ \A q \in Originals : Has(NewIssue(o).body, Marker(q)) <=> q = o
        /\ Has(issues[i].body, Marker(o)) =>
                i \in 1..Len(snapshot) /\ Has(snapshot[i].body, Marker(o))
    BY <1>1, <2>1, <2>7, CreateStep
  <2>9. Last(issues') = NewIssue(o)
    BY <2>8 DEF Last
  <2>10. p = o
    BY <2>8, <2>9 DEF Covers
  <2>11. i \in 1..Len(snapshot) /\ Has(snapshot[i].body, Marker(o))
    BY <2>8, <2>10 DEF Covers
  <2>12. phase = "publish" /\ o \in todo /\ report.groups[o] \in CaseSets
    BY <1>1, <2>7, NextGroupFacts DEF IInv, Create
  <2>13. SameMeaning(issues[i].body, snapshot[i].body)
    BY <1>1, <2>11, <2>12 DEF IInv, SnapshotInv
  <2>14. ~Has(snapshot[i].body, Signature(report.groups[o]))
    <3>1. DOMAIN snapshot = 1..Len(snapshot)
      BY <1>1, IssueFacts DEF IInv
    <3> QED BY <2>7, <2>11, <3>1 DEF Create, IsSuppressed, Matches
  <2>15. cases = report.groups[o]
    <3>1. report.run \in Nat
      BY <1>1, <2>7, NextGroupFacts DEF IInv, Create
    <3>2. ToSet(NewSection(o)) = {Marker(o), Signature(report.groups[o]),
                                  Evidence(report.run), EndMarker}
      BY <2>12, <3>1, SectionElements DEF NewSection
    <3>3. Has(NewSection(o), Signature(cases))
      BY <2>9 DEF Covers, NewIssue
    <3> QED BY <3>2, <3>3 DEF Has, Marker, Signature, Evidence, EndMarker
  <2> QED BY <2>10, <2>13, <2>14, <2>15 DEF SameMeaning, Covers
<1>2. IInv /\ [Next]_vars => [News]_vars
  BY <1>1
<1> QED BY <1>2, Invariant, PTL DEF Spec, NewsOnly

(* The job never writes to a closed issue that nobody changed since the job *)
(* listed it: what closing a notification suppresses is what it showed.     *)
THEOREM ClosedIsFinalAlways == Spec => ClosedIsFinal
<1> DEFINE Final ==
        ByTheJob => \A i \in DOMAIN issues \ touched :
                        issues[i].state = "closed" => issues'[i] = issues[i]
<1>1. ASSUME IInv, [Next]_vars PROVE Final
  <2> SUFFICES ASSUME ByTheJob, NEW i \in (1..Len(issues)) \ touched,
                      issues[i].state = "closed"
               PROVE  issues'[i] = issues[i]
    BY <1>1, IssueFacts DEF IInv
  <2>1. CASE UNCHANGED issues
    BY <2>1
  <2>2. ASSUME NEW o \in Originals, Update(o)
        PROVE  issues'[i] = issues[i]
    <3>1. PICK j \in Opened(o) :
            /\ j \in 1..Len(snapshot)
            /\ \A k \in 1..Len(issues) : k # j => issues'[k] = issues[k]
      BY <1>1, <2>2, UpdateStep DEF IInv
    <3>2. snapshot[j].state = "open" /\ Has(snapshot[j].body, Marker(o))
      BY <1>1, <3>1, OpenedFacts DEF IInv
    <3>3. phase = "publish" /\ o \in todo
      BY <2>2 DEF Update, IsNext
    <3>4. j \notin touched => issues[j] = snapshot[j]
      BY <1>1, <3>1, <3>2, <3>3, OpenedFacts DEF IInv, SnapshotInv
    <3> QED BY <3>1, <3>2, <3>4
  <2>3. ASSUME NEW o \in Originals, Create(o)
        PROVE  issues'[i] = issues[i]
    BY <1>1, <2>3, CreateStep
  <2> QED BY <1>1, <2>1, <2>2, <2>3, JobKeepsIssues DEF ByTheJob
<1>2. IInv /\ [Next]_vars => [Final]_vars
  BY <1>1
<1> QED BY <1>2, Invariant, PTL DEF Spec, ClosedIsFinal

\* A body with its section in the middle, and no marker of o before it.
Around(new, front, back, o, cases, run) ==
    /\ \A j \in 1..Len(front) : front[j] # Marker(o)
    /\ Len(new) = Len(front) + 4 + Len(back)
    /\ \A j \in 1..Len(front) : new[j] = front[j]
    /\ \A j \in 1..4 : new[Len(front) + j] = Section(o, cases, run)[j]
    /\ \A j \in 1..Len(back) : new[Len(front) + 4 + j] = back[j]

LEMMA SectionFound ==
    ASSUME NEW front \in Seq(Parts), NEW back \in Seq(Parts), NEW o \in Originals,
           NEW cases \in CaseSets, NEW run \in Nat,
           NEW new \in Seq(Parts), Around(new, front, back, o, cases, run)
    PROVE  /\ Before(new, o) = front /\ After(new, o) = back
           /\ Has(new, Marker(o)) /\ Has(new, Signature(cases)) /\ IsManaged(new, o)
           /\ SubSeq(new, Start(new, o), End(new, o)) = Section(o, cases, run)
<1> DEFINE section == Section(o, cases, run)
           n == Len(front)
<1>1. front \in Seq(Parts) /\ back \in Seq(Parts)
  OBVIOUS
<1>2. \A j \in 1..n : front[j] # Marker(o)
  BY DEF Around
<1>3. /\ section \in Seq(Parts) /\ Len(section) = 4
      /\ section[1] = Marker(o) /\ section[4] = EndMarker
      /\ section[1] # EndMarker /\ section[2] # EndMarker /\ section[3] # EndMarker
  <2>1. section \in Seq(Parts)
    BY SectionElements
  <2>2. Len(section) = 4
    BY DEF Section
  <2>3. /\ section[1] = Marker(o) /\ section[2] = Signature(cases)
        /\ section[3] = Evidence(run) /\ section[4] = EndMarker
    BY DEF Section
  <2>4. Marker(o) # EndMarker /\ Signature(cases) # EndMarker /\ Evidence(run) # EndMarker
    BY DEF Marker, Signature, Evidence, EndMarker
  <2> QED BY <2>1, <2>2, <2>3, <2>4
<1> HIDE DEF section
<1>5. n \in Nat /\ Len(back) \in Nat
  BY <1>1, LenProperties
<1>6. /\ new \in Seq(Parts) /\ Len(new) = n + 4 + Len(back)
      /\ \A j \in 1..n : new[j] = front[j]
      /\ \A j \in 1..4 : new[n + j] = section[j]
      /\ \A j \in 1..Len(back) : new[n + 4 + j] = back[j]
  BY <1>3 DEF section, Around
<1> HIDE DEF n
<1>7. DOMAIN new = 1..Len(new)
  BY <1>6, SeqElements
<1>8. /\ \A j \in 1..n : new[j] # Marker(o)
      /\ new[n + 1] = Marker(o) /\ new[n + 4] = EndMarker
      /\ new[n + 1] # EndMarker /\ new[n + 2] # EndMarker /\ new[n + 3] # EndMarker
  <2>1. \A j \in 1..n : new[j] # Marker(o)
    BY <1>2, <1>6 DEF n
  <2>2. \A j \in 1..4 : new[n + j] = section[j]
    BY <1>6
  <2>3. /\ new[n + 1] = section[1] /\ new[n + 2] = section[2]
        /\ new[n + 3] = section[3] /\ new[n + 4] = section[4]
    BY <2>2
  <2> QED BY <1>3, <2>1, <2>3
<1>9. Has(new, Marker(o))
  <2>1. n + 1 \in DOMAIN new
    BY <1>5, <1>6, <1>7
  <2> QED BY <1>8, <2>1 DEF Has, ToSet
<1>10. Start(new, o) = n + 1
  <2>1. /\ Start(new, o) \in 1..Len(new)
        /\ new[Start(new, o)] = Marker(o)
        /\ \A j \in 1..(Start(new, o) - 1) : new[j] # Marker(o)
    BY <1>6, <1>9, StartIsFirst
  <2> QED BY <1>5, <1>6, <1>8, <2>1
<1>11. IsManaged(new, o)
  <2>1. n + 4 \in (n + 1)..Len(new)
    BY <1>5, <1>6
  <2> QED BY <1>8, <1>10, <2>1 DEF IsManaged, EndsFrom
<1>12. End(new, o) = n + 4
  <2>1. /\ End(new, o) \in n + 1..Len(new)
        /\ new[End(new, o)] = EndMarker
        /\ \A j \in n + 1..(End(new, o) - 1) : new[j] # EndMarker
    BY <1>6, <1>9, <1>10, <1>11, EndIsNext
  <2>2. Len(new) \in Nat
    BY <1>5, <1>6
  <2>3. End(new, o) \in Nat /\ End(new, o) >= n + 1
    BY <1>5, <2>1, <2>2
  <2>4. ~(End(new, o) > n + 4)
    BY <1>5, <1>8, <2>1, <2>3
  <2>5. End(new, o) \in {n + 1, n + 2, n + 3, n + 4}
    BY <1>5, <2>3, <2>4
  <2> QED BY <1>8, <2>1, <2>5
<1>13. Before(new, o) = front
  <2> DEFINE head == SubSeq(new, 1, n)
  <2>1. \A j \in 1..n : new[j] \in Parts
    BY <1>5, <1>6, ElementOfSeq
  <2>2. /\ head \in Seq(Parts)
        /\ Len(head) = IF 1 <= n THEN n - 1 + 1 ELSE 0
        /\ \A j \in 1..n - 1 + 1 : head[j] = new[1 + j - 1]
    BY <1>5, <2>1, SubSeqProperties
  <2> HIDE DEF head
  <2>3. Len(head) = Len(front) /\ \A j \in 1..Len(front) : head[j] = front[j]
    BY <1>5, <1>6, <2>2 DEF n
  <2>4. head = front
    BY <1>1, <2>2, <2>3, SeqEqual
  <2>5. (n + 1) - 1 = n
    BY <1>5
  <2> QED BY <1>10, <2>4, <2>5 DEF Before, head
<1>14. After(new, o) = back
  <2> DEFINE from == n + 4 + 1
             tail == SubSeq(new, from, Len(new))
  <2>1. \A j \in from..Len(new) : new[j] \in Parts
    BY <1>5, <1>6, ElementOfSeq
  <2>2. /\ tail \in Seq(Parts)
        /\ Len(tail) = IF from <= Len(new) THEN Len(new) - from + 1 ELSE 0
        /\ \A j \in 1..Len(new) - from + 1 : tail[j] = new[from + j - 1]
    BY <1>5, <1>6, <2>1, SubSeqProperties
  <2> HIDE DEF tail
  <2>3. Len(tail) = Len(back)
    BY <1>5, <1>6, <2>2
  <2>4. \A j \in 1..Len(back) : j \in 1..Len(new) - from + 1 /\ from + j - 1 = n + 4 + j
    BY <1>5, <1>6
  <2>5. \A j \in 1..Len(back) : tail[j] = back[j]
    BY <1>6, <2>2, <2>4
  <2>6. tail = back
    BY <1>1, <2>2, <2>3, <2>5, SeqEqual
  <2> QED BY <1>12, <2>6 DEF After, tail
<1>15. SubSeq(new, Start(new, o), End(new, o)) = section
  <2> DEFINE middle == SubSeq(new, n + 1, n + 4)
  <2>1. \A j \in (n + 1)..(n + 4) : new[j] \in Parts
    BY <1>5, <1>6, ElementOfSeq
  <2>2. /\ middle \in Seq(Parts)
        /\ Len(middle) = IF n + 1 <= n + 4 THEN (n + 4) - (n + 1) + 1 ELSE 0
        /\ \A j \in 1..(n + 4) - (n + 1) + 1 : middle[j] = new[n + 1 + j - 1]
    BY <1>5, <2>1, SubSeqProperties
  <2> HIDE DEF middle
  <2>3. Len(middle) = 4 /\ \A j \in 1..4 : j \in 1..(n + 4) - (n + 1) + 1 /\ n + 1 + j - 1 = n + j
    BY <1>5, <2>2
  <2>4. \A j \in 1..4 : middle[j] = section[j]
    BY <1>6, <2>2, <2>3
  <2>5. Len(middle) = Len(section) /\ \A j \in 1..Len(section) : middle[j] = section[j]
    BY <1>3, <2>3, <2>4
  <2>6. middle = section
    BY <1>3, <2>2, <2>5, SeqEqual
  <2> QED BY <1>10, <1>12, <2>6 DEF middle
<1>16. Has(new, Signature(cases))
  <2>1. n + 2 \in DOMAIN new
    BY <1>5, <1>6, <1>7
  <2>2. new[n + 2] = section[2] /\ section[2] = Signature(cases)
    BY <1>6 DEF section, Section
  <2> QED BY <2>1, <2>2 DEF Has, ToSet
<1> QED BY <1>9, <1>11, <1>13, <1>14, <1>15, <1>16 DEF section

\* The section that is spliced in starts and ends where the old one did.
LEMMA SpliceKeepsAround ==
    ASSUME NEW body \in Seq(Parts), NEW o \in Originals, Has(body, Marker(o)),
           IsManaged(body, o), NEW cases \in CaseSets, NEW run \in Nat, NEW new,
           new = Splice(body, o, Section(o, cases, run))
    PROVE  /\ Before(new, o) = Before(body, o) /\ After(new, o) = After(body, o)
           /\ Has(new, Marker(o)) /\ Has(new, Signature(cases)) /\ IsManaged(new, o)
           /\ SubSeq(new, Start(new, o), End(new, o)) = Section(o, cases, run)
<1> DEFINE front == Before(body, o)
           back == After(body, o)
           section == Section(o, cases, run)
           n == Len(front)
<1>1. front \in Seq(Parts) /\ back \in Seq(Parts)
  BY PartsAround
<1>2. \A j \in 1..n : front[j] # Marker(o)
  <2> DEFINE start == Start(body, o)
  <2>1. /\ start \in 1..Len(body) /\ Len(body) \in Nat
        /\ \A j \in 1..(start - 1) : body[j] # Marker(o)
    BY StartIsFirst, SeqElements
  <2>2. \A j \in 1..(start - 1) : body[j] \in Parts
    BY <2>1, ElementOfSeq
  <2> HIDE DEF start
  <2>3. /\ Len(SubSeq(body, 1, start - 1)) = IF 1 <= start - 1 THEN start - 1 - 1 + 1 ELSE 0
        /\ \A j \in 1..(start - 1) - 1 + 1 : SubSeq(body, 1, start - 1)[j] = body[1 + j - 1]
    BY <2>1, <2>2, SubSeqProperties
  <2> QED BY <2>1, <2>3 DEF Before, start
<1>3. section \in Seq(Parts) /\ Len(section) = 4
  <2>1. section \in Seq(Parts)
    BY SectionElements
  <2> QED BY <2>1 DEF Section
<1>4. new = (front \o section) \o back
  BY DEF Splice
<1> HIDE DEF front, back, section
<1>5. /\ new \in Seq(Parts) /\ Len(new) = n + 4 + Len(back)
      /\ \A j \in 1..n : new[j] = front[j]
      /\ \A j \in 1..4 : new[n + j] = section[j]
      /\ \A j \in 1..Len(back) : new[n + 4 + j] = back[j]
  <2>1. PICK half : half = front \o section
    OBVIOUS
  <2>2. /\ new \in Seq(Parts) /\ Len(new) = Len(front) + Len(section) + Len(back)
        /\ \A j \in 1..Len(front) : new[j] = front[j]
        /\ \A j \in 1..Len(section) : new[Len(front) + j] = section[j]
        /\ \A j \in 1..Len(back) : new[Len(front) + Len(section) + j] = back[j]
    <3>1. front \in Seq(Parts) /\ section \in Seq(Parts) /\ back \in Seq(Parts)
      BY <1>1, <1>3
    <3>2. new = half \o back
      BY <1>4, <2>1
    <3> QED BY <2>1, <3>1, <3>2, ThreeParts
  <2> QED BY <1>3, <2>2
<1> HIDE DEF n
<1>6. \A j \in 1..4 : new[n + j] = Section(o, cases, run)[j]
  BY <1>5 DEF section
<1>7. /\ Before(new, o) = front /\ After(new, o) = back
      /\ Has(new, Marker(o)) /\ Has(new, Signature(cases)) /\ IsManaged(new, o)
      /\ SubSeq(new, Start(new, o), End(new, o)) = Section(o, cases, run)
  <2>1. Around(new, front, back, o, cases, run)
    BY <1>2, <1>5, <1>6 DEF Around, n
  <2> QED BY <1>1, <1>5, <2>1, SectionFound
<1> QED BY <1>7 DEF front, back

(* No step of the job changes what stands before or after a managed section, *)
(* nor the order of it, in an issue that nobody changed since the job listed *)
(* it.                                                                     *)
THEOREM NotesSurviveAlways == Spec => NotesSurvive
<1> DEFINE Survive == ByTheJob => \A i \in DOMAIN issues \ touched : KeepsNotes(i)
<1>1. ASSUME IInv, [Next]_vars PROVE Survive
  <2> SUFFICES ASSUME ByTheJob, NEW i \in (1..Len(issues)) \ touched,
                      NEW o \in Originals,
                      Has(issues[i].body, Marker(o)), IsManaged(issues[i].body, o)
               PROVE  /\ Before(issues'[i].body, o) = Before(issues[i].body, o)
                      /\ After(issues'[i].body, o) = After(issues[i].body, o)
    BY <1>1, IssueFacts DEF IInv, KeepsNotes
  <2>1. CASE issues'[i] = issues[i]
    BY <2>1
  <2>2. ASSUME NEW p \in Originals, Update(p), issues'[i] # issues[i]
        PROVE  /\ Before(issues'[i].body, o) = Before(issues[i].body, o)
               /\ After(issues'[i].body, o) = After(issues[i].body, o)
    <3>1. PICK j \in Opened(p) :
            LET body == Splice(snapshot[j].body, p, NewSection(p)) IN
            IF body # snapshot[j].body \/ NewTitle(p) # snapshot[j].title
            THEN issues' = [issues EXCEPT ![j].title = NewTitle(p), ![j].body = body]
            ELSE UNCHANGED issues
      BY <2>2 DEF Update
    <3>2. /\ phase = "publish" /\ p \in todo
          /\ report.groups[p] \in CaseSets /\ report.run \in Nat
      BY <1>1, <2>2, NextGroupFacts DEF IInv, Update
    <3>3. j \in 1..Len(snapshot) /\ Has(snapshot[j].body, Marker(p))
      BY <1>1, OpenedFacts DEF IInv
    <3>4. j \notin touched => issues[j] = snapshot[j]
      BY <1>1, <3>2, <3>3 DEF IInv, SnapshotInv
    <3> DEFINE body == Splice(snapshot[j].body, p, NewSection(p))
    <3> HIDE DEF body
    <3>5. issues' = [issues EXCEPT ![j].title = NewTitle(p), ![j].body = body]
      BY <2>2, <3>1 DEF body
    <3>6. DOMAIN issues = 1..Len(issues) /\ issues[i] \in IssueType
          /\ issues[i].body \in Seq(Parts)
      BY <1>1, IssueFacts DEF IInv
    <3>7. i = j /\ issues'[i].body = body
      BY <2>2, <3>5, <3>6 DEF IssueType
    <3>8. p = o
      BY <1>1, <3>3, <3>4, <3>7 DEF IInv, OneMarkerInv
    <3>9. body = Splice(issues[i].body, o, Section(o, report.groups[o], report.run))
      BY <3>4, <3>7, <3>8 DEF body, NewSection
    <3> QED BY <3>2, <3>6, <3>7, <3>8, <3>9, SpliceKeepsAround
  <2>3. ASSUME NEW p \in Originals, Create(p)
        PROVE  issues'[i] = issues[i]
    BY <1>1, <2>3, CreateStep
  <2> QED BY <1>1, <2>1, <2>2, <2>3, JobKeepsIssues DEF ByTheJob
<1>2. IInv /\ [Next]_vars => [Survive]_vars
  BY <1>1
<1> QED BY <1>2, Invariant, PTL DEF Spec, NotesSurvive

-----------------------------------------------------------------------------
(* What is published is told, and stays so while the job goes on: nothing   *)
(* but people touches the notification of another original.                *)

DoneInv == phase = "publish" => \A o \in DOMAIN report.groups \ todo : IsTold(o)

\* An issue that people leave alone goes on telling; one that they change is
\* remembered.
LEMMA ToldAmidPeople ==
    ASSUME IInv, phase = "publish", People, NEW o \in Originals, IsTold(o)
    PROVE  IsTold(o)'
<1>1. PeopleKeep /\ UNCHANGED <<phase, report>>
  BY PeopleStep DEF IInv
<1>2. DOMAIN issues = 1..Len(issues) /\ DOMAIN issues' = 1..Len(issues)
  BY <1>1, IssueFacts, LenProperties DEF IInv, PeopleKeep
<1>3. touched \subseteq touched'
  <2>1. \A i \in 1..Len(issues) : i \notin touched' => i \notin touched
    BY <1>1 DEF PeopleKeep
  <2>2. touched \subseteq 1..Len(issues)
    BY <1>2 DEF IInv, TypeOK
  <2> QED BY <2>1, <2>2
<1>4. \A i \in 1..Len(issues) : Has(issues[i].body, Marker(o)) => Has(issues'[i].body, Marker(o))
  BY <1>1 DEF PeopleKeep, SameMeaning
<1>5. CASE \E i \in touched : Has(issues[i].body, Marker(o))
  BY <1>2, <1>3, <1>4, <1>5 DEF IsTold, IInv, TypeOK
<1>6. CASE \E i \in DOMAIN issues : Tells(issues[i], o)
  <2>1. PICK i \in 1..Len(issues) : Tells(issues[i], o)
    BY <1>2, <1>6
  <2>2. CASE i \in touched'
    BY <1>4, <2>1, <2>2 DEF IsTold, Tells, Covers
  <2>3. CASE i \notin touched'
    <3>1. issues'[i] = issues[i]
      BY <1>1, <2>3 DEF PeopleKeep
    <3>2. Tells(issues[i], o)'
      BY <1>1, <2>1, <3>1 DEF Tells
    <3> QED BY <1>2, <3>2 DEF IsTold
  <2> QED BY <2>2, <2>3
<1> QED BY <1>5, <1>6 DEF IsTold

\* A step that keeps the issues of an original keeps it told.
LEMMA ToldIsKept ==
    ASSUME IInv, NEW o \in Originals, IsTold(o), UNCHANGED <<report, touched>>,
           \A i \in DOMAIN issues : i \in DOMAIN issues',
           \A i \in DOMAIN issues :
                Has(issues[i].body, Marker(o)) => issues'[i] = issues[i]
    PROVE  IsTold(o)'
<1>1. CASE \E i \in touched : Has(issues[i].body, Marker(o))
  BY <1>1 DEF IsTold, IInv, TypeOK
<1>2. CASE \E i \in DOMAIN issues : Tells(issues[i], o)
  <2>1. PICK i \in DOMAIN issues : Tells(issues[i], o)
    BY <1>2
  <2>2. issues'[i] = issues[i]
    BY <2>1 DEF Tells, Covers
  <2>3. Tells(issues[i], o)'
    BY <2>1, <2>2 DEF Tells
  <2> QED BY <2>1, <2>3 DEF IsTold
<1> QED BY <1>1, <1>2 DEF IsTold

LEMMA UpdateTells ==
    ASSUME IInv, NEW o \in Originals, Update(o)
    PROVE  IsTold(o)'
<1>1. /\ IsNext(o) /\ ~Unpublishable(o) /\ phase = "publish" /\ o \in todo
      /\ report.groups[o] \in CaseSets /\ report.run \in Nat
      /\ UNCHANGED <<report, touched>>
  BY NextGroupFacts DEF IInv, Update, Published, history
<1>2. PICK i \in Opened(o) :
        LET body == Splice(snapshot[i].body, o, NewSection(o)) IN
        IF body # snapshot[i].body \/ NewTitle(o) # snapshot[i].title
        THEN issues' = [issues EXCEPT ![i].title = NewTitle(o), ![i].body = body]
        ELSE UNCHANGED issues
  BY DEF Update
<1>3. /\ i \in 1..Len(snapshot) /\ Has(snapshot[i].body, Marker(o))
      /\ IsManaged(snapshot[i].body, o) /\ snapshot[i].body \in Seq(Parts)
  BY <1>1, OpenedFacts, OpenedIsManaged, IssueFacts DEF IInv
<1>4. /\ i \in 1..Len(issues) /\ DOMAIN issues = 1..Len(issues)
      /\ issues[i] \in IssueType
      /\ i \notin touched => issues[i] = snapshot[i]
  BY <1>1, <1>3, IssueFacts DEF IInv, SnapshotInv
<1> DEFINE body == Splice(snapshot[i].body, o, NewSection(o))
<1>5. /\ Has(body, Marker(o)) /\ Has(body, Signature(report.groups[o])) /\ IsManaged(body, o)
      /\ SubSeq(body, Start(body, o), End(body, o)) = NewSection(o)
  BY <1>1, <1>3, SpliceKeepsAround DEF NewSection
<1> HIDE DEF body
<1>6. \/ /\ DOMAIN issues' = DOMAIN issues
         /\ issues'[i].body = body /\ issues'[i].title = NewTitle(o)
      \/ i \in touched /\ UNCHANGED issues
  <2>1. CASE issues' = [issues EXCEPT ![i].title = NewTitle(o), ![i].body = body]
    BY <1>4, <2>1 DEF IssueType
  <2>2. CASE UNCHANGED issues /\ body = snapshot[i].body /\ NewTitle(o) = snapshot[i].title
    BY <1>4, <2>2
  <2> QED BY <1>2, <2>1, <2>2 DEF body
<1>7. CASE i \in touched /\ UNCHANGED issues
  <2>1. Has(issues[i].body, Marker(o))
    BY <1>1, <1>3 DEF IInv, SnapshotInv
  <2> QED BY <1>1, <1>7, <2>1 DEF IsTold
<1>8. CASE /\ DOMAIN issues' = DOMAIN issues
           /\ issues'[i].body = body /\ issues'[i].title = NewTitle(o)
  <2>1. Tells(issues[i], o)'
    BY <1>1, <1>5, <1>8 DEF Tells, Covers, NewTitle, NewSection
  <2> QED BY <1>4, <1>8, <2>1 DEF IsTold
<1> QED BY <1>6, <1>7, <1>8

\* A new notification is its section and nothing else.
LEMMA SectionAlone ==
    ASSUME NEW o \in Originals, NEW cases \in CaseSets, NEW run \in Nat
    PROVE  LET new == Section(o, cases, run) IN
           /\ Has(new, Marker(o)) /\ Has(new, Signature(cases)) /\ IsManaged(new, o)
           /\ SubSeq(new, Start(new, o), End(new, o)) = new
<1>0. PICK new : new = Section(o, cases, run)
  OBVIOUS
<1>1. new \in Seq(Parts) /\ Len(new) = 4
  <2>1. new \in Seq(Parts)
    BY <1>0, SectionElements
  <2> QED BY <1>0, <2>1 DEF Section
<1>2. PICK front, back \in Seq(Parts) : Len(front) = 0 /\ Len(back) = 0
  BY EmptySeq
<1>3. /\ Len(new) = Len(front) + 4 + Len(back)
      /\ \A j \in 1..Len(front) : front[j] # Marker(o)
      /\ \A j \in 1..Len(front) : new[j] = front[j]
      /\ \A j \in 1..Len(back) : new[Len(front) + 4 + j] = back[j]
  BY <1>1, <1>2
<1>4. \A j \in 1..4 : new[Len(front) + j] = Section(o, cases, run)[j]
  BY <1>0, <1>2
<1>5. Before(new, o) = front /\ After(new, o) = back
      /\ Has(new, Marker(o)) /\ Has(new, Signature(cases)) /\ IsManaged(new, o)
      /\ SubSeq(new, Start(new, o), End(new, o)) = Section(o, cases, run)
  <2>1. front \in Seq(Parts) /\ back \in Seq(Parts) /\ new \in Seq(Parts)
    BY <1>1, <1>2
  <2>2. Around(new, front, back, o, cases, run)
    BY <1>3, <1>4 DEF Around
  <2> QED BY <2>1, <2>2, SectionFound
<1> QED BY <1>0, <1>5

LEMMA CreateTells ==
    ASSUME IInv, NEW o \in Originals, Create(o)
    PROVE  IsTold(o)'
<1>1. /\ report.groups[o] \in CaseSets /\ report.run \in Nat
      /\ UNCHANGED <<report, touched>>
  BY NextGroupFacts DEF IInv, Create, Published, history
<1> DEFINE section == NewSection(o)
<1>5. /\ Has(section, Marker(o)) /\ Has(section, Signature(report.groups[o]))
      /\ IsManaged(section, o)
      /\ SubSeq(section, Start(section, o), End(section, o))
            = Section(o, report.groups[o], report.run)
  BY <1>1, SectionAlone DEF NewSection
<1> HIDE DEF section
<1>6. /\ Len(issues) + 1 \in DOMAIN issues'
      /\ issues'[Len(issues) + 1] = NewIssue(o)
  BY CreateStep, IssueFacts, LenProperties DEF IInv
<1>7. NewIssue(o).body = section /\ NewIssue(o).title = Title(o, report.groups[o])
  BY DEF NewIssue, NewTitle, section
<1>8. PICK n : n = Len(issues) + 1
  OBVIOUS
<1>9. Tells(issues[n], o)'
  <2>1. Tells(NewIssue(o), o)
    BY <1>5, <1>7 DEF Tells, Covers
  <2>2. PICK item : item = NewIssue(o)
    OBVIOUS
  <2>3. issues'[n] = item /\ Tells(item, o)
    BY <1>6, <1>8, <2>1, <2>2
  <2> QED BY <1>1, <2>3 DEF Tells
<1> QED BY <1>6, <1>8, <1>9 DEF IsTold

LEMMA SuppressTells ==
    ASSUME IInv, NEW o \in Originals, Suppress(o)
    PROVE  IsTold(o)'
<1>1. /\ phase = "publish" /\ o \in todo
      /\ UNCHANGED <<issues, report, touched>>
  BY NextGroupFacts DEF IInv, Suppress, Published, history
<1>2. PICK i \in Matches(o) : Has(snapshot[i].body, Signature(report.groups[o]))
  BY DEF Suppress, IsSuppressed
<1>3. i \in 1..Len(snapshot) /\ Has(snapshot[i].body, Marker(o)) /\ snapshot[i].state # "open"
  BY <1>2, IssueFacts DEF IInv, Suppress, Opened, Matches
<1>4. i \in 1..Len(issues) /\ DOMAIN issues = 1..Len(issues)
  BY <1>1, <1>3, IssueFacts DEF IInv, SnapshotInv
<1>5. Has(issues[i].body, Marker(o))
  BY <1>1, <1>3 DEF IInv, SnapshotInv
<1>6. CASE i \in touched
  BY <1>1, <1>5, <1>6 DEF IsTold
<1>7. CASE i \notin touched
  <2>1. issues[i] = snapshot[i]
    BY <1>1, <1>3, <1>7 DEF IInv, SnapshotInv
  <2>2. Tells(issues[i], o)
    BY <1>2, <1>3, <2>1 DEF Tells, Covers
  <2>3. IsTold(o)
    BY <1>4, <2>2 DEF IsTold
  <2> QED BY <1>1, <2>3 DEF IsTold, Tells
<1> QED BY <1>6, <1>7

LEMMA DoneNext == IInv /\ DoneInv /\ [Next]_vars => DoneInv'
<1> SUFFICES ASSUME IInv, DoneInv, [Next]_vars, phase' = "publish",
                    NEW o \in DOMAIN report'.groups \ todo'
             PROVE  IsTold(o)'
  BY DEF DoneInv
<1>1. ~ListIssues
  BY DEF ListIssues
<1>2. ~StartJob
  BY DEF StartJob
<1>3. ~(JobDies \/ RejectReport \/ NothingToFile \/ FinishJob \/ \E p \in Originals : RaiseError(p))
  BY DEF JobDies, RejectReport, NothingToFile, FinishJob, RaiseError, EndJob
<1>4. UNCHANGED <<phase, report>>
  BY <1>1, <1>2, <1>3, PeopleStep DEF IInv, Next, JobStep, Submit, Rerun, CancelWaiting, job, Update, Suppress, Create,
     Published, vars
<1>5. o \in Originals
  <2>1. report \in ReportType
    BY <1>4 DEF IInv, JobInv
  <2>2. \A groups \in Groups : DOMAIN groups \subseteq Originals
    BY DEF Groups
  <2> QED BY <1>4, <2>1, <2>2 DEF ReportType
<1>6. CASE People
  <2>1. IsTold(o)
    BY <1>4, <1>6, PeopleStep DEF IInv, DoneInv
  <2> QED BY <1>4, <1>5, <1>6, <2>1, ToldAmidPeople
<1>7. ASSUME NEW p \in Originals, Update(p) \/ Suppress(p) \/ Create(p)
      PROVE  IsTold(o)'
  <2>1. todo' = todo \ {p} /\ UNCHANGED <<report, touched>>
    BY <1>7 DEF Update, Suppress, Create, Published, history
  <2>2. CASE o = p
    BY <1>7, <2>2, UpdateTells, SuppressTells, CreateTells
  <2>3. CASE o # p
    <3>1. IsTold(o)
      BY <1>4, <2>1, <2>3 DEF DoneInv
    <3>2. ASSUME Update(p)
          PROVE  /\ DOMAIN issues' = DOMAIN issues
                 /\ \A i \in DOMAIN issues :
                        Has(issues[i].body, Marker(o)) => issues'[i] = issues[i]
      <4>1. PICK k \in Opened(p) :
              /\ k \in 1..Len(issues) /\ Has(issues[k].body, Marker(p))
              /\ issues' \in Seq(IssueType) /\ Len(issues') = Len(issues)
              /\ \A j \in 1..Len(issues) : j # k => issues'[j] = issues[j]
        BY <3>2, UpdateStep DEF IInv
      <4>2. DOMAIN issues = 1..Len(issues) /\ DOMAIN issues' = 1..Len(issues)
        BY <4>1, IssueFacts, LenProperties DEF IInv
      <4> QED BY <1>5, <2>3, <4>1, <4>2 DEF IInv, OneMarkerInv
    <3>3. ASSUME Create(p)
          PROVE  \A i \in DOMAIN issues : i \in DOMAIN issues' /\ issues'[i] = issues[i]
      <4>1. /\ issues' \in Seq(IssueType) /\ Len(issues') = Len(issues) + 1
            /\ \A j \in 1..Len(issues) : issues'[j] = issues[j]
        BY <3>3, CreateStep
      <4> QED BY <4>1, IssueFacts, LenProperties DEF IInv
    <3>4. Suppress(p) => UNCHANGED issues
      BY DEF Suppress
    <3> QED BY <1>5, <1>7, <2>1, <3>1, <3>2, <3>3, <3>4, ToldIsKept
  <2> QED BY <2>2, <2>3
<1>8. CASE UNCHANGED <<issues, touched, report, todo, phase>>
  <2>1. IsTold(o)
    BY <1>8 DEF DoneInv
  <2> QED BY <1>5, <1>8, <2>1, ToldIsKept
<1> QED BY <1>1, <1>2, <1>3, <1>6, <1>7, <1>8 DEF Next, JobStep, Submit, Rerun, CancelWaiting, job, history, vars

(* However a job ends, the groups that it is done with are told, or people  *)
(* changed their notification after the job listed it; when it ends well,   *)
(* these are all the groups of its report.                                 *)
THEOREM EndedMeansToldAlways == Spec => EndedMeansTold
<1> DEFINE Ended ==
        (phase = "publish" /\ phase' = "idle") =>
            \A o \in DOMAIN report.groups :
                (outcome' = "done" \/ o \notin todo) => IsTold(o)
<1>1. Init => DoneInv
  BY DEF Init, DoneInv
<1>2. IInv /\ DoneInv /\ [Next]_vars => DoneInv'
  BY DoneNext
<1>3. ASSUME IInv, DoneInv, [Next]_vars PROVE Ended
  <2> SUFFICES ASSUME phase = "publish", phase' = "idle", outcome' = "done"
               PROVE  todo = {}
    BY <1>3 DEF DoneInv
  <2>1. ~(\E p \in Originals : RaiseError(p)) /\ ~JobDies
    BY DEF RaiseError, JobDies, EndJob
  <2>2. ~People
    BY <1>3, PeopleStep DEF IInv
  <2> QED BY <1>3, <2>1, <2>2 DEF Next, JobStep, Submit, Rerun, CancelWaiting, StartJob, RejectReport,
             NothingToFile, ListIssues, FinishJob, Update, Suppress, Create, Published, job, vars
<1>4. IInv /\ DoneInv /\ [Next]_vars => [Ended]_vars
  BY <1>3
<1> QED BY <1>1, <1>2, <1>4, Invariant, PTL DEF Spec, EndedMeansTold

-----------------------------------------------------------------------------
(* The end of a job.                                                       *)

\* Steps that a job still has to take: to list the issues, to decide on its
\* groups, to finish.
StepsLeft ==
    IF phase = "idle" THEN 0
    ELSE IF phase = "load" THEN 2 + Cardinality(Originals)
    ELSE 1 + Cardinality(todo)

LEMMA OriginalsAreFinite == IsFiniteSet(Originals) /\ Cardinality(Originals) \in Nat
<1>1. /\ Order \in Seq(Originals) /\ Len(Order) \in Nat
      /\ DOMAIN Order = 1..Len(Order) /\ Originals = {Order[i] : i \in 1..Len(Order)}
  BY OrderAssumption, SeqElements DEF Originals, ToSet
<1>2. Order \in Surjection(1..Len(Order), Originals)
  BY <1>1 DEF Surjection
<1>3. IsFiniteSet(1..Len(Order))
  BY <1>1, FS_Interval
<1>4. IsFiniteSet(Originals)
  BY <1>2, <1>3, FS_Surjection
<1> QED BY <1>4, FS_CardinalityType

LEMMA GroupsAreFinite ==
    ASSUME NEW some \in SUBSET Originals
    PROVE  /\ IsFiniteSet(some) /\ Cardinality(some) \in Nat
           /\ Cardinality(some) <= Cardinality(Originals)
  BY OriginalsAreFinite, FS_Subset, FS_CardinalityType

\* Of the groups that are left there is a next one.
LEMMA NextGroupExists ==
    ASSUME TypeOK, phase = "publish", todo # {}
    PROVE  \E o \in Originals : IsNext(o)
<1> DEFINE T == {k \in 1..Len(Order) : Order[k] \in todo}
<1>1. /\ Len(Order) \in Nat /\ DOMAIN Order = 1..Len(Order)
      /\ Originals = {Order[i] : i \in 1..Len(Order)}
  BY OrderAssumption, SeqElements DEF Originals, ToSet
<1>2. T # {} /\ T \subseteq Nat
  BY <1>1 DEF TypeOK
<1>3. PICK k \in T : \A j \in T : k <= j
  BY <1>2, LeastExists
<1>4. \A j \in 1..(k - 1) : Order[j] \notin todo
  BY <1>1, <1>3
<1> QED BY <1>1, <1>3, <1>4 DEF IsNext

\* A group that is published, or left out, is not looked at again.
LEMMA GroupIsDone ==
    ASSUME TypeOK, NEW o \in Originals, IsNext(o), Published(o)
    PROVE  StepsLeft' < StepsLeft
<1>1. phase = "publish" /\ phase' = phase /\ o \in todo /\ todo' = todo \ {o}
  BY DEF IsNext, Published
<1>2. IsFiniteSet(todo) /\ Cardinality(todo) \in Nat
  BY GroupsAreFinite DEF TypeOK
<1>3. Cardinality(todo') = Cardinality(todo) - 1
  BY <1>1, <1>2, FS_RemoveElement
<1> QED BY <1>1, <1>2, <1>3 DEF StepsLeft

LEMMA StepsLeftBounded ==
    TypeOK => StepsLeft \in Nat /\ (phase # "idle" => StepsLeft > 0)
  BY OriginalsAreFinite, GroupsAreFinite DEF TypeOK, StepsLeft

LEMMA JobComesNearer ==
    ASSUME IInv, IInv', JobStep \/ JobDies
    PROVE  StepsLeft' < StepsLeft
<1>1. TypeOK /\ TypeOK'
  BY DEF IInv
<1>2. ASSUME phase # "idle", phase' = "idle"
      PROVE  StepsLeft' < StepsLeft
  <2>1. StepsLeft' = 0
    BY <1>2 DEF StepsLeft
  <2> QED BY <1>1, <1>2, <2>1, StepsLeftBounded
<1>3. CASE JobDies \/ RejectReport \/ NothingToFile \/ FinishJob
               \/ \E o \in Originals : RaiseError(o)
  BY <1>2, <1>3 DEF JobDies, RejectReport, NothingToFile, FinishJob, RaiseError, IsNext, EndJob
<1>4. CASE ListIssues
  <2>1. phase = "load" /\ phase' = "publish"
    BY <1>4 DEF ListIssues
  <2>2. PICK n \in Nat : Cardinality(todo') = n /\ n <= Cardinality(Originals)
    <3>1. todo' \in SUBSET Originals
      BY <1>1 DEF TypeOK
    <3> QED BY <3>1, GroupsAreFinite
  <2>3. StepsLeft' = 1 + n /\ StepsLeft = 2 + Cardinality(Originals)
    BY <2>1, <2>2 DEF StepsLeft
  <2> QED BY <2>2, <2>3, OriginalsAreFinite
<1>5. CASE \E o \in Originals : Update(o) \/ Suppress(o) \/ Create(o)
  BY <1>1, <1>5, GroupIsDone DEF Update, Suppress, Create
<1> QED BY <1>3, <1>4, <1>5 DEF JobStep

(* Every step of a job brings it nearer to its end: with n original issues it *)
(* takes n + 2 steps at most.  As long as groups are left one of them is next, *)
(* and nothing that people or the queue do makes its way longer.  It is what  *)
(* JobEnds rests on, besides that a job goes on.                            *)
THEOREM JobsComeNearer ==
    Spec => /\ [](/\ StepsLeft \in Nat
                  /\ phase = "publish" /\ todo # {} => \E o \in Originals : IsNext(o))
            /\ [][JobStep \/ JobDies => StepsLeft' < StepsLeft]_vars
            /\ [][phase # "idle" => StepsLeft' <= StepsLeft]_vars
<1>1. IInv => /\ StepsLeft \in Nat
              /\ phase = "publish" /\ todo # {} => \E o \in Originals : IsNext(o)
  BY StepsLeftBounded, NextGroupExists DEF IInv
<1>2. IInv /\ IInv' /\ [Next]_vars => [JobStep \/ JobDies => StepsLeft' < StepsLeft]_vars
  BY JobComesNearer
<1>3. IInv /\ IInv' /\ StepsLeft \in Nat /\ (StepsLeft \in Nat)' /\ [Next]_vars
        => [phase # "idle" => StepsLeft' <= StepsLeft]_vars
  <2> SUFFICES ASSUME IInv, IInv', StepsLeft \in Nat, StepsLeft' \in Nat, Next, phase # "idle"
               PROVE  StepsLeft' <= StepsLeft
    OBVIOUS
  <2>1. StepsLeft \in Nat /\ StepsLeft' \in Nat
    OBVIOUS
  <2>2. CASE JobStep \/ JobDies
    BY <2>1, <2>2, JobComesNearer
  <2>3. CASE UNCHANGED <<phase, todo>>
    BY <2>1, <2>3 DEF StepsLeft
  <2> QED BY <2>2, <2>3, PeopleStep DEF IInv, Next, Submit, Rerun, CancelWaiting, StartJob, job
<1> QED BY <1>1, <1>2, <1>3, Invariant, PTL DEF Spec
=============================================================================
