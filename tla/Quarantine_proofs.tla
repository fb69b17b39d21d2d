-------------------------- MODULE Quarantine_proofs --------------------------
(***************************************************************************)
(* TLAPS proofs about Quarantine, for any reviewers, any inventory and any  *)
(* bound.                                                                  *)
(***************************************************************************)
EXTENDS Quarantine, SequenceLemmas

-----------------------------------------------------------------------------
(* What recording and resolving do to the excluded names.                  *)

LEMMA ListOfASet ==
    ASSUME NEW S, IsFiniteSet(S)
    PROVE  /\ SetToSeq(S) \in Seq(S) /\ ToSet(SetToSeq(S)) \subseteq S
           /\ \A k, l \in DOMAIN SetToSeq(S) : SetToSeq(S)[k] = SetToSeq(S)[l] => k = l
           /\ S # {} => SetToSeq(S) # <<>>
<1>1. Cardinality(S) \in Nat /\ ExistsBijection(1..Cardinality(S), S)
  BY FS_CardinalityType
<1>2. \E f \in [1..Cardinality(S) -> S] : IsInjective(f)
  BY <1>1 DEF ExistsBijection, Bijection, Injection
<1>3. SetToSeq(S) \in [1..Cardinality(S) -> S] /\ IsInjective(SetToSeq(S))
  BY <1>2 DEF SetToSeq
<1>4. SetToSeq(S) \in Seq(S)
  BY <1>1, <1>3, IsASeq
<1>5. S # {} => 1 \in DOMAIN SetToSeq(S)
  BY <1>1, <1>3, FS_EmptySet
<1>6. \A k, l \in DOMAIN SetToSeq(S) : SetToSeq(S)[k] = SetToSeq(S)[l] => k = l
  BY <1>3 DEF IsInjective
<1>7. \A k \in DOMAIN SetToSeq(S) : SetToSeq(S)[k] \in S
  BY <1>3
<1>8. S # {} => SetToSeq(S) # <<>>
  BY <1>5
<1> QED BY <1>4, <1>6, <1>7, <1>8 DEF ToSet

LEMMA GroupIsTyped ==
    ASSUME NEW w \in WorkType, w.url \in Issues
    PROVE  /\ Group(w) \in GroupType
           /\ ToSet(Group(w).tests) \subseteq w.tests
<1>1. w.tests \subseteq Inventory /\ w.reason \in Reasons
  BY DEF WorkType
<1>2. IsFiniteSet(w.tests)
  BY <1>1, InventoryAssumption, FS_Subset
<1>3. SetToSeq(w.tests) \in Seq(w.tests) /\ ToSet(SetToSeq(w.tests)) \subseteq w.tests
  BY <1>2, ListOfASet
<1>4. SetToSeq(w.tests) \in Seq(Inventory)
  BY <1>1, <1>3
<1> QED BY <1>1, <1>3, <1>4 DEF Group, GroupType

\* Recording adds the recorded names for its own driver and nothing else.
LEMMA AppendedExcludes ==
    ASSUME NEW registry \in RegistryType, NEW w \in WorkType, w.url \in Issues
    PROVE  /\ Appended(registry, w) \in RegistryType
           /\ \A d \in Drivers :
                Excluded(Appended(registry, w), d) \subseteq
                    Excluded(registry, d) \cup (IF d = w.driver THEN w.tests ELSE {})
<1>1. w.driver \in Drivers
  BY DEF WorkType
<1>2. Group(w) \in GroupType /\ ToSet(Group(w).tests) \subseteq w.tests
  BY GroupIsTyped
<1>3. \A d \in Drivers : registry[d] \in Seq(GroupType)
  BY DEF RegistryType
<1> DEFINE long == Append(registry[w.driver], Group(w))
<1>4. /\ long \in Seq(GroupType)
      /\ Len(long) = Len(registry[w.driver]) + 1
      /\ \A i \in 1..Len(registry[w.driver]) : long[i] = registry[w.driver][i]
      /\ long[Len(registry[w.driver]) + 1] = Group(w)
  BY <1>1, <1>2, <1>3, AppendProperties
<1> HIDE DEF long
<1>5. Appended(registry, w) = [registry EXCEPT ![w.driver] = long]
  BY DEF Appended, long
<1>6. Appended(registry, w) \in RegistryType
  BY <1>1, <1>4, <1>5 DEF RegistryType
<1>7. ASSUME NEW d \in Drivers
      PROVE  Excluded(Appended(registry, w), d) \subseteq
                Excluded(registry, d) \cup (IF d = w.driver THEN w.tests ELSE {})
  <2>1. CASE d # w.driver
    <3>1. Appended(registry, w)[d] = registry[d]
      BY <1>5, <2>1 DEF RegistryType
    <3> QED BY <3>1, <2>1 DEF Excluded
  <2>2. CASE d = w.driver
    <3>1. Appended(registry, w)[d] = long
      BY <1>5, <2>2 DEF RegistryType
    <3>2. /\ DOMAIN long = 1..(Len(registry[d]) + 1)
          /\ DOMAIN registry[d] = 1..Len(registry[d]) /\ Len(registry[d]) \in Nat
      BY <1>3, <1>4, <2>2, SeqElements
    <3>3. \A i \in DOMAIN long :
            (i \in DOMAIN registry[d] /\ long[i] = registry[d][i]) \/ long[i] = Group(w)
      BY <1>4, <2>2, <3>2
    <3> QED BY <1>2, <2>2, <3>1, <3>3 DEF Excluded
  <2> QED BY <2>1, <2>2
<1> QED BY <1>6, <1>7

\* Resolving a group adds no name.
LEMMA ResolvedExcludes ==
    ASSUME NEW registry \in RegistryType, NEW d \in Drivers, NEW i \in DOMAIN registry[d],
           NEW after, after = [registry EXCEPT ![d] = RemoveAt(@, i)]
    PROVE  /\ after \in RegistryType
           /\ \A e \in Drivers : Excluded(after, e) \subseteq Excluded(registry, e)
<1>1. registry[d] \in Seq(GroupType)
  BY DEF RegistryType
<1>2. /\ RemoveAt(registry[d], i) \in Seq(GroupType)
      /\ ToSet(RemoveAt(registry[d], i)) \subseteq ToSet(registry[d])
  BY <1>1, RemoveElements
<1>3. after \in RegistryType
  BY <1>2 DEF RegistryType
<1>4. ASSUME NEW e \in Drivers PROVE ToSet(after[e]) \subseteq ToSet(registry[e])
  BY <1>2 DEF RegistryType
<1>5. ASSUME NEW e \in Drivers PROVE Excluded(after, e) \subseteq Excluded(registry, e)
  <2>1. \A j \in DOMAIN after[e] : \E k \in DOMAIN registry[e] : after[e][j] = registry[e][k]
    BY <1>4 DEF ToSet
  <2> QED BY <2>1 DEF Excluded
<1> QED BY <1>3, <1>5

-----------------------------------------------------------------------------
(* The inductive invariant.  The file is truncated and written from copies  *)
(* that were read earlier, by whichever reviewer comes last: what has to    *)
(* hold of the file has to hold of every copy that can still be written,    *)
(* and of the work that is still to be appended to it.                     *)

Sound(registry) ==
    \A d \in Drivers :
        /\ Connection \notin Excluded(registry, d)
        /\ Excluded(registry, d) \subseteq Excluded(Committed, d) \cup observed[d]

WorkInv ==
    \A p \in Reviewers : pc[p] # "idle" =>
        /\ work[p] \in WorkType
        /\ Connection \notin work[p].tests
        /\ work[p].tests \subseteq observed[work[p].driver]

IssueInv ==
    \A p \in Reviewers :
        pc[p] \in {"reread", "write", "flush"} => work[p].url \in Issues

CopyInv ==
    \A p \in Reviewers :
        pc[p] \in {"write", "flush"} => copy[p] \in RegistryType /\ Sound(copy[p])

FileInv == file # Broken => Sound(file)

IInv == TypeOK /\ WorkInv /\ IssueInv /\ CopyInv /\ FileInv

-----------------------------------------------------------------------------
LEMMA CommittedIsSound ==
    /\ Committed \in RegistryType
    /\ \A d \in Drivers : Connection \notin Excluded(Committed, d)
  BY CommittedAssumption DEF RegistryType, GroupType, Loads

LEMMA InitInv == Init => IInv
<1> SUFFICES ASSUME Init PROVE IInv
  OBVIOUS
<1>1. TypeOK
  <2>1. raced \in BOOLEAN
    BY Zenon DEF Init
  <2> QED BY <2>1, CommittedIsSound, BoundsAssumption DEF Init, TypeOK
<1>2. FileInv
  BY CommittedIsSound DEF Init, FileInv, Sound
<1> QED BY <1>1, <1>2 DEF Init, IInv, WorkInv, IssueInv, CopyInv

\* What is sound stays so while more failures are observed.
LEMMA SoundStays ==
    ASSUME NEW registry, Sound(registry),
           \A d \in Drivers : observed[d] \subseteq observed'[d]
    PROVE  \A d \in Drivers :
                /\ Connection \notin Excluded(registry, d)
                /\ Excluded(registry, d) \subseteq Excluded(Committed, d) \cup observed'[d]
  BY DEF Sound

\* A step of an invocation that neither writes the file nor observes anything.
LEMMA OwnStep ==
    ASSUME IInv, NEW p \in Reviewers, TypeOK',
           UNCHANGED <<file, observed>>,
           \A q \in Reviewers \ {p} :
                pc'[q] = pc[q] /\ work'[q] = work[q] /\ copy'[q] = copy[q],
           pc'[p] # "idle" =>
                /\ work'[p] \in WorkType
                /\ Connection \notin work'[p].tests
                /\ work'[p].tests \subseteq observed[work'[p].driver],
           pc'[p] \in {"reread", "write", "flush"} => work'[p].url \in Issues,
           pc'[p] \in {"write", "flush"} => copy'[p] \in RegistryType /\ Sound(copy'[p])
    PROVE  IInv'
<1>1. ASSUME NEW registry, Sound(registry)
      PROVE  \A d \in Drivers :
                /\ Connection \notin Excluded(registry, d)
                /\ Excluded(registry, d) \subseteq Excluded(Committed, d) \cup observed'[d]
  BY <1>1 DEF Sound
<1>2. WorkInv'
  BY DEF IInv, WorkInv
<1>3. IssueInv'
  BY DEF IInv, IssueInv
<1>4. CopyInv'
  <2> SUFFICES ASSUME NEW q \in Reviewers, pc'[q] \in {"write", "flush"}
               PROVE  copy'[q] \in RegistryType /\ Sound(copy[q])'
    BY DEF CopyInv
  <2>1. copy'[q] \in RegistryType /\ Sound(copy'[q])
    BY DEF IInv, CopyInv
  <2> QED BY <2>1, <1>1 DEF Sound
<1>5. FileInv'
  BY <1>1 DEF IInv, FileInv, Sound
<1> QED BY <1>2, <1>3, <1>4, <1>5 DEF IInv

\* A step that leaves every invocation as it is.
LEMMA ReviewersUntouched ==
    ASSUME IInv, TypeOK', UNCHANGED <<pc, work, copy, observed>>,
           file' # Broken => Sound(file')
    PROVE  IInv'
<1>1. WorkInv' /\ IssueInv'
  BY DEF IInv, WorkInv, IssueInv
<1>2. CopyInv'
  BY DEF IInv, CopyInv, Sound
<1>3. FileInv'
  BY DEF FileInv, Sound
<1> QED BY <1>1, <1>2, <1>3 DEF IInv

LEMMA CheckInv ==
    ASSUME IInv, NEW p \in Reviewers, NEW d \in Drivers, NEW cases \in [Inventory -> Statuses],
           NEW selected \in SUBSET Inventory, NEW reason \in Reasons, NEW create \in BOOLEAN,
           Check(p, d, cases, selected, reason, create)
    PROVE  IInv'
<1> DEFINE w == [driver |-> d, tests |-> selected, reason |-> reason,
                 create |-> create, url |-> None]
<1>1. w \in WorkType
  BY DEF WorkType
<1>2. /\ file' = file /\ copy' = copy /\ github' = github
      /\ work' = [work EXCEPT ![p] = w] /\ pc' = [pc EXCEPT ![p] = "gh"]
      /\ observed' = [observed EXCEPT ![d] = @ \cup Failed(cases)]
  BY DEF Check, GoTo
<1>3. TypeOK'
  <2>1. Failed(cases) \subseteq Inventory
    BY DEF Failed
  <2>2. observed' \in [Drivers -> SUBSET Inventory]
    BY <1>2, <2>1 DEF IInv, TypeOK
  <2>3. work' \in [Reviewers -> WorkType \cup {None}]
    BY <1>1, <1>2 DEF IInv, TypeOK
  <2>4. invocations' \in 0..MaxInvocations
    BY BoundsAssumption DEF IInv, TypeOK, Check
  <2> QED BY <1>2, <2>2, <2>3, <2>4 DEF IInv, TypeOK, Check
<1>4. \A e \in Drivers : observed[e] \subseteq observed'[e]
  BY <1>2 DEF IInv, TypeOK
<1>5. WorkInv'
  <2> SUFFICES ASSUME NEW q \in Reviewers, pc'[q] # "idle"
               PROVE  /\ work'[q] \in WorkType
                      /\ Connection \notin work'[q].tests
                      /\ work'[q].tests \subseteq observed'[work'[q].driver]
    BY DEF WorkInv
  <2>1. CASE q = p
    <3>1. work'[q] = w
      BY <1>2, <2>1 DEF IInv, TypeOK
    <3>2. Connection \notin selected /\ selected \subseteq Failed(cases)
      BY DEF Check, Reviewable
    <3>3. selected \subseteq observed'[d]
      BY <1>2, <3>2 DEF IInv, TypeOK
    <3> QED BY <1>1, <3>1, <3>2, <3>3
  <2>2. CASE q # p
    <3>1. pc[q] # "idle" /\ work'[q] = work[q]
      BY <1>2, <2>2 DEF IInv, TypeOK
    <3>2. /\ work[q] \in WorkType /\ Connection \notin work[q].tests
          /\ work[q].tests \subseteq observed[work[q].driver]
      BY <3>1 DEF IInv, WorkInv
    <3>3. work[q].driver \in Drivers
      BY <3>2 DEF WorkType
    <3> QED BY <1>4, <3>1, <3>2, <3>3
  <2> QED BY <2>1, <2>2
<1>6. IssueInv'
  BY <1>2 DEF IInv, TypeOK, IssueInv
<1>7. CopyInv'
  <2> SUFFICES ASSUME NEW q \in Reviewers, pc'[q] \in {"write", "flush"}
               PROVE  copy'[q] \in RegistryType /\ Sound(copy[q])'
    BY DEF CopyInv
  <2>1. copy[q] \in RegistryType /\ Sound(copy[q])
    BY <1>2 DEF IInv, TypeOK, CopyInv
  <2> QED BY <1>2, <1>4, <2>1, SoundStays DEF Sound
<1>8. FileInv'
  <2> SUFFICES ASSUME file' # Broken PROVE Sound(file)'
    BY DEF FileInv
  <2>1. Sound(file)
    BY <1>2 DEF IInv, FileInv
  <2> QED BY <1>2, <1>4, <2>1, SoundStays DEF Sound
<1> QED BY <1>3, <1>5, <1>6, <1>7, <1>8 DEF IInv

LEMMA ViewInv ==
    ASSUME IInv, NEW p \in Reviewers, NEW url \in Issues \cup Pulls,
           ViewIssue(p, url) \/ CreateIssue(p, url)
    PROVE  IInv'
<1>1. /\ file' = file /\ observed' = observed /\ copy' = copy
      /\ work' = [work EXCEPT ![p].url = url] /\ pc' = [pc EXCEPT ![p] = "reread"]
      /\ pc[p] = "gh" /\ url \in Issues
      /\ UNCHANGED <<raced, closed, invocations, edits, crashes>>
      /\ github' = github \/ github' = [github EXCEPT ![url] = "open"]
  BY DEF ViewIssue, CreateIssue, Goes, GoTo, history
<1>2. /\ work[p] \in WorkType /\ Connection \notin work[p].tests
      /\ work[p].tests \subseteq observed[work[p].driver]
  BY <1>1 DEF IInv, WorkInv
<1>3. /\ work'[p] = [work[p] EXCEPT !.url = url] /\ pc'[p] = "reread"
      /\ \A q \in Reviewers \ {p} :
            pc'[q] = pc[q] /\ work'[q] = work[q] /\ copy'[q] = copy[q]
  BY <1>1 DEF IInv, TypeOK
<1>4. /\ work'[p] \in WorkType /\ work'[p].url = url
      /\ work'[p].tests = work[p].tests /\ work'[p].driver = work[p].driver
  BY <1>1, <1>2, <1>3 DEF WorkType
<1>5. TypeOK'
  <2>1. work' \in [Reviewers -> WorkType \cup {None}]
    BY <1>1, <1>3, <1>4 DEF IInv, TypeOK
  <2> QED BY <1>1, <2>1 DEF IInv, TypeOK
<1> QED BY <1>1, <1>2, <1>3, <1>4, <1>5, OwnStep

LEMMA RereadInv ==
    ASSUME IInv, NEW p \in Reviewers, Reread(p)
    PROVE  IInv'
<1>1. /\ UNCHANGED <<file, observed, raced, closed, work, github, invocations, edits, crashes>>
      /\ copy' = [copy EXCEPT ![p] = file] /\ pc' = [pc EXCEPT ![p] = "write"]
      /\ pc[p] = "reread" /\ file # Broken
  BY DEF Reread, Goes, GoTo, history
<1>2. file \in RegistryType /\ Sound(file)
  BY <1>1 DEF IInv, TypeOK, FileInv
<1>3. /\ copy'[p] = file /\ pc'[p] = "write" /\ work'[p] = work[p]
      /\ \A q \in Reviewers \ {p} :
            pc'[q] = pc[q] /\ work'[q] = work[q] /\ copy'[q] = copy[q]
  BY <1>1 DEF IInv, TypeOK
<1>4. TypeOK'
  BY <1>1, <1>2 DEF IInv, TypeOK
<1>5. /\ work[p] \in WorkType /\ Connection \notin work[p].tests
      /\ work[p].tests \subseteq observed[work[p].driver] /\ work[p].url \in Issues
  BY <1>1 DEF IInv, WorkInv, IssueInv
<1> QED BY <1>1, <1>2, <1>3, <1>4, <1>5, OwnStep

\* Invocations that end without writing: refused by gh, failed, or crashed.
LEMMA EndsInv ==
    ASSUME IInv, NEW p \in Reviewers,
           GiveUp(p) \/ RereadFails(p) \/ Crash(p) \/ \E url \in Issues \cup Pulls : CreateUnheard(p, url)
    PROVE  IInv'
<1>1. /\ UNCHANGED <<file, observed, raced, closed, invocations, edits>> /\ Idle(p)
      /\ github' \in [Issues \cup Pulls -> {"absent", "open", "closed"}]
  BY DEF GiveUp, RereadFails, Crash, CreateUnheard, history, IInv, TypeOK
<1>2. /\ pc'[p] = "idle"
      /\ \A q \in Reviewers \ {p} :
            pc'[q] = pc[q] /\ work'[q] = work[q] /\ copy'[q] = copy[q]
  BY <1>1 DEF Idle, IInv, TypeOK
<1>3. crashes' \in 0..MaxCrashes
  BY BoundsAssumption DEF GiveUp, RereadFails, Crash, CreateUnheard, IInv, TypeOK
<1>4. TypeOK'
  BY <1>1, <1>3 DEF Idle, IInv, TypeOK
<1> QED BY <1>1, <1>2, <1>4, OwnStep

\* The file is truncated under every other reviewer.
LEMMA TruncateInv ==
    ASSUME IInv, NEW p \in Reviewers, Truncate(p)
    PROVE  IInv'
<1>1. /\ file' = Broken /\ pc' = [pc EXCEPT ![p] = "flush"] /\ pc[p] = "write"
      /\ UNCHANGED <<github, work, copy, observed, raced, closed, invocations, edits, crashes>>
  BY DEF Truncate, Goes, GoTo, history
<1>2. TypeOK'
  BY <1>1 DEF IInv, TypeOK
<1>3. WorkInv' /\ IssueInv'
  BY <1>1 DEF IInv, TypeOK, WorkInv, IssueInv
<1>4. CopyInv'
  BY <1>1 DEF IInv, TypeOK, CopyInv, Sound
<1>5. FileInv'
  BY <1>1 DEF FileInv
<1> QED BY <1>2, <1>3, <1>4, <1>5 DEF IInv

\* The file is written from a copy, whatever others wrote since.
LEMMA FlushInv ==
    ASSUME IInv, NEW p \in Reviewers, Flush(p)
    PROVE  IInv'
<1>1. /\ file' = Appended(copy[p], work[p]) \/ file' = Broken
      /\ pc[p] = "flush" /\ Idle(p)
      /\ UNCHANGED <<github, observed, raced, closed, invocations, edits, crashes>>
  BY DEF Flush, Goes, history
<1>2. /\ work[p] \in WorkType /\ Connection \notin work[p].tests
      /\ work[p].tests \subseteq observed[work[p].driver] /\ work[p].url \in Issues
      /\ copy[p] \in RegistryType /\ Sound(copy[p])
  BY <1>1 DEF IInv, WorkInv, IssueInv, CopyInv
<1> DEFINE written == Appended(copy[p], work[p])
<1>3. /\ written \in RegistryType
      /\ \A d \in Drivers : Excluded(written, d) \subseteq
            Excluded(copy[p], d) \cup (IF d = work[p].driver THEN work[p].tests ELSE {})
  BY <1>2, AppendedExcludes
<1> HIDE DEF written
<1>4. Sound(written)
  BY <1>2, <1>3 DEF Sound
<1>5. TypeOK'
  BY <1>1, <1>3 DEF Idle, IInv, TypeOK, written
<1>6. /\ pc'[p] = "idle"
      /\ \A q \in Reviewers \ {p} :
            pc'[q] = pc[q] /\ work'[q] = work[q] /\ copy'[q] = copy[q]
  BY <1>1 DEF Idle, IInv, TypeOK
<1>7. WorkInv' /\ IssueInv'
  BY <1>1, <1>6 DEF IInv, WorkInv, IssueInv
<1>8. CopyInv'
  BY <1>1, <1>6 DEF IInv, CopyInv, Sound
<1>9. FileInv'
  BY <1>1, <1>4 DEF FileInv, Sound, written
<1> QED BY <1>5, <1>7, <1>8, <1>9 DEF IInv

LEMMA ResolveInv ==
    ASSUME IInv, file # Broken, NEW d \in Drivers, NEW i \in DOMAIN file[d], Resolve(d, i)
    PROVE  IInv'
<1>1. /\ file' = [file EXCEPT ![d] = RemoveAt(@, i)]
      /\ UNCHANGED <<github, pc, work, copy, observed, raced, closed, invocations, crashes>>
      /\ edits < MaxEdits /\ edits' = edits + 1
  BY DEF Resolve, process, history
<1>2. file \in RegistryType /\ Sound(file)
  BY DEF IInv, TypeOK, FileInv
<1>3. /\ file' \in RegistryType
      /\ \A e \in Drivers : Excluded(file', e) \subseteq Excluded(file, e)
  BY <1>1, <1>2, ResolvedExcludes
<1>4. Sound(file')
  BY <1>2, <1>3 DEF Sound
<1>5. TypeOK'
  BY <1>1, <1>3, BoundsAssumption DEF IInv, TypeOK
<1> QED BY <1>1, <1>4, <1>5, ReviewersUntouched

\* git forgets what was recorded since the last commit.
LEMMA RestoreInv ==
    ASSUME IInv, Restore
    PROVE  IInv'
<1>1. file' = Committed /\ UNCHANGED <<pc, work, copy, observed>>
  BY DEF Restore, history
<1>2. TypeOK'
  BY CommittedIsSound DEF Restore, history, IInv, TypeOK
<1>3. Sound(Committed)
  BY CommittedIsSound DEF Sound
<1> QED BY <1>1, <1>2, <1>3, ReviewersUntouched

LEMMA CloseIssueInv ==
    ASSUME IInv, NEW url \in Issues \cup Pulls, CloseIssue(url)
    PROVE  IInv'
<1>1. file' = file /\ UNCHANGED <<pc, work, copy, observed>>
  BY DEF CloseIssue, process
<1>2. TypeOK'
  BY BoundsAssumption DEF CloseIssue, process, IInv, TypeOK
<1>3. file' # Broken => Sound(file')
  BY <1>1 DEF IInv, FileInv
<1> QED BY <1>1, <1>2, <1>3, ReviewersUntouched

LEMMA NextInv == IInv /\ [Next]_vars => IInv'
<1> SUFFICES ASSUME IInv, [Next]_vars PROVE IInv'
  OBVIOUS
<1>1. ASSUME NEW p \in Reviewers, NEW d \in Drivers, NEW cases \in [Inventory -> Statuses],
             NEW selected \in SUBSET Inventory, NEW reason \in Reasons, NEW create \in BOOLEAN,
             Check(p, d, cases, selected, reason, create)
      PROVE  IInv'
  BY <1>1, CheckInv
<1>2. ASSUME NEW p \in Reviewers, Step(p) PROVE IInv'
  BY <1>2, ViewInv, EndsInv, RereadInv, TruncateInv, FlushInv DEF Step
<1>3. ASSUME file # Broken, NEW d \in Drivers, NEW i \in DOMAIN file[d], Resolve(d, i)
      PROVE  IInv'
  BY <1>3, ResolveInv
<1>4. ASSUME NEW url \in Issues \cup Pulls, CloseIssue(url) PROVE IInv'
  BY <1>4, CloseIssueInv
<1>5. CASE Restore
  BY <1>5, RestoreInv
<1>6. CASE UNCHANGED vars
  <2>1. TypeOK'
    BY <1>6 DEF vars, IInv, TypeOK
  <2>2. file' # Broken => Sound(file')
    BY <1>6 DEF vars, IInv, FileInv
  <2> QED BY <1>6, <2>1, <2>2, ReviewersUntouched DEF vars
<1> QED BY <1>1, <1>2, <1>3, <1>4, <1>5, <1>6 DEF Next

-----------------------------------------------------------------------------
(* Recording and resolving keep a registry one that loads.                  *)

Recordable(registry, w) ==
    Loads(registry, Inventory) /\ w.tests \cap Excluded(registry, w.driver) = {}

LEMMA AppendedLoads ==
    ASSUME NEW registry \in RegistryType, NEW w \in WorkType, w.url \in Issues,
           Recordable(registry, w), w.tests # {}, Connection \notin w.tests
    PROVE  Loads(Appended(registry, w), Inventory)
<1>1. w.driver \in Drivers /\ w.tests \subseteq Inventory /\ w.reason \in Reasons
  BY DEF WorkType
<1>2. IsFiniteSet(w.tests)
  BY <1>1, InventoryAssumption, FS_Subset
<1> DEFINE g == Group(w)
           old == registry[w.driver]
           long == Append(old, g)
<1>3. /\ g.issue = w.url /\ g.reason = w.reason /\ g.tests = SetToSeq(w.tests)
      /\ g \in GroupType /\ ToSet(g.tests) \subseteq w.tests /\ g.tests # <<>>
      /\ \A k, l \in DOMAIN g.tests : g.tests[k] = g.tests[l] => k = l
  BY <1>2, ListOfASet, GroupIsTyped DEF Group
<1>4. old \in Seq(GroupType)
  BY <1>1 DEF RegistryType
<1>5. /\ DOMAIN old = 1..Len(old) /\ Len(old) \in Nat
      /\ DOMAIN long = 1..(Len(old) + 1) /\ long[Len(old) + 1] = g
      /\ \A i \in 1..Len(old) : long[i] = old[i]
  BY <1>3, <1>4, AppendProperties
<1>6. /\ Appended(registry, w) = [registry EXCEPT ![w.driver] = long]
      /\ DOMAIN registry = Drivers
  BY DEF Appended, RegistryType
<1>7. /\ Appended(registry, w) \in RegistryType
      /\ \A d \in Drivers :
            Excluded(Appended(registry, w), d) \subseteq
                Excluded(registry, d) \cup (IF d = w.driver THEN w.tests ELSE {})
  BY AppendedExcludes
<1> HIDE DEF g, old, long
<1>8. ASSUME NEW d \in Drivers
      PROVE  /\ Excluded(Appended(registry, w), d) \subseteq Inventory
             /\ Connection \notin Excluded(Appended(registry, w), d)
  BY <1>1, <1>7 DEF Recordable, Loads
<1>9. /\ \A i \in DOMAIN old : GroupIsJustified(old[i]) /\ ToSet(old[i].tests) \cap w.tests = {}
      /\ NamedOnce(old)
  BY <1>1 DEF Recordable, Loads, Excluded, old
<1>10. GroupIsJustified(g)
  BY <1>1, <1>3 DEF GroupIsJustified
<1>11. ASSUME NEW i \in DOMAIN long PROVE GroupIsJustified(long[i])
  BY <1>5, <1>9, <1>10
<1>12. NamedOnce(long)
  <2> SUFFICES ASSUME NEW i \in DOMAIN long, NEW j \in DOMAIN long,
                      NEW k \in DOMAIN long[i].tests, NEW l \in DOMAIN long[j].tests,
                      long[i].tests[k] = long[j].tests[l]
               PROVE  i = j /\ k = l
    BY DEF NamedOnce
  <2>1. \A m \in DOMAIN long : (m \in DOMAIN old /\ long[m] = old[m]) \/ (m = Len(old) + 1 /\ long[m] = g)
    BY <1>5
  <2>2. \A m \in DOMAIN old : \A n \in DOMAIN old[m].tests : old[m].tests[n] \notin w.tests
    BY <1>9 DEF ToSet
  <2>3. \A n \in DOMAIN g.tests : g.tests[n] \in w.tests
    BY <1>3 DEF ToSet
  <2>4. CASE i \in DOMAIN old /\ j \in DOMAIN old
    BY <2>4, <1>5, <1>9 DEF NamedOnce
  <2>5. CASE i = Len(old) + 1 /\ j = Len(old) + 1
    BY <2>5, <1>3, <1>5
  <2>6. ~(i \in DOMAIN old /\ j = Len(old) + 1)
    BY <1>5, <2>2, <2>3
  <2>7. ~(j \in DOMAIN old /\ i = Len(old) + 1)
    BY <1>5, <2>2, <2>3
  <2> QED BY <2>1, <2>4, <2>5, <2>6, <2>7
<1>13. ASSUME NEW d \in Drivers
       PROVE  /\ \A i \in DOMAIN Appended(registry, w)[d] : GroupIsJustified(Appended(registry, w)[d][i])
              /\ NamedOnce(Appended(registry, w)[d])
  <2>1. CASE d = w.driver
    BY <1>6, <1>11, <1>12, <2>1
  <2>2. CASE d # w.driver
    BY <1>6, <2>2 DEF Recordable, Loads
  <2> QED BY <2>1, <2>2
<1>14. DOMAIN Appended(registry, w) = Drivers
  BY <1>6
<1> QED BY <1>8, <1>13, <1>14, InventoryAssumption DEF Loads

LEMMA ResolvedLoads ==
    ASSUME NEW registry \in RegistryType, NEW d \in Drivers, NEW i \in DOMAIN registry[d],
           NEW after, after = [registry EXCEPT ![d] = RemoveAt(@, i)],
           Loads(registry, Inventory)
    PROVE  Loads(after, Inventory)
<1> DEFINE old == registry[d]
           short == RemoveAt(old, i)
<1>1. old \in Seq(GroupType) /\ Len(old) \in Nat /\ DOMAIN old = 1..Len(old) /\ i \in 1..Len(old)
  BY SeqElements DEF RegistryType
<1>2. /\ DOMAIN short = 1..(Len(old) - 1)
      /\ \A j \in DOMAIN short : short[j] = old[IF j < i THEN j ELSE j + 1]
  <2>1. short \in Seq(GroupType)
    BY <1>1, RemoveElements
  <2>2. short = SubSeq(old, 1, i - 1) \o SubSeq(old, i + 1, Len(old))
    BY DEF RemoveAt
  <2>3. /\ SubSeq(old, 1, i - 1) \in Seq(GroupType) /\ Len(SubSeq(old, 1, i - 1)) = i - 1
        /\ \A j \in 1..(i - 1) : SubSeq(old, 1, i - 1)[j] = old[j]
    BY <1>1
  <2>4. /\ SubSeq(old, i + 1, Len(old)) \in Seq(GroupType)
        /\ Len(SubSeq(old, i + 1, Len(old))) = Len(old) - i
        /\ \A j \in 1..(Len(old) - i) : SubSeq(old, i + 1, Len(old))[j] = old[i + j]
    BY <1>1
  <2> DEFINE a == SubSeq(old, 1, i - 1)
             b == SubSeq(old, i + 1, Len(old))
  <2> HIDE DEF a, b
  <2>5. a \in Seq(GroupType) /\ b \in Seq(GroupType) /\ short = a \o b
    BY <2>2, <2>3, <2>4 DEF a, b
  <2>6. /\ Len(a \o b) = Len(a) + Len(b)
        /\ \A j \in 1..Len(a) : (a \o b)[j] = a[j]
        /\ \A j \in 1..Len(b) : (a \o b)[Len(a) + j] = b[j]
    BY <2>5, ConcatAt
  <2>7. Len(a) = i - 1 /\ Len(b) = Len(old) - i
    BY <2>3, <2>4 DEF a, b
  <2>8. /\ \A j \in 1..(i - 1) : a[j] = old[j]
        /\ \A j \in 1..(Len(old) - i) : b[j] = old[i + j]
    BY <2>3, <2>4 DEF a, b
  <2> HIDE DEF short
  <2>9. DOMAIN short = 1..(Len(old) - 1)
    <3>1. Len(short) = Len(old) - 1
      BY <1>1, <2>5, <2>6, <2>7
    <3> QED BY <2>1, <3>1, SeqElements
  <2> SUFFICES ASSUME NEW j \in DOMAIN short
               PROVE  short[j] = old[IF j < i THEN j ELSE j + 1]
    BY <2>9
  <2>10. CASE j < i
    BY <1>1, <2>5, <2>6, <2>7, <2>8, <2>9, <2>10
  <2>11. CASE ~(j < i)
    <3>1. j - (i - 1) \in 1..(Len(old) - i) /\ j = (i - 1) + (j - (i - 1))
      BY <1>1, <2>9, <2>11
    <3>2. short[j] = b[j - (i - 1)]
      BY <2>5, <2>6, <2>7, <3>1
    <3>3. b[j - (i - 1)] = old[i + (j - (i - 1))]
      BY <2>8, <3>1
    <3>4. i + (j - (i - 1)) = j + 1
      BY <1>1, <2>9
    <3> QED BY <2>11, <3>2, <3>3, <3>4
  <2> QED BY <2>10, <2>11
<1>3. /\ after \in RegistryType
      /\ \A e \in Drivers : Excluded(after, e) \subseteq Excluded(registry, e)
  BY ResolvedExcludes
<1>4. \A e \in Drivers : after[e] = IF e = d THEN short ELSE registry[e]
  BY DEF RegistryType
<1> HIDE DEF short
<1>5. /\ \A j \in DOMAIN old : GroupIsJustified(old[j])
      /\ NamedOnce(old)
  BY DEF Loads
<1>6. \A j \in DOMAIN short : (IF j < i THEN j ELSE j + 1) \in DOMAIN old
  BY <1>1, <1>2
<1>7. \A j \in DOMAIN short : GroupIsJustified(short[j])
  BY <1>2, <1>5, <1>6
<1>8. NamedOnce(short)
  <2> SUFFICES ASSUME NEW m \in DOMAIN short, NEW n \in DOMAIN short,
                      NEW k \in DOMAIN short[m].tests, NEW l \in DOMAIN short[n].tests,
                      short[m].tests[k] = short[n].tests[l]
               PROVE  m = n /\ k = l
    BY DEF NamedOnce
  <2> DEFINE m1 == IF m < i THEN m ELSE m + 1
             n1 == IF n < i THEN n ELSE n + 1
  <2>1. m1 \in DOMAIN old /\ short[m] = old[m1]
    BY <1>2, <1>6
  <2>2. n1 \in DOMAIN old /\ short[n] = old[n1]
    BY <1>2, <1>6
  <2>3. m1 = n1 /\ k = l
    <3> HIDE DEF m1, n1
    <3>1. k \in DOMAIN old[m1].tests /\ l \in DOMAIN old[n1].tests
      BY <2>1, <2>2
    <3>2. old[m1].tests[k] = old[n1].tests[l]
      BY <2>1, <2>2
    <3> QED BY <2>1, <2>2, <3>1, <3>2, <1>5 DEF NamedOnce
  <2>4. m \in Int /\ n \in Int
    BY <1>1, <1>2
  <2> QED BY <1>1, <2>1, <2>2, <2>3, <2>4
<1>9. ASSUME NEW e \in Drivers
      PROVE  /\ \A j \in DOMAIN after[e] : GroupIsJustified(after[e][j])
             /\ NamedOnce(after[e])
  BY <1>4, <1>7, <1>8 DEF Loads
<1>10. DOMAIN after = Drivers
  BY <1>3 DEF RegistryType
<1> QED BY <1>3, <1>9, <1>10 DEF Loads

(* While reviewers record one after the other, the registry that the one    *)
(* reads again is the one that was checked.                                *)

AloneInv ==
    /\ \A p, q \in Reviewers : pc[p] # "idle" /\ pc[q] # "idle" => p = q
    /\ file # Broken => Loads(file, Inventory)
    /\ \A p \in Reviewers : pc[p] # "idle" => work[p].tests # {}
    /\ \A p \in Reviewers :
          pc[p] \in {"gh", "reread", "write"} => file # Broken /\ Recordable(file, work[p])
    /\ \A p \in Reviewers :
          pc[p] \in {"write", "flush"} => Recordable(copy[p], work[p])
    /\ \A p \in Reviewers : pc[p] = "flush" => file = Broken
    /\ file = Broken => crashes > 0 \/ \E p \in Reviewers : pc[p] = "flush"

LoadInv == ~raced => AloneInv

LEMMA CommittedLoads == Loads(Committed, Inventory) /\ Committed # Broken
  BY CommittedAssumption, BrokenAssumption DEF RegistryType, GroupType

LEMMA LoadInit == Init => LoadInv
  BY CommittedLoads DEF Init, LoadInv, AloneInv

\* A reviewer alone ends: nothing is left to be recorded.
LEMMA LastOneEnds ==
    ASSUME IInv, AloneInv, NEW p \in Reviewers, pc[p] # "idle", Idle(p),
           file' # Broken => Loads(file', Inventory),
           file' = Broken => crashes' > 0
    PROVE  AloneInv'
<1>1. \A q \in Reviewers : pc'[q] = "idle"
  BY DEF Idle, IInv, TypeOK, AloneInv
<1> QED BY <1>1 DEF AloneInv

LEMMA LoadNext == IInv /\ LoadInv /\ [Next]_vars => LoadInv'
<1> SUFFICES ASSUME IInv, LoadInv, [Next]_vars, ~raced' PROVE AloneInv'
  BY DEF LoadInv
<1>1. ~raced
  BY DEF history, Next, Step, Check, ViewIssue, CreateIssue, CreateUnheard, GiveUp, Reread, RereadFails, Truncate,
         Flush, Crash, Resolve, CloseIssue, Restore, vars
<1>2. AloneInv
  BY <1>1 DEF LoadInv
<1>3. ASSUME NEW p \in Reviewers, NEW d \in Drivers, NEW cases \in [Inventory -> Statuses],
             NEW selected \in SUBSET Inventory, NEW reason \in Reasons, NEW create \in BOOLEAN,
             Check(p, d, cases, selected, reason, create)
      PROVE  AloneInv'
  <2> DEFINE w == [driver |-> d, tests |-> selected, reason |-> reason,
                   create |-> create, url |-> None]
  <2>1. \A q \in Reviewers : pc[q] = "idle"
    BY <1>3 DEF Check, Quiet
  <2>2. /\ pc' = [pc EXCEPT ![p] = "gh"] /\ work' = [work EXCEPT ![p] = w] /\ file' = file
        /\ selected # {} /\ file # Broken /\ Loads(file, Inventory)
        /\ selected \cap Excluded(file, d) = {}
    BY <1>3 DEF Check, GoTo, Reviewable, MayRecord
  <2>3. /\ pc'[p] = "gh" /\ work'[p] = w
        /\ \A q \in Reviewers : q # p => pc'[q] = "idle"
    BY <2>1, <2>2 DEF IInv, TypeOK
  <2>4. Recordable(file, w) /\ w.tests # {}
    BY <2>2 DEF Recordable
  <2> HIDE DEF w
  <2> QED BY <2>2, <2>3, <2>4 DEF AloneInv, Recordable
<1>4. ASSUME NEW p \in Reviewers, NEW url \in Issues \cup Pulls,
             ViewIssue(p, url) \/ CreateIssue(p, url)
      PROVE  AloneInv'
  <2>1. /\ work' = [work EXCEPT ![p].url = url] /\ pc' = [pc EXCEPT ![p] = "reread"]
        /\ pc[p] = "gh" /\ UNCHANGED <<file, copy>>
    BY <1>4 DEF ViewIssue, CreateIssue, Goes, GoTo
  <2>2. work[p] \in WorkType
    BY <2>1 DEF IInv, WorkInv
  <2>3. /\ work'[p].tests = work[p].tests /\ work'[p].driver = work[p].driver
        /\ pc'[p] = "reread" /\ \A q \in Reviewers : q # p => pc'[q] = pc[q] /\ work'[q] = work[q]
    BY <2>1, <2>2 DEF IInv, TypeOK, WorkType
  <2> QED BY <1>2, <2>1, <2>3 DEF AloneInv, Recordable
<1>5. ASSUME NEW p \in Reviewers, Reread(p) PROVE AloneInv'
  <2>1. /\ copy' = [copy EXCEPT ![p] = file] /\ pc' = [pc EXCEPT ![p] = "write"]
        /\ pc[p] = "reread" /\ UNCHANGED <<file, work>>
    BY <1>5 DEF Reread, Goes, GoTo
  <2>2. /\ copy'[p] = file /\ pc'[p] = "write"
        /\ \A q \in Reviewers : q # p => pc'[q] = pc[q] /\ copy'[q] = copy[q]
    BY <2>1 DEF IInv, TypeOK
  <2> QED BY <1>2, <2>1, <2>2 DEF AloneInv, Recordable
<1>6. ASSUME NEW p \in Reviewers,
             GiveUp(p) \/ RereadFails(p) \/ Crash(p)
                \/ \E url \in Issues \cup Pulls : CreateUnheard(p, url)
      PROVE  AloneInv'
  <2>1. pc[p] # "idle" /\ Idle(p) /\ file' = file
    BY <1>6 DEF GiveUp, RereadFails, Crash, CreateUnheard, Goes
  <2>2. CASE Crash(p)
    <3>1. crashes \in Nat /\ crashes' = crashes + 1
      BY <2>2, BoundsAssumption DEF Crash, IInv, TypeOK
    <3> QED BY <1>2, <2>1, <3>1, LastOneEnds DEF AloneInv
  <2>3. CASE ~Crash(p)
    <3>1. pc[p] \in {"gh", "reread"}
      BY <1>6, <2>3 DEF GiveUp, RereadFails, CreateUnheard, Goes
    <3> QED BY <1>2, <2>1, <3>1, LastOneEnds DEF AloneInv
  <2> QED BY <2>2, <2>3
<1>7. ASSUME NEW p \in Reviewers, Truncate(p) PROVE AloneInv'
  <2>1. /\ pc' = [pc EXCEPT ![p] = "flush"] /\ pc[p] = "write" /\ file' = Broken
        /\ UNCHANGED <<copy, work>>
    BY <1>7 DEF Truncate, Goes, GoTo
  <2>2. pc'[p] = "flush" /\ \A q \in Reviewers : q # p => pc'[q] = "idle"
    BY <1>2, <2>1 DEF IInv, TypeOK, AloneInv
  <2> QED BY <1>2, <2>1, <2>2 DEF AloneInv, Recordable
<1>8. ASSUME NEW p \in Reviewers, Flush(p) PROVE AloneInv'
  <2>1. /\ pc[p] = "flush" /\ Idle(p)
        /\ file' = Appended(copy[p], work[p])
    BY <1>2, <1>8 DEF Flush, Goes, AloneInv
  <2>2. /\ work[p] \in WorkType /\ Connection \notin work[p].tests /\ work[p].url \in Issues
        /\ copy[p] \in RegistryType
    BY <2>1 DEF IInv, WorkInv, IssueInv, CopyInv
  <2>3. Recordable(copy[p], work[p]) /\ work[p].tests # {}
    BY <1>2, <2>1 DEF AloneInv
  <2>4. Loads(Appended(copy[p], work[p]), Inventory)
    BY <2>2, <2>3, AppendedLoads
  <2>5. Appended(copy[p], work[p]) # Broken
    BY <2>2, AppendedExcludes, BrokenAssumption DEF RegistryType, GroupType
  <2> QED BY <1>2, <2>1, <2>4, <2>5, LastOneEnds
<1>9. ASSUME file # Broken, NEW d \in Drivers, NEW i \in DOMAIN file[d], Resolve(d, i)
      PROVE  AloneInv'
  <2> DEFINE after == [file EXCEPT ![d] = RemoveAt(@, i)]
  <2>1. file' = after /\ UNCHANGED <<pc, work, copy>>
    BY <1>9 DEF Resolve, process
  <2>2. file \in RegistryType /\ Loads(file, Inventory)
    BY <1>2, <1>9 DEF IInv, TypeOK, AloneInv
  <2>3. Loads(after, Inventory)
    BY <1>9, <2>2, ResolvedLoads
  <2>4. /\ after \in RegistryType
        /\ \A e \in Drivers : Excluded(after, e) \subseteq Excluded(file, e)
    BY <1>9, <2>2, ResolvedExcludes
  <2>5. after # Broken
    BY <2>4, BrokenAssumption DEF RegistryType, GroupType
  <2> HIDE DEF after
  <2>6. ASSUME NEW q \in Reviewers, pc[q] \in {"gh", "reread", "write"}
        PROVE  Recordable(after, work[q])
    <3>1. Recordable(file, work[q])
      BY <1>2, <2>6 DEF AloneInv
    <3>2. work[q].driver \in Drivers
      BY <2>6 DEF IInv, WorkInv, WorkType
    <3> QED BY <2>3, <2>4, <3>1, <3>2 DEF Recordable
  <2> QED BY <1>2, <1>9, <2>1, <2>3, <2>5, <2>6 DEF AloneInv, Recordable
<1>10. ASSUME NEW url \in Issues \cup Pulls, CloseIssue(url) PROVE AloneInv'
  BY <1>2, <1>10 DEF CloseIssue, process, AloneInv, Recordable
<1>11. CASE Restore
  BY <1>11, CommittedLoads DEF Restore, Quiet, AloneInv
<1>12. CASE UNCHANGED vars
  BY <1>2, <1>12 DEF vars, AloneInv, Recordable
<1> QED BY <1>3, <1>4, <1>5, <1>6, <1>7, <1>8, <1>9, <1>10, <1>11, <1>12 DEF Next, Step

-----------------------------------------------------------------------------
(* Recording adds the recorded issue to those a registry refers to;         *)
(* resolving adds none.                                                    *)

LEMMA AppendedTracks ==
    ASSUME NEW registry \in RegistryType, NEW w \in WorkType, NEW url,
           Tracks(Appended(registry, w), url)
    PROVE  Tracks(registry, url) \/ url = w.url
<1>a. PICK d \in Drivers : \E i \in DOMAIN Appended(registry, w)[d] :
            Appended(registry, w)[d][i].issue = url
  BY DEF Tracks
<1>b. PICK i \in DOMAIN Appended(registry, w)[d] : Appended(registry, w)[d][i].issue = url
  BY <1>a
<1>2. w.driver \in Drivers /\ DOMAIN registry = Drivers /\ registry[d] \in Seq(GroupType)
  BY DEF WorkType, RegistryType
<1>3. CASE d # w.driver
  BY <1>b, <1>2, <1>3 DEF Appended, Tracks
<1>4. CASE d = w.driver
  <2>1. Appended(registry, w)[d] = Append(registry[d], Group(w))
    BY <1>2, <1>4 DEF Appended
  <2>2. /\ DOMAIN Append(registry[d], Group(w)) = 1..(Len(registry[d]) + 1)
        /\ Append(registry[d], Group(w))[Len(registry[d]) + 1] = Group(w)
        /\ \A j \in 1..Len(registry[d]) : Append(registry[d], Group(w))[j] = registry[d][j]
        /\ DOMAIN registry[d] = 1..Len(registry[d]) /\ Len(registry[d]) \in Nat
    BY <1>2
  <2>3. CASE i = Len(registry[d]) + 1
    BY <1>b, <2>1, <2>2, <2>3 DEF Group
  <2>4. CASE i # Len(registry[d]) + 1
    <3>1. i \in DOMAIN registry[d] /\ registry[d][i].issue = url
      BY <1>b, <2>1, <2>2, <2>4
    <3> QED BY <3>1 DEF Tracks
  <2> QED BY <2>3, <2>4
<1> QED BY <1>3, <1>4

LEMMA ResolvedTracks ==
    ASSUME NEW registry \in RegistryType, NEW d \in Drivers, NEW i \in DOMAIN registry[d],
           NEW url, Tracks([registry EXCEPT ![d] = RemoveAt(@, i)], url)
    PROVE  Tracks(registry, url)
<1> DEFINE after == [registry EXCEPT ![d] = RemoveAt(@, i)]
<1>a. PICK e \in Drivers : \E j \in DOMAIN after[e] : after[e][j].issue = url
  BY DEF Tracks
<1>b. PICK j \in DOMAIN after[e] : after[e][j].issue = url
  BY <1>a
<1>2. registry[d] \in Seq(GroupType)
  BY DEF RegistryType
<1>3. ToSet(RemoveAt(registry[d], i)) \subseteq ToSet(registry[d])
  BY <1>2, RemoveElements
<1>4. ToSet(after[e]) \subseteq ToSet(registry[e])
  BY <1>3 DEF RegistryType
<1> HIDE DEF after
<1>5. PICK k \in DOMAIN registry[e] : after[e][j] = registry[e][k]
  BY <1>b, <1>4 DEF ToSet
<1> QED BY <1>b, <1>5 DEF Tracks

(* What a reviewer may still write refers to issues that are open, or that  *)
(* somebody closed while they were in use.                                 *)

OpenOrClosed(url) == github[url] = "open" \/ url \in closed

AllOpen(registry) ==
    \A url \in Issues \cup Pulls : Tracks(registry, url) => OpenOrClosed(url)

TrackInv ==
    /\ AllOpen(Committed)
    /\ file # Broken => AllOpen(file)
    /\ \A p \in Reviewers :
          pc[p] \in {"reread", "write", "flush"} => OpenOrClosed(work[p].url)
    /\ \A p \in Reviewers : pc[p] \in {"write", "flush"} => AllOpen(copy[p])

LEMMA TrackInit == Init => TrackInv
<1> SUFFICES ASSUME Init PROVE TrackInv
  OBVIOUS
<1>1. AllOpen(Committed)
  BY DEF Init, AllOpen, OpenOrClosed, Tracks
<1> QED BY <1>1 DEF Init, TrackInv

\* A step that opens issues, or closes unused ones, leaves what is written alone.
LEMMA TrackStays ==
    ASSUME TrackInv,
           \A url \in Issues \cup Pulls : OpenOrClosed(url) => OpenOrClosed(url)',
           file' # Broken => AllOpen(file)' \/ file' = file,
           \A q \in Reviewers : pc'[q] \in {"reread", "write", "flush"} => work'[q].url \in Issues,
           \A q \in Reviewers :
              \/ work'[q] = work[q] /\ copy'[q] = copy[q] /\ pc'[q] = pc[q]
              \/ /\ pc'[q] \in {"reread", "write", "flush"} => OpenOrClosed(work[q].url)'
                 /\ pc'[q] \in {"write", "flush"} => AllOpen(copy[q])'
    PROVE  TrackInv'
<1>1. ASSUME NEW registry, AllOpen(registry)
      PROVE  \A url \in Issues \cup Pulls : Tracks(registry, url) => OpenOrClosed(url)'
  BY <1>1 DEF AllOpen
<1>2. AllOpen(Committed)'
  BY <1>1 DEF AllOpen, TrackInv, Tracks
<1>3. file' # Broken => AllOpen(file)'
  <2> SUFFICES ASSUME file' # Broken, file' = file PROVE AllOpen(file)'
    OBVIOUS
  <2> QED BY <1>1 DEF AllOpen, TrackInv, Tracks
<1>4. ASSUME NEW q \in Reviewers, pc'[q] \in {"reread", "write", "flush"},
             work'[q] = work[q] /\ pc'[q] = pc[q]
      PROVE  OpenOrClosed(work[q].url)'
  <2>1. OpenOrClosed(work[q].url) /\ work[q].url \in Issues
    BY <1>4 DEF TrackInv
  <2> QED BY <1>4, <2>1 DEF OpenOrClosed
<1>5. ASSUME NEW q \in Reviewers, pc'[q] \in {"write", "flush"},
             copy'[q] = copy[q] /\ pc'[q] = pc[q]
      PROVE  AllOpen(copy[q])'
  <2>1. AllOpen(copy[q])
    BY <1>5 DEF TrackInv
  <2> QED BY <1>1, <1>5, <2>1 DEF AllOpen, Tracks
<1> QED BY <1>2, <1>3, <1>4, <1>5 DEF TrackInv

LEMMA TrackNext == IInv /\ TrackInv /\ [Next]_vars => TrackInv'
<1> SUFFICES ASSUME IInv, TrackInv, [Next]_vars PROVE TrackInv'
  OBVIOUS
<1> DEFINE Late == {"reread", "write", "flush"}
<1>1. \A q \in Reviewers : pc'[q] \in Late => work'[q].url \in Issues
  BY NextInv DEF IInv, IssueInv
<1>2. ASSUME UNCHANGED <<github, closed>>
      PROVE  \A url \in Issues \cup Pulls : OpenOrClosed(url) => OpenOrClosed(url)'
  BY <1>2 DEF OpenOrClosed
<1>3. ASSUME NEW p \in Reviewers, NEW d \in Drivers, NEW cases \in [Inventory -> Statuses],
             NEW selected \in SUBSET Inventory, NEW reason \in Reasons, NEW create \in BOOLEAN,
             Check(p, d, cases, selected, reason, create)
      PROVE  TrackInv'
  <2>1. /\ UNCHANGED <<file, github, copy, closed>> /\ pc'[p] = "gh"
        /\ \A q \in Reviewers \ {p} : work'[q] = work[q] /\ pc'[q] = pc[q]
    BY <1>3 DEF Check, GoTo, IInv, TypeOK
  <2> QED BY <1>1, <1>2, <2>1, TrackStays
<1>4. ASSUME NEW p \in Reviewers, NEW url \in Issues \cup Pulls,
             ViewIssue(p, url) \/ CreateIssue(p, url)
      PROVE  TrackInv'
  <2>1. /\ work' = [work EXCEPT ![p].url = url] /\ pc' = [pc EXCEPT ![p] = "reread"]
        /\ pc[p] = "gh" /\ UNCHANGED <<file, copy, closed>>
        /\ (github' = github /\ github[url] = "open") \/ github' = [github EXCEPT ![url] = "open"]
    BY <1>4 DEF ViewIssue, CreateIssue, Goes, GoTo, history
  <2>2. work[p] \in WorkType
    BY <2>1 DEF IInv, WorkInv
  <2>3. /\ work'[p].url = url /\ pc'[p] = "reread"
        /\ \A q \in Reviewers \ {p} : pc'[q] = pc[q] /\ work'[q] = work[q]
    BY <2>1, <2>2 DEF IInv, TypeOK, WorkType
  <2>4. /\ github'[url] = "open"
        /\ \A u \in Issues \cup Pulls : github[u] = "open" => github'[u] = "open"
    BY <2>1 DEF IInv, TypeOK
  <2>5. \A u \in Issues \cup Pulls : OpenOrClosed(u) => OpenOrClosed(u)'
    BY <2>1, <2>4 DEF OpenOrClosed
  <2>6. OpenOrClosed(work[p].url)'
    BY <2>3, <2>4 DEF OpenOrClosed
  <2> QED BY <1>1, <2>1, <2>3, <2>5, <2>6, TrackStays
<1>5. ASSUME NEW p \in Reviewers, Reread(p) PROVE TrackInv'
  <2>1. /\ copy' = [copy EXCEPT ![p] = file] /\ pc' = [pc EXCEPT ![p] = "write"]
        /\ pc[p] = "reread" /\ UNCHANGED <<file, work, github, closed>> /\ file # Broken
    BY <1>5 DEF Reread, Goes, GoTo, history
  <2>2. /\ copy'[p] = file /\ pc'[p] = "write"
        /\ \A q \in Reviewers \ {p} : pc'[q] = pc[q] /\ copy'[q] = copy[q]
    BY <2>1 DEF IInv, TypeOK
  <2>3. OpenOrClosed(work[p].url) /\ AllOpen(file)
    BY <2>1 DEF TrackInv
  <2>4. OpenOrClosed(work[p].url)'
    BY <2>1, <2>3 DEF OpenOrClosed
  <2>5. AllOpen(copy[p])'
    BY <2>1, <2>2, <2>3 DEF AllOpen, OpenOrClosed, Tracks
  <2> QED BY <1>1, <1>2, <2>1, <2>2, <2>4, <2>5, TrackStays
<1>6. ASSUME NEW p \in Reviewers, Idle(p),
             \A url \in Issues \cup Pulls : OpenOrClosed(url) => OpenOrClosed(url)',
             file' # Broken => AllOpen(file)' \/ file' = file
      PROVE  TrackInv'
  <2>1. /\ pc'[p] = "idle"
        /\ \A q \in Reviewers \ {p} : pc'[q] = pc[q] /\ work'[q] = work[q] /\ copy'[q] = copy[q]
    BY <1>6 DEF Idle, IInv, TypeOK
  <2> QED BY <1>1, <1>6, <2>1, TrackStays
<1>7. ASSUME NEW p \in Reviewers, GiveUp(p) \/ RereadFails(p) \/ Crash(p) PROVE TrackInv'
  BY <1>2, <1>6, <1>7 DEF GiveUp, RereadFails, Crash, history
<1>8. ASSUME NEW p \in Reviewers, NEW url \in Issues \cup Pulls, CreateUnheard(p, url)
      PROVE  TrackInv'
  <2>1. /\ Idle(p) /\ UNCHANGED <<file, closed>> /\ github' = [github EXCEPT ![url] = "open"]
    BY <1>8 DEF CreateUnheard, history
  <2>2. \A u \in Issues \cup Pulls : OpenOrClosed(u) => OpenOrClosed(u)'
    BY <2>1 DEF OpenOrClosed, IInv, TypeOK
  <2> QED BY <1>6, <2>1, <2>2
<1>9. ASSUME NEW p \in Reviewers, Truncate(p) PROVE TrackInv'
  <2>1. /\ pc' = [pc EXCEPT ![p] = "flush"] /\ pc[p] = "write" /\ file' = Broken
        /\ UNCHANGED <<copy, work, github, closed>>
    BY <1>9 DEF Truncate, Goes, GoTo, history
  <2>2. pc'[p] = "flush" /\ \A q \in Reviewers \ {p} : pc'[q] = pc[q]
    BY <2>1 DEF IInv, TypeOK
  <2>3. OpenOrClosed(work[p].url)' /\ AllOpen(copy[p])'
    BY <2>1 DEF TrackInv, AllOpen, OpenOrClosed, Tracks
  <2> QED BY <1>1, <1>2, <2>1, <2>2, <2>3, TrackStays
<1>10. ASSUME NEW p \in Reviewers, Flush(p) PROVE TrackInv'
  <2>1. /\ pc[p] = "flush" /\ Idle(p) /\ UNCHANGED <<github, closed>>
        /\ file' = Appended(copy[p], work[p]) \/ file' = Broken
    BY <1>10 DEF Flush, Goes, history
  <2>2. work[p] \in WorkType /\ copy[p] \in RegistryType
    BY <2>1 DEF IInv, WorkInv, CopyInv
  <2>3. AllOpen(copy[p]) /\ OpenOrClosed(work[p].url)
    BY <2>1 DEF TrackInv
  <2>4. AllOpen(Appended(copy[p], work[p]))
    BY <2>2, <2>3, AppendedTracks DEF AllOpen
  <2>5. file' # Broken => AllOpen(file)'
    BY <2>1, <2>4 DEF AllOpen, OpenOrClosed, Tracks
  <2> QED BY <1>2, <1>6, <2>1, <2>5
<1>11. ASSUME file # Broken, NEW d \in Drivers, NEW i \in DOMAIN file[d], Resolve(d, i)
       PROVE  TrackInv'
  <2>1. /\ file' = [file EXCEPT ![d] = RemoveAt(@, i)]
        /\ UNCHANGED <<pc, github, work, copy, closed>>
    BY <1>11 DEF Resolve, process, history
  <2>2. file \in RegistryType /\ AllOpen(file)
    BY <1>11 DEF IInv, TypeOK, TrackInv
  <2>3. \A url : Tracks(file', url) => Tracks(file, url)
    BY <1>11, <2>1, <2>2, ResolvedTracks
  <2>4. AllOpen(file)'
    BY <2>1, <2>2, <2>3 DEF AllOpen, OpenOrClosed, Tracks
  <2> QED BY <1>1, <1>2, <2>1, <2>4, TrackStays
<1>12. ASSUME NEW url \in Issues \cup Pulls, CloseIssue(url) PROVE TrackInv'
  <2>1. /\ github' = [github EXCEPT ![url] = "closed"] /\ UNCHANGED <<file, pc, work, copy>>
        /\ closed' = IF InUse(url) THEN closed \cup {url} ELSE closed
    BY <1>12 DEF CloseIssue, process
  <2>2. CASE InUse(url)
    <3>1. \A u \in Issues \cup Pulls : OpenOrClosed(u) => OpenOrClosed(u)'
      BY <2>1, <2>2 DEF OpenOrClosed, IInv, TypeOK
    <3> QED BY <1>1, <2>1, <3>1, TrackStays
  <2>3. CASE ~InUse(url)
    <3>1. \A u \in Issues \cup Pulls : u # url /\ OpenOrClosed(u) => OpenOrClosed(u)'
      BY <2>1, <2>3 DEF OpenOrClosed, IInv, TypeOK
    <3>2. ASSUME NEW registry, AllOpen(registry), ~Tracks(registry, url)
          PROVE  \A u \in Issues \cup Pulls : Tracks(registry, u) => OpenOrClosed(u)'
      BY <3>1, <3>2 DEF AllOpen
    <3>3. AllOpen(Committed)'
      BY <2>3, <3>2 DEF AllOpen, TrackInv, InUse, Tracks
    <3>4. file' # Broken => AllOpen(file)'
      BY <2>1, <2>3, <3>2 DEF AllOpen, TrackInv, InUse, Tracks
    <3>5. ASSUME NEW q \in Reviewers, pc'[q] \in Late PROVE OpenOrClosed(work[q].url)'
      <4>1. pc[q] \in Late /\ work[q].url # url /\ work[q].url \in Issues /\ OpenOrClosed(work[q].url)
        BY <1>1, <2>1, <2>3, <3>5 DEF InUse, TrackInv
      <4> QED BY <2>1, <3>1, <4>1 DEF OpenOrClosed
    <3>6. ASSUME NEW q \in Reviewers, pc'[q] \in {"write", "flush"} PROVE AllOpen(copy[q])'
      <4>1. AllOpen(copy[q]) /\ ~Tracks(copy[q], url)
        BY <2>1, <2>3, <3>6 DEF InUse, TrackInv
      <4> QED BY <2>1, <3>2, <4>1 DEF AllOpen, Tracks
    <3> QED BY <3>3, <3>4, <3>5, <3>6 DEF TrackInv
  <2> QED BY <2>2, <2>3
<1>13. CASE Restore
  <2>1. file' = Committed /\ UNCHANGED <<pc, github, work, copy, closed>>
    BY <1>13 DEF Restore, history
  <2>2. AllOpen(file)'
    BY <2>1 DEF TrackInv, AllOpen, OpenOrClosed, Tracks
  <2> QED BY <1>1, <1>2, <2>1, <2>2, TrackStays
<1>14. CASE UNCHANGED vars
  BY <1>1, <1>2, <1>14, TrackStays DEF vars
<1> QED BY <1>3, <1>4, <1>5, <1>7, <1>8, <1>9, <1>10, <1>11, <1>12, <1>13, <1>14 DEF Next, Step

-----------------------------------------------------------------------------
(* An invocation with an issue ends by writing its group.                  *)

LEMMA ListIsComplete ==
    ASSUME NEW S, IsFiniteSet(S)
    PROVE  S \subseteq ToSet(SetToSeq(S))
<1> DEFINE n == Cardinality(S)
           f == SetToSeq(S)
           T == {f[k] : k \in 1..n}
<1>1. n \in Nat /\ ExistsBijection(1..n, S)
  BY FS_CardinalityType
<1>2. \E g \in [1..n -> S] : IsInjective(g)
  BY <1>1 DEF ExistsBijection, Bijection, Injection
<1>3. f \in [1..n -> S] /\ IsInjective(f)
  BY <1>2 DEF SetToSeq
<1> HIDE DEF f
<1>4. f \in Bijection(1..n, T)
  BY <1>3 DEF IsInjective, Bijection, Injection, Surjection
<1>5. T \subseteq S /\ Cardinality(T) = n
  BY <1>1, <1>3, <1>4, FS_CountingElements DEF ExistsBijection
<1>6. T = S
  BY <1>5, FS_Subset
<1> QED BY <1>3, <1>6 DEF ToSet, f

\* What is appended is recorded.
LEMMA AppendedRecords ==
    ASSUME NEW registry \in RegistryType, NEW w \in WorkType
    PROVE  Recorded(Appended(registry, w), w)
<1>1. w.driver \in Drivers /\ w.tests \subseteq Inventory
  BY DEF WorkType
<1>2. DOMAIN registry = Drivers /\ registry[w.driver] \in Seq(GroupType)
  BY <1>1 DEF RegistryType
<1> DEFINE long == Append(registry[w.driver], Group(w))
           last == Len(registry[w.driver]) + 1
<1>3. last \in DOMAIN long /\ long[last] = Group(w)
  BY <1>2
<1>4. Appended(registry, w)[w.driver] = long
  BY <1>1, <1>2 DEF Appended
<1>5. w.tests \subseteq ToSet(Group(w).tests) /\ Group(w).issue = w.url
  BY <1>1, InventoryAssumption, FS_Subset, ListIsComplete DEF Group
<1> HIDE DEF long, last
<1>6. Tracks(Appended(registry, w), w.url)
  BY <1>1, <1>3, <1>4, <1>5 DEF Tracks
<1>7. w.tests \subseteq Excluded(Appended(registry, w), w.driver)
  BY <1>3, <1>4, <1>5 DEF Excluded
<1> QED BY <1>6, <1>7 DEF Recorded

\* Before gh answers, an invocation has no issue.
NoIssueYet ==
    \A p \in Reviewers :
        /\ pc[p] = "gh" => work[p].url = None
        /\ pc[p] = "idle" => work[p] = None

LEMMA NoIssueNext == TypeOK /\ NoIssueYet /\ [Next]_vars => NoIssueYet'
<1> SUFFICES ASSUME TypeOK, NoIssueYet, [Next]_vars PROVE NoIssueYet'
  OBVIOUS
<1>1. ASSUME NEW p \in Reviewers, Idle(p) PROVE NoIssueYet'
  BY <1>1 DEF Idle, TypeOK, NoIssueYet
<1>2. ASSUME NEW p \in Reviewers, NEW place \in {"reread", "write", "flush"}, GoTo(p, place),
             \A q \in Reviewers \ {p} : work'[q] = work[q]
      PROVE  NoIssueYet'
  BY <1>2 DEF GoTo, TypeOK, NoIssueYet
<1>3. ASSUME NEW p \in Reviewers, NEW d \in Drivers, NEW cases \in [Inventory -> Statuses],
             NEW selected \in SUBSET Inventory, NEW reason \in Reasons, NEW create \in BOOLEAN,
             Check(p, d, cases, selected, reason, create)
      PROVE  NoIssueYet'
  <2> DEFINE w == [driver |-> d, tests |-> selected, reason |-> reason,
                   create |-> create, url |-> None]
  <2>1. pc' = [pc EXCEPT ![p] = "gh"] /\ work' = [work EXCEPT ![p] = w] /\ w.url = None
    BY <1>3 DEF Check, GoTo
  <2> HIDE DEF w
  <2> QED BY <2>1 DEF TypeOK, NoIssueYet
<1>4. ASSUME NEW p \in Reviewers, Step(p) PROVE NoIssueYet'
  <2>1. ASSUME NEW url, ViewIssue(p, url) \/ CreateIssue(p, url) PROVE NoIssueYet'
    BY <1>2, <2>1 DEF ViewIssue, CreateIssue, TypeOK
  <2>2. ASSUME GiveUp(p) \/ RereadFails(p) \/ Flush(p) \/ Crash(p)
                    \/ \E url : CreateUnheard(p, url)
        PROVE  NoIssueYet'
    BY <1>1, <2>2 DEF GiveUp, RereadFails, Flush, Crash, CreateUnheard
  <2>3. CASE Reread(p) \/ Truncate(p)
    BY <1>2, <2>3 DEF Reread, Truncate
  <2> QED BY <1>4, <2>1, <2>2, <2>3 DEF Step
<1>5. CASE UNCHANGED <<pc, work>>
  BY <1>5 DEF NoIssueYet
<1> QED BY <1>3, <1>4, <1>5 DEF Next, Resolve, CloseIssue, Restore, process, vars

LEMMA RecordingEnds ==
    ASSUME IInv, LoadInv, NoIssueYet, [Next]_vars, NEW p \in Reviewers,
           work[p] # None, work[p].url # None, work'[p] = None,
           crashes' = crashes, ~raced
    PROVE  file' # Broken /\ Recorded(file', work[p])
<1>1. work' # work
  OBVIOUS
<1>2. AloneInv
  BY DEF LoadInv
<1>3. pc[p] # "idle" /\ pc[p] # "gh"
  BY DEF NoIssueYet
<1>4. ASSUME NEW q \in Reviewers, work' = [work EXCEPT ![q] = work'[q]] PROVE q = p
  BY <1>1, <1>4 DEF IInv, TypeOK
<1>5. ~ \E q \in Reviewers, d \in Drivers, cases \in [Inventory -> Statuses],
           selected \in SUBSET Inventory, reason \in Reasons, create \in BOOLEAN :
             Check(q, d, cases, selected, reason, create)
  BY <1>2, <1>3, <1>4 DEF Check, Goes, IInv, TypeOK
<1>6. PICK q \in Reviewers : Step(q)
  BY <1>1, <1>5 DEF Next, Resolve, CloseIssue, Restore, process, vars
<1>7. Flush(q) /\ q = p
  <2>1. ASSUME NEW url, ViewIssue(q, url) \/ CreateIssue(q, url) PROVE FALSE
    BY <1>3, <2>1 DEF ViewIssue, CreateIssue, Goes, IInv, TypeOK
  <2>2. ~GiveUp(q) /\ ~\E url : CreateUnheard(q, url)
    BY <1>3 DEF GiveUp, CreateUnheard, Goes, Idle, IInv, TypeOK
  <2>3. ~RereadFails(q)
    BY <1>2, <1>3 DEF RereadFails, Goes, AloneInv
  <2>4. ~Reread(q) /\ ~Truncate(q)
    BY <1>1 DEF Reread, Truncate
  <2>5. ~Crash(q)
    BY DEF Crash, IInv, TypeOK
  <2>6. Flush(q)
    BY <1>6, <2>1, <2>2, <2>3, <2>4, <2>5 DEF Step
  <2> QED BY <2>6 DEF Flush, Idle, IInv, TypeOK
<1>8. pc[p] = "flush" /\ (file' = Appended(copy[p], work[p]) \/ file # Broken)
  BY <1>7 DEF Flush, Goes
<1>9. file = Broken
  BY <1>2, <1>8 DEF AloneInv
<1>10. file' = Appended(copy[p], work[p])
  BY <1>8, <1>9
<1>11. copy[p] \in RegistryType /\ work[p] \in WorkType /\ work[p].url \in Issues
  BY <1>8 DEF IInv, WorkInv, IssueInv, CopyInv
<1>12. file' \in RegistryType
  BY <1>10, <1>11, AppendedExcludes
<1> QED BY <1>10, <1>11, <1>12, AppendedRecords, BrokenAssumption DEF RegistryType, GroupType

-----------------------------------------------------------------------------
LEMMA Invariant == Spec => []IInv
  BY InitInv, NextInv, PTL DEF Spec

(* The file is a registry or truncated, and what every invocation holds has *)
(* the types that quarantine.py writes from it.                            *)
THEOREM TypeCorrect == Spec => []TypeOK
<1>1. IInv => TypeOK
  BY DEF IInv
<1> QED BY <1>1, Invariant, PTL

(* However many reviewers record at once, wherever they crash and whatever  *)
(* a late write undoes, the registry never excludes the readiness test.     *)
THEOREM ReadinessAlways == Spec => []ReadinessAlwaysRuns
<1>1. IInv => ReadinessAlwaysRuns
  BY DEF IInv, FileInv, Sound, ReadinessAlwaysRuns
<1> QED BY <1>1, Invariant, PTL

(* Nor does it ever exclude, for a driver, a test that was not committed    *)
(* and that no report showed failing with this driver.                     *)
THEOREM OnlyObservedAlways == Spec => []OnlyObservedFailures
<1>1. IInv => OnlyObservedFailures
  BY DEF IInv, FileInv, Sound, OnlyObservedFailures
<1> QED BY <1>1, Invariant, PTL

(* As long as reviewers record one after the other, the registry loads,     *)
(* wherever they crash and whatever is resolved or restored, and only a     *)
(* crash leaves it truncated.                                              *)
THEOREM RegistryLoadsAlways == Spec => []RegistryLoads
<1>1. LoadInv => RegistryLoads
  BY DEF LoadInv, AloneInv, RegistryLoads, RegistryAlwaysLoads
<1>2. Init => LoadInv
  BY LoadInit
<1>3. IInv /\ LoadInv /\ [Next]_vars => LoadInv'
  BY LoadNext
<1> QED BY <1>1, <1>2, <1>3, Invariant, PTL DEF Spec

(* Whichever copy is written last, and whatever people close or resolve     *)
(* meanwhile, the groups of the registry stand under issues that are open,  *)
(* or that were closed after their group was recorded or looked up.         *)
THEOREM EntriesTrackedAlways == Spec => []EntriesAreTracked
<1>1. TrackInv => EntriesAreTracked
  BY DEF TrackInv, AllOpen, OpenOrClosed, EntriesAreTracked
<1>2. Init => TrackInv
  BY TrackInit
<1>3. IInv /\ TrackInv /\ [Next]_vars => TrackInv'
  BY TrackNext
<1> QED BY <1>1, <1>2, <1>3, Invariant, PTL DEF Spec

(* An invocation that has viewed or created an issue ends with its tests    *)
(* recorded under it, unless it crashes or a reviewer began while another   *)
(* was recording.                                                          *)
THEOREM IssuesAreAlwaysRecorded == Spec => IssuesAreRecorded
<1>1. Init => LoadInv /\ NoIssueYet
  BY LoadInit DEF Init, NoIssueYet
<1>2. IInv /\ LoadInv /\ NoIssueYet /\ [Next]_vars => (LoadInv /\ NoIssueYet)'
  BY LoadNext, NoIssueNext DEF IInv
<1>3. IInv /\ LoadInv /\ NoIssueYet /\ [Next]_vars =>
        [\A p \in Reviewers :
            (/\ work[p] # None /\ work[p].url # None /\ work'[p] = None
             /\ crashes' = crashes /\ ~raced) =>
                file' # Broken /\ Recorded(file', work[p])]_vars
  BY RecordingEnds
<1> QED BY <1>1, <1>2, <1>3, Invariant, PTL DEF Spec, IssuesAreRecorded
=============================================================================
