--------------------------- MODULE SequenceLemmas ---------------------------
(***************************************************************************)
(* What the operators of the sequence modules do to the elements of a      *)
(* sequence: the facts that the proofs about issue bodies and about the     *)
(* registry share.                                                         *)
(***************************************************************************)
EXTENDS SequencesExt, SequenceTheorems, FiniteSetTheorems, WellFoundedInduction, TLAPS


LEMMA LeastExists ==
    ASSUME NEW T, T \subseteq Nat, T # {}
    PROVE  \E k \in T : \A j \in T : k <= j
<1>1. \E k \in T : \A j \in T : ~(<<j, k>> \in OpToRel(<, Nat))
  BY NatLessThanWellFounded, WFMin
<1>2. \A j, k \in T : ~(<<j, k>> \in OpToRel(<, Nat)) => k <= j
  BY DEF OpToRel
<1> QED BY <1>1, <1>2

\* Induction over the natural numbers and over sequences, for a set.
LEMMA NatSetInduction ==
    ASSUME NEW S, 0 \in S, \A n \in Nat : n \in S => n + 1 \in S
    PROVE  Nat \subseteq S
<1> SUFFICES ASSUME Nat \ S # {} PROVE FALSE
  OBVIOUS
<1>1. PICK k \in Nat \ S : \A j \in Nat \ S : k <= j
  BY LeastExists
<1>2. k # 0 /\ k - 1 \in Nat
  OBVIOUS
<1>3. k - 1 \in S
  BY <1>1, <1>2
<1>4. (k - 1) + 1 \in S
  BY <1>2, <1>3
<1> QED
  BY <1>4

LEMMA SeqSetInduction ==
    ASSUME NEW C, NEW P, <<>> \in P, \A v \in Seq(C), x \in C : v \in P => Append(v, x) \in P
    PROVE  Seq(C) \subseteq P
<1> DEFINE S == {n \in Nat : \A v \in Seq(C) : Len(v) = n => v \in P}
<1>1. 0 \in S
  BY EmptySeq
<1>2. ASSUME NEW n \in Nat, n \in S PROVE n + 1 \in S
  <2> SUFFICES ASSUME NEW v \in Seq(C), Len(v) = n + 1 PROVE v \in P
    OBVIOUS
  <2>1. v # <<>>
    OBVIOUS
  <2>2. PICK w \in Seq(C), x \in C : v = Append(w, x)
    BY <2>1, SequenceEmptyOrAppend
  <2>3. Len(w) = n
    BY <2>2, AppendProperties, LenProperties
  <2> QED
    BY <1>2, <2>2, <2>3
<1> HIDE DEF S
<1>3. Nat \subseteq S
  BY <1>1, <1>2, NatSetInduction
<1> QED
  BY <1>3, LenProperties DEF S

LEMMA SingletonSeq == \A S : \A x \in S : <<x>> \in Seq(S)
  OBVIOUS

LEMMA AppendKeeps ==
    ASSUME NEW C, NEW s \in Seq(C), NEW y \in C, NEW i \in 1..Len(s)
    PROVE  Append(s, y)[i] = s[i]
  BY AppendProperties

LEMMA PairIsAppend ==
    ASSUME NEW x, NEW y
    PROVE  /\ Append(<<x>>, y) = <<x, y>>
           /\ \A S : x \in S /\ y \in S => <<x, y>> \in Seq(S)
<1> DEFINE C == {x, y}
           one == <<x>>
           two == <<x, y>>
           both == Append(one, y)
<1>1. /\ one \in Seq(C) /\ two \in Seq(C) /\ Len(one) = 1 /\ Len(two) = 2
      /\ one[1] = x /\ two[1] = x /\ two[2] = y /\ y \in C
  OBVIOUS
<1> HIDE DEF one, two, C
<1>2. both \in Seq(C) /\ Len(both) = 2 /\ both[1] = x /\ both[2] = y
  <2>1. both \in Seq(C) /\ Len(both) = Len(one) + 1
    BY <1>1, AppendProperties
  <2>2. both[1] = one[1]
    <3>1. 1 \in 1..Len(one)
      BY <1>1
    <3> QED
      BY <1>1, <3>1, AppendKeeps
  <2>3. both[Len(one) + 1] = y
    BY <1>1, AppendProperties
  <2> HIDE DEF both
  <2> QED
    BY <1>1, <2>1, <2>2, <2>3
<1> HIDE DEF both
<1>3. \A i \in 1..Len(both) : both[i] = two[i]
  BY <1>1, <1>2
<1>4. Append(<<x>>, y) = <<x, y>>
  BY <1>1, <1>2, <1>3, SeqEqual DEF both, one, two
<1>5. \A S : x \in S /\ y \in S => <<x, y>> \in Seq(S)
  OBVIOUS
<1> QED
  BY <1>4, <1>5

LEMMA ConcatElements ==
    ASSUME NEW S, NEW s \in Seq(S), NEW t \in Seq(S)
    PROVE  ToSet(s \o t) = ToSet(s) \cup ToSet(t)
<1>1. /\ s \o t \in Seq(S)
      /\ Len(s \o t) = Len(s) + Len(t)
      /\ DOMAIN (s \o t) = 1..(Len(s) + Len(t))
      /\ DOMAIN s = 1..Len(s) /\ DOMAIN t = 1..Len(t)
      /\ Len(s) \in Nat /\ Len(t) \in Nat
  BY ConcatProperties, LenProperties
<1>2. \A i \in 1..Len(s) + Len(t) :
        (s \o t)[i] = IF i <= Len(s) THEN s[i] ELSE t[i - Len(s)]
  BY ConcatProperties
<1> DEFINE w == s \o t
<1> HIDE DEF w
<1>3. \A i \in DOMAIN t : i + Len(s) \in DOMAIN w /\ w[i + Len(s)] = t[i]
  BY <1>1, <1>2 DEF w
<1>4. \A i \in DOMAIN s : i \in DOMAIN w /\ w[i] = s[i]
  BY <1>1, <1>2 DEF w
<1>5. ToSet(s) \subseteq ToSet(w)
  BY <1>4 DEF ToSet
<1>6. ToSet(t) \subseteq ToSet(w)
  BY <1>3 DEF ToSet
<1>7. \A i \in DOMAIN w :
        (i \in DOMAIN s /\ w[i] = s[i]) \/ (i - Len(s) \in DOMAIN t /\ w[i] = t[i - Len(s)])
  BY <1>1, <1>2 DEF w
<1>8. ToSet(w) \subseteq ToSet(s) \cup ToSet(t)
  BY <1>7 DEF ToSet
<1> QED BY <1>5, <1>6, <1>8 DEF w

LEMMA ConcatAt ==
    ASSUME NEW S, NEW s \in Seq(S), NEW t \in Seq(S)
    PROVE  /\ s \o t \in Seq(S) /\ Len(s \o t) = Len(s) + Len(t)
           /\ \A j \in 1..Len(s) : (s \o t)[j] = s[j]
           /\ \A j \in 1..Len(t) : (s \o t)[Len(s) + j] = t[j]
<1>1. Len(s) \in Nat /\ Len(t) \in Nat
  BY LenProperties
<1>2. /\ s \o t \in Seq(S) /\ Len(s \o t) = Len(s) + Len(t)
      /\ \A i \in 1..Len(s) + Len(t) :
            (s \o t)[i] = IF i <= Len(s) THEN s[i] ELSE t[i - Len(s)]
  BY ConcatProperties
<1> DEFINE w == s \o t
<1> HIDE DEF w
<1>3. \A j \in 1..Len(s) : w[j] = s[j]
  BY <1>1, <1>2 DEF w
<1>4. ASSUME NEW j \in 1..Len(t) PROVE w[Len(s) + j] = t[j]
  <2>1. Len(s) + j \in 1..Len(s) + Len(t) /\ ~(Len(s) + j <= Len(s)) /\ (Len(s) + j) - Len(s) = j
    BY <1>1
  <2> QED BY <1>2, <2>1 DEF w
<1> QED BY <1>2, <1>3, <1>4 DEF w

LEMMA ThreeParts ==
    ASSUME NEW S, NEW a \in Seq(S), NEW b \in Seq(S), NEW c \in Seq(S),
           NEW ab, ab = a \o b, NEW w, w = ab \o c
    PROVE  /\ w \in Seq(S) /\ Len(w) = Len(a) + Len(b) + Len(c)
           /\ \A j \in 1..Len(a) : w[j] = a[j]
           /\ \A j \in 1..Len(b) : w[Len(a) + j] = b[j]
           /\ \A j \in 1..Len(c) : w[Len(a) + Len(b) + j] = c[j]
<1>1. Len(a) \in Nat /\ Len(b) \in Nat /\ Len(c) \in Nat
  BY LenProperties
<1>2. /\ ab \in Seq(S) /\ Len(ab) = Len(a) + Len(b)
      /\ \A j \in 1..Len(a) : ab[j] = a[j]
      /\ \A j \in 1..Len(b) : ab[Len(a) + j] = b[j]
  BY ConcatAt
<1>3. ab \in Seq(S)
  BY <1>2
<1>4. /\ w \in Seq(S) /\ Len(w) = Len(ab) + Len(c)
      /\ \A j \in 1..Len(ab) : w[j] = ab[j]
      /\ \A j \in 1..Len(c) : w[Len(ab) + j] = c[j]
  BY <1>3, ConcatAt
<1>5. \A j \in 1..Len(a) : w[j] = a[j]
  BY <1>1, <1>2, <1>4
<1>6. \A j \in 1..Len(b) : Len(a) + j \in 1..Len(ab)
  BY <1>1, <1>2
<1>7. \A j \in 1..Len(b) : w[Len(a) + j] = b[j]
  BY <1>2, <1>4, <1>6
<1> QED BY <1>1, <1>2, <1>4, <1>5, <1>7

LEMMA SubSeqElements ==
    ASSUME NEW S, NEW s \in Seq(S), NEW m \in Nat \ {0}, NEW n \in Nat, n <= Len(s)
    PROVE  /\ SubSeq(s, m, n) \in Seq(S)
           /\ ToSet(SubSeq(s, m, n)) = {s[i] : i \in m..n}
<1>1. /\ \A i \in m..n : s[i] \in S
      /\ Len(s) \in Nat
  BY LenProperties, ElementOfSeq
<1>2. /\ SubSeq(s, m, n) \in Seq(S)
      /\ Len(SubSeq(s, m, n)) = IF m <= n THEN n - m + 1 ELSE 0
      /\ \A i \in 1..n - m + 1 : SubSeq(s, m, n)[i] = s[m + i - 1]
  BY <1>1, SubSeqProperties
<1> DEFINE u == SubSeq(s, m, n)
<1> HIDE DEF u
<1>3. /\ u \in Seq(S)
      /\ DOMAIN u = 1..(IF m <= n THEN n - m + 1 ELSE 0)
      /\ \A i \in 1..n - m + 1 : u[i] = s[m + i - 1]
  BY <1>2, LenProperties DEF u
<1>4. ToSet(u) \subseteq {s[i] : i \in m..n}
  BY <1>3 DEF ToSet
<1>5. \A i \in m..n : i - m + 1 \in DOMAIN u /\ u[i - m + 1] = s[i]
  BY <1>3
<1>6. {s[i] : i \in m..n} \subseteq ToSet(u)
  BY <1>5 DEF ToSet
<1> QED BY <1>2, <1>4, <1>6 DEF u

LEMMA SeqElements ==
    ASSUME NEW S, NEW s \in Seq(S)
    PROVE  /\ DOMAIN s = 1..Len(s)
           /\ ToSet(s) = {s[i] : i \in 1..Len(s)}
           /\ Len(s) \in Nat
  BY LenProperties DEF ToSet

LEMMA InsertElements ==
    ASSUME NEW S, NEW s \in Seq(S), NEW k \in 1..(Len(s) + 1), NEW e \in S
    PROVE  /\ InsertAt(s, k, e) \in Seq(S)
           /\ ToSet(InsertAt(s, k, e)) = ToSet(s) \cup {e}
<1>1. Len(s) \in Nat /\ ToSet(s) = {s[i] : i \in 1..Len(s)}
  BY SeqElements
<1> DEFINE a == SubSeq(s, 1, k - 1)
           b == SubSeq(s, k, Len(s))
<1>2. a \in Seq(S) /\ ToSet(a) = {s[i] : i \in 1..(k - 1)}
  BY <1>1, SubSeqElements
<1>3. b \in Seq(S) /\ ToSet(b) = {s[i] : i \in k..Len(s)}
  BY <1>1, SubSeqElements
<1> DEFINE c == <<e>>
           d == a \o c
<1>4. c \in Seq(S) /\ ToSet(c) = {e}
  BY DEF ToSet
<1>5. InsertAt(s, k, e) = d \o b
  BY DEF InsertAt
<1> HIDE DEF a, b, c, d
<1>6. d \in Seq(S) /\ ToSet(d) = ToSet(a) \cup {e}
  <2>1. d \in Seq(S)
    BY <1>2, <1>4, ConcatProperties DEF d
  <2>2. ToSet(d) = ToSet(a) \cup ToSet(c)
    BY <1>2, <1>4, ConcatElements DEF d
  <2> QED BY <1>4, <2>1, <2>2
<1>7. /\ InsertAt(s, k, e) \in Seq(S)
      /\ ToSet(InsertAt(s, k, e)) = ToSet(a) \cup {e} \cup ToSet(b)
  BY <1>3, <1>5, <1>6, ConcatElements, ConcatProperties
<1>8. 1..Len(s) = (1..(k - 1)) \cup (k..Len(s))
  BY <1>1
<1>9. ToSet(s) = ToSet(a) \cup ToSet(b)
  BY <1>1, <1>2, <1>3, <1>8
<1> QED BY <1>7, <1>9

LEMMA RemoveElements ==
    ASSUME NEW S, NEW s \in Seq(S), NEW k \in DOMAIN s
    PROVE  /\ RemoveAt(s, k) \in Seq(S)
           /\ ToSet(RemoveAt(s, k)) \cup {s[k]} = ToSet(s)
<1>1. Len(s) \in Nat /\ ToSet(s) = {s[i] : i \in 1..Len(s)} /\ k \in 1..Len(s)
  BY SeqElements
<1> DEFINE a == SubSeq(s, 1, k - 1)
           b == SubSeq(s, k + 1, Len(s))
<1>2. a \in Seq(S) /\ ToSet(a) = {s[i] : i \in 1..(k - 1)}
  BY <1>1, SubSeqElements
<1>3. b \in Seq(S) /\ ToSet(b) = {s[i] : i \in (k + 1)..Len(s)}
  BY <1>1, SubSeqElements
<1>4. RemoveAt(s, k) = a \o b
  BY DEF RemoveAt
<1> HIDE DEF a, b
<1>5. RemoveAt(s, k) \in Seq(S) /\ ToSet(RemoveAt(s, k)) = ToSet(a) \cup ToSet(b)
  BY <1>2, <1>3, <1>4, ConcatElements, ConcatProperties
<1>6. 1..Len(s) = (1..(k - 1)) \cup ((k + 1)..Len(s)) \cup {k}
  BY <1>1
<1>7. ToSet(s) = ToSet(a) \cup ToSet(b) \cup {s[k]}
  BY <1>1, <1>2, <1>3, <1>6
<1> QED BY <1>5, <1>7
=============================================================================
