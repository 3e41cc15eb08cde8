---------------------------- MODULE ListLemmas -----------------------------
(***************************************************************************)
(* Lemmas on the LIST_ENTRY lists of the SMM drivers, modelled as sequences*)
(* that hold a record at most once.                                        *)
(***************************************************************************)
EXTENDS SequencesExt, SequenceTheorems, TLAPS

Injective(s) == \A i, j \in DOMAIN s : s[i] = s[j] => i = j

\* Inserting at the tail (InsertTailList) adds one element to the list's set and
\* keeps the list free of duplicates.
LEMMA AppendToList ==
  ASSUME NEW S, NEW s \in Seq(S), NEW e \in S
  PROVE  /\ Append(s, e) \in Seq(S)
         /\ ToSet(Append(s, e)) = ToSet(s) \cup {e}
         /\ Injective(s) /\ e \notin ToSet(s) => Injective(Append(s, e))
<1> DEFINE t == Append(s, e)
<1>1. /\ t \in Seq(S) /\ Len(t) = Len(s) + 1 /\ DOMAIN t = 1..Len(s) + 1
      /\ \A i \in 1..Len(s) : t[i] = s[i]
      /\ t[Len(s) + 1] = e
      /\ DOMAIN s = 1..Len(s) /\ Len(s) \in Nat
  OBVIOUS
<1>2. ToSet(t) = ToSet(s) \cup {e}
  BY <1>1 DEF ToSet
<1>3. ASSUME Injective(s), e \notin ToSet(s)
      PROVE  Injective(t)
  BY <1>1, <1>3 DEF Injective, ToSet
<1> QED
  BY <1>1, <1>2, <1>3

\* Removing an entry (RemoveEntryList) closes the gap.
LEMMA RemoveAtProps ==
  ASSUME NEW S, NEW s \in Seq(S), NEW i \in DOMAIN s
  PROVE  /\ RemoveAt(s, i) \in Seq(S)
         /\ Len(RemoveAt(s, i)) = Len(s) - 1
         /\ DOMAIN RemoveAt(s, i) = 1..Len(s) - 1
         /\ \A j \in 1..Len(s) - 1 :
              RemoveAt(s, i)[j] = s[IF j < i THEN j ELSE j + 1]
<1> DEFINE t == RemoveAt(s, i)
           a == SubSeq(s, 1, i - 1)
           b == SubSeq(s, i + 1, Len(s))
<1>1. i \in 1..Len(s) /\ Len(s) \in Nat /\ DOMAIN s = 1..Len(s)
  OBVIOUS
<1>2. /\ a \in Seq(S) /\ Len(a) = i - 1
      /\ \A j \in 1..i - 1 : a[j] = s[j]
  BY <1>1
<1>3. /\ b \in Seq(S) /\ Len(b) = Len(s) - i
      /\ \A j \in 1..Len(s) - i : b[j] = s[i + j]
  BY <1>1
<1>4. t = a \o b
  BY DEF RemoveAt
<1> HIDE DEF a, b, t
<1>5. t \in Seq(S) /\ Len(t) = Len(s) - 1 /\ DOMAIN t = 1..Len(s) - 1
  <2>1. t \in Seq(S) /\ Len(t) = Len(a) + Len(b)
    BY <1>2, <1>3, <1>4, ConcatProperties
  <2>2. Len(t) = Len(s) - 1
    BY <1>1, <1>2, <1>3, <2>1
  <2> QED
    BY <2>1, <2>2
<1>6. ASSUME NEW j \in 1..Len(s) - 1
      PROVE  t[j] = s[IF j < i THEN j ELSE j + 1]
  <2>1. \A k \in 1..Len(a) + Len(b) :
           t[k] = IF k <= Len(a) THEN a[k] ELSE b[k - Len(a)]
    BY <1>2, <1>3, <1>4, ConcatProperties
  <2>2. j \in 1..Len(a) + Len(b)
    BY <1>1, <1>2, <1>3
  <2>3. t[j] = IF j <= Len(a) THEN a[j] ELSE b[j - Len(a)]
    BY <2>1, <2>2
  <2>4. CASE j < i
    BY <1>1, <1>2, <2>3, <2>4
  <2>5. CASE ~(j < i)
    <3>1. j - Len(a) \in 1..Len(s) - i /\ i + (j - Len(a)) = j + 1
      BY <1>1, <1>2, <2>5
    <3>2. t[j] = b[j - Len(a)]
      BY <1>1, <1>2, <2>3, <2>5
    <3> QED
      BY <1>3, <2>5, <3>1, <3>2
  <2> QED
    BY <2>4, <2>5
<1> QED
  BY <1>5, <1>6 DEF t

\* It takes exactly that element out of the list's set and keeps the list free of
\* duplicates.
LEMMA RemoveFromList ==
  ASSUME NEW S, NEW s \in Seq(S), Injective(s), NEW i \in DOMAIN s
  PROVE  /\ RemoveAt(s, i) \in Seq(S)
         /\ ToSet(RemoveAt(s, i)) = ToSet(s) \ {s[i]}
         /\ Injective(RemoveAt(s, i))
<1> DEFINE t == RemoveAt(s, i)
           old(j) == IF j < i THEN j ELSE j + 1
<1>1. i \in 1..Len(s) /\ Len(s) \in Nat /\ DOMAIN s = 1..Len(s)
  OBVIOUS
<1>2. /\ t \in Seq(S) /\ Len(t) = Len(s) - 1 /\ DOMAIN t = 1..Len(s) - 1
      /\ \A j \in DOMAIN t : t[j] = s[old(j)]
  BY RemoveAtProps
<1>3. \A j \in DOMAIN t : old(j) \in DOMAIN s /\ old(j) # i
  BY <1>1, <1>2
<1>4. \A k \in DOMAIN s \ {i} : \E j \in DOMAIN t : old(j) = k
  <2> TAKE k \in DOMAIN s \ {i}
  <2>1. CASE k < i
    BY <1>1, <1>2, <2>1
  <2>2. CASE k > i
    <3>1. k - 1 \in DOMAIN t /\ old(k - 1) = k
      BY <1>1, <1>2, <2>2
    <3> QED
      BY <3>1
  <2> QED
    BY <1>1, <2>1, <2>2
<1> HIDE DEF old
<1>5. ToSet(t) = ToSet(s) \ {s[i]}
  <2>1. \A j \in DOMAIN t : t[j] \in ToSet(s) \ {s[i]}
    BY <1>1, <1>2, <1>3 DEF ToSet, Injective
  <2>2. \A x \in ToSet(s) \ {s[i]} : \E j \in DOMAIN t : t[j] = x
    BY <1>2, <1>4 DEF ToSet
  <2> QED
    BY <2>1, <2>2 DEF ToSet
<1>6. Injective(t)
  <2> SUFFICES ASSUME NEW j \in DOMAIN t, NEW k \in DOMAIN t, t[j] = t[k]
               PROVE  j = k
    BY DEF Injective
  <2>1. old(j) = old(k)
    BY <1>2, <1>3 DEF Injective
  <2> QED
    BY <1>1, <1>2, <2>1 DEF old
<1> QED
  BY <1>2, <1>5, <1>6

-----------------------------------------------------------------------------
(***************************************************************************)
(* The order of a list, which a walk relies on while others insert and     *)
(* remove entries.                                                         *)
(***************************************************************************)

InOrder(s, a, b) == \E i, j \in DOMAIN s : i < j /\ s[i] = a /\ s[j] = b

\* Inserting at the tail leaves the order of the others as it is.
LEMMA AppendKeepsOrder ==
  ASSUME NEW S, NEW s \in Seq(S), NEW e \in S, NEW a, NEW b, InOrder(s, a, b)
  PROVE  InOrder(Append(s, e), a, b)
BY DEF InOrder

\* So does removing an entry.
LEMMA RemoveKeepsOrder ==
  ASSUME NEW S, NEW s \in Seq(S), NEW k \in DOMAIN s, NEW a, NEW b,
         InOrder(s, a, b), a # s[k], b # s[k]
  PROVE  InOrder(RemoveAt(s, k), a, b)
<1> DEFINE t == RemoveAt(s, k)
           new(i) == IF i < k THEN i ELSE i - 1
<1>1. PICK i \in DOMAIN s, j \in DOMAIN s : i < j /\ s[i] = a /\ s[j] = b
  BY DEF InOrder
<1>2. DOMAIN s = 1..Len(s) /\ Len(s) \in Nat
  OBVIOUS
<1> HIDE DEF t
<1>6. /\ DOMAIN t = 1..Len(s) - 1
      /\ \A n \in 1..Len(s) - 1 : t[n] = s[IF n < k THEN n ELSE n + 1]
  BY RemoveAtProps DEF t
<1>3. i # k /\ j # k
  BY <1>1
<1>4. new(i) \in DOMAIN t /\ new(j) \in DOMAIN t /\ new(i) < new(j)
  BY <1>1, <1>2, <1>3, <1>6
<1>5. t[new(i)] = a /\ t[new(j)] = b
  BY <1>1, <1>2, <1>3, <1>4, <1>6
<1> HIDE DEF new
<1>7. InOrder(t, a, b)
  BY <1>4, <1>5 DEF InOrder
<1> QED
  BY <1>7 DEF t

\* The order that is left was there before.
LEMMA RemoveTakesOrder ==
  ASSUME NEW S, NEW s \in Seq(S), NEW k \in DOMAIN s, NEW a, NEW b,
         InOrder(RemoveAt(s, k), a, b)
  PROVE  InOrder(s, a, b)
<1> DEFINE t == RemoveAt(s, k)
           old(n) == IF n < k THEN n ELSE n + 1
<1>1. /\ DOMAIN t = 1..Len(s) - 1 /\ \A n \in 1..Len(s) - 1 : t[n] = s[old(n)]
      /\ DOMAIN s = 1..Len(s) /\ Len(s) \in Nat
  BY RemoveAtProps
<1>2. PICK i \in DOMAIN t, j \in DOMAIN t : i < j /\ t[i] = a /\ t[j] = b
  BY DEF InOrder
<1> HIDE DEF t
<1>3. old(i) \in DOMAIN s /\ old(j) \in DOMAIN s /\ old(i) < old(j)
  BY <1>1, <1>2
<1>4. s[old(i)] = a /\ s[old(j)] = b
  BY <1>1, <1>2
<1> HIDE DEF old
<1> QED
  BY <1>3, <1>4 DEF InOrder

\* What comes after an entry is the next one or comes after that.
LEMMA NextInOrder ==
  ASSUME NEW S, NEW s \in Seq(S), Injective(s), NEW i \in DOMAIN s
  PROVE  /\ \A b : InOrder(s, s[i], b)
              => i < Len(s) /\ (b = s[i + 1] \/ InOrder(s, s[i + 1], b))
         /\ \A a : InOrder(s, a, s[i]) /\ i < Len(s) => InOrder(s, a, s[i + 1])
         /\ i < Len(s) => InOrder(s, s[i], s[i + 1])
         /\ ~InOrder(s, s[i], s[i])
<1>1. i \in 1..Len(s) /\ Len(s) \in Nat /\ DOMAIN s = 1..Len(s)
  OBVIOUS
<1>2. ASSUME NEW b, InOrder(s, s[i], b)
      PROVE  i < Len(s) /\ (b = s[i + 1] \/ InOrder(s, s[i + 1], b))
  <2>1. PICK k \in DOMAIN s, j \in DOMAIN s : k < j /\ s[k] = s[i] /\ s[j] = b
    BY <1>2 DEF InOrder
  <2>2. k = i
    BY <2>1 DEF Injective
  <2>3. i + 1 \in DOMAIN s /\ (j = i + 1 \/ i + 1 < j)
    BY <1>1, <2>1, <2>2
  <2> QED
    BY <1>1, <2>1, <2>2, <2>3 DEF InOrder
<1>3. ASSUME NEW a, InOrder(s, a, s[i]), i < Len(s)
      PROVE  InOrder(s, a, s[i + 1])
  <2>1. PICK k \in DOMAIN s, j \in DOMAIN s : k < j /\ s[k] = a /\ s[j] = s[i]
    BY <1>3 DEF InOrder
  <2>2. j = i
    BY <2>1 DEF Injective
  <2>3. i + 1 \in DOMAIN s /\ k < i + 1
    BY <1>1, <1>3, <2>1, <2>2
  <2> QED
    BY <2>1, <2>3 DEF InOrder
<1>4. ASSUME i < Len(s) PROVE InOrder(s, s[i], s[i + 1])
  BY <1>1, <1>4 DEF InOrder
<1>5. ~InOrder(s, s[i], s[i])
  BY <1>1 DEF InOrder, Injective
<1> QED
  BY <1>2, <1>3, <1>4, <1>5
=============================================================================
