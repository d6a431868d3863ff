---------------------------- MODULE ArrayLemmas ----------------------------
(***************************************************************************)
(* Lemmas about the sequence operators the models use for Swift's arrays:  *)
(* the least and the greatest index of a set, remove(at:), and how often   *)
(* an element occurs.                                                      *)
(***************************************************************************)
EXTENDS Integers, SequencesExt, TLAPS, SequenceTheorems, FiniteSetTheorems

\* A non-empty set of naturals has the minimum that FiniteSetsExt chooses.
LEMMA MinProperty ==
  ASSUME NEW S \in SUBSET Nat, S # {}
  PROVE  Min(S) \in S /\ \A y \in S : Min(S) <= y
<1> DEFINE R == OpToRel(<, Nat)
<1>1. IsWellFoundedOn(R, Nat)
  BY NatLessThanWellFounded
<1>2. \A x, y \in Nat : y < x => <<y, x>> \in R
  BY DEF OpToRel
<1> HIDE DEF R
<1>3. PICK x \in S : \A y \in S : ~(<<y, x>> \in R)
  BY <1>1, WFMin
<1>4. ASSUME NEW y \in S
      PROVE  x <= y
  <2>1. x \in Nat /\ y \in Nat
    OBVIOUS
  <2>2. ~(y < x)
    BY <1>2, <1>3, <2>1, Zenon
  <2>3. QED
    BY <2>1, <2>2
<1>5. QED
  BY <1>3, <1>4 DEF Min

\* A non-empty set of indices contains the maximum that FiniteSetsExt chooses.
LEMMA MaxIsMember ==
  ASSUME NEW n \in Nat, NEW S \in SUBSET (1..n), S # {}
  PROVE  Max(S) \in S
<1> DEFINE T == {n - x : x \in S}
<1>1. T \subseteq Nat /\ T # {}
  <2>1. \A x \in S : n - x \in Nat
    OBVIOUS
  <2>2. QED
    BY <2>1
<1>2. PICK m \in T : \A y \in T : m <= y
  <2> HIDE DEF T
  <2>1. Min(T) \in T /\ \A y \in T : Min(T) <= y
    BY <1>1, MinProperty
  <2>2. QED
    BY <2>1
<1>3. PICK x \in S : m = n - x
  BY <1>2
<1>4. \A y \in S : x >= y
  <2> SUFFICES ASSUME NEW y \in S PROVE x >= y
    OBVIOUS
  <2>1. n - x <= n - y
    BY <1>2, <1>3
  <2>2. QED
    BY <2>1
<1>5. QED
  BY <1>4 DEF Max

\* remove(at: k) keeps what stands before k and moves the rest down by one.
LEMMA RemoveAtProperties ==
  ASSUME NEW S, NEW s \in Seq(S), NEW k \in 1..Len(s)
  PROVE  /\ RemoveAt(s, k) \in Seq(S)
         /\ Len(RemoveAt(s, k)) = Len(s) - 1
         /\ \A i \in 1..(Len(s) - 1) :
              RemoveAt(s, k)[i] = IF i < k THEN s[i] ELSE s[i + 1]
<1> DEFINE a == SubSeq(s, 1, k - 1)
           b == SubSeq(s, k + 1, Len(s))
<1>0. Len(s) \in Nat /\ k \in Int /\ \A i \in 1..Len(s) : s[i] \in S
  BY LenProperties, ElementOfSeq
<1>1. /\ a \in Seq(S) /\ Len(a) = k - 1
      /\ \A i \in 1..(k - 1) : a[i] = s[i]
  <2>1. \A i \in 1..(k - 1) : s[i] \in S
    BY <1>0
  <2>2. /\ a \in Seq(S) /\ Len(a) = IF 1 <= k - 1 THEN (k - 1) - 1 + 1 ELSE 0
        /\ \A i \in 1..((k - 1) - 1 + 1) : a[i] = s[1 + i - 1]
    BY <1>0, <2>1, SubSeqProperties
  <2>3. QED
    BY <1>0, <2>2
<1>2. /\ b \in Seq(S) /\ Len(b) = Len(s) - k
      /\ \A i \in 1..(Len(s) - k) : b[i] = s[k + i]
  <2>1. \A i \in (k + 1)..Len(s) : s[i] \in S
    BY <1>0
  <2>2. /\ b \in Seq(S)
        /\ Len(b) = IF k + 1 <= Len(s) THEN Len(s) - (k + 1) + 1 ELSE 0
        /\ \A i \in 1..(Len(s) - (k + 1) + 1) : b[i] = s[(k + 1) + i - 1]
    BY <1>0, <2>1, SubSeqProperties
  <2>3. QED
    BY <1>0, <2>2
<1>3. RemoveAt(s, k) = a \o b
  BY DEF RemoveAt
<1>4. /\ a \o b \in Seq(S) /\ Len(a \o b) = Len(a) + Len(b)
      /\ \A i \in 1..(Len(a) + Len(b)) :
           (a \o b)[i] = IF i <= Len(a) THEN a[i] ELSE b[i - Len(a)]
  BY <1>1, <1>2, ConcatProperties
<1> HIDE DEF a, b
<1>5. ASSUME NEW i \in 1..(Len(s) - 1)
      PROVE  (a \o b)[i] = IF i < k THEN s[i] ELSE s[i + 1]
  <2>1. CASE i < k
    BY <2>1, <1>0, <1>1, <1>2, <1>4
  <2>2. CASE ~(i < k)
    <3>1. (a \o b)[i] = b[i - (k - 1)]
      BY <2>2, <1>0, <1>1, <1>2, <1>4
    <3>2. b[i - (k - 1)] = s[k + (i - (k - 1))]
      BY <2>2, <1>0, <1>2
    <3>3. QED
      BY <2>2, <1>0, <3>1, <3>2
  <2>3. QED
    BY <2>1, <2>2
<1>6. QED
  BY <1>0, <1>1, <1>2, <1>3, <1>4, <1>5

\* What two sequences make together comes from one or the other.
LEMMA ConcatElements ==
  ASSUME NEW S, NEW s \in Seq(S), NEW t \in Seq(S)
  PROVE  /\ s \o t \in Seq(S)
         /\ \A i \in 1..Len(s \o t) :
              \/ \E k \in 1..Len(s) : (s \o t)[i] = s[k]
              \/ \E k \in 1..Len(t) : (s \o t)[i] = t[k]
<1>1. /\ s \o t \in Seq(S) /\ Len(s \o t) = Len(s) + Len(t)
      /\ \A i \in 1..(Len(s) + Len(t)) :
           (s \o t)[i] = IF i <= Len(s) THEN s[i] ELSE t[i - Len(s)]
  BY ConcatProperties
<1>2. Len(s) \in Nat /\ Len(t) \in Nat
  BY LenProperties
<1>3. ASSUME NEW i \in 1..Len(s \o t)
      PROVE  \/ \E k \in 1..Len(s) : (s \o t)[i] = s[k]
             \/ \E k \in 1..Len(t) : (s \o t)[i] = t[k]
  <2>1. CASE i <= Len(s)
    BY <1>1, <1>2, <2>1
  <2>2. CASE ~(i <= Len(s))
    <3>1. i - Len(s) \in 1..Len(t) /\ (s \o t)[i] = t[i - Len(s)]
      BY <1>1, <1>2, <2>2
    <3>2. QED
      BY <3>1
  <2>3. QED
    BY <2>1, <2>2
<1>4. QED
  BY <1>1, <1>3

\* Removing the first element moves the others up.
LEMMA TailElements ==
  ASSUME NEW S, NEW s \in Seq(S), s # <<>>
  PROVE  /\ Head(s) \in S /\ Head(s) = s[1] /\ 1 \in 1..Len(s)
         /\ Tail(s) \in Seq(S) /\ Len(Tail(s)) = Len(s) - 1
         /\ \A i \in 1..Len(Tail(s)) : i + 1 \in 1..Len(s) /\ Tail(s)[i] = s[i + 1]
<1>1. /\ Head(s) \in S /\ Tail(s) \in Seq(S) /\ Len(Tail(s)) = Len(s) - 1
      /\ \A i \in 1..Len(Tail(s)) : Tail(s)[i] = s[i + 1]
  BY HeadTailProperties
<1>2. Len(s) \in Nat \ {0} /\ Head(s) = s[1]
  BY EmptySeq
<1>3. QED
  BY <1>1, <1>2

\* Without its last element, a sequence is shorter by one.
LEMMA FrontElements ==
  ASSUME NEW S, NEW s \in Seq(S), s # <<>>
  PROVE  /\ Front(s) \in Seq(S) /\ Len(Front(s)) = Len(s) - 1
         /\ \A i \in 1..(Len(s) - 1) : Front(s)[i] = s[i]
<1>1. Len(s) \in Nat /\ Len(s) # 0 /\ Len(s) - 1 \in Int /\ 1 \in Int
  BY EmptySeq, LenProperties
<1>2. \A i \in 1..(Len(s) - 1) : s[i] \in S
  BY <1>1, ElementOfSeq
<1>3. Front(s) = SubSeq(s, 1, Len(s) - 1)
  BY DEF Front
<1>4. /\ Front(s) \in Seq(S)
      /\ Len(Front(s)) = IF 1 <= Len(s) - 1 THEN (Len(s) - 1) - 1 + 1 ELSE 0
      /\ \A i \in 1..((Len(s) - 1) - 1 + 1) : Front(s)[i] = s[1 + i - 1]
  BY <1>1, <1>2, <1>3, SubSeqProperties
<1>5. Len(Front(s)) = Len(s) - 1
  <2>1. CASE 1 <= Len(s) - 1
    BY <1>1, <1>4, <2>1
  <2>2. CASE ~(1 <= Len(s) - 1)
    <3>1. Len(s) = 1
      <4>1. \A n \in Nat : n = 0 \/ n = 1 \/ 1 <= n - 1
        OBVIOUS
      <4>2. QED
        BY <1>1, <2>2, <4>1, Zenon
    <3>2. Len(Front(s)) = 0
      BY <1>4, <2>2, Zenon
    <3>3. QED
      BY <3>1, <3>2
  <2>3. QED
    BY <2>1, <2>2
<1>6. \A i \in 1..(Len(s) - 1) : i \in 1..((Len(s) - 1) - 1 + 1) /\ 1 + i - 1 = i
  BY <1>1
<1>7. QED
  BY <1>4, <1>5, <1>6

-----------------------------------------------------------------------------
(***************************************************************************)
(* Counting                                                                *)
(***************************************************************************)
\* The places of s that hold an element of T, and how many they are.
Places(s, T) == {i \in 1..Len(s) : s[i] \in T}
Count(s, T) == Cardinality(Places(s, T))

LEMMA CountType ==
  ASSUME NEW S, NEW s \in Seq(S), NEW T
  PROVE  /\ IsFiniteSet(Places(s, T)) /\ Count(s, T) \in Nat
         /\ Count(s, T) = 0 <=> \A i \in 1..Len(s) : s[i] \notin T
<1>1. Len(s) \in Nat
  BY LenProperties
<1>2. IsFiniteSet(1..Len(s))
  BY <1>1, FS_Interval
<1>3. Places(s, T) \in SUBSET (1..Len(s))
  BY DEF Places
<1>4. IsFiniteSet(Places(s, T))
  BY <1>2, <1>3, FS_Subset
<1>5. Count(s, T) \in Nat /\ (Count(s, T) = 0 <=> Places(s, T) = {})
  BY <1>4, FS_CardinalityType, FS_EmptySet DEF Count
<1>6. QED
  BY <1>4, <1>5 DEF Places

LEMMA CountEmpty == \A T : Count(<<>>, T) = 0
<1>1. \A T : Places(<<>>, T) = {}
  BY DEF Places
<1>2. QED
  BY <1>1, FS_EmptySet DEF Count

LEMMA CountAppend ==
  ASSUME NEW S, NEW s \in Seq(S), NEW e \in S, NEW T
  PROVE  Count(Append(s, e), T) = IF e \in T THEN Count(s, T) + 1 ELSE Count(s, T)
<1> DEFINE t == Append(s, e)
           n == Len(s)
<1>1. /\ Len(t) = n + 1 /\ t[n + 1] = e /\ n \in Nat
      /\ \A i \in 1..n : t[i] = s[i]
  BY AppendProperties, LenProperties
<1>2. IsFiniteSet(Places(s, T)) /\ n + 1 \notin Places(s, T)
  <2>1. n + 1 \notin 1..n
    BY <1>1
  <2>2. QED
    BY <2>1, CountType DEF Places
<1>3. \A i \in 1..(n + 1) : i \in 1..n \/ i = n + 1
  BY <1>1
<1>4. 1..n \subseteq 1..(n + 1) /\ n + 1 \in 1..(n + 1)
  BY <1>1
<1> HIDE DEF t, n
<1>5. CASE e \in T
  <2>1. Places(t, T) = Places(s, T) \cup {n + 1}
    BY <1>1, <1>3, <1>4, <1>5 DEF Places, n
  <2>2. QED
    BY <1>2, <1>5, <2>1, FS_AddElement DEF Count, t
<1>6. CASE e \notin T
  <2>1. Places(t, T) = Places(s, T)
    BY <1>1, <1>3, <1>4, <1>6 DEF Places, n
  <2>2. QED
    BY <1>6, <2>1 DEF Count, t
<1>7. QED
  BY <1>5, <1>6

\* Without its k-th element, a sequence has the elements of T at as many places
\* as at the places other than k.
LEMMA CountRemoveAt ==
  ASSUME NEW S, NEW s \in Seq(S), NEW k \in 1..Len(s), NEW T
  PROVE  Count(RemoveAt(s, k), T) = IF s[k] \in T THEN Count(s, T) - 1 ELSE Count(s, T)
<1> DEFINE t == RemoveAt(s, k)
           n == Len(s)
           from == [i \in Places(t, T) |-> IF i < k THEN i ELSE i + 1]
           others == Places(s, T) \ {k}
<1>1. /\ Len(t) = n - 1 /\ n \in Nat /\ k \in 1..n /\ t \in Seq(S)
      /\ \A i \in 1..(n - 1) : t[i] = IF i < k THEN s[i] ELSE s[i + 1]
  BY RemoveAtProperties, LenProperties
<1> HIDE DEF t
<1>2. /\ from \in [Places(t, T) -> others]
      /\ \A i \in Places(t, T) : from[i] = IF i < k THEN i ELSE i + 1
  <2>1. ASSUME NEW i \in Places(t, T) PROVE (IF i < k THEN i ELSE i + 1) \in others
    <3>1. i \in 1..(n - 1) /\ t[i] \in T
      BY <1>1 DEF Places
    <3>2. CASE i < k
      <4>1. i \in 1..n /\ s[i] \in T /\ i # k
        BY <1>1, <3>1, <3>2
      <4>2. QED
        BY <3>2, <4>1 DEF Places
    <3>3. CASE ~(i < k)
      <4>1. i + 1 \in 1..n /\ s[i + 1] \in T /\ i + 1 # k
        BY <1>1, <3>1, <3>3
      <4>2. QED
        BY <3>3, <4>1 DEF Places
    <3>4. QED
      BY <3>2, <3>3
  <2> HIDE DEF others
  <2>2. QED
    BY <2>1
<1> HIDE DEF from
<1>3. ASSUME NEW i \in Places(t, T), NEW j \in Places(t, T), from[i] = from[j] PROVE i = j
  <2>1. i \in Int /\ j \in Int /\ k \in Int
    BY <1>1 DEF Places
  <2>2. QED
    BY <1>2, <1>3, <2>1
<1>4. ASSUME NEW m \in others PROVE \E i \in Places(t, T) : from[i] = m
  <2>1. m \in 1..n /\ s[m] \in T /\ m # k
    BY DEF Places
  <2>2. CASE m < k
    <3>1. m \in 1..(n - 1) /\ t[m] \in T
      BY <1>1, <2>1, <2>2
    <3>2. m \in Places(t, T)
      BY <1>1, <3>1 DEF Places
    <3>3. QED
      BY <1>2, <2>2, <3>2
  <2>3. CASE ~(m < k)
    <3>1. m - 1 \in 1..(n - 1) /\ ~(m - 1 < k) /\ (m - 1) + 1 = m
      BY <1>1, <2>1, <2>3
    <3>2. t[m - 1] \in T
      BY <1>1, <2>1, <3>1
    <3>3. m - 1 \in Places(t, T)
      BY <1>1, <3>1, <3>2 DEF Places
    <3>4. from[m - 1] = m
      BY <1>2, <3>1, <3>3
    <3>5. QED
      BY <3>3, <3>4
  <2>4. QED
    BY <2>2, <2>3
<1>5. IsFiniteSet(Places(t, T)) /\ IsFiniteSet(Places(s, T))
  BY <1>1, CountType
<1>6. ExistsBijection(Places(t, T), others)
  <2> HIDE DEF others
  <2>1. from \in Injection(Places(t, T), others)
    BY <1>2, <1>3 DEF Injection, IsInjective
  <2>2. from \in Surjection(Places(t, T), others)
    BY <1>2, <1>4 DEF Surjection
  <2>3. QED
    BY <2>1, <2>2 DEF Bijection, ExistsBijection
<1>7. Cardinality(others) = Cardinality(Places(t, T))
  BY <1>5, <1>6, FS_Bijection
<1>8. Cardinality(others) = IF k \in Places(s, T) THEN Count(s, T) - 1 ELSE Count(s, T)
  BY <1>5, FS_RemoveElement DEF Count
<1>9. k \in Places(s, T) <=> s[k] \in T
  BY <1>1 DEF Places
<1>10. QED
  BY <1>7, <1>8, <1>9 DEF Count, t

LEMMA CountTail ==
  ASSUME NEW S, NEW s \in Seq(S), s # <<>>, NEW T
  PROVE  Count(Tail(s), T) = IF Head(s) \in T THEN Count(s, T) - 1 ELSE Count(s, T)
<1>1. /\ Head(s) = s[1] /\ 1 \in 1..Len(s)
      /\ Tail(s) \in Seq(S) /\ Len(Tail(s)) = Len(s) - 1
      /\ \A i \in 1..Len(Tail(s)) : Tail(s)[i] = s[i + 1]
  BY TailElements
<1>2. /\ RemoveAt(s, 1) \in Seq(S) /\ Len(RemoveAt(s, 1)) = Len(s) - 1
      /\ \A i \in 1..(Len(s) - 1) : RemoveAt(s, 1)[i] = IF i < 1 THEN s[i] ELSE s[i + 1]
  BY <1>1, RemoveAtProperties
<1>3. \A i \in 1..Len(Tail(s)) : Tail(s)[i] = RemoveAt(s, 1)[i]
  <2>1. \A i \in 1..(Len(s) - 1) : ~(i < 1)
    OBVIOUS
  <2>2. QED
    BY <1>1, <1>2, <2>1
<1>4. Tail(s) = RemoveAt(s, 1)
  BY <1>1, <1>2, <1>3, SeqEqual
<1>5. Count(RemoveAt(s, 1), T) = IF s[1] \in T THEN Count(s, T) - 1 ELSE Count(s, T)
  BY <1>1, CountRemoveAt
<1>6. QED
  BY <1>1, <1>4, <1>5
=============================================================================
