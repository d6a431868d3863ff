----------------------------- MODULE OrdersProofs ---------------------------
(***************************************************************************)
(* Orders, for every set of documents and every number of broken streams,  *)
(* sign-outs, restarts and steps of other clients: what is reported of an  *)
(* order is true, the history is never a mixture of snapshots and has the  *)
(* rows its table counts, no order that the client has written is lost or  *)
(* decided twice, and each goes into the queue of the account it is of.    *)
(***************************************************************************)
EXTENDS Orders, ArrayLemmas, FiniteSetTheorems, TLAPS

-----------------------------------------------------------------------------
(***************************************************************************)
(* The order of a query                                                    *)
(***************************************************************************)
Below(D, d) == {e \in D : e < d}

\* In a finite set of numbers there is one with i - 1 below it, for every i up
\* to its size.  (Of the i for which there is none consider the least.)
LEMMA RankExists ==
  ASSUME NEW D \in SUBSET Nat, IsFiniteSet(D)
  PROVE  \A i \in 1..Cardinality(D) : \E d \in D : Cardinality(Below(D, d)) = i - 1
<1> DEFINE Bad == {i \in 1..Cardinality(D) : ~\E d \in D : Cardinality(Below(D, d)) = i - 1}
<1> SUFFICES ASSUME Bad # {} PROVE FALSE
  OBVIOUS
<1>1. Cardinality(D) \in Nat
  BY FS_CardinalityType
<1>2. Bad \in SUBSET Nat /\ Bad \subseteq 1..Cardinality(D)
  BY <1>1
<1>3. PICK m \in Bad : \A i \in Bad : m <= i
  <2> HIDE DEF Bad
  <2>1. Min(Bad) \in Bad /\ \A i \in Bad : Min(Bad) <= i
    BY <1>2, MinProperty
  <2>2. QED
    BY <2>1
<1>4. m \in 1..Cardinality(D) /\ ~\E d \in D : Cardinality(Below(D, d)) = m - 1
  OBVIOUS
<1> HIDE DEF Bad
<1>5. CASE m = 1
  <2>1. D # {}
    BY <1>1, <1>4, <1>5, FS_EmptySet
  <2>2. Min(D) \in D /\ \A e \in D : Min(D) <= e
    BY <2>1, MinProperty
  <2>3. \A e \in D : ~(e < Min(D))
    <3> DEFINE low == Min(D)
    <3>1. low \in D /\ \A e \in D : low <= e
      BY <2>2
    <3> HIDE DEF low
    <3>2. \A e \in D : ~(e < low)
      BY <3>1
    <3>3. QED
      BY <3>2 DEF low
  <2>4. Below(D, Min(D)) = {}
    BY <2>3, Zenon DEF Below
  <2>5. Cardinality(Below(D, Min(D))) = 0
    BY <2>4, FS_EmptySet
  <2>6. 0 = m - 1
    BY <1>5
  <2>7. QED
    BY <1>4, <2>2, <2>5, <2>6, Zenon
<1>6. CASE m # 1
  <2>1. m - 1 \in 1..Cardinality(D) /\ m - 1 \notin Bad
    <3>1. \A i \in Bad : i \in Nat /\ m <= i
      BY <1>2, <1>3
    <3>2. QED
      BY <1>1, <1>4, <1>6, <3>1
  <2>2. PICK d \in D : Cardinality(Below(D, d)) = (m - 1) - 1
    BY <2>1 DEF Bad
  <2> DEFINE U == Below(D, d) \cup {d}
  <2>3. Below(D, d) \subseteq D /\ d \notin Below(D, d) /\ U \subseteq D
    BY DEF Below
  <2>4. IsFiniteSet(Below(D, d)) /\ Cardinality(U) = m - 1
    BY <1>4, <2>2, <2>3, FS_Subset, FS_AddElement
  <2>5. U # D
    <3>1. Cardinality(D) # m - 1
      BY <1>1, <1>4
    <3>2. QED
      BY <2>4, <3>1, Zenon
  <2>6. D \ U # {} /\ D \ U \in SUBSET Nat
    BY <2>3, <2>5
  <2>7. PICK n \in D \ U : \A e \in D \ U : n <= e
    <3> DEFINE V == D \ U
    <3>1. V # {} /\ V \in SUBSET Nat
      BY <2>6
    <3> HIDE DEF V
    <3>2. Min(V) \in V /\ \A e \in V : Min(V) <= e
      BY <3>1, MinProperty
    <3>3. QED
      BY <3>2 DEF V
  <2>8. n \in Nat /\ d \in Nat /\ d < n
    BY <2>3, <2>7 DEF Below
  <2>9. \A e \in D : e < n <=> e < d \/ e = d
    <3> SUFFICES ASSUME NEW e \in D PROVE e < n <=> e < d \/ e = d
      OBVIOUS
    <3>1. e \in Nat
      OBVIOUS
    <3>2. e < n => e \in U
      BY <2>7, <2>8, <3>1
    <3>3. e \in U <=> e < d \/ e = d
      BY Zenon DEF Below
    <3>4. QED
      BY <2>8, <3>1, <3>2, <3>3
  <2>10. \A e : e \in Below(D, n) <=> e \in U
    BY <2>9, Zenon DEF Below
  <2>11. Below(D, n) = U
    BY <2>10, Zenon
  <2>12. n \in D /\ Cardinality(Below(D, n)) = m - 1
    BY <2>4, <2>7, <2>11, Zenon
  <2>13. QED
    BY <1>4, <2>12, Zenon
<1>7. QED
  BY <1>5, <1>6

LEMMA AscendingProperties ==
  ASSUME NEW D \in SUBSET Nat, IsFiniteSet(D)
  PROVE  /\ Ascending(D) \in Seq(D) /\ Len(Ascending(D)) = Cardinality(D)
         /\ Cardinality(D) \in Nat
         /\ \A i, j \in 1..Cardinality(D) : i < j => Ascending(D)[i] < Ascending(D)[j]
         /\ \A d \in D : \E i \in 1..Cardinality(D) : Ascending(D)[i] = d
<1> DEFINE n == Cardinality(D)
           s == Ascending(D)
<1>1. n \in Nat
  BY FS_CardinalityType
<1>2. \A i \in 1..n : s[i] = CHOOSE d \in D : Cardinality(Below(D, d)) = i - 1
  BY DEF Ascending, Below
<1>3. DOMAIN s = 1..n
  BY DEF Ascending
<1>4. \A i \in 1..n : s[i] \in D /\ Cardinality(Below(D, s[i])) = i - 1
  <2> SUFFICES ASSUME NEW i \in 1..n
               PROVE  s[i] \in D /\ Cardinality(Below(D, s[i])) = i - 1
    OBVIOUS
  <2>1. \E d \in D : Cardinality(Below(D, d)) = i - 1
    BY RankExists
  <2>2. s[i] = CHOOSE d \in D : Cardinality(Below(D, d)) = i - 1
    BY <1>2
  <2> HIDE DEF s
  <2>3. QED
    BY <2>1, <2>2
<1>5. s \in [1..n -> D]
  <2>1. \A i \in 1..n : (CHOOSE d \in D : Cardinality({e \in D : e < d}) = i - 1) \in D
    BY RankExists DEF Below
  <2>2. QED
    BY <2>1 DEF Ascending
<1> HIDE DEF s, n
<1>6. s \in Seq(D) /\ Len(s) = n
  BY <1>1, <1>5
<1>7. \A d \in D : /\ d \in Nat /\ IsFiniteSet(Below(D, d)) /\ Cardinality(Below(D, d)) \in Nat
                    /\ d \notin Below(D, d) /\ Below(D, d) \subseteq D
  <2> SUFFICES ASSUME NEW d \in D
               PROVE  /\ IsFiniteSet(Below(D, d)) /\ Cardinality(Below(D, d)) \in Nat
                      /\ d \notin Below(D, d) /\ Below(D, d) \subseteq D
    OBVIOUS
  <2>1. Below(D, d) \subseteq D /\ d \notin Below(D, d)
    BY DEF Below
  <2>2. QED
    BY <2>1, FS_Subset, FS_CardinalityType
<1>8. ASSUME NEW d \in D, NEW e \in D, ~(d < e)
      PROVE  Cardinality(Below(D, e)) <= Cardinality(Below(D, d))
  <2>0. \A b \in D : b \in Nat /\ (b < e => b < d)
    BY <1>8
  <2>1. Below(D, e) \subseteq Below(D, d)
    BY <2>0, Zenon DEF Below
  <2>2. QED
    BY <1>7, <2>1, FS_Subset
<1>9. ASSUME NEW d \in D, NEW e \in D, d < e
      PROVE  Cardinality(Below(D, d)) < Cardinality(Below(D, e))
  <2> DEFINE U == Below(D, d) \cup {d}
  <2>0. \A b \in D : b < d => b < e
    BY <1>9
  <2>1. U \subseteq Below(D, e)
    BY <1>9, <2>0, Zenon DEF Below
  <2>2. Cardinality(U) = Cardinality(Below(D, d)) + 1
    BY <1>7, FS_AddElement
  <2>3. Cardinality(U) <= Cardinality(Below(D, e))
    BY <1>7, <2>1, FS_Subset
  <2>4. QED
    BY <1>7, <2>2, <2>3
<1>10. ASSUME NEW i \in 1..n, NEW j \in 1..n, i < j PROVE s[i] < s[j]
  <2>1. s[i] \in D /\ s[j] \in D /\ ~(Cardinality(Below(D, s[j])) <= Cardinality(Below(D, s[i])))
    BY <1>4, <1>10
  <2>2. QED
    BY <1>8, <2>1
<1>11. ASSUME NEW d \in D PROVE \E i \in 1..n : s[i] = d
  <2> DEFINE i == Cardinality(Below(D, d)) + 1
             U == Below(D, d) \cup {d}
  <2>1. U \subseteq D /\ Cardinality(U) = i
    BY <1>7, FS_AddElement
  <2>2. i <= n
    BY <2>1, FS_Subset DEF n
  <2>3. i \in 1..n
    BY <1>1, <1>7, <2>2
  <2>4. s[i] \in D /\ Cardinality(Below(D, s[i])) = i - 1 /\ i - 1 = Cardinality(Below(D, d))
    BY <1>4, <1>7, <2>3
  <2>5. PICK e \in D : e = s[i]
    BY <2>4
  <2>6. Cardinality(Below(D, e)) = Cardinality(Below(D, d))
    BY <2>4, <2>5
  <2> HIDE DEF i
  <2>8. ~(e < d) /\ ~(d < e)
    BY <1>7, <1>9, <2>6
  <2>9. e = d
    BY <1>7, <2>8
  <2>10. QED
    BY <2>3, <2>5, <2>9
<1>12. QED
  BY <1>1, <1>6, <1>10, <1>11 DEF s, n

LEMMA AscendingType ==
  ASSUME NEW D \in SUBSET Docs
  PROVE  Ascending(D) \in Seq(D) /\ Len(Ascending(D)) \in Nat
<1>1. D \in SUBSET Nat /\ IsFiniteSet(D)
  BY DocsAssumption, FS_Subset
<1>2. QED
  BY <1>1, AscendingProperties

\* What is left of a queue is all that it has of those kinds, in its order.
IsSelection(at, r, q, kinds) ==
  /\ \A j \in 1..Len(r) : /\ at[j] \in 1..Len(q)
                          /\ r[j] = q[at[j]] /\ q[at[j]].kind \in kinds
  /\ \A i, j \in 1..Len(r) : i < j => at[i] < at[j]
  /\ \A i \in 1..Len(q) : q[i].kind \in kinds => \E j \in 1..Len(r) : at[j] = i

LEMMA OfKindsElements ==
  ASSUME NEW S, NEW q \in Seq(S), NEW kinds
  PROVE  LET r == OfKinds(q, kinds)
         IN r \in Seq(S) /\ Len(r) \in Nat /\ \E at : IsSelection(at, r, q, kinds)
<1> DEFINE D == {i \in DOMAIN q : q[i].kind \in kinds}
           at == Ascending(D)
           r == OfKinds(q, kinds)
<1>1. Len(q) \in Nat /\ DOMAIN q = 1..Len(q)
  BY LenProperties
<1>2. D \in SUBSET Nat /\ D \subseteq 1..Len(q) /\ IsFiniteSet(D)
  <2>1. D \subseteq 1..Len(q) /\ D \in SUBSET Nat
    BY <1>1
  <2>2. IsFiniteSet(1..Len(q))
    BY <1>1, FS_Interval
  <2>3. QED
    BY <2>1, <2>2, FS_Subset
<1>3. /\ at \in Seq(D) /\ Len(at) \in Nat
      /\ \A i, j \in 1..Len(at) : i < j => at[i] < at[j]
      /\ \A d \in D : \E i \in 1..Len(at) : at[i] = d
  <2> HIDE DEF D
  <2>1. /\ Ascending(D) \in Seq(D) /\ Len(Ascending(D)) = Cardinality(D) /\ Cardinality(D) \in Nat
        /\ \A i, j \in 1..Cardinality(D) : i < j => Ascending(D)[i] < Ascending(D)[j]
        /\ \A d \in D : \E i \in 1..Cardinality(D) : Ascending(D)[i] = d
    BY <1>2, AscendingProperties
  <2>2. QED
    BY <2>1
<1>4. \A i \in 1..Len(at) : at[i] \in 1..Len(q) /\ q[at[i]].kind \in kinds /\ q[at[i]] \in S
  <2>1. \A i \in 1..Len(at) : at[i] \in D
    BY <1>3, ElementOfSeq
  <2>2. \A i \in D : i \in 1..Len(q) /\ q[i].kind \in kinds /\ q[i] \in S
    BY <1>1, ElementOfSeq
  <2> HIDE DEF at, D
  <2>3. QED
    BY <2>1, <2>2
<1>5. r = [j \in DOMAIN at |-> q[at[j]]]
  BY DEF OfKinds
<1>6. DOMAIN at = 1..Len(at)
  BY <1>3, LenProperties
<1>7. \A i \in 1..Len(q) : q[i].kind \in kinds => \E j \in 1..Len(at) : at[j] = i
  BY <1>1, <1>3
<1> HIDE DEF at, r
<1>8. r \in Seq(S) /\ Len(r) = Len(at) /\ \A j \in 1..Len(at) : r[j] = q[at[j]]
  BY <1>3, <1>4, <1>5, <1>6
<1>9. IsSelection(at, r, q, kinds)
  BY <1>3, <1>4, <1>7, <1>8 DEF IsSelection
<1>10. QED
  BY <1>3, <1>8, <1>9 DEF r

-----------------------------------------------------------------------------
(***************************************************************************)
(* Tasks and blocks                                                        *)
(***************************************************************************)
LEMMA TaskShapes ==
  /\ \A d \in Own : [kind |-> "write", doc |-> d] \in Tasks
  /\ [kind |-> "listen"] \in Tasks
  /\ \A u \in BOOLEAN : [kind |-> "user", isUser |-> u] \in Tasks
  /\ \A t \in Tasks : t.kind = "user" => t.isUser \in BOOLEAN
  /\ \A t \in Tasks : t.kind = "write" => t.doc \in Own
  BY DEF Tasks

LEMMA BlockShapes ==
  /\ \A d \in Own, r \in {"ok", "refused"} :
       [kind |-> "completion", doc |-> d, result |-> r] \in Blocks
  /\ \A k \in Nat : [kind |-> "event", snap |-> k] \in Blocks
  /\ \A k \in Nat, d \in Docs : [kind |-> "append", snap |-> k, doc |-> d] \in Blocks
  /\ ReloadBlock \in Blocks /\ ReloadBlock.kind = "reload"
  /\ \A b \in Blocks : b.kind = "completion" => b.doc \in Own /\ b.result \in {"ok", "refused"}
  /\ \A b \in Blocks : b.kind = "event" => b.snap \in Nat
  /\ \A b \in Blocks : b.kind = "append" => b.snap \in Nat /\ b.doc \in Docs
  BY DEF Blocks, ReloadBlock

LEMMA HistoriesType ==
  ASSUME NEW D \in SUBSET Docs
  PROVE  Histories(D) \in Seq(Docs) /\ Len(Histories(D)) \in Nat
<1>1. D \ Malformed \in SUBSET Docs
  OBVIOUS
<1>2. Histories(D) \in Seq(D \ Malformed) /\ Len(Histories(D)) \in Nat
  BY <1>1, AscendingType DEF Histories
<1>3. QED
  BY <1>1, <1>2

\* The blocks of a snapshot: one per well-formed document, in their order.
LEMMA AppendBlocksShape ==
  ASSUME NEW k \in Nat, snaps[k] \in SUBSET Docs
  PROVE  LET t == Histories(snaps[k])
         IN /\ AppendBlocks(k) \in Seq(Blocks) /\ Len(AppendBlocks(k)) = Len(t)
            /\ \A i \in 1..Len(t) :
                 AppendBlocks(k)[i] = [kind |-> "append", snap |-> k, doc |-> t[i]]
<1> DEFINE t == Histories(snaps[k])
           f == [i \in 1..Len(t) |-> [kind |-> "append", snap |-> k, doc |-> t[i]]]
<1>1. t \in Seq(Docs) /\ Len(t) \in Nat
  BY HistoriesType
<1>2. AppendBlocks(k) = f
  BY DEF AppendBlocks
<1> HIDE DEF t
<1>3. \A i \in 1..Len(t) : t[i] \in Docs
  BY <1>1, ElementOfSeq
<1>4. \A i \in 1..Len(t) : f[i] \in Blocks
  BY <1>3, BlockShapes
<1> SUFFICES /\ AppendBlocks(k) \in Seq(Blocks) /\ Len(AppendBlocks(k)) = Len(t)
             /\ \A i \in 1..Len(t) :
                  AppendBlocks(k)[i] = [kind |-> "append", snap |-> k, doc |-> t[i]]
  BY DEF t
<1>5. f \in Seq(Blocks) /\ Len(f) = Len(t)
  BY <1>1, <1>4
<1>6. QED
  BY <1>2, <1>5

-----------------------------------------------------------------------------
(***************************************************************************)
(* The main queue.  q is a queue of blocks, h the number of snapshots that *)
(* have been brought in, n the number of those raised.                     *)
(***************************************************************************)
IsEvent(b) == b.kind = "event"
IsAppend(b, k) == b.kind = "append" /\ b.snap = k

\* Exactly the snapshots not yet brought in wait on the queue, in their order.
EventsInOrder(q, h, n) ==
  /\ h \in Nat /\ n \in Nat /\ h <= n
  /\ \A i \in 1..Len(q) : IsEvent(q[i]) => q[i].snap \in (h + 1)..n
  /\ \A i, j \in 1..Len(q) :
       IsEvent(q[i]) /\ IsEvent(q[j]) /\ i < j => q[i].snap < q[j].snap
  /\ \A m \in (h + 1)..n : \E i \in 1..Len(q) : IsEvent(q[i]) /\ q[i].snap = m

\* Blocks other than events do not disturb the order.
LEMMA EventsBeforeOthers ==
  ASSUME NEW q \in Seq(Blocks), NEW b \in Seq(Blocks), NEW h, NEW n,
         EventsInOrder(q, h, n), \A i \in 1..Len(b) : ~IsEvent(b[i])
  PROVE  EventsInOrder(q \o b, h, n)
<1> DEFINE r == q \o b
<1>1. Len(q) \in Nat /\ Len(b) \in Nat
  BY LenProperties
<1>2. /\ Len(r) = Len(q) + Len(b)
      /\ \A i \in 1..(Len(q) + Len(b)) : r[i] = IF i <= Len(q) THEN q[i] ELSE b[i - Len(q)]
  BY ConcatProperties
<1> HIDE DEF r
<1>3. \A i \in 1..Len(q) : i \in 1..Len(r) /\ r[i] = q[i]
  BY <1>1, <1>2
<1>4. \A i \in 1..Len(r) : IsEvent(r[i]) => i \in 1..Len(q)
  <2> SUFFICES ASSUME NEW i \in 1..Len(r), ~(i <= Len(q)) PROVE ~IsEvent(r[i])
    BY <1>1, <1>2
  <2>1. i - Len(q) \in 1..Len(b) /\ r[i] = b[i - Len(q)]
    BY <1>1, <1>2
  <2>2. QED
    BY <2>1
<1>5. EventsInOrder(r, h, n)
  BY <1>3, <1>4 DEF EventsInOrder
<1>6. QED
  BY <1>5 DEF r

\* A snapshot that is raised is the last to wait.
LEMMA EventsAfterSnapshot ==
  ASSUME NEW q \in Seq(Blocks), NEW h, NEW n, EventsInOrder(q, h, n)
  PROVE  EventsInOrder(q \o <<[kind |-> "event", snap |-> n + 1]>>, h, n + 1)
<1> DEFINE e == [kind |-> "event", snap |-> n + 1]
           r == q \o <<e>>
<1>0. h \in Nat /\ n \in Nat /\ h <= n
  BY DEF EventsInOrder
<1>1. Len(q) \in Nat /\ e \in Blocks /\ IsEvent(e) /\ e.snap = n + 1
  BY <1>0, LenProperties, BlockShapes DEF IsEvent
<1>2. /\ Len(r) = Len(q) + 1 /\ r[Len(q) + 1] = e
      /\ \A i \in 1..Len(q) : r[i] = q[i]
  <2>1. <<e>> \in Seq(Blocks) /\ Len(<<e>>) = 1 /\ <<e>>[1] = e
    BY <1>1
  <2> HIDE DEF e
  <2>2. /\ Len(r) = Len(q) + Len(<<e>>)
        /\ \A i \in 1..(Len(q) + Len(<<e>>)) :
             r[i] = IF i <= Len(q) THEN q[i] ELSE <<e>>[i - Len(q)]
    BY <2>1, ConcatProperties
  <2> HIDE DEF r
  <2>3. QED
    BY <1>1, <2>1, <2>2
<1> HIDE DEF e, r
<1>3. \A i \in 1..Len(r) : i \in 1..Len(q) \/ i = Len(q) + 1
  BY <1>1, <1>2
<1>4. \A i \in 1..Len(q) : i \in 1..Len(r) /\ i < Len(q) + 1 /\ Len(q) + 1 \in 1..Len(r)
  BY <1>1, <1>2
<1>5. \A i \in 1..Len(r) : IsEvent(r[i]) => r[i].snap \in (h + 1)..(n + 1)
  <2> SUFFICES ASSUME NEW i \in 1..Len(r), IsEvent(r[i])
               PROVE  r[i].snap \in (h + 1)..(n + 1)
    OBVIOUS
  <2>1. CASE i \in 1..Len(q)
    <3>1. r[i].snap \in (h + 1)..n
      BY <1>2, <2>1 DEF EventsInOrder
    <3>2. QED
      BY <1>0, <3>1
  <2>2. CASE i = Len(q) + 1
    BY <1>0, <1>1, <1>2, <2>2
  <2>3. QED
    BY <1>3, <2>1, <2>2
<1>6. \A i, j \in 1..Len(r) :
        IsEvent(r[i]) /\ IsEvent(r[j]) /\ i < j => r[i].snap < r[j].snap
  <2> SUFFICES ASSUME NEW i \in 1..Len(r), NEW j \in 1..Len(r),
                      IsEvent(r[i]), IsEvent(r[j]), i < j
               PROVE  r[i].snap < r[j].snap
    OBVIOUS
  <2>1. i \in 1..Len(q)
    BY <1>1, <1>2
  <2>2. r[i].snap \in (h + 1)..n
    BY <1>2, <2>1 DEF EventsInOrder
  <2>3. CASE j \in 1..Len(q)
    BY <1>2, <2>1, <2>3 DEF EventsInOrder
  <2>4. CASE j = Len(q) + 1
    BY <1>0, <1>1, <1>2, <2>2, <2>4
  <2>5. QED
    BY <1>3, <2>3, <2>4
<1>7. \A m \in (h + 1)..(n + 1) : \E i \in 1..Len(r) : IsEvent(r[i]) /\ r[i].snap = m
  <2> SUFFICES ASSUME NEW m \in (h + 1)..(n + 1)
               PROVE  \E i \in 1..Len(r) : IsEvent(r[i]) /\ r[i].snap = m
    OBVIOUS
  <2>1. CASE m = n + 1
    <3>1. Len(q) + 1 \in 1..Len(r)
      BY <1>1, <1>2
    <3>2. QED
      BY <1>1, <1>2, <2>1, <3>1
  <2>2. CASE m # n + 1
    <3>1. m \in (h + 1)..n
      BY <1>0, <2>2
    <3>2. PICK i \in 1..Len(q) : IsEvent(q[i]) /\ q[i].snap = m
      BY <3>1 DEF EventsInOrder
    <3>3. QED
      BY <1>2, <1>4, <3>2
  <2>3. QED
    BY <2>1, <2>2
<1>8. EventsInOrder(r, h, n + 1)
  <2>1. n + 1 \in Nat /\ h <= n + 1
    BY <1>0
  <2>2. QED
    BY <1>0, <1>5, <1>6, <1>7, <2>1 DEF EventsInOrder
<1>9. QED
  BY <1>8 DEF r, e

\* Running another block leaves the snapshots that wait.
LEMMA EventsAfterOther ==
  ASSUME NEW q \in Seq(Blocks), NEW h, NEW n, EventsInOrder(q, h, n),
         q # <<>>, ~IsEvent(Head(q))
  PROVE  EventsInOrder(Tail(q), h, n)
<1> DEFINE r == Tail(q)
<1>1. /\ Head(q) = q[1] /\ Len(r) = Len(q) - 1 /\ Len(q) \in Nat
      /\ \A i \in 1..Len(r) : i + 1 \in 1..Len(q) /\ r[i] = q[i + 1]
  BY TailElements, LenProperties
<1> HIDE DEF r
<1>2. ASSUME NEW i \in 1..Len(q), IsEvent(q[i])
      PROVE  i - 1 \in 1..Len(r) /\ r[i - 1] = q[i]
  <2>1. i # 1
    BY <1>1, <1>2
  <2>2. i - 1 \in 1..Len(r) /\ (i - 1) + 1 = i
    BY <1>1, <2>1
  <2>3. QED
    BY <1>1, <2>2
<1>3. \A i \in 1..Len(r) : IsEvent(r[i]) => r[i].snap \in (h + 1)..n
  BY <1>1 DEF EventsInOrder
<1>4. \A i, j \in 1..Len(r) :
        IsEvent(r[i]) /\ IsEvent(r[j]) /\ i < j => r[i].snap < r[j].snap
  <2> SUFFICES ASSUME NEW i \in 1..Len(r), NEW j \in 1..Len(r),
                      IsEvent(r[i]), IsEvent(r[j]), i < j
               PROVE  r[i].snap < r[j].snap
    OBVIOUS
  <2>1. i + 1 < j + 1
    OBVIOUS
  <2>2. QED
    BY <1>1, <2>1 DEF EventsInOrder
<1>5. \A m \in (h + 1)..n : \E i \in 1..Len(r) : IsEvent(r[i]) /\ r[i].snap = m
  <2> SUFFICES ASSUME NEW m \in (h + 1)..n
               PROVE  \E i \in 1..Len(r) : IsEvent(r[i]) /\ r[i].snap = m
    OBVIOUS
  <2>1. PICK i \in 1..Len(q) : IsEvent(q[i]) /\ q[i].snap = m
    BY DEF EventsInOrder
  <2>2. QED
    BY <1>2, <2>1
<1>6. EventsInOrder(r, h, n)
  BY <1>3, <1>4, <1>5 DEF EventsInOrder
<1>7. QED
  BY <1>6 DEF r

\* A snapshot that is brought in is the one after those brought in before.
LEMMA EventsAfterEvent ==
  ASSUME NEW q \in Seq(Blocks), NEW h, NEW n, EventsInOrder(q, h, n),
         q # <<>>, IsEvent(Head(q))
  PROVE  Head(q).snap = h + 1 /\ h + 1 <= n /\ EventsInOrder(Tail(q), h + 1, n)
<1> DEFINE r == Tail(q)
<1>0. h \in Nat /\ n \in Nat /\ h <= n
  BY DEF EventsInOrder
<1>1. /\ Head(q) = q[1] /\ 1 \in 1..Len(q) /\ Len(r) = Len(q) - 1 /\ Len(q) \in Nat
      /\ \A i \in 1..Len(r) : i + 1 \in 1..Len(q) /\ r[i] = q[i + 1]
  BY TailElements, LenProperties
<1> HIDE DEF r
<1>2. q[1].snap \in (h + 1)..n
  BY <1>1 DEF EventsInOrder
<1>3. q[1].snap = h + 1
  <2>1. h + 1 \in (h + 1)..n
    BY <1>0, <1>2
  <2>2. PICK i \in 1..Len(q) : IsEvent(q[i]) /\ q[i].snap = h + 1
    BY <2>1 DEF EventsInOrder
  <2>3. CASE i = 1
    BY <2>2, <2>3
  <2>4. CASE i # 1
    <3>1. 1 < i
      BY <2>4
    <3>2. q[1].snap < q[i].snap
      BY <1>1, <2>2, <3>1 DEF EventsInOrder
    <3>3. QED
      BY <1>0, <1>2, <2>2, <3>2
  <2>5. QED
    BY <2>3, <2>4
<1>4. ASSUME NEW i \in 1..Len(q), i # 1
      PROVE  i - 1 \in 1..Len(r) /\ r[i - 1] = q[i]
  <2>1. i - 1 \in 1..Len(r) /\ (i - 1) + 1 = i
    BY <1>1, <1>4
  <2>2. QED
    BY <1>1, <2>1
<1>5. \A i \in 1..Len(r) : IsEvent(r[i]) => r[i].snap \in (h + 2)..n
  <2> SUFFICES ASSUME NEW i \in 1..Len(r), IsEvent(r[i]) PROVE r[i].snap \in (h + 2)..n
    OBVIOUS
  <2>1. i + 1 \in 1..Len(q) /\ IsEvent(q[i + 1]) /\ 1 < i + 1 /\ IsEvent(q[1])
    BY <1>1
  <2>2. q[i + 1].snap \in (h + 1)..n /\ q[1].snap < q[i + 1].snap
    BY <1>1, <2>1 DEF EventsInOrder
  <2>3. QED
    BY <1>0, <1>1, <1>3, <2>2
<1>6. \A i, j \in 1..Len(r) :
        IsEvent(r[i]) /\ IsEvent(r[j]) /\ i < j => r[i].snap < r[j].snap
  <2> SUFFICES ASSUME NEW i \in 1..Len(r), NEW j \in 1..Len(r),
                      IsEvent(r[i]), IsEvent(r[j]), i < j
               PROVE  r[i].snap < r[j].snap
    OBVIOUS
  <2>1. i + 1 < j + 1
    OBVIOUS
  <2>2. QED
    BY <1>1, <2>1 DEF EventsInOrder
<1>7. \A m \in (h + 2)..n : \E i \in 1..Len(r) : IsEvent(r[i]) /\ r[i].snap = m
  <2> SUFFICES ASSUME NEW m \in (h + 2)..n
               PROVE  \E i \in 1..Len(r) : IsEvent(r[i]) /\ r[i].snap = m
    OBVIOUS
  <2>1. m \in (h + 1)..n /\ m # h + 1
    BY <1>0
  <2>2. PICK i \in 1..Len(q) : IsEvent(q[i]) /\ q[i].snap = m
    BY <2>1 DEF EventsInOrder
  <2>3. i # 1
    BY <1>3, <2>1, <2>2
  <2>4. QED
    BY <1>4, <2>2, <2>3
<1>8. h + 1 \in Nat /\ h + 1 <= n /\ (h + 1) + 1 = h + 2
  BY <1>0, <1>2
<1>9. EventsInOrder(r, h + 1, n)
  BY <1>0, <1>5, <1>6, <1>7, <1>8 DEF EventsInOrder
<1>10. QED
  BY <1>1, <1>3, <1>8, <1>9 DEF r

\* The blocks of snapshot k stand together on the queue, from s + 1 on, and add
\* to h exactly the documents by which it is still short of t.
RunFrom(q, k, h, t, s) ==
  /\ s + (Len(t) - Len(h)) <= Len(q)
  /\ \A i \in 1..Len(q) : IsAppend(q[i], k) <=> s < i /\ i <= s + (Len(t) - Len(h))
  /\ \A i \in 1..Len(q) : IsAppend(q[i], k) => q[i].doc = t[i - s + Len(h)]
Beginning(h, t) == Len(h) <= Len(t) /\ \A i \in 1..Len(h) : h[i] = t[i]
RunInOrder(q, k, h, t) == Beginning(h, t) /\ \E s \in Nat : RunFrom(q, k, h, t, s)

\* Other blocks that are posted do not disturb a run.
LEMMA RunBeforeOthers ==
  ASSUME NEW q \in Seq(Blocks), NEW b \in Seq(Blocks), NEW k, NEW h, NEW t,
         Len(h) \in Nat, Len(t) \in Nat,
         RunInOrder(q, k, h, t), \A i \in 1..Len(b) : ~IsAppend(b[i], k)
  PROVE  RunInOrder(q \o b, k, h, t)
<1> DEFINE r == q \o b
<1>1. Len(q) \in Nat /\ Len(b) \in Nat
  BY LenProperties
<1>2. /\ Len(r) = Len(q) + Len(b)
      /\ \A i \in 1..(Len(q) + Len(b)) : r[i] = IF i <= Len(q) THEN q[i] ELSE b[i - Len(q)]
  BY ConcatProperties
<1> HIDE DEF r
<1>3. \A i \in 1..Len(q) : i \in 1..Len(r) /\ r[i] = q[i]
  BY <1>1, <1>2
<1>4. \A i \in 1..Len(r) : i \notin 1..Len(q) => Len(q) < i /\ ~IsAppend(r[i], k)
  <2> SUFFICES ASSUME NEW i \in 1..Len(r), ~(i <= Len(q)) PROVE Len(q) < i /\ ~IsAppend(r[i], k)
    BY <1>1, <1>2
  <2>1. i - Len(q) \in 1..Len(b) /\ r[i] = b[i - Len(q)] /\ Len(q) < i
    BY <1>1, <1>2
  <2>2. QED
    BY <2>1
<1>5. PICK s \in Nat : RunFrom(q, k, h, t, s)
  BY DEF RunInOrder
<1>6. RunFrom(r, k, h, t, s)
  <2> DEFINE last == s + (Len(t) - Len(h))
  <2>1. last \in Int /\ last <= Len(q) /\ last <= Len(r)
    BY <1>1, <1>2, <1>5 DEF RunFrom
  <2>2. \A i \in 1..Len(q) : /\ IsAppend(q[i], k) <=> s < i /\ i <= last
                             /\ IsAppend(q[i], k) => q[i].doc = t[i - s + Len(h)]
    BY <1>5 DEF RunFrom
  <2> HIDE DEF last
  <2>3. ASSUME NEW i \in 1..Len(r)
        PROVE  /\ IsAppend(r[i], k) <=> s < i /\ i <= last
               /\ IsAppend(r[i], k) => r[i].doc = t[i - s + Len(h)]
    <3>1. CASE i \in 1..Len(q)
      BY <1>3, <2>2, <3>1
    <3>2. CASE i \notin 1..Len(q)
      <4>1. Len(q) < i /\ ~IsAppend(r[i], k)
        BY <1>4, <3>2
      <4>2. ~(i <= last)
        BY <1>1, <2>1, <4>1
      <4>3. QED
        BY <4>1, <4>2
    <3>3. QED
      BY <3>1, <3>2
  <2>4. QED
    BY <2>1, <2>3 DEF RunFrom, last
<1>7. QED
  BY <1>6 DEF RunInOrder, r

\* Running a block of another snapshot, or of another kind, moves a run up.
LEMMA RunAfterOther ==
  ASSUME NEW q \in Seq(Blocks), NEW k, NEW h, NEW t, Len(h) \in Nat, Len(t) \in Nat,
         RunInOrder(q, k, h, t), q # <<>>, ~IsAppend(Head(q), k)
  PROVE  RunInOrder(Tail(q), k, h, t)
<1> DEFINE r == Tail(q)
<1>1. /\ Head(q) = q[1] /\ 1 \in 1..Len(q) /\ Len(r) = Len(q) - 1 /\ Len(q) \in Nat
      /\ \A i \in 1..Len(r) : i + 1 \in 1..Len(q) /\ r[i] = q[i + 1]
  BY TailElements, LenProperties
<1> HIDE DEF r
<1>2. PICK s \in Nat : RunFrom(q, k, h, t, s)
  BY DEF RunInOrder
<1>3. /\ Len(h) <= Len(t) /\ s + (Len(t) - Len(h)) <= Len(q)
      /\ \A i \in 1..Len(q) : IsAppend(q[i], k) <=> s < i /\ i <= s + (Len(t) - Len(h))
      /\ \A i \in 1..Len(q) : IsAppend(q[i], k) => q[i].doc = t[i - s + Len(h)]
  BY <1>2 DEF RunInOrder, Beginning, RunFrom
<1>4. CASE s = 0
  <2>1. Len(t) = Len(h)
    BY <1>1, <1>3, <1>4
  <2>2. \A i \in 1..Len(r) : ~IsAppend(r[i], k)
    BY <1>1, <1>3, <1>4, <2>1
  <2>3. RunFrom(r, k, h, t, 0)
    <3>1. 0 + (Len(t) - Len(h)) = 0 /\ 0 <= Len(r)
      BY <1>1, <2>1
    <3>2. \A i \in 1..Len(r) : ~(0 < i /\ i <= 0)
      OBVIOUS
    <3>3. QED
      BY <2>2, <3>1, <3>2 DEF RunFrom
  <2>4. QED
    BY <2>3 DEF RunInOrder, r
<1>5. CASE s # 0
  <2>1. s - 1 \in Nat /\ (s - 1) + (Len(t) - Len(h)) <= Len(r)
    BY <1>1, <1>3, <1>5
  <2>2. ASSUME NEW i \in 1..Len(r)
        PROVE  /\ IsAppend(r[i], k) <=> s - 1 < i /\ i <= (s - 1) + (Len(t) - Len(h))
               /\ IsAppend(r[i], k) => r[i].doc = t[i - (s - 1) + Len(h)]
    <3>1. i + 1 \in 1..Len(q) /\ r[i] = q[i + 1]
      BY <1>1
    <3>2. /\ IsAppend(q[i + 1], k) <=> s < i + 1 /\ i + 1 <= s + (Len(t) - Len(h))
          /\ IsAppend(q[i + 1], k) => q[i + 1].doc = t[(i + 1) - s + Len(h)]
      BY <1>3, <3>1
    <3>3. (i + 1) - s + Len(h) = i - (s - 1) + Len(h)
      OBVIOUS
    <3>4. s < i + 1 /\ i + 1 <= s + (Len(t) - Len(h))
            <=> s - 1 < i /\ i <= (s - 1) + (Len(t) - Len(h))
      OBVIOUS
    <3>5. QED
      BY <3>1, <3>2, <3>3, <3>4
  <2>3. RunFrom(r, k, h, t, s - 1)
    BY <2>1, <2>2 DEF RunFrom
  <2>4. QED
    BY <2>1, <2>3, <1>2 DEF RunInOrder, r
<1>6. QED
  BY <1>4, <1>5

\* Running a block of the run adds the next document of t.
LEMMA RunAfterItsOwn ==
  ASSUME NEW q \in Seq(Blocks), NEW k, NEW h \in Seq(Docs), NEW t \in Seq(Docs),
         RunInOrder(q, k, h, t), q # <<>>, IsAppend(Head(q), k)
  PROVE  RunInOrder(Tail(q), k, Append(h, Head(q).doc), t)
<1> DEFINE r == Tail(q)
           g == Append(h, Head(q).doc)
<1>0. Len(h) \in Nat /\ Len(t) \in Nat
  BY LenProperties
<1>1. /\ Head(q) \in Blocks /\ Head(q) = q[1] /\ 1 \in 1..Len(q)
      /\ Len(r) = Len(q) - 1 /\ Len(q) \in Nat
      /\ \A i \in 1..Len(r) : i + 1 \in 1..Len(q) /\ r[i] = q[i + 1]
  BY TailElements, LenProperties
<1>2. Head(q).doc \in Docs
  BY <1>1, BlockShapes DEF IsAppend
<1>3. Len(g) = Len(h) + 1 /\ g[Len(h) + 1] = Head(q).doc /\ \A i \in 1..Len(h) : g[i] = h[i]
  BY <1>2, AppendProperties
<1> HIDE DEF r, g
<1>4. PICK s \in Nat : RunFrom(q, k, h, t, s)
  BY DEF RunInOrder
<1>5. /\ s + (Len(t) - Len(h)) <= Len(q)
      /\ \A i \in 1..Len(q) : IsAppend(q[i], k) <=> s < i /\ i <= s + (Len(t) - Len(h))
      /\ \A i \in 1..Len(q) : IsAppend(q[i], k) => q[i].doc = t[i - s + Len(h)]
  BY <1>4 DEF RunFrom
<1>6. s < 1 /\ 1 <= s + (Len(t) - Len(h)) /\ q[1].doc = t[1 - s + Len(h)]
  BY <1>1, <1>5
<1>7. s = 0 /\ Len(h) + 1 <= Len(t) /\ q[1].doc = t[Len(h) + 1]
  <2>1. s = 0
    BY <1>6
  <2>2. 1 - s + Len(h) = Len(h) + 1
    BY <1>0, <2>1
  <2>3. QED
    BY <1>0, <1>6, <2>1, <2>2
<1>8. Beginning(g, t)
  <2> SUFFICES ASSUME NEW i \in 1..Len(g) PROVE g[i] = t[i]
    BY <1>3, <1>7 DEF Beginning
  <2>1. CASE i \in 1..Len(h)
    BY <1>3, <2>1 DEF RunInOrder, Beginning
  <2>2. CASE i = Len(h) + 1
    BY <1>1, <1>3, <1>7, <2>2
  <2>3. QED
    BY <1>0, <1>3, <2>1, <2>2
<1>9. RunFrom(r, k, g, t, 0)
  <2>1. 0 + (Len(t) - Len(g)) <= Len(r)
    BY <1>0, <1>1, <1>3, <1>5, <1>7
  <2>2. ASSUME NEW i \in 1..Len(r)
        PROVE  /\ IsAppend(r[i], k) <=> 0 < i /\ i <= 0 + (Len(t) - Len(g))
               /\ IsAppend(r[i], k) => r[i].doc = t[i - 0 + Len(g)]
    <3>1. i + 1 \in 1..Len(q) /\ r[i] = q[i + 1]
      BY <1>1
    <3>2. /\ IsAppend(q[i + 1], k) <=> s < i + 1 /\ i + 1 <= s + (Len(t) - Len(h))
          /\ IsAppend(q[i + 1], k) => q[i + 1].doc = t[(i + 1) - s + Len(h)]
      BY <1>5, <3>1
    <3>3. (i + 1) - s + Len(h) = i - 0 + Len(g)
      BY <1>0, <1>3, <1>7
    <3>4. s < i + 1 /\ i + 1 <= s + (Len(t) - Len(h)) <=> 0 < i /\ i <= 0 + (Len(t) - Len(g))
      BY <1>0, <1>3, <1>7
    <3>5. QED
      BY <3>1, <3>2, <3>3, <3>4
  <2>3. QED
    BY <2>1, <2>2 DEF RunFrom
<1>10. QED
  BY <1>8, <1>9 DEF RunInOrder, r, g

LEMMA BlocksConcat ==
  \A q, b \in Seq(Blocks) :
    /\ Len(q \o b) = Len(q) + Len(b)
    /\ \A i \in 1..(Len(q) + Len(b)) :
         (q \o b)[i] = IF i <= Len(q) THEN q[i] ELSE b[i - Len(q)]
  BY ConcatProperties

\* A snapshot brought in posts a run that starts with nothing.
LEMMA RunPosted ==
  ASSUME NEW q \in Seq(Blocks), NEW k, NEW t \in Seq(Docs), NEW b \in Seq(Blocks),
         \A i \in 1..Len(q) : ~IsAppend(q[i], k), Len(b) = Len(t),
         \A i \in 1..Len(t) : b[i] = [kind |-> "append", snap |-> k, doc |-> t[i]]
  PROVE  RunInOrder(q \o b, k, <<>>, t)
<1> DEFINE r == q \o b
<1>1. Len(q) \in Nat /\ Len(t) \in Nat /\ Len(<<>>) = 0
  BY LenProperties
<1>2. /\ Len(r) = Len(q) + Len(t)
      /\ \A i \in 1..(Len(q) + Len(t)) : r[i] = IF i <= Len(q) THEN q[i] ELSE b[i - Len(q)]
  <2>1. /\ Len(r) = Len(q) + Len(b)
        /\ \A i \in 1..(Len(q) + Len(b)) : r[i] = IF i <= Len(q) THEN q[i] ELSE b[i - Len(q)]
    BY BlocksConcat, Zenon
  <2> HIDE DEF r
  <2>2. QED
    BY <2>1
<1> HIDE DEF r
<1>3. ASSUME NEW i \in 1..Len(r), Len(q) < i
      PROVE  /\ i - Len(q) \in 1..Len(t) /\ IsAppend(r[i], k) /\ r[i].doc = t[i - Len(q)]
  <2>1. i - Len(q) \in 1..Len(t) /\ r[i] = b[i - Len(q)]
    BY <1>1, <1>2, <1>3
  <2>2. b[i - Len(q)] = [kind |-> "append", snap |-> k, doc |-> t[i - Len(q)]]
    BY <2>1
  <2>3. QED
    BY <2>1, <2>2 DEF IsAppend
<1>4. RunFrom(r, k, <<>>, t, Len(q))
  <2>1. Len(q) + (Len(t) - Len(<<>>)) = Len(r) /\ Len(r) \in Nat
    BY <1>1, <1>2
  <2>2. ASSUME NEW i \in 1..Len(r)
        PROVE  /\ IsAppend(r[i], k) <=> Len(q) < i
               /\ IsAppend(r[i], k) => r[i].doc = t[i - Len(q)]
    BY <1>1, <1>2, <1>3
  <2>3. \A i \in 1..Len(r) : i - Len(q) + Len(<<>>) = i - Len(q)
    BY <1>1
  <2>4. \A i \in 1..Len(r) : IsAppend(r[i], k) => r[i].doc = t[i - Len(q) + Len(<<>>)]
    BY <2>2, <2>3
  <2>5. QED
    BY <2>1, <2>2, <2>4 DEF RunFrom
<1>5. Beginning(<<>>, t)
  BY <1>1 DEF Beginning
<1>6. QED
  BY <1>1, <1>4, <1>5 DEF RunInOrder, r

\* The blocks of snapshots wait in the order of the snapshots, and are all of
\* snapshot k or a later one.
From(q, k) ==
  /\ \A i \in 1..Len(q) : q[i].kind = "append" => k <= q[i].snap
  /\ \A i, j \in 1..Len(q) :
       i < j /\ q[i].kind = "append" /\ q[j].kind = "append" => q[i].snap <= q[j].snap

\* Blocks that are not of a snapshot do not disturb that order.
LEMMA FromPosted ==
  ASSUME NEW q \in Seq(Blocks), NEW b \in Seq(Blocks),
         \A i \in 1..Len(b) : b[i].kind # "append"
  PROVE  \A k : From(q, k) => From(q \o b, k)
<1> DEFINE r == q \o b
<1>1. Len(q) \in Nat /\ Len(b) \in Nat
  BY LenProperties
<1>2. /\ Len(r) = Len(q) + Len(b)
      /\ \A i \in 1..(Len(q) + Len(b)) : r[i] = IF i <= Len(q) THEN q[i] ELSE b[i - Len(q)]
  BY BlocksConcat, Zenon
<1> HIDE DEF r
<1>3. ASSUME NEW i \in 1..Len(r), r[i].kind = "append"
      PROVE  i \in 1..Len(q) /\ r[i] = q[i]
  <2>1. CASE i <= Len(q)
    BY <1>1, <1>2, <2>1
  <2>2. CASE ~(i <= Len(q))
    <3>1. i - Len(q) \in 1..Len(b) /\ r[i] = b[i - Len(q)]
      BY <1>1, <1>2, <2>2
    <3>2. QED
      BY <1>3, <3>1
  <2>3. QED
    BY <2>1, <2>2
<1>4. \A k : From(q, k) => From(r, k)
  BY <1>3 DEF From
<1>5. QED
  BY <1>4 DEF r

\* The blocks of the next snapshot come after those of the earlier ones.
LEMMA FromSnapshot ==
  ASSUME NEW q \in Seq(Blocks), NEW b \in Seq(Blocks), NEW n \in Nat, NEW k \in Nat,
         From(q, k), k <= n, \A i \in 1..Len(b) : b[i].kind = "append" /\ b[i].snap = n,
         \A i \in 1..Len(q) : q[i].kind = "append" => q[i].snap <= n
  PROVE  From(q \o b, k)
<1> DEFINE r == q \o b
<1>1. Len(q) \in Nat /\ Len(b) \in Nat
  BY LenProperties
<1>2. /\ Len(r) = Len(q) + Len(b)
      /\ \A i \in 1..(Len(q) + Len(b)) : r[i] = IF i <= Len(q) THEN q[i] ELSE b[i - Len(q)]
  BY BlocksConcat, Zenon
<1> HIDE DEF r
<1>3. ASSUME NEW i \in 1..Len(r)
      PROVE  \/ i \in 1..Len(q) /\ r[i] = q[i]
             \/ ~(i <= Len(q)) /\ r[i].snap = n
  <2>1. CASE i <= Len(q)
    BY <1>1, <1>2, <2>1
  <2>2. CASE ~(i <= Len(q))
    <3>1. i - Len(q) \in 1..Len(b) /\ r[i] = b[i - Len(q)]
      BY <1>1, <1>2, <2>2
    <3>2. QED
      BY <2>2, <3>1
  <2>3. QED
    BY <2>1, <2>2
<1>4. ASSUME NEW i \in 1..Len(r), r[i].kind = "append"
      PROVE  k <= r[i].snap
  BY <1>3, <1>4 DEF From
<1>5. ASSUME NEW i \in 1..Len(r), NEW j \in 1..Len(r), i < j,
             r[i].kind = "append", r[j].kind = "append"
      PROVE  r[i].snap <= r[j].snap
  <2>1. CASE i \in 1..Len(q) /\ r[i] = q[i] /\ j \in 1..Len(q) /\ r[j] = q[j]
    BY <1>5, <2>1 DEF From
  <2>2. CASE r[j].snap = n
    <3>1. r[i].snap <= n
      BY <1>3, <1>5
    <3>2. QED
      BY <2>2, <3>1
  <2>3. CASE ~(i <= Len(q)) /\ j \in 1..Len(q)
    BY <1>1, <1>5, <2>3
  <2>4. QED
    BY <1>3, <2>1, <2>2, <2>3
<1>6. From(r, k)
  BY <1>4, <1>5 DEF From
<1>7. QED
  BY <1>6 DEF r

\* Running a block; if it is of a snapshot, the rest is of that or later ones.
LEMMA FromRun ==
  ASSUME NEW q \in Seq(Blocks), q # <<>>, NEW k, From(q, k)
  PROVE  /\ From(Tail(q), k)
         /\ Head(q).kind = "append" => k <= Head(q).snap /\ From(Tail(q), Head(q).snap)
<1> DEFINE r == Tail(q)
<1>1. /\ Head(q) = q[1] /\ 1 \in 1..Len(q)
      /\ \A i \in 1..Len(r) : i + 1 \in 1..Len(q) /\ r[i] = q[i + 1]
  BY TailElements
<1> HIDE DEF r
<1>2. \A i \in 1..Len(r) : r[i].kind = "append" => k <= r[i].snap
  BY <1>1 DEF From
<1>3. ASSUME NEW i \in 1..Len(r), NEW j \in 1..Len(r), i < j,
             r[i].kind = "append", r[j].kind = "append"
      PROVE  r[i].snap <= r[j].snap
  <2>1. i + 1 \in 1..Len(q) /\ j + 1 \in 1..Len(q) /\ i + 1 < j + 1
    BY <1>1, <1>3
  <2>2. QED
    BY <1>1, <1>3, <2>1 DEF From
<1>4. ASSUME Head(q).kind = "append", NEW i \in 1..Len(r), r[i].kind = "append"
      PROVE  Head(q).snap <= r[i].snap
  <2>1. i + 1 \in 1..Len(q) /\ 1 < i + 1
    BY <1>1
  <2>2. QED
    BY <1>1, <1>4, <2>1 DEF From
<1>5. Head(q).kind = "append" => k <= Head(q).snap
  BY <1>1 DEF From
<1>6. From(r, k) /\ (Head(q).kind = "append" => From(r, Head(q).snap))
  BY <1>2, <1>3, <1>4 DEF From
<1>7. QED
  BY <1>5, <1>6 DEF r

-----------------------------------------------------------------------------
(***************************************************************************)
(* The queue q, the arrays H of the callbacks and the snapshots S together *)
(***************************************************************************)
IsQuiet(b) == b.kind \in {"completion", "reload"}

QueueFits(q, H, S) ==
  /\ q \in Seq(Blocks) /\ H \in Seq(Seq(Docs)) /\ S \in Seq(SUBSET Docs)
  /\ EventsInOrder(q, Len(H), Len(S))
  /\ \A i \in 1..Len(q) : q[i].kind = "append" => q[i].snap \in 1..Len(H)
  /\ \A k \in 1..Len(H) : RunInOrder(q, k, H[k], Histories(S[k]))

\* Lengths and elements, of which every lemma below makes use
LEMMA FitShapes ==
  ASSUME NEW q, NEW H, NEW S, QueueFits(q, H, S)
  PROVE  /\ q \in Seq(Blocks) /\ H \in Seq(Seq(Docs)) /\ S \in Seq(SUBSET Docs)
         /\ Len(q) \in Nat /\ Len(H) \in Nat /\ Len(S) \in Nat /\ Len(H) <= Len(S)
         /\ \A k \in 1..Len(H) : /\ k \in 1..Len(S) /\ H[k] \in Seq(Docs)
                                 /\ Histories(S[k]) \in Seq(Docs)
                                 /\ Len(H[k]) \in Nat /\ Len(Histories(S[k])) \in Nat
<1>1. q \in Seq(Blocks) /\ H \in Seq(Seq(Docs)) /\ S \in Seq(SUBSET Docs) /\ Len(H) <= Len(S)
  BY DEF QueueFits, EventsInOrder
<1>2. Len(q) \in Nat /\ Len(H) \in Nat /\ Len(S) \in Nat
  BY <1>1, LenProperties
<1>3. ASSUME NEW k \in 1..Len(H)
      PROVE  /\ k \in 1..Len(S) /\ H[k] \in Seq(Docs) /\ Histories(S[k]) \in Seq(Docs)
             /\ Len(H[k]) \in Nat /\ Len(Histories(S[k])) \in Nat
  <2>1. k \in 1..Len(S)
    BY <1>1, <1>2
  <2>2. H[k] \in Seq(Docs) /\ S[k] \in SUBSET Docs
    BY <1>1, <2>1, ElementOfSeq
  <2>3. QED
    BY <2>1, <2>2, HistoriesType, LenProperties
<1>4. QED
  BY <1>1, <1>2, <1>3

LEMMA BlocksElements ==
  \A q, b \in Seq(Blocks) : \A i \in 1..Len(q \o b) :
    \/ \E k \in 1..Len(q) : (q \o b)[i] = q[k]
    \/ \E k \in 1..Len(b) : (q \o b)[i] = b[k]
  BY ConcatElements

LEMMA QuietPosted ==
  ASSUME NEW q, NEW H, NEW S, QueueFits(q, H, S),
         NEW b \in Seq(Blocks), \A i \in 1..Len(b) : IsQuiet(b[i])
  PROVE  QueueFits(q \o b, H, S)
<1>1. q \in Seq(Blocks) /\ Len(q) \in Nat /\ Len(b) \in Nat
  BY FitShapes, LenProperties
<1>2. \A i \in 1..Len(b) : ~IsEvent(b[i]) /\ b[i].kind # "append" /\ \A k : ~IsAppend(b[i], k)
  BY DEF IsQuiet, IsEvent, IsAppend
<1>3. q \o b \in Seq(Blocks)
  BY <1>1, ConcatProperties
<1>4. EventsInOrder(q \o b, Len(H), Len(S))
  BY <1>1, <1>2, EventsBeforeOthers DEF QueueFits
<1>5. ASSUME NEW i \in 1..Len(q \o b), (q \o b)[i].kind = "append"
      PROVE  (q \o b)[i].snap \in 1..Len(H)
  <2>1. \/ \E k \in 1..Len(q) : (q \o b)[i] = q[k]
        \/ \E k \in 1..Len(b) : (q \o b)[i] = b[k]
    BY <1>1, BlocksElements
  <2>2. QED
    BY <1>2, <1>5, <2>1 DEF QueueFits
<1>6. ASSUME NEW k \in 1..Len(H)
      PROVE  RunInOrder(q \o b, k, H[k], Histories(S[k]))
  <2>1. RunInOrder(q, k, H[k], Histories(S[k])) /\ \A i \in 1..Len(b) : ~IsAppend(b[i], k)
    BY <1>2 DEF QueueFits
  <2>2. Len(H[k]) \in Nat /\ Len(Histories(S[k])) \in Nat
    BY FitShapes
  <2>3. QED
    BY <1>1, <2>1, <2>2, RunBeforeOthers
<1>7. QED
  BY <1>3, <1>4, <1>5, <1>6, FitShapes DEF QueueFits

LEMMA SnapshotPosted ==
  ASSUME NEW q, NEW H, NEW S, QueueFits(q, H, S), NEW D \in SUBSET Docs
  PROVE  QueueFits(q \o <<[kind |-> "event", snap |-> Len(S) + 1]>>, H, Append(S, D))
<1> DEFINE e == [kind |-> "event", snap |-> Len(S) + 1]
           b == <<e>>
           T == Append(S, D)
<1>1. /\ q \in Seq(Blocks) /\ Len(q) \in Nat /\ Len(S) \in Nat /\ S \in Seq(SUBSET Docs)
      /\ H \in Seq(Seq(Docs)) /\ \A k \in 1..Len(H) : k \in 1..Len(S)
  BY FitShapes
<1>2. e \in Blocks /\ e.kind = "event"
  BY <1>1, BlockShapes
<1>3. EventsInOrder(q \o b, Len(H), Len(S) + 1)
  BY <1>1, EventsAfterSnapshot DEF QueueFits
<1>4. T \in Seq(SUBSET Docs) /\ Len(T) = Len(S) + 1 /\ \A k \in 1..Len(S) : T[k] = S[k]
  BY <1>1, AppendProperties
<1> HIDE DEF e, T
<1>5. b \in Seq(Blocks) /\ Len(b) = 1 /\ b[1] = e
  BY <1>2
<1> HIDE DEF b
<1>6. \A i \in 1..Len(b) : b[i].kind # "append" /\ \A k : ~IsAppend(b[i], k)
  BY <1>2, <1>5 DEF IsAppend
<1>7. q \o b \in Seq(Blocks)
  BY <1>1, <1>5, ConcatProperties
<1>8. ASSUME NEW i \in 1..Len(q \o b), (q \o b)[i].kind = "append"
      PROVE  (q \o b)[i].snap \in 1..Len(H)
  <2>1. \/ \E k \in 1..Len(q) : (q \o b)[i] = q[k]
        \/ \E k \in 1..Len(b) : (q \o b)[i] = b[k]
    BY <1>1, <1>5, BlocksElements
  <2>2. QED
    BY <1>6, <1>8, <2>1 DEF QueueFits
<1>9. ASSUME NEW k \in 1..Len(H)
      PROVE  RunInOrder(q \o b, k, H[k], Histories(T[k]))
  <2>1. /\ RunInOrder(q, k, H[k], Histories(S[k])) /\ \A i \in 1..Len(b) : ~IsAppend(b[i], k)
        /\ T[k] = S[k]
    BY <1>1, <1>4, <1>6 DEF QueueFits
  <2>2. Len(H[k]) \in Nat /\ Len(Histories(S[k])) \in Nat
    BY FitShapes
  <2>3. QED
    BY <1>1, <1>5, <2>1, <2>2, RunBeforeOthers
<1>10. QueueFits(q \o b, H, T)
  BY <1>1, <1>3, <1>4, <1>7, <1>8, <1>9 DEF QueueFits
<1>11. QED
  BY <1>10 DEF b, e, T

LEMMA QuietRun ==
  ASSUME NEW q, NEW H, NEW S, QueueFits(q, H, S), q # <<>>, IsQuiet(Head(q))
  PROVE  QueueFits(Tail(q), H, S)
<1>1. q \in Seq(Blocks)
  BY FitShapes
<1>2. /\ Tail(q) \in Seq(Blocks)
      /\ \A i \in 1..Len(Tail(q)) : i + 1 \in 1..Len(q) /\ Tail(q)[i] = q[i + 1]
  BY <1>1, TailElements
<1>3. ~IsEvent(Head(q)) /\ \A k : ~IsAppend(Head(q), k)
  BY DEF IsQuiet, IsEvent, IsAppend
<1>4. EventsInOrder(Tail(q), Len(H), Len(S))
  BY <1>1, <1>3, EventsAfterOther DEF QueueFits
<1>5. \A i \in 1..Len(Tail(q)) : Tail(q)[i].kind = "append" => Tail(q)[i].snap \in 1..Len(H)
  BY <1>2 DEF QueueFits
<1>6. ASSUME NEW k \in 1..Len(H)
      PROVE  RunInOrder(Tail(q), k, H[k], Histories(S[k]))
  <2>1. RunInOrder(q, k, H[k], Histories(S[k])) /\ ~IsAppend(Head(q), k)
    BY <1>3 DEF QueueFits
  <2>2. Len(H[k]) \in Nat /\ Len(Histories(S[k])) \in Nat
    BY FitShapes
  <2>3. QED
    BY <1>1, <2>1, <2>2, RunAfterOther
<1>7. QED
  BY <1>2, <1>4, <1>5, <1>6, FitShapes DEF QueueFits

LEMMA EventRun ==
  ASSUME NEW q, NEW H, NEW S, QueueFits(q, H, S), q # <<>>, IsEvent(Head(q)),
         NEW b \in Seq(Blocks), NEW t, t = Histories(S[Head(q).snap]), Len(b) = Len(t),
         \A i \in 1..Len(t) : b[i] = [kind |-> "append", snap |-> Head(q).snap, doc |-> t[i]]
  PROVE  QueueFits(Tail(q) \o b, Append(H, <<>>), S)
<1> DEFINE G == Append(H, <<>>)
           r == Tail(q)
           n == Head(q).snap
<1>1. /\ q \in Seq(Blocks) /\ H \in Seq(Seq(Docs)) /\ S \in Seq(SUBSET Docs)
      /\ Len(H) \in Nat /\ Len(S) \in Nat
  BY FitShapes
<1>2. r \in Seq(Blocks) /\ \A i \in 1..Len(r) : i + 1 \in 1..Len(q) /\ r[i] = q[i + 1]
  BY <1>1, TailElements
<1>3. n = Len(H) + 1 /\ Len(H) + 1 <= Len(S) /\ EventsInOrder(r, Len(H) + 1, Len(S))
  BY <1>1, EventsAfterEvent DEF QueueFits
<1>4. G \in Seq(Seq(Docs)) /\ Len(G) = Len(H) + 1 /\ G[Len(H) + 1] = <<>>
      /\ \A k \in 1..Len(H) : G[k] = H[k]
  BY <1>1, AppendProperties
<1> HIDE DEF G, r
<1>5. t \in Seq(Docs)
  <2>1. n \in 1..Len(S)
    BY <1>1, <1>3
  <2>2. S[n] \in SUBSET Docs
    BY <1>1, <2>1, ElementOfSeq
  <2>3. QED
    BY <2>2, HistoriesType
<1>6. \A i \in 1..Len(b) : /\ b[i].kind = "append" /\ b[i].snap = n /\ ~IsEvent(b[i])
                          /\ \A k : k # n => ~IsAppend(b[i], k)
  <2> SUFFICES ASSUME NEW i \in 1..Len(b)
               PROVE  /\ b[i].kind = "append" /\ b[i].snap = n /\ ~IsEvent(b[i])
                      /\ \A k : k # n => ~IsAppend(b[i], k)
    OBVIOUS
  <2>1. b[i] = [kind |-> "append", snap |-> n, doc |-> t[i]]
    OBVIOUS
  <2>2. b[i].kind = "append" /\ b[i].snap = n
    BY <2>1
  <2>3. QED
    BY <2>2, Zenon DEF IsEvent, IsAppend
<1>0. /\ t = Histories(S[n])
      /\ \A i \in 1..Len(t) : b[i] = [kind |-> "append", snap |-> n, doc |-> t[i]]
  OBVIOUS
<1> HIDE DEF n
<1>7. \A i \in 1..Len(r) : r[i].kind = "append" => r[i].snap \in 1..Len(H)
  BY <1>2 DEF QueueFits
<1>8. r \o b \in Seq(Blocks)
  BY <1>2, ConcatProperties
<1>9. EventsInOrder(r \o b, Len(G), Len(S))
  BY <1>2, <1>3, <1>4, <1>6, EventsBeforeOthers
<1>10. ASSUME NEW i \in 1..Len(r \o b), (r \o b)[i].kind = "append"
       PROVE  (r \o b)[i].snap \in 1..Len(G)
  <2>1. \/ \E k \in 1..Len(r) : (r \o b)[i] = r[k]
        \/ \E k \in 1..Len(b) : (r \o b)[i] = b[k]
    BY <1>2, BlocksElements
  <2>2. (r \o b)[i].snap \in 1..Len(H) \/ (r \o b)[i].snap = n
    BY <1>6, <1>7, <1>10, <2>1
  <2>3. Len(H) \in Nat /\ n = Len(H) + 1 /\ Len(G) = Len(H) + 1
    BY <1>1, <1>3, <1>4
  <2>4. 1..Len(H) \subseteq 1..Len(G) /\ n \in 1..Len(G)
    BY <2>3
  <2>5. QED
    BY <2>2, <2>4, Zenon
<1>11. ASSUME NEW k \in 1..Len(G)
       PROVE  RunInOrder(r \o b, k, G[k], Histories(S[k]))
  <2>1. CASE k = n
    <3>1. \A i \in 1..Len(r) : ~IsAppend(r[i], n)
      BY <1>1, <1>3, <1>7 DEF IsAppend
    <3>2. RunInOrder(r \o b, n, <<>>, t)
      BY <1>0, <1>2, <1>5, <3>1, RunPosted
    <3>3. G[n] = <<>>
      BY <1>3, <1>4
    <3>4. QED
      BY <1>0, <2>1, <3>2, <3>3
  <2>2. CASE k # n
    <3>1. k \in 1..Len(H) /\ G[k] = H[k]
      BY <1>1, <1>3, <1>4, <2>2
    <3>2. RunInOrder(q, k, H[k], Histories(S[k])) /\ ~IsAppend(Head(q), k)
      BY <3>1 DEF QueueFits, IsEvent, IsAppend
    <3>3. Len(H[k]) \in Nat /\ Len(Histories(S[k])) \in Nat
      BY <3>1, FitShapes
    <3>4. RunInOrder(r, k, H[k], Histories(S[k]))
      BY <1>1, <3>2, <3>3, RunAfterOther DEF r
    <3>5. \A i \in 1..Len(b) : ~IsAppend(b[i], k)
      BY <1>6, <2>2
    <3>6. RunInOrder(r \o b, k, H[k], Histories(S[k]))
      BY <1>2, <3>3, <3>4, <3>5, RunBeforeOthers
    <3>7. QED
      BY <3>1, <3>6
  <2>3. QED
    BY <2>1, <2>2
<1>12. QueueFits(r \o b, G, S)
  BY <1>1, <1>4, <1>8, <1>9, <1>10, <1>11 DEF QueueFits
<1>13. QED
  BY <1>12 DEF G, r

LEMMA AppendRun ==
  ASSUME NEW q, NEW H, NEW S, QueueFits(q, H, S), q # <<>>, Head(q).kind = "append"
  PROVE  LET k == Head(q).snap
             list == Append(H[k], Head(q).doc)
         IN /\ k \in 1..Len(S) /\ list \in Seq(Docs) /\ Beginning(list, Histories(S[k]))
            /\ QueueFits(Tail(q), [H EXCEPT ![k] = list], S)
<1> DEFINE k == Head(q).snap
           list == Append(H[k], Head(q).doc)
           G == [H EXCEPT ![k] = list]
           r == Tail(q)
<1>1. /\ q \in Seq(Blocks) /\ H \in Seq(Seq(Docs)) /\ S \in Seq(SUBSET Docs)
      /\ Len(H) \in Nat /\ Len(S) \in Nat
  BY FitShapes
<1>2. /\ Head(q) \in Blocks /\ Head(q) = q[1] /\ 1 \in 1..Len(q) /\ r \in Seq(Blocks)
      /\ \A i \in 1..Len(r) : i + 1 \in 1..Len(q) /\ r[i] = q[i + 1]
  BY <1>1, TailElements
<1>3. k \in 1..Len(H) /\ Head(q).doc \in Docs
  BY <1>2, BlockShapes DEF QueueFits
<1>4. k \in 1..Len(S) /\ H[k] \in Seq(Docs) /\ Histories(S[k]) \in Seq(Docs)
  BY <1>3, FitShapes
<1>5. list \in Seq(Docs)
  BY <1>3, <1>4, AppendProperties
<1>6. RunInOrder(r, k, list, Histories(S[k]))
  <2>1. RunInOrder(q, k, H[k], Histories(S[k])) /\ IsAppend(Head(q), k)
    BY <1>3 DEF QueueFits, IsAppend
  <2>2. QED
    BY <1>1, <1>4, <2>1, RunAfterItsOwn
<1>7. /\ G \in Seq(Seq(Docs)) /\ Len(G) = Len(H) /\ G[k] = list
      /\ \A j \in 1..Len(H) : j # k => G[j] = H[j]
  BY <1>1, <1>3, <1>5, ExceptSeq
<1>8. EventsInOrder(r, Len(G), Len(S))
  <2>1. ~IsEvent(Head(q))
    BY DEF IsEvent
  <2>2. QED
    BY <1>1, <1>7, <2>1, EventsAfterOther DEF QueueFits
<1>9. \A i \in 1..Len(r) : r[i].kind = "append" => r[i].snap \in 1..Len(G)
  BY <1>2, <1>7 DEF QueueFits
<1>10. ASSUME NEW j \in 1..Len(G)
       PROVE  RunInOrder(r, j, G[j], Histories(S[j]))
  <2>1. CASE j = k
    BY <1>6, <1>7, <2>1
  <2>2. CASE j # k
    <3>1. j \in 1..Len(H) /\ G[j] = H[j]
      BY <1>7, <2>2
    <3>2. RunInOrder(q, j, H[j], Histories(S[j])) /\ ~IsAppend(Head(q), j)
      BY <2>2, <3>1 DEF QueueFits, IsAppend
    <3>3. Len(H[j]) \in Nat /\ Len(Histories(S[j])) \in Nat
      BY <3>1, FitShapes
    <3>4. QED
      BY <1>1, <3>1, <3>2, <3>3, RunAfterOther
  <2>3. QED
    BY <2>1, <2>2
<1>11. QueueFits(r, G, S)
  BY <1>1, <1>2, <1>7, <1>8, <1>9, <1>10 DEF QueueFits
<1>12. Beginning(list, Histories(S[k]))
  BY <1>6 DEF RunInOrder
<1>13. QED
  BY <1>4, <1>5, <1>11, <1>12

-----------------------------------------------------------------------------
(***************************************************************************)
(* The store: what is written, sent and answered                           *)
(***************************************************************************)
StoreTyped ==
  /\ worker \in Seq(Tasks) /\ current \in BOOLEAN
  /\ pending \in Seq(Own) /\ answers \in Seq({"ok", "refused"})
  /\ Len(answers) <= Len(pending)
  /\ server \subseteq Docs /\ cache \subseteq Docs /\ callbacks \subseteq Own
  /\ confirmed \subseteq Own /\ written \subseteq confirmed

\* An order goes to the worker once, from there to the queue, and is then
\* written; only written orders are on the backend, and none it refuses.
WritesFit ==
  /\ \A i \in 1..Len(worker) :
       worker[i].kind = "write" => worker[i].doc \in confirmed \ written
  /\ \A i, j \in 1..Len(worker) :
       worker[i].kind = "write" /\ worker[j].kind = "write" /\ i # j =>
         worker[i].doc # worker[j].doc
  /\ \A i \in 1..Len(pending) : pending[i] \in written
  /\ server \cap Own \subseteq written /\ server \cap Refused = {}

\* An answer on its way is true of the write it answers.
TrueOf(result, d, stored) ==
  /\ result = "ok" => d \in stored
  /\ result = "refused" => d \in Refused
AnswersFit ==
  /\ \A i \in 1..Len(answers) : TrueOf(answers[i], pending[i], server)
  /\ answers # <<>> => current

StoreInv == StoreTyped /\ WritesFit /\ AnswersFit

LEMMA Lengths ==
  ASSUME StoreTyped
  PROVE  /\ Len(worker) \in Nat /\ Len(pending) \in Nat /\ Len(answers) \in Nat
         /\ \A i \in 1..Len(answers) : i \in 1..Len(pending)
         /\ \A i \in 1..Len(pending) : pending[i] \in Own
<1>1. Len(worker) \in Nat /\ Len(pending) \in Nat /\ Len(answers) \in Nat
  BY LenProperties DEF StoreTyped
<1>2. Len(answers) <= Len(pending) /\ \A i \in 1..Len(pending) : pending[i] \in Own
  BY ElementOfSeq DEF StoreTyped
<1>3. QED
  BY <1>1, <1>2

\* The written orders after a step that leaves the queue, or shortens it
LEMMA WrittenKept ==
  ASSUME NEW p \in Seq(Own), \A i \in 1..Len(p) : p[i] \in written
  PROVE  written \cup (Own \cap ToSet(p)) = written
<1>1. ToSet(p) \subseteq written
  BY LenProperties DEF ToSet
<1>2. QED
  BY <1>1, Zenon

\* What WritesFit says of the worker's queue, of any queue of tasks
TasksFit(w) ==
  /\ w \in Seq(Tasks)
  /\ \A i \in 1..Len(w) : w[i].kind = "write" => w[i].doc \in confirmed \ written
  /\ \A i, j \in 1..Len(w) :
       w[i].kind = "write" /\ w[j].kind = "write" /\ i # j => w[i].doc # w[j].doc

LEMMA TasksPosted ==
  ASSUME NEW w, TasksFit(w), NEW t \in Tasks, t.kind # "write"
  PROVE  TasksFit(Append(w, t))
<1> DEFINE u == Append(w, t)
<1>1. /\ w \in Seq(Tasks) /\ u \in Seq(Tasks) /\ Len(u) = Len(w) + 1 /\ Len(w) \in Nat
      /\ u[Len(w) + 1] = t /\ \A i \in 1..Len(w) : u[i] = w[i]
  BY AppendProperties, LenProperties DEF TasksFit
<1> HIDE DEF u
<1>2. \A i \in 1..Len(u) : u[i].kind = "write" => i \in 1..Len(w)
  BY <1>1
<1>3. TasksFit(u)
  BY <1>1, <1>2 DEF TasksFit
<1>4. QED
  BY <1>3 DEF u

LEMMA TasksKept ==
  ASSUME NEW w, TasksFit(w), NEW kinds
  PROVE  TasksFit(OfKinds(w, kinds))
<1> DEFINE r == OfKinds(w, kinds)
<1>1. w \in Seq(Tasks)
  BY DEF TasksFit
<1>2. r \in Seq(Tasks) /\ Len(r) \in Nat /\ \E at : IsSelection(at, r, w, kinds)
  BY <1>1, OfKindsElements
<1> HIDE DEF r
<1>3. PICK at : IsSelection(at, r, w, kinds)
  BY <1>2
<1>4. \A j \in 1..Len(r) : at[j] \in 1..Len(w) /\ r[j] = w[at[j]]
  BY <1>3 DEF IsSelection
<1>5. \A i, j \in 1..Len(r) : i # j => at[i] # at[j]
  <2> SUFFICES ASSUME NEW i \in 1..Len(r), NEW j \in 1..Len(r), i # j PROVE at[i] # at[j]
    OBVIOUS
  <2>1. i < j \/ j < i
    BY <1>2
  <2>2. at[i] < at[j] \/ at[j] < at[i]
    BY <1>3, <2>1 DEF IsSelection
  <2>3. QED
    BY <1>4, <2>2
<1>6. \A j \in 1..Len(r) : r[j].kind = "write" => r[j].doc \in confirmed \ written
  BY <1>4 DEF TasksFit
<1>7. \A i, j \in 1..Len(r) :
        r[i].kind = "write" /\ r[j].kind = "write" /\ i # j => r[i].doc # r[j].doc
  BY <1>4, <1>5 DEF TasksFit
<1>8. TasksFit(r)
  BY <1>2, <1>6, <1>7 DEF TasksFit
<1>9. QED
  BY <1>8 DEF r

LEMMA StorePress ==
  ASSUME StoreInv, NEW d \in Own, continueButtonPressed(d)
  PROVE  StoreInv'
<1> USE DEF StoreInv
<1> DEFINE t == [kind |-> "write", doc |-> d]
<1>1. /\ confirmed' = confirmed \cup {d} /\ d \notin confirmed
      /\ UNCHANGED <<current, pending, answers, server, cache, callbacks, written>>
      /\ worker' = Append(worker, t) \/ worker' = worker
  BY DEF continueButtonPressed, addDocument, storeVars
<1>2. t \in Tasks /\ t.kind = "write" /\ t.doc = d
  BY TaskShapes
<1> HIDE DEF t
<1>3. AnswersFit'
  BY <1>1 DEF AnswersFit
<1>4. d \notin written
  BY <1>1 DEF StoreTyped
<1>5. CASE worker' = Append(worker, t)
  <2>1. /\ worker' \in Seq(Tasks) /\ Len(worker') = Len(worker) + 1 /\ Len(worker) \in Nat
        /\ worker'[Len(worker) + 1] = t /\ \A i \in 1..Len(worker) : worker'[i] = worker[i]
    BY <1>2, <1>5, AppendProperties, LenProperties DEF StoreTyped
  <2>2. \A i \in 1..Len(worker') : i \in 1..Len(worker) \/ i = Len(worker) + 1
    BY <2>1
  <2>3. StoreTyped'
    BY <1>1, <2>1 DEF StoreTyped
  <2>4. \A i \in 1..Len(worker') :
          worker'[i].kind = "write" => worker'[i].doc \in confirmed' \ written'
    BY <1>1, <1>2, <1>4, <2>1, <2>2 DEF WritesFit
  <2>5. \A i, j \in 1..Len(worker') :
          worker'[i].kind = "write" /\ worker'[j].kind = "write" /\ i # j =>
            worker'[i].doc # worker'[j].doc
    <3>1. \A i \in 1..Len(worker) : worker[i].kind = "write" => worker[i].doc # d
      BY <1>1 DEF WritesFit
    <3>2. QED
      BY <1>2, <2>1, <2>2, <3>1 DEF WritesFit
  <2>6. WritesFit'
    BY <1>1, <2>4, <2>5 DEF WritesFit
  <2>7. QED
    BY <1>3, <2>3, <2>6
<1>6. CASE worker' = worker
  <2>1. StoreTyped' /\ WritesFit'
    BY <1>1, <1>6 DEF StoreTyped, WritesFit
  <2>2. QED
    BY <1>3, <2>1
<1>7. QED
  BY <1>1, <1>5, <1>6

LEMMA WorkerPops ==
  ASSUME StoreInv, worker # <<>>
  PROVE  /\ Head(worker) \in Tasks /\ Tail(worker) \in Seq(Tasks)
         /\ \A i \in 1..Len(Tail(worker)) : Tail(worker)[i].kind = "write" =>
              Tail(worker)[i].doc \in confirmed \ written
         /\ \A i, j \in 1..Len(Tail(worker)) :
              Tail(worker)[i].kind = "write" /\ Tail(worker)[j].kind = "write" /\ i # j =>
                Tail(worker)[i].doc # Tail(worker)[j].doc
         /\ Head(worker).kind = "write" =>
              /\ Head(worker).doc \in Own /\ Head(worker).doc \in confirmed \ written
              /\ \A i \in 1..Len(Tail(worker)) : Tail(worker)[i].kind = "write" =>
                   Tail(worker)[i].doc # Head(worker).doc
<1> DEFINE w == Tail(worker)
<1>1. /\ Head(worker) \in Tasks /\ Head(worker) = worker[1] /\ 1 \in 1..Len(worker)
      /\ w \in Seq(Tasks)
      /\ \A i \in 1..Len(w) : i + 1 \in 1..Len(worker) /\ w[i] = worker[i + 1]
  BY TailElements DEF StoreInv, StoreTyped
<1> HIDE DEF w
<1>2. \A i \in 1..Len(w) : w[i].kind = "write" => w[i].doc \in confirmed \ written
  BY <1>1 DEF StoreInv, WritesFit
<1>3. ASSUME NEW i \in 1..Len(w), NEW j \in 1..Len(w),
             w[i].kind = "write", w[j].kind = "write", i # j
      PROVE  w[i].doc # w[j].doc
  <2>1. i + 1 # j + 1
    BY <1>3
  <2>2. QED
    BY <1>1, <1>3, <2>1 DEF StoreInv, WritesFit
<1>4. ASSUME Head(worker).kind = "write"
      PROVE  /\ Head(worker).doc \in Own /\ Head(worker).doc \in confirmed \ written
             /\ \A i \in 1..Len(w) : w[i].kind = "write" => w[i].doc # Head(worker).doc
  <2>1. Head(worker).doc \in Own
    BY <1>1, <1>4, TaskShapes
  <2>2. Head(worker).doc \in confirmed \ written
    BY <1>1, <1>4 DEF StoreInv, WritesFit
  <2>3. ASSUME NEW i \in 1..Len(w), w[i].kind = "write"
        PROVE  w[i].doc # Head(worker).doc
    <3>1. i + 1 # 1
      OBVIOUS
    <3>2. QED
      BY <1>1, <1>4, <2>3, <3>1 DEF StoreInv, WritesFit
  <2>4. QED
    BY <2>1, <2>2, <2>3
<1>5. QED
  BY <1>1, <1>2, <1>3, <1>4 DEF w

LEMMA StoreWrites ==
  ASSUME StoreInv, Client, WriteMutations
  PROVE  /\ StoreInv' /\ Head(worker).doc \in Own \ written
         /\ written' = written \cup {Head(worker).doc}
<1> DEFINE d == Head(worker).doc
           w == Tail(worker)
<1>1. /\ worker # <<>> /\ Head(worker).kind = "write"
      /\ worker' = w /\ pending' = Append(pending, d) /\ callbacks' = callbacks \cup {d}
      /\ UNCHANGED <<current, answers, server, cache, confirmed>>
      /\ written' = written \cup (Own \cap ToSet(pending'))
  BY DEF Client, WriteMutations
<1>2. /\ w \in Seq(Tasks) /\ d \in Own /\ d \in confirmed \ written
      /\ \A i \in 1..Len(w) : w[i].kind = "write" => w[i].doc \in confirmed \ written
      /\ \A i \in 1..Len(w) : w[i].kind = "write" => w[i].doc # d
      /\ \A i, j \in 1..Len(w) :
           w[i].kind = "write" /\ w[j].kind = "write" /\ i # j => w[i].doc # w[j].doc
  BY <1>1, WorkerPops
<1> HIDE DEF d, w
<1>3. /\ pending' \in Seq(Own) /\ Len(pending') = Len(pending) + 1 /\ Len(pending) \in Nat
      /\ pending'[Len(pending) + 1] = d /\ \A i \in 1..Len(pending) : pending'[i] = pending[i]
  BY <1>1, <1>2, AppendProperties, LenProperties DEF StoreInv, StoreTyped
<1>4. \A i \in 1..Len(pending') : i \in 1..Len(pending) \/ i = Len(pending) + 1
  BY <1>3
<1>5. \A i \in 1..Len(pending') : pending'[i] \in written \cup {d}
  BY <1>3, <1>4 DEF StoreInv, WritesFit
<1>6. written' = written \cup {d}
  <2>1. DOMAIN pending' = 1..Len(pending')
    BY <1>3, LenProperties
  <2>2. ToSet(pending') \subseteq written \cup {d}
    BY <1>5, <2>1 DEF ToSet
  <2>3. Len(pending) + 1 \in DOMAIN pending'
    BY <1>3, <2>1
  <2>4. d \in ToSet(pending')
    BY <1>3, <2>3, Zenon DEF ToSet
  <2>5. QED
    BY <1>1, <1>2, <2>2, <2>4, Zenon
<1>7. StoreTyped'
  BY <1>1, <1>2, <1>3, <1>6, Lengths DEF StoreInv, StoreTyped
<1>8. WritesFit'
  <2>1. \A i \in 1..Len(worker') :
          worker'[i].kind = "write" => worker'[i].doc \in confirmed' \ written'
    BY <1>1, <1>2, <1>6
  <2>2. \A i, j \in 1..Len(worker') :
          worker'[i].kind = "write" /\ worker'[j].kind = "write" /\ i # j =>
            worker'[i].doc # worker'[j].doc
    BY <1>1, <1>2
  <2>3. \A i \in 1..Len(pending') : pending'[i] \in written'
    BY <1>5, <1>6
  <2>4. server' \cap Own \subseteq written' /\ server' \cap Refused = {}
    BY <1>1, <1>6 DEF StoreInv, WritesFit
  <2>5. QED
    BY <2>1, <2>2, <2>3, <2>4 DEF WritesFit
<1>9. AnswersFit'
  <2>1. \A i \in 1..Len(answers) : i \in 1..Len(pending)
    BY Lengths DEF StoreInv
  <2>2. QED
    BY <1>1, <1>3, <2>1 DEF StoreInv, AnswersFit
<1>10. QED
  BY <1>2, <1>6, <1>7, <1>8, <1>9 DEF StoreInv, d

\* The queues of tasks that the steps below leave
LEMMA TasksLeft ==
  ASSUME StoreInv
  PROVE  TasksFit(worker) /\ TasksFit(<<>>) /\ (worker # <<>> => TasksFit(Tail(worker)))
<1>1. TasksFit(worker)
  BY DEF StoreInv, StoreTyped, WritesFit, TasksFit
<1>2. TasksFit(<<>>)
  <2>1. <<>> \in Seq(Tasks) /\ Len(<<>>) = 0
    OBVIOUS
  <2>2. QED
    BY <2>1 DEF TasksFit
<1>3. worker # <<>> => TasksFit(Tail(worker))
  BY WorkerPops DEF TasksFit
<1>4. QED
  BY <1>1, <1>2, <1>3

\* Steps that leave what is written, sent and answered
LEMMA StoreStands ==
  ASSUME StoreInv, NEW w, TasksFit(w), worker' = w,
         UNCHANGED <<pending, server, confirmed>>,
         (answers' = answers /\ current' = current) \/ (answers' = <<>> /\ current' \in BOOLEAN),
         cache' \subseteq Docs, callbacks' \subseteq Own,
         written' = written \/ written' = written \cup (Own \cap ToSet(pending'))
  PROVE  StoreInv' /\ written' = written
<1>1. written' = written
  <2>1. written \cup (Own \cap ToSet(pending)) = written
    BY WrittenKept DEF StoreInv, StoreTyped, WritesFit
  <2>2. QED
    BY <2>1
<1>3. /\ answers' \in Seq({"ok", "refused"}) /\ Len(answers') <= Len(pending) /\ AnswersFit'
      /\ current' \in BOOLEAN
  <2>1. CASE answers' = answers /\ current' = current
    BY <2>1 DEF StoreInv, StoreTyped, AnswersFit
  <2>2. CASE answers' = <<>> /\ current' \in BOOLEAN
    <3>1. answers' \in Seq({"ok", "refused"}) /\ Len(answers') = 0
      BY <2>2
    <3>2. AnswersFit'
      BY <2>2, <3>1 DEF AnswersFit
    <3>3. QED
      BY <2>2, <3>1, <3>2, Lengths DEF StoreInv
  <2>3. QED
    BY <2>1, <2>2
<1>4. StoreTyped' /\ WritesFit'
  BY <1>1, <1>3 DEF StoreInv, StoreTyped, WritesFit, TasksFit
<1>5. QED
  BY <1>1, <1>3, <1>4 DEF StoreInv

LEMMA StoreSends ==
  ASSUME StoreInv, Client, BackendTakesWrite
  PROVE  StoreInv' /\ written' = written
<1> DEFINE n == Len(answers) + 1
           d == pending[n]
<1>1. /\ Len(answers) < Len(pending) /\ current
      /\ UNCHANGED <<worker, current, pending, cache, callbacks, confirmed>>
      /\ written' = written \cup (Own \cap ToSet(pending'))
  BY DEF Client, BackendTakesWrite
<1>2. \/ d \in Refused /\ answers' = Append(answers, "refused") /\ server' = server
      \/ d \notin Refused /\ answers' = Append(answers, "ok") /\ server' = server \cup {d}
  BY DEF BackendTakesWrite
<1>3. n \in 1..Len(pending) /\ n \in Nat /\ Len(answers) \in Nat
  BY <1>1, Lengths DEF StoreInv
<1> HIDE DEF n
<1>4. d \in Own /\ d \in written /\ d \in Docs
  BY <1>3, Lengths, DocsAssumption DEF StoreInv, WritesFit
<1>5. written' = written
  BY <1>1, WrittenKept DEF StoreInv, StoreTyped, WritesFit
<1>6. PICK a \in {"ok", "refused"} : answers' = Append(answers, a) /\ TrueOf(a, d, server')
  BY <1>2 DEF TrueOf
<1>7. /\ answers' \in Seq({"ok", "refused"}) /\ Len(answers') = Len(answers) + 1
      /\ answers'[Len(answers) + 1] = a
      /\ \A i \in 1..Len(answers) : answers'[i] = answers[i]
  BY <1>6, AppendProperties DEF StoreInv, StoreTyped
<1>8. server \subseteq server' /\ server' \subseteq server \cup {d} /\ server' \cap Refused = {}
  BY <1>2 DEF StoreInv, WritesFit
<1>9. StoreTyped'
  <2>1. Len(answers') <= Len(pending')
    BY <1>1, <1>3, <1>7, Lengths DEF StoreInv
  <2>2. QED
    BY <1>1, <1>4, <1>5, <1>7, <1>8, <2>1 DEF StoreInv, StoreTyped
<1>10. WritesFit'
  BY <1>1, <1>4, <1>5, <1>8 DEF StoreInv, WritesFit
<1>11. AnswersFit'
  <2> SUFFICES ASSUME NEW i \in 1..Len(answers') PROVE TrueOf(answers'[i], pending[i], server')
    BY <1>1 DEF StoreInv, AnswersFit, TrueOf
  <2>1. CASE i \in 1..Len(answers)
    <3>1. TrueOf(answers[i], pending[i], server)
      BY <2>1 DEF StoreInv, AnswersFit
    <3>2. QED
      BY <1>7, <1>8, <2>1, <3>1 DEF TrueOf
  <2>2. CASE i = n
    BY <1>6, <1>7, <2>2 DEF n
  <2>3. QED
    BY <1>3, <1>7, <2>1, <2>2 DEF n
<1>12. QED
  BY <1>5, <1>9, <1>10, <1>11 DEF StoreInv

\* The write that is answered first, and the rest of the queue
LEMMA QueueHead ==
  ASSUME StoreInv, answers # <<>>
  PROVE  /\ Head(pending) \in Own /\ Head(pending) \in written /\ Head(pending) \in Docs
         /\ TrueOf(Head(answers), Head(pending), server)
         /\ Head(answers) \in {"ok", "refused"} /\ pending # <<>>
         /\ Tail(pending) \in Seq(Own) /\ Len(Tail(pending)) = Len(pending) - 1
         /\ \A i \in 1..Len(Tail(pending)) :
              i + 1 \in 1..Len(pending) /\ Tail(pending)[i] = pending[i + 1]
         /\ Head(pending) = pending[1] /\ 1 \in 1..Len(pending)
         /\ \A i \in 1..Len(Tail(pending)) : Tail(pending)[i] \in written
<1>1. 1 \in 1..Len(answers) /\ Head(answers) = answers[1] /\ Head(answers) \in {"ok", "refused"}
  BY TailElements DEF StoreInv, StoreTyped
<1>2. 1 \in 1..Len(pending)
  BY <1>1, Lengths DEF StoreInv
<1>3. pending # <<>>
  BY <1>2
<1>4. /\ Head(pending) \in Own /\ Head(pending) = pending[1] /\ Tail(pending) \in Seq(Own)
      /\ Len(Tail(pending)) = Len(pending) - 1
      /\ \A i \in 1..Len(Tail(pending)) :
           i + 1 \in 1..Len(pending) /\ Tail(pending)[i] = pending[i + 1]
  BY <1>3, TailElements DEF StoreInv, StoreTyped
<1>5. Head(pending) \in written /\ TrueOf(Head(answers), Head(pending), server)
  BY <1>1, <1>2, <1>4 DEF StoreInv, WritesFit, AnswersFit
<1>6. \A i \in 1..Len(Tail(pending)) : Tail(pending)[i] \in written
  BY <1>4 DEF StoreInv, WritesFit
<1>7. QED
  BY <1>1, <1>2, <1>3, <1>4, <1>5, <1>6, DocsAssumption

\* The first write has been answered, and leaves the queue.
LEMMA StoreAnswered ==
  ASSUME StoreInv, Client, answers # <<>>, pending' = Tail(pending),
         answers' = Tail(answers) \/ answers' = <<>>,
         cache' \subseteq Docs, callbacks' \subseteq Own, UNCHANGED <<worker, current, server>>
  PROVE  StoreInv' /\ written' = written
<1> DEFINE p == Tail(pending)
<1>1. /\ p \in Seq(Own) /\ Len(p) = Len(pending) - 1
      /\ \A i \in 1..Len(p) : i + 1 \in 1..Len(pending) /\ p[i] = pending[i + 1]
      /\ \A i \in 1..Len(p) : p[i] \in written
  BY QueueHead
<1>2. pending' = p /\ UNCHANGED confirmed /\ written' = written \cup (Own \cap ToSet(p))
  BY DEF Client
<1> HIDE DEF p
<1>3. written' = written
  BY <1>1, <1>2, WrittenKept
<1>4. /\ answers' \in Seq({"ok", "refused"}) /\ Len(answers') <= Len(p)
      /\ \A i \in 1..Len(answers') : TrueOf(answers'[i], p[i], server)
  <2>1. CASE answers' = Tail(answers)
    <3> DEFINE a == Tail(answers)
    <3>1. /\ a \in Seq({"ok", "refused"}) /\ Len(a) = Len(answers) - 1
          /\ \A i \in 1..Len(a) : i + 1 \in 1..Len(answers) /\ a[i] = answers[i + 1]
      BY TailElements DEF StoreInv, StoreTyped
    <3>2. answers' = a
      BY <2>1
    <3> HIDE DEF a
    <3>3. Len(a) <= Len(p)
      BY <1>1, <3>1, Lengths DEF StoreInv, StoreTyped
    <3>4. ASSUME NEW i \in 1..Len(a)
          PROVE  TrueOf(a[i], p[i], server)
      <4>1. TrueOf(answers[i + 1], pending[i + 1], server)
        BY <3>1 DEF StoreInv, AnswersFit
      <4>2. i \in 1..Len(p)
        BY <1>1, <3>1, <3>3, Lengths DEF StoreInv
      <4>3. QED
        BY <1>1, <3>1, <4>1, <4>2
    <3>5. QED
      BY <3>1, <3>2, <3>3, <3>4
  <2>2. CASE answers' = <<>>
    <3>1. answers' \in Seq({"ok", "refused"}) /\ Len(answers') = 0
      BY <2>2
    <3>2. Len(p) \in Nat
      BY <1>1, LenProperties
    <3>3. QED
      BY <3>1, <3>2
  <2>3. QED
    BY <2>1, <2>2
<1>5. StoreTyped'
  BY <1>1, <1>2, <1>3, <1>4 DEF StoreInv, StoreTyped
<1>6. WritesFit'
  BY <1>1, <1>2, <1>3 DEF StoreInv, WritesFit
<1>7. AnswersFit'
  BY <1>2, <1>4 DEF StoreInv, AnswersFit
<1>8. QED
  BY <1>3, <1>5, <1>6, <1>7 DEF StoreInv

\* Other clients touch none of this app's orders.
LEMMA OthersOnly ==
  ASSUME OtherClient, server \subseteq Docs
  PROVE  server' \subseteq Docs /\ server' \cap Own = server \cap Own
  BY DocsAssumption DEF OtherClient

LEMMA StoreOthers ==
  ASSUME StoreInv, Client, OtherClient
  PROVE  StoreInv' /\ written' = written
<1>1. /\ UNCHANGED <<worker, current, pending, answers, cache, callbacks, confirmed>>
      /\ written' = written \cup (Own \cap ToSet(pending'))
  BY DEF Client, OtherClient
<1>2. written' = written
  BY <1>1, WrittenKept DEF StoreInv, StoreTyped, WritesFit
<1>3. server' \subseteq Docs /\ server' \cap Own = server \cap Own
  BY OthersOnly DEF StoreInv, StoreTyped
<1>4. StoreTyped'
  BY <1>1, <1>2, <1>3 DEF StoreInv, StoreTyped
<1>5. WritesFit'
  <2>1. server' \cap Refused = {}
    BY <1>3, DocsAssumption DEF StoreInv, WritesFit
  <2>2. server' \cap Own \subseteq written
    BY <1>3 DEF StoreInv, WritesFit
  <2>3. QED
    BY <1>1, <1>2, <2>1, <2>2 DEF StoreInv, WritesFit
<1>6. AnswersFit'
  <2> SUFFICES ASSUME NEW i \in 1..Len(answers) PROVE TrueOf(answers[i], pending[i], server')
    BY <1>1 DEF StoreInv, AnswersFit, TrueOf
  <2>1. pending[i] \in Own /\ TrueOf(answers[i], pending[i], server)
    BY Lengths DEF StoreInv, AnswersFit
  <2>2. QED
    BY <1>3, <2>1 DEF TrueOf
<1>7. QED
  BY <1>2, <1>4, <1>5, <1>6 DEF StoreInv

\* A task that is not a write is put behind those that wait, or that are left
\* of them.
LEMMA StorePosts ==
  ASSUME StoreInv, NEW w, TasksFit(w), NEW t \in Tasks, t.kind # "write",
         worker' = Append(w, t) \/ worker' = w,
         UNCHANGED <<current, pending, answers, server, cache, callbacks, confirmed, written>>
  PROVE  StoreInv'
<1>0. cache \subseteq Docs /\ callbacks \subseteq Own
  BY DEF StoreInv, StoreTyped
<1>1. TasksFit(Append(w, t))
  BY TasksPosted
<1>2. QED
  BY <1>0, <1>1, StoreStands

LEMMA StoreStep ==
  ASSUME StoreInv, [Next]_vars
  PROVE  StoreInv'
<1>0. /\ cache \subseteq Docs /\ callbacks \subseteq Own /\ server \subseteq Docs
      /\ current \in BOOLEAN
  BY DEF StoreInv, StoreTyped
<1>w. TasksFit(worker) /\ TasksFit(<<>>) /\ (worker # <<>> => TasksFit(Tail(worker)))
  BY TasksLeft
<1>s. ASSUME UNCHANGED <<worker, current, storeVars, confirmed, written>> PROVE StoreInv'
  BY <1>0, <1>w, <1>s, StoreStands DEF storeVars
<1>1. ASSUME NEW d \in Own, continueButtonPressed(d) PROVE StoreInv'
  BY <1>1, StorePress
<1>2. CASE openHistory
  <2>1. /\ worker' = Append(worker, [kind |-> "listen"]) \/ worker' = worker
        /\ UNCHANGED <<current, pending, answers, server, cache, callbacks, confirmed, written>>
    BY <1>2 DEF openHistory, addSnapshotListener, storeVars
  <2>2. QED
    BY <1>w, <2>1, StorePosts, TaskShapes
<1>3. CASE login \/ signOutByForce
  <2>1. PICK u \in BOOLEAN : worker' = Append(worker, [kind |-> "user", isUser |-> u])
    BY <1>3 DEF login, signOutByForce, credentialChanged
  <2>2. UNCHANGED <<current, pending, answers, server, cache, callbacks, confirmed, written>>
    BY <1>3 DEF login, signOutByForce, storeVars
  <2>3. QED
    BY <1>w, <2>1, <2>2, StorePosts, TaskShapes
<1>4. CASE didTapLogout
  <2> DEFINE w == OfKinds(worker, {"write", "user"})
             t == [kind |-> "user", isUser |-> FALSE]
  <2>1. /\ worker' = Append(w, t) \/ worker' = w
        /\ UNCHANGED <<current, pending, answers, server, cache, callbacks, confirmed, written>>
    BY <1>4 DEF didTapLogout, credentialChanged, storeVars
  <2>2. TasksFit(w) /\ t \in Tasks /\ t.kind # "write"
    BY <1>w, TasksKept, TaskShapes
  <2> HIDE DEF w, t
  <2>3. QED
    BY <2>1, <2>2, StorePosts
<1>5. CASE reloadOrderHistory
  BY <1>5, <1>s DEF reloadOrderHistory, appVars
<1>6. CASE MainStep
  BY <1>6, <1>s DEF MainStep, completion, snapshotArrived, appendHistory, reloadData
<1>7. CASE Client
  <2>0. written' = written \cup (Own \cap ToSet(pending')) /\ confirmed' = confirmed
    BY <1>7 DEF Client
  <2>1. CASE WriteMutations
    BY <1>7, <2>1, StoreWrites
  <2>2. CASE Listen
    <3>1. /\ worker # <<>> /\ worker' = Tail(worker)
          /\ UNCHANGED <<current, pending, answers, server, cache, callbacks>>
      BY <2>2 DEF Listen, storeVars
    <3>2. QED
      BY <1>0, <1>w, <2>0, <3>1, StoreStands
  <2>3. CASE HandleCredentialChange
    <3>1. /\ worker # <<>> /\ Head(worker).kind = "user" /\ worker' = Tail(worker)
          /\ current' = Head(worker).isUser /\ answers' = <<>>
          /\ UNCHANGED <<pending, server, cache, callbacks>>
      BY <2>3 DEF HandleCredentialChange
    <3>2. current' \in BOOLEAN
      BY <3>1, WorkerPops, TaskShapes
    <3>3. QED
      BY <1>0, <1>w, <2>0, <3>1, <3>2, StoreStands
  <2>4. CASE BackendTakesWrite
    BY <1>7, <2>4, StoreSends
  <2>5. CASE HandleSuccessfulWrite
    <3>1. /\ answers # <<>> /\ pending' = Tail(pending) /\ answers' = Tail(answers)
          /\ cache' = cache \cup {Head(pending)} /\ callbacks' = callbacks \ {Head(pending)}
          /\ UNCHANGED <<worker, current, server>>
      BY <2>5 DEF HandleSuccessfulWrite
    <3>2. cache' \subseteq Docs /\ callbacks' \subseteq Own
      BY <1>0, <3>1, QueueHead
    <3>3. QED
      BY <1>7, <3>1, <3>2, StoreAnswered
  <2>6. CASE HandleRejectedWrite
    <3>1. /\ answers # <<>> /\ pending' = Tail(pending) /\ answers' = <<>>
          /\ cache' = cache /\ callbacks' = callbacks \ {Head(pending)}
          /\ UNCHANGED <<worker, current, server>>
      BY <2>6 DEF HandleRejectedWrite
    <3>2. cache' \subseteq Docs /\ callbacks' \subseteq Own
      BY <1>0, <3>1
    <3>3. QED
      BY <1>7, <3>1, <3>2, StoreAnswered
  <2>7. CASE WriteStreamBreaks
    <3>1. /\ answers' = <<>> /\ UNCHANGED <<worker, current, pending, server, cache, callbacks>>
      BY <2>7 DEF WriteStreamBreaks
    <3>2. QED
      BY <1>0, <1>w, <2>0, <3>1, StoreStands
  <2>8. CASE ApplyRemoteEvent
    <3>1. /\ cache' = server /\ UNCHANGED <<worker, current, pending, answers, server, callbacks>>
      BY <2>8 DEF ApplyRemoteEvent
    <3>2. QED
      BY <1>0, <1>w, <2>0, <3>1, StoreStands
  <2>9. CASE HandleRejectedListen
    <3>1. UNCHANGED <<worker, current, pending, answers, server, cache, callbacks>>
      BY <2>9 DEF HandleRejectedListen, storeVars
    <3>2. QED
      BY <1>0, <1>w, <2>0, <3>1, StoreStands
  <2>10. CASE OtherClient
    BY <1>7, <2>10, StoreOthers
  <2>11. QED
    BY <1>7, <2>1, <2>2, <2>3, <2>4, <2>5, <2>6, <2>7, <2>8, <2>9, <2>10 DEF Client, ClientStep
<1>8. CASE AppRestart
  <2>1. /\ worker' = <<>> /\ current' = FALSE /\ answers' = <<>> /\ callbacks' = {}
        /\ pending' = pending /\ UNCHANGED <<server, cache, confirmed, written>>
    BY <1>8 DEF AppRestart, Restart, PersistedQueue
  <2>2. QED
    BY <1>0, <1>w, <2>1, StoreStands
<1>9. CASE UNCHANGED vars
  BY <1>9, <1>s DEF vars, storeAll, appVars
<1>10. QED
  BY <1>1, <1>2, <1>3, <1>4, <1>5, <1>6, <1>7, <1>8, <1>9 DEF Next

-----------------------------------------------------------------------------
(***************************************************************************)
(* The main queue under the steps of the system                            *)
(***************************************************************************)
\* A completion that waits on the main queue tells the truth.
Reported(q, stored) ==
  \A i \in 1..Len(q) : q[i].kind = "completion" => TrueOf(q[i].result, q[i].doc, stored)

QueueInv == QueueFits(main, histories, snaps) /\ Reported(main, server)

SnapsKept == \A k \in 1..Len(snaps) : k \in 1..Len(snaps') /\ snaps'[k] = snaps[k]

LEMMA ReportedPosted ==
  ASSUME NEW q \in Seq(Blocks), NEW b \in Seq(Blocks), NEW stored,
         Reported(q, stored), Reported(b, stored)
  PROVE  Reported(q \o b, stored)
<1> SUFFICES ASSUME NEW i \in 1..Len(q \o b), (q \o b)[i].kind = "completion"
             PROVE  TrueOf((q \o b)[i].result, (q \o b)[i].doc, stored)
  BY DEF Reported
<1>1. \/ \E k \in 1..Len(q) : (q \o b)[i] = q[k]
      \/ \E k \in 1..Len(b) : (q \o b)[i] = b[k]
  BY BlocksElements
<1>2. QED
  BY <1>1 DEF Reported

LEMMA ReportedRun ==
  ASSUME NEW q \in Seq(Blocks), NEW stored, q # <<>>, Reported(q, stored)
  PROVE  /\ Reported(Tail(q), stored)
         /\ Head(q).kind = "completion" => TrueOf(Head(q).result, Head(q).doc, stored)
  BY TailElements DEF Reported

LEMMA ReportedKept ==
  ASSUME NEW q \in Seq(Blocks), Reported(q, server), NEW stored, server \cap Own \subseteq stored
  PROVE  Reported(q, stored)
<1> SUFFICES ASSUME NEW i \in 1..Len(q), q[i].kind = "completion"
             PROVE  TrueOf(q[i].result, q[i].doc, stored)
  BY DEF Reported
<1>1. q[i] \in Blocks
  BY ElementOfSeq
<1>2. q[i].doc \in Own /\ TrueOf(q[i].result, q[i].doc, server)
  BY <1>1, BlockShapes DEF Reported
<1>3. QED
  BY <1>2 DEF TrueOf

\* Blocks posted with a step of the worker, and perhaps a snapshot after them
LEMMA Emitted ==
  ASSUME QueueInv, NEW b \in Seq(Blocks), \A i \in 1..Len(b) : IsQuiet(b[i]),
         Reported(b, server), NEW l, NEW D \in SUBSET Docs, Emit(b, l, D)
  PROVE  /\ QueueFits(main', histories, snaps') /\ Reported(main', server) /\ SnapsKept
         /\ \A k : From(main, k) => From(main', k)
<1>1. QueueFits(main \o b, histories, snaps)
  BY QuietPosted DEF QueueInv
<1>2. main \in Seq(Blocks) /\ main \o b \in Seq(Blocks) /\ snaps \in Seq(SUBSET Docs)
  BY <1>1, FitShapes DEF QueueInv
<1>3. Reported(main \o b, server)
  BY <1>2, ReportedPosted DEF QueueInv
<1>0. \A k : From(main, k) => From(main \o b, k)
  <2>1. \A i \in 1..Len(b) : b[i].kind # "append"
    BY DEF IsQuiet
  <2>2. QED
    BY <1>2, <2>1, FromPosted
<1>4. CASE snaps' = Append(snaps, D) /\ main' = main \o b \o Event
  <2>1. QueueFits(main', histories, snaps')
    BY <1>1, <1>4, SnapshotPosted DEF Event
  <2>2. Event \in Seq(Blocks) /\ Reported(Event, server)
    <3> DEFINE e == [kind |-> "event", snap |-> Len(snaps) + 1]
    <3>1. e \in Blocks /\ e.kind = "event"
      BY <1>2, LenProperties, BlockShapes
    <3> HIDE DEF e
    <3>2. <<e>> \in Seq(Blocks) /\ Len(<<e>>) = 1 /\ <<e>>[1] = e
      BY <3>1
    <3>3. Reported(<<e>>, server)
      BY <3>1, <3>2 DEF Reported
    <3>4. QED
      BY <3>2, <3>3 DEF e, Event
  <2>3. Reported(main', server)
    BY <1>2, <1>3, <1>4, <2>2, ReportedPosted
  <2>4. Len(snaps') = Len(snaps) + 1 /\ \A k \in 1..Len(snaps) : snaps'[k] = snaps[k]
    BY <1>2, <1>4, AppendProperties
  <2>5. SnapsKept
    BY <1>2, <2>4, LenProperties DEF SnapsKept
  <2>6. \A i \in 1..Len(Event) : Event[i].kind # "append"
    BY DEF Event
  <2>7. \A k : From(main, k) => From(main', k)
    BY <1>0, <1>2, <1>4, <2>2, <2>6, FromPosted
  <2>8. QED
    BY <2>1, <2>3, <2>5, <2>7
<1>5. CASE main' = main \o b /\ UNCHANGED snaps
  BY <1>0, <1>1, <1>3, <1>5 DEF SnapsKept
<1>6. QED
  BY <1>4, <1>5 DEF Emit

LEMMA NothingPosted ==
  /\ <<>> \in Seq(Blocks) /\ \A i \in 1..Len(<<>>) : IsQuiet(<<>>[i])
  /\ \A stored : Reported(<<>>, stored)
<1>1. <<>> \in Seq(Blocks) /\ Len(<<>>) = 0
  OBVIOUS
<1>2. QED
  BY <1>1 DEF Reported

LEMMA OnePosted ==
  ASSUME NEW e \in Blocks, IsQuiet(e)
  PROVE  /\ <<e>> \in Seq(Blocks) /\ \A i \in 1..Len(<<e>>) : IsQuiet(<<e>>[i])
         /\ \A stored : (e.kind = "completion" => TrueOf(e.result, e.doc, stored))
                        => Reported(<<e>>, stored)
<1>1. <<e>> \in Seq(Blocks) /\ Len(<<e>>) = 1 /\ <<e>>[1] = e
  OBVIOUS
<1>2. \A i \in 1..Len(<<e>>) : <<e>>[i] = e
  BY <1>1
<1>3. QED
  BY <1>1, <1>2 DEF Reported

LEMMA AnswerPosted ==
  ASSUME NEW d \in Own, NEW r \in {"ok", "refused"}, TrueOf(r, d, server)
  PROVE  LET b == NotifyUser(d, r)
         IN b \in Seq(Blocks) /\ (\A i \in 1..Len(b) : IsQuiet(b[i])) /\ Reported(b, server)
<1> DEFINE e == [kind |-> "completion", doc |-> d, result |-> r]
<1>1. e \in Blocks /\ e.kind = "completion" /\ e.doc = d /\ e.result = r
  BY BlockShapes
<1> HIDE DEF e
<1>2. <<e>> \in Seq(Blocks) /\ (\A i \in 1..Len(<<e>>) : IsQuiet(<<e>>[i])) /\ Reported(<<e>>, server)
  <2>1. IsQuiet(e) /\ (e.kind = "completion" => TrueOf(e.result, e.doc, server))
    BY <1>1 DEF IsQuiet
  <2>2. QED
    BY <1>1, <2>1, OnePosted
<1>3. CASE current /\ d \in callbacks
  <2>1. NotifyUser(d, r) = <<e>>
    BY <1>3 DEF NotifyUser, Completion, e
  <2>2. QED
    BY <1>2, <2>1
<1>4. CASE ~(current /\ d \in callbacks)
  <2>1. NotifyUser(d, r) = <<>>
    BY <1>4 DEF NotifyUser
  <2>2. QED
    BY <2>1, NothingPosted
<1>5. QED
  BY <1>3, <1>4

LEMMA ViewType ==
  ASSUME NEW u, NEW p \in Seq(Own), NEW c \in SUBSET Docs
  PROVE  View(u, p, c) \in SUBSET Docs
<1>1. ToSet(p) \subseteq Own
  BY LenProperties DEF ToSet
<1>2. QED
  BY <1>1, DocsAssumption DEF View

\* What the steps of the client do to the queue
LEMMA ClientPosts ==
  ASSUME StoreInv, QueueInv, Client
  PROVE  /\ QueueFits(main', histories, snaps') /\ Reported(main', server') /\ SnapsKept
         /\ \A k : From(main, k) => From(main', k)
<1>0. /\ pending \in Seq(Own) /\ server \subseteq Docs /\ cache \subseteq Docs
      /\ main \in Seq(Blocks)
  BY FitShapes DEF StoreInv, StoreTyped, QueueInv
<1>1. CASE WriteMutations
  <2>1. /\ worker # <<>> /\ Head(worker).kind = "write" /\ pending' = Append(pending, Head(worker).doc)
        /\ Emit(<<>>, listening, View(current, pending', cache)) /\ server' = server
    BY <1>1 DEF WriteMutations
  <2>2. pending' \in Seq(Own)
    BY <1>0, <2>1, WorkerPops, AppendProperties
  <2>3. View(current, pending', cache) \in SUBSET Docs
    BY <1>0, <2>2, ViewType
  <2>4. QED
    BY <2>1, <2>3, Emitted, NothingPosted
<1>2. CASE Listen
  <2>1. Emit(<<>>, TRUE, View(current, pending, cache)) /\ server' = server
    BY <1>2 DEF Listen, storeVars
  <2>2. View(current, pending, cache) \in SUBSET Docs
    BY <1>0, ViewType
  <2>3. QED
    BY <2>1, <2>2, Emitted, NothingPosted
<1>3. CASE HandleSuccessfulWrite
  <2> DEFINE d == Head(pending)
             b == NotifyUser(d, "ok")
             D == View(current, Tail(pending), cache \cup {d})
  <2>1. answers # <<>> /\ Head(answers) = "ok" /\ server' = server /\ Emit(b, listening, D)
    BY <1>3 DEF HandleSuccessfulWrite
  <2>2. /\ d \in Own /\ d \in Docs /\ TrueOf("ok", d, server)
        /\ Tail(pending) \in Seq(Own)
    BY <2>1, QueueHead
  <2>3. D \in SUBSET Docs
    BY <1>0, <2>2, ViewType
  <2>4. b \in Seq(Blocks) /\ (\A i \in 1..Len(b) : IsQuiet(b[i])) /\ Reported(b, server)
    BY <2>2, AnswerPosted
  <2> HIDE DEF b, D
  <2>5. QED
    BY <2>1, <2>3, <2>4, Emitted
<1>4. CASE HandleRejectedWrite
  <2> DEFINE d == Head(pending)
             b == NotifyUser(d, "refused")
             D == View(current, Tail(pending), cache)
  <2>1. answers # <<>> /\ Head(answers) = "refused" /\ server' = server /\ Emit(b, listening, D)
    BY <1>4 DEF HandleRejectedWrite
  <2>2. /\ d \in Own /\ TrueOf("refused", d, server) /\ Tail(pending) \in Seq(Own)
    BY <2>1, QueueHead
  <2>3. D \in SUBSET Docs
    BY <1>0, <2>2, ViewType
  <2>4. b \in Seq(Blocks) /\ (\A i \in 1..Len(b) : IsQuiet(b[i])) /\ Reported(b, server)
    BY <2>2, AnswerPosted
  <2> HIDE DEF b, D
  <2>5. QED
    BY <2>1, <2>3, <2>4, Emitted
<1>5. CASE ApplyRemoteEvent
  <2>1. Emit(<<>>, listening, View(current, pending, server)) /\ server' = server
    BY <1>5 DEF ApplyRemoteEvent
  <2>2. View(current, pending, server) \in SUBSET Docs
    BY <1>0, ViewType
  <2>3. QED
    BY <2>1, <2>2, Emitted, NothingPosted
<1>6. CASE BackendTakesWrite \/ WriteStreamBreaks \/ OtherClient
  <2>1. UNCHANGED <<main, snaps>>
    BY <1>6 DEF BackendTakesWrite, WriteStreamBreaks, OtherClient, listeners
  <2>2. server \cap Own \subseteq server'
    <3>1. CASE BackendTakesWrite
      BY <3>1 DEF BackendTakesWrite
    <3>2. CASE WriteStreamBreaks
      BY <3>2 DEF WriteStreamBreaks
    <3>3. CASE OtherClient
      BY <1>0, <3>3, OthersOnly
    <3>4. QED
      BY <1>6, <3>1, <3>2, <3>3
  <2>3. Reported(main, server')
    BY <1>0, <2>2, ReportedKept DEF QueueInv
  <2>4. QED
    BY <2>1, <2>3 DEF QueueInv, SnapsKept
<1>7. CASE HandleCredentialChange
  <2>1. Emit(<<>>, listening, View(current', pending, cache)) /\ server' = server
    BY <1>7 DEF HandleCredentialChange
  <2>2. View(current', pending, cache) \in SUBSET Docs
    BY <1>0, ViewType
  <2>3. QED
    BY <2>1, <2>2, Emitted, NothingPosted
<1>8. CASE HandleRejectedListen
  <2>1. UNCHANGED <<main, snaps, server>>
    BY <1>8 DEF HandleRejectedListen, storeVars
  <2>2. QED
    BY <2>1 DEF QueueInv, SnapsKept
<1>9. QED
  BY <1>1, <1>2, <1>3, <1>4, <1>5, <1>6, <1>7, <1>8 DEF Client, ClientStep

\* A sign-out leaves the completions, which are quiet.
LEMMA CompletionsLeft ==
  ASSUME QueueInv
  PROVE  LET q == OfKinds(main, {"completion"})
         IN QueueFits(q, <<>>, <<>>) /\ Reported(q, server)
<1> DEFINE q == OfKinds(main, {"completion"})
<1>1. main \in Seq(Blocks)
  BY FitShapes DEF QueueInv
<1>2. q \in Seq(Blocks) /\ Len(q) \in Nat /\ \E at : IsSelection(at, q, main, {"completion"})
  BY <1>1, OfKindsElements
<1> HIDE DEF q
<1>3. PICK at : IsSelection(at, q, main, {"completion"})
  BY <1>2
<1>4. \A j \in 1..Len(q) : at[j] \in 1..Len(main) /\ q[j] = main[at[j]] /\ q[j].kind = "completion"
  BY <1>3 DEF IsSelection
<1>5. Reported(q, server)
  BY <1>4 DEF QueueInv, Reported
<1>6. QueueFits(q, <<>>, <<>>)
  <2>1. /\ <<>> \in Seq(Seq(Docs)) /\ <<>> \in Seq(SUBSET Docs)
        /\ Len(<<>>) = 0 /\ 1..0 = {} /\ (0 + 1)..0 = {}
    OBVIOUS
  <2>2. \A i \in 1..Len(q) : ~IsEvent(q[i]) /\ q[i].kind # "append"
    BY <1>4 DEF IsEvent
  <2>3. EventsInOrder(q, 0, 0)
    BY <2>1, <2>2 DEF EventsInOrder
  <2>4. QED
    BY <1>2, <2>1, <2>2, <2>3 DEF QueueFits
<1>7. QED
  BY <1>5, <1>6 DEF q

LEMMA QueueStep ==
  ASSUME StoreInv, QueueInv, [Next]_vars
  PROVE  QueueInv'
<1>0. main \in Seq(Blocks) /\ snaps \in Seq(SUBSET Docs) /\ Len(histories) <= Len(snaps)
  BY FitShapes DEF QueueInv
<1>1. ASSUME NEW d \in Own, continueButtonPressed(d) PROVE QueueInv'
  BY <1>1 DEF QueueInv, Reported, continueButtonPressed, historyVars, storeVars, listeners
<1>2. CASE openHistory
  BY <1>2 DEF QueueInv, Reported, openHistory, storeVars, listeners
<1>3. CASE reloadOrderHistory
  <2>1. /\ main' = Append(main, ReloadBlock) /\ UNCHANGED <<histories, snaps, server>>
    BY <1>3 DEF reloadOrderHistory, appVars, historyVars, storeVars, listeners
  <2>2. ReloadBlock \in Blocks /\ ReloadBlock.kind = "reload"
    BY BlockShapes
  <2>3. /\ <<ReloadBlock>> \in Seq(Blocks)
        /\ \A i \in 1..Len(<<ReloadBlock>>) : IsQuiet(<<ReloadBlock>>[i])
        /\ Reported(<<ReloadBlock>>, server)
    <3>1. IsQuiet(ReloadBlock) /\ ReloadBlock.kind # "completion"
      BY <2>2 DEF IsQuiet
    <3>2. QED
      BY <2>2, <3>1, OnePosted
  <2>4. main' = main \o <<ReloadBlock>>
    BY <1>0, <2>1, <2>2, AppendIsConcat
  <2>5. QED
    BY <1>0, <2>1, <2>3, <2>4, QuietPosted, ReportedPosted DEF QueueInv
<1>4. CASE completion \/ reloadData
  <2>1. /\ main # <<>> /\ Head(main).kind \in {"completion", "reload"} /\ main' = Tail(main)
        /\ UNCHANGED <<histories, snaps, server>>
    BY <1>4 DEF completion, reloadData, NextIs, historyVars, storeVars, listeners
  <2>2. QED
    BY <1>0, <2>1, QuietRun, ReportedRun DEF QueueInv, IsQuiet
<1>5. CASE snapshotArrived
  <2> DEFINE k == Head(main).snap
             b == AppendBlocks(k)
             t == Histories(snaps[k])
  <2>1. /\ main # <<>> /\ IsEvent(Head(main)) /\ main' = Tail(main) \o b
        /\ histories' = Append(histories, <<>>) /\ UNCHANGED <<snaps, server>>
    BY <1>5 DEF snapshotArrived, NextIs, IsEvent, storeVars, listeners
  <2>2. k = Len(histories) + 1 /\ Len(histories) + 1 <= Len(snaps) /\ Len(histories) \in Nat
    BY <1>0, <2>1, FitShapes, EventsAfterEvent DEF QueueInv, QueueFits
  <2>3. k \in Nat /\ snaps[k] \in SUBSET Docs
    <3>1. k \in 1..Len(snaps)
      BY <2>2
    <3>2. QED
      BY <1>0, <3>1, ElementOfSeq
  <2>4. /\ b \in Seq(Blocks) /\ Len(b) = Len(t)
        /\ \A i \in 1..Len(t) : b[i] = [kind |-> "append", snap |-> k, doc |-> t[i]]
    BY <2>3, AppendBlocksShape
  <2>5. QueueFits(main', histories', snaps')
    <3>1. QueueFits(Tail(main) \o b, Append(histories, <<>>), snaps)
      BY <2>1, <2>4, EventRun DEF QueueInv
    <3>2. QED
      BY <2>1, <3>1
  <2>6. Reported(b, server)
    <3> SUFFICES ASSUME NEW i \in 1..Len(b) PROVE b[i].kind # "completion"
      BY DEF Reported
    <3>1. b[i] = [kind |-> "append", snap |-> k, doc |-> t[i]]
      BY <2>4
    <3>2. QED
      BY <3>1
  <2>7. Reported(Tail(main), server) /\ Tail(main) \in Seq(Blocks)
    BY <1>0, <2>1, ReportedRun, TailElements DEF QueueInv
  <2>8. Reported(main', server')
    <3>1. Reported(Tail(main) \o b, server)
      BY <2>4, <2>6, <2>7, ReportedPosted
    <3>2. QED
      BY <2>1, <3>1
  <2>9. QED
    BY <2>5, <2>8 DEF QueueInv
<1>6. CASE appendHistory
  <2> DEFINE k == Head(main).snap
             list == Append(histories[k], Head(main).doc)
  <2>1. /\ main # <<>> /\ Head(main).kind = "append" /\ main' = Tail(main)
        /\ histories' = [histories EXCEPT ![k] = list] /\ UNCHANGED <<snaps, server>>
    BY <1>6 DEF appendHistory, NextIs, AddedToItsHistory, storeVars, listeners
  <2>2. QueueFits(Tail(main), [histories EXCEPT ![k] = list], snaps)
    BY <2>1, AppendRun DEF QueueInv
  <2>3. Reported(Tail(main), server)
    BY <1>0, <2>1, ReportedRun DEF QueueInv
  <2>4. QED
    BY <2>1, <2>2, <2>3 DEF QueueInv
<1>7. CASE Client
  <2>1. histories' = histories
    BY <1>7 DEF Client, historyVars
  <2>2. QED
    BY <1>7, <2>1, ClientPosts DEF QueueInv
<1>8. CASE AppRestart
  <2>1. main' = <<>> /\ snaps' = <<>> /\ histories' = <<>>
    BY <1>8 DEF AppRestart, Restart, NoHistory
  <2>2. QED
    BY <2>1 DEF QueueInv, QueueFits, EventsInOrder, Reported
<1>9. CASE UNCHANGED vars
  BY <1>9 DEF QueueInv, vars, storeAll, storeVars, listeners, appVars, historyVars
<1>10. CASE login \/ signOutByForce
  BY <1>10 DEF QueueInv, Reported, login, signOutByForce, historyVars, storeVars, listeners
<1>11. CASE didTapLogout
  <2>1. /\ main' = OfKinds(main, {"completion"}) /\ histories' = <<>> /\ snaps' = <<>>
        /\ server' = server
    BY <1>11 DEF didTapLogout, NoHistory, storeVars
  <2>2. QED
    BY <2>1, CompletionsLeft DEF QueueInv
<1>12. QED
  BY <1>1, <1>2, <1>3, <1>4, <1>5, <1>6, <1>7, <1>8, <1>9, <1>10, <1>11 DEF Next, MainStep

-----------------------------------------------------------------------------
(***************************************************************************)
(* The screens                                                             *)
(***************************************************************************)
\* The orders on the screen are the beginning of a snapshot that was raised.
OrdersFit ==
  orders # <<>> => \E k \in 1..Len(snaps) : Beginning(orders, Histories(snaps[k]))

ScreenInv ==
  /\ listening \in BOOLEAN /\ lingering \in BOOLEAN /\ signedIn \in BOOLEAN /\ home \in BOOLEAN
  /\ unsent \subseteq confirmed /\ opened \in BOOLEAN /\ rows \in Nat /\ orders \in Seq(Docs)
  /\ told \in [Own -> {"nothing", "ok", "refused"}]
  /\ OrdersFit /\ AnswersAreTrue

LEMMA AnswersKept ==
  ASSUME AnswersAreTrue, server \cap Own \subseteq server', told' = told
  PROVE  AnswersAreTrue'
  BY DEF AnswersAreTrue

LEMMA ScreenStep ==
  ASSUME StoreInv, QueueInv, ScreenInv, [Next]_vars
  PROVE  ScreenInv'
<1>0. main \in Seq(Blocks) /\ snaps \in Seq(SUBSET Docs) /\ server \subseteq Docs
  BY FitShapes DEF QueueInv, StoreInv, StoreTyped
<1>1. ASSUME NEW d \in Own, continueButtonPressed(d) PROVE ScreenInv'
  BY <1>1, AnswersKept DEF ScreenInv, OrdersFit, continueButtonPressed, historyVars, storeVars, listeners, session
<1>2. CASE openHistory
  BY <1>2, AnswersKept DEF ScreenInv, OrdersFit, openHistory, storeVars, listeners, session
<1>3. CASE reloadOrderHistory
  BY <1>3, AnswersKept DEF ScreenInv, OrdersFit, reloadOrderHistory, storeVars, appVars, historyVars, listeners, session
<1>4. CASE completion
  <2> DEFINE d == Head(main).doc
             r == Head(main).result
  <2>1. /\ main # <<>> /\ Head(main).kind = "completion" /\ told' = [told EXCEPT ![d] = r]
        /\ UNCHANGED <<listening, lingering, signedIn, home, unsent, confirmed, opened, rows, orders, snaps, server>>
    BY <1>4 DEF completion, NextIs, ResultOf, storeVars, historyVars, listeners, session
  <2>2. d \in Own /\ r \in {"ok", "refused"}
    BY <1>0, <2>1, TailElements, BlockShapes
  <2>3. TrueOf(r, d, server)
    BY <1>0, <2>1, ReportedRun DEF QueueInv
  <2> HIDE DEF d, r
  <2>4. told' \in [Own -> {"nothing", "ok", "refused"}]
    BY <2>1, <2>2 DEF ScreenInv
  <2>5. AnswersAreTrue'
    BY <2>1, <2>2, <2>3 DEF ScreenInv, AnswersAreTrue, TrueOf
  <2>6. QED
    BY <2>1, <2>4, <2>5 DEF ScreenInv, OrdersFit
<1>5. CASE snapshotArrived
  BY <1>5, AnswersKept DEF ScreenInv, OrdersFit, snapshotArrived, storeVars, listeners, session
<1>6. CASE appendHistory
  <2> DEFINE k == Head(main).snap
             list == Append(histories[k], Head(main).doc)
  <2>1. /\ main # <<>> /\ Head(main).kind = "append" /\ orders' = list
        /\ UNCHANGED <<listening, lingering, signedIn, home, unsent, confirmed, opened, rows, told, snaps, server>>
    BY <1>6 DEF appendHistory, NextIs, AddedToItsHistory, storeVars, listeners, session
  <2>2. k \in 1..Len(snaps) /\ list \in Seq(Docs) /\ Beginning(list, Histories(snaps[k]))
    BY <2>1, AppendRun DEF QueueInv
  <2> HIDE DEF k, list
  <2>3. OrdersFit'
    BY <2>1, <2>2 DEF OrdersFit
  <2>4. QED
    BY <2>1, <2>2, <2>3, AnswersKept DEF ScreenInv
<1>7. CASE reloadData
  <2>1. rows' = Len(orders) /\ UNCHANGED <<listening, lingering, signedIn, home, unsent, confirmed, opened, orders, told, snaps, server>>
    BY <1>7 DEF reloadData, numberOfRows, storeVars, listeners, session
  <2>2. rows' \in Nat
    BY <2>1, LenProperties DEF ScreenInv
  <2>3. QED
    BY <2>1, <2>2, AnswersKept DEF ScreenInv, OrdersFit
<1>8. CASE Client
  <2>1. UNCHANGED <<signedIn, home, unsent, confirmed, opened, rows, orders, told>>
    BY <1>8 DEF Client, historyVars, session
  <2>2. listening' \in BOOLEAN /\ lingering' \in BOOLEAN
    BY <1>8 DEF ScreenInv, Client, ClientStep, WriteMutations, Listen, BackendTakesWrite,
       HandleCredentialChange, HandleSuccessfulWrite, HandleRejectedWrite, HandleRejectedListen,
       WriteStreamBreaks, ApplyRemoteEvent, OtherClient, listeners
  <2>3. server \cap Own \subseteq server'
    <3>1. CASE OtherClient
      BY <1>0, <3>1, OthersOnly
    <3>2. CASE ~OtherClient
      BY <1>8, <3>2 DEF Client, ClientStep, WriteMutations, Listen, BackendTakesWrite, storeVars,
         HandleCredentialChange, HandleSuccessfulWrite, HandleRejectedWrite, HandleRejectedListen,
         WriteStreamBreaks, ApplyRemoteEvent
    <3>3. QED
      BY <3>1, <3>2
  <2>4. OrdersFit'
    <3>1. SnapsKept
      BY <1>8, ClientPosts
    <3>2. QED
      BY <2>1, <3>1 DEF ScreenInv, OrdersFit, SnapsKept
  <2>5. QED
    BY <2>1, <2>2, <2>3, <2>4, AnswersKept DEF ScreenInv
<1>9. CASE AppRestart
  <2>1. /\ listening' = FALSE /\ lingering' = FALSE /\ signedIn' = FALSE /\ home' = FALSE
        /\ opened' = FALSE /\ rows' = 0 /\ orders' = <<>>
        /\ UNCHANGED <<unsent, confirmed, told, server>>
    BY <1>9 DEF AppRestart, Restart, NoHistory
  <2>2. AnswersAreTrue'
    BY <2>1, AnswersKept DEF ScreenInv
  <2>3. orders' \in Seq(Docs) /\ OrdersFit'
    BY <2>1 DEF OrdersFit
  <2>4. QED
    BY <2>1, <2>2, <2>3 DEF ScreenInv
<1>10. CASE UNCHANGED vars
  BY <1>10, AnswersKept DEF ScreenInv, OrdersFit, vars, storeAll, storeVars, appVars, historyVars, listeners, session
<1>11. CASE login \/ signOutByForce
  <2>1. /\ UNCHANGED <<listening, lingering, unsent, confirmed, opened, rows, orders, told, snaps, server>>
        /\ signedIn' \in BOOLEAN /\ home' \in BOOLEAN
    BY <1>11 DEF ScreenInv, login, signOutByForce, historyVars, storeVars, listeners
  <2>2. QED
    BY <2>1, AnswersKept DEF ScreenInv, OrdersFit
<1>12. CASE didTapLogout
  <2>1. /\ listening' = FALSE /\ lingering' = (listening \/ lingering)
        /\ signedIn' = FALSE /\ home' = FALSE
        /\ opened' = FALSE /\ rows' = 0 /\ orders' = <<>>
        /\ UNCHANGED <<unsent, confirmed, told, server>>
    BY <1>12 DEF didTapLogout, NoHistory, storeVars
  <2>2. AnswersAreTrue'
    BY <2>1, AnswersKept DEF ScreenInv
  <2>3. orders' \in Seq(Docs) /\ OrdersFit'
    BY <2>1 DEF OrdersFit
  <2>4. QED
    BY <2>1, <2>2, <2>3 DEF ScreenInv
<1>13. QED
  BY <1>1, <1>2, <1>3, <1>4, <1>5, <1>6, <1>7, <1>8, <1>9, <1>10, <1>11, <1>12 DEF Next, MainStep

-----------------------------------------------------------------------------
(***************************************************************************)
(* The rows of the table.  H are the arrays of the callbacks, S the        *)
(* snapshots, o the orders on the screen and r the rows counted.           *)
(***************************************************************************)
Grows(S) == \A i, j \in 1..Len(S) : i < j => S[i] \subseteq S[j]

\* The orders are the array of the k-th snapshot, as far as it is, and nothing
\* has been added for a later one; the table has counted no more than that
\* snapshot will have in the end, if snapshots only grow.
Shows(k, H, S, o, r) ==
  /\ o = IF k = 0 THEN <<>> ELSE H[k]
  /\ \A j \in 1..Len(H) : k < j => H[j] = <<>>
  /\ r = 0 \/ (k # 0 /\ (Grows(S) => r <= Len(Histories(S[k]))))

RowsInv ==
  \E k \in 0..Len(histories) : From(main, k) /\ Shows(k, histories, snaps, orders, rows)

\* A larger snapshot has at least as many well-formed documents.
LEMMA MoreDocuments ==
  ASSUME NEW D \in SUBSET Docs, NEW E \in SUBSET Docs, D \subseteq E
  PROVE  Len(Histories(D)) <= Len(Histories(E))
<1>1. /\ IsFiniteSet(E \ Malformed) /\ D \ Malformed \subseteq E \ Malformed
  BY DocsAssumption, FS_Subset
<1>2. Cardinality(D \ Malformed) <= Cardinality(E \ Malformed)
  BY <1>1, FS_Subset
<1>3. \A F \in SUBSET Docs : Len(Histories(F)) = Cardinality(F \ Malformed)
  <2> SUFFICES ASSUME NEW F \in SUBSET Docs
               PROVE  Len(Histories(F)) = Cardinality(F \ Malformed)
    OBVIOUS
  <2>1. Cardinality(F \ Malformed) \in Nat
    BY DocsAssumption, FS_Subset, FS_CardinalityType
  <2>2. QED
    BY <2>1 DEF Histories, Ascending
<1>4. QED
  BY <1>2, <1>3

\* Snapshots raised later do not change what is shown.
LEMMA ShownStands ==
  ASSUME NEW H, NEW S \in Seq(SUBSET Docs), NEW T \in Seq(SUBSET Docs), NEW o, NEW r,
         Len(H) \in Nat, NEW k \in 0..Len(H), Len(H) <= Len(S),
         \A j \in 1..Len(S) : j \in 1..Len(T) /\ T[j] = S[j],
         Shows(k, H, S, o, r)
  PROVE  Shows(k, H, T, o, r)
<1>1. Grows(T) => Grows(S)
  BY DEF Grows
<1>2. k # 0 => T[k] = S[k]
  <2>1. k # 0 => k \in 1..Len(S)
    BY LenProperties
  <2>2. QED
    BY <2>1
<1>3. QED
  BY <1>1, <1>2 DEF Shows

\* The block that is run adds to the array of snapshot m, which is now shown.
LEMMA ShownAfterAppend ==
  ASSUME NEW H \in Seq(Seq(Docs)), NEW S \in Seq(SUBSET Docs), NEW o, NEW r \in Nat,
         NEW k \in 0..Len(H), Len(H) <= Len(S), Shows(k, H, S, o, r),
         NEW m \in 1..Len(H), k <= m, NEW list \in Seq(Docs)
  PROVE  Shows(m, [H EXCEPT ![m] = list], S, list, r)
<1> DEFINE G == [H EXCEPT ![m] = list]
<1>1. Len(H) \in Nat /\ Len(S) \in Nat
  BY LenProperties
<1>2. Len(G) = Len(H) /\ G[m] = list /\ \A j \in 1..Len(H) : j # m => G[j] = H[j]
  BY ExceptSeq
<1> HIDE DEF G
<1>3. ASSUME NEW j \in 1..Len(G), m < j PROVE G[j] = <<>>
  <2>1. j \in 1..Len(H) /\ k < j /\ j # m
    BY <1>1, <1>2, <1>3
  <2>2. QED
    BY <1>2, <2>1 DEF Shows
<1>4. ASSUME r # 0, Grows(S) PROVE r <= Len(Histories(S[m]))
  <2>1. k # 0 /\ r <= Len(Histories(S[k]))
    BY <1>4 DEF Shows
  <2>2. k \in 1..Len(S) /\ m \in 1..Len(S)
    BY <1>1, <2>1
  <2>3. S[k] \in SUBSET Docs /\ S[m] \in SUBSET Docs
    BY <2>2, ElementOfSeq
  <2>4. S[k] \subseteq S[m]
    BY <1>1, <1>4, <2>2 DEF Grows
  <2>5. Len(Histories(S[k])) <= Len(Histories(S[m]))
    BY <2>3, <2>4, MoreDocuments
  <2>6. Len(Histories(S[k])) \in Nat /\ Len(Histories(S[m])) \in Nat
    BY <2>3, HistoriesType
  <2>7. QED
    BY <2>1, <2>5, <2>6
<1>5. m # 0
  BY <1>1
<1>6. Shows(m, G, S, list, r)
  BY <1>2, <1>3, <1>4, <1>5 DEF Shows
<1>7. QED
  BY <1>6 DEF G

\* A callback that starts with nothing
LEMMA ShownAfterEvent ==
  ASSUME NEW H \in Seq(Seq(Docs)), NEW S, NEW o, NEW r,
         NEW k \in 0..Len(H), Shows(k, H, S, o, r)
  PROVE  k \in 0..Len(Append(H, <<>>)) /\ Shows(k, Append(H, <<>>), S, o, r)
<1> DEFINE G == Append(H, <<>>)
<1>1. /\ Len(H) \in Nat /\ Len(G) = Len(H) + 1 /\ G[Len(H) + 1] = <<>>
      /\ \A j \in 1..Len(H) : G[j] = H[j]
  BY AppendProperties, LenProperties
<1> HIDE DEF G
<1>2. k # 0 => G[k] = H[k]
  BY <1>1
<1>3. ASSUME NEW j \in 1..Len(G), k < j PROVE G[j] = <<>>
  <2>1. CASE j \in 1..Len(H)
    BY <1>1, <1>3, <2>1 DEF Shows
  <2>2. CASE j \notin 1..Len(H)
    BY <1>1, <2>2
  <2>3. QED
    BY <2>1, <2>2
<1>4. k \in 0..Len(G) /\ Shows(k, G, S, o, r)
  BY <1>1, <1>2, <1>3 DEF Shows
<1>5. QED
  BY <1>4 DEF G

\* The table counts what is shown.
LEMMA ShownAfterReload ==
  ASSUME NEW q, NEW H, NEW S, QueueFits(q, H, S), NEW o, NEW r,
         NEW k \in 0..Len(H), Shows(k, H, S, o, r)
  PROVE  Shows(k, H, S, o, Len(o))
<1>1. CASE k = 0
  <2>1. o = <<>> /\ Len(<<>>) = 0
    BY <1>1 DEF Shows
  <2>2. QED
    BY <2>1 DEF Shows
<1>2. CASE k # 0
  <2>1. k \in 1..Len(H)
    BY <1>2, FitShapes
  <2>2. Len(H[k]) <= Len(Histories(S[k]))
    BY <2>1 DEF QueueFits, RunInOrder, Beginning
  <2>3. o = H[k]
    BY <1>2 DEF Shows
  <2>4. QED
    BY <1>2, <2>2, <2>3 DEF Shows
<1>3. QED
  BY <1>1, <1>2

LEMMA RowsStep ==
  ASSUME StoreInv, QueueInv, ScreenInv, RowsInv, [Next]_vars
  PROVE  RowsInv'
<1>0. /\ main \in Seq(Blocks) /\ histories \in Seq(Seq(Docs)) /\ snaps \in Seq(SUBSET Docs)
      /\ Len(histories) \in Nat /\ Len(histories) <= Len(snaps)
      /\ \A j \in 1..Len(histories) : j \in 1..Len(snaps)
      /\ QueueFits(main, histories, snaps)
  BY FitShapes DEF QueueInv
<1>k. PICK k \in 0..Len(histories) : From(main, k) /\ Shows(k, histories, snaps, orders, rows)
  BY DEF RowsInv
<1>s. ASSUME UNCHANGED <<main, histories, snaps, orders, rows>> PROVE RowsInv'
  BY <1>s, <1>k DEF RowsInv
<1>1. ASSUME NEW d \in Own, continueButtonPressed(d) PROVE RowsInv'
  BY <1>1, <1>s DEF continueButtonPressed, historyVars, listeners
<1>2. CASE openHistory
  BY <1>2, <1>s DEF openHistory, listeners
<1>3. CASE reloadOrderHistory
  <2>1. main' = Append(main, ReloadBlock) /\ UNCHANGED <<histories, snaps, orders, rows>>
    BY <1>3 DEF reloadOrderHistory, appVars, historyVars, listeners
  <2>2. /\ <<ReloadBlock>> \in Seq(Blocks)
        /\ \A i \in 1..Len(<<ReloadBlock>>) : <<ReloadBlock>>[i].kind # "append"
        /\ Append(main, ReloadBlock) = main \o <<ReloadBlock>>
    <3>1. ReloadBlock \in Blocks /\ ReloadBlock.kind = "reload"
      BY BlockShapes
    <3>2. /\ <<ReloadBlock>> \in Seq(Blocks) /\ Len(<<ReloadBlock>>) = 1
          /\ <<ReloadBlock>>[1] = ReloadBlock
      BY <3>1
    <3>3. QED
      BY <1>0, <3>1, <3>2, AppendIsConcat
  <2>3. From(main', k)
    BY <1>0, <1>k, <2>1, <2>2, FromPosted
  <2>4. QED
    BY <1>k, <2>1, <2>3 DEF RowsInv
<1>4. CASE completion
  <2>1. main # <<>> /\ main' = Tail(main) /\ UNCHANGED <<histories, snaps, orders, rows>>
    BY <1>4 DEF completion, NextIs, historyVars, listeners
  <2>2. From(main', k)
    BY <1>0, <1>k, <2>1, FromRun
  <2>3. QED
    BY <1>k, <2>1, <2>2 DEF RowsInv
<1>5. CASE reloadData
  <2>1. /\ main # <<>> /\ main' = Tail(main) /\ rows' = Len(orders)
        /\ UNCHANGED <<histories, snaps, orders>>
    BY <1>5 DEF reloadData, NextIs, numberOfRows, listeners
  <2>2. From(main', k)
    BY <1>0, <1>k, <2>1, FromRun
  <2>3. Shows(k, histories, snaps, orders, Len(orders))
    BY <1>0, <1>k, ShownAfterReload
  <2>4. QED
    BY <2>1, <2>2, <2>3 DEF RowsInv
<1>6. CASE snapshotArrived
  <2>1. /\ main # <<>> /\ IsEvent(Head(main))
        /\ main' = Tail(main) \o AppendBlocks(Head(main).snap)
        /\ histories' = Append(histories, <<>>) /\ UNCHANGED <<snaps, orders, rows>>
    BY <1>6 DEF snapshotArrived, NextIs, IsEvent, listeners
  <2>2. PICK n \in Nat : n = Len(histories) + 1
    BY <1>0
  <2>3. Head(main).snap = n /\ n <= Len(snaps)
    BY <1>0, <2>1, <2>2, EventsAfterEvent DEF QueueFits
  <2>4. snaps[n] \in SUBSET Docs
    <3>1. n \in 1..Len(snaps)
      BY <1>0, <2>2, <2>3, LenProperties
    <3>2. QED
      BY <1>0, <3>1, ElementOfSeq
  <2>5. /\ AppendBlocks(n) \in Seq(Blocks)
        /\ \A i \in 1..Len(AppendBlocks(n)) :
             AppendBlocks(n)[i].kind = "append" /\ AppendBlocks(n)[i].snap = n
    <3>1. /\ AppendBlocks(n) \in Seq(Blocks)
          /\ \A i \in 1..Len(AppendBlocks(n)) :
               AppendBlocks(n)[i] = [kind |-> "append", snap |-> n, doc |-> Histories(snaps[n])[i]]
      BY <2>4, AppendBlocksShape
    <3>2. ASSUME NEW i \in 1..Len(AppendBlocks(n))
          PROVE  AppendBlocks(n)[i].kind = "append" /\ AppendBlocks(n)[i].snap = n
      <4>1. AppendBlocks(n)[i] = [kind |-> "append", snap |-> n, doc |-> Histories(snaps[n])[i]]
        BY <3>1
      <4>2. QED
        BY <4>1
    <3>3. QED
      BY <3>1, <3>2
  <2>6. /\ Tail(main) \in Seq(Blocks)
        /\ \A i \in 1..Len(Tail(main)) : Tail(main)[i].kind = "append" => Tail(main)[i].snap <= n
    <3>1. /\ Tail(main) \in Seq(Blocks)
          /\ \A i \in 1..Len(Tail(main)) :
               Tail(main)[i].kind = "append" => Tail(main)[i].snap \in 1..Len(histories)
      BY <1>0, <2>1, TailElements DEF QueueFits
    <3>2. \A s \in 1..Len(histories) : s <= n
      BY <1>0, <2>2
    <3>3. QED
      BY <3>1, <3>2
  <2>7. From(Tail(main), k)
    BY <1>0, <1>k, <2>1, FromRun
  <2>8. From(main', k)
    <3>1. k \in Nat /\ k <= n
      BY <1>0, <2>2
    <3>2. From(Tail(main) \o AppendBlocks(n), k)
      BY <2>5, <2>6, <2>7, <3>1, FromSnapshot
    <3>3. QED
      BY <2>1, <2>3, <3>2
  <2>9. k \in 0..Len(histories') /\ Shows(k, histories', snaps, orders, rows)
    BY <1>0, <1>k, <2>1, ShownAfterEvent
  <2>10. QED
    BY <2>1, <2>8, <2>9 DEF RowsInv
<1>7. CASE appendHistory
  <2>1. /\ main # <<>> /\ Head(main).kind = "append" /\ main' = Tail(main)
        /\ histories' = [histories EXCEPT ![Head(main).snap] =
                           Append(histories[Head(main).snap], Head(main).doc)]
        /\ orders' = Append(histories[Head(main).snap], Head(main).doc)
        /\ UNCHANGED <<snaps, rows>>
    BY <1>7 DEF appendHistory, NextIs, AddedToItsHistory, listeners
  <2>2. PICK m \in 1..Len(histories) : m = Head(main).snap
    <3>1. Head(main) = main[1] /\ 1 \in 1..Len(main)
      BY <1>0, <2>1, TailElements
    <3>2. QED
      BY <1>0, <2>1, <3>1 DEF QueueFits
  <2>3. orders' \in Seq(Docs)
    BY <1>0, <2>1, AppendRun
  <2>4. k <= m /\ From(main', m)
    BY <1>0, <1>k, <2>1, <2>2, FromRun
  <2>5. histories' = [histories EXCEPT ![m] = orders']
    BY <2>1, <2>2
  <2>6. Shows(m, histories', snaps, orders', rows)
    <3> DEFINE o == orders'
    <3>1. o \in Seq(Docs) /\ histories' = [histories EXCEPT ![m] = o] /\ rows \in Nat
      BY <2>3, <2>5 DEF ScreenInv
    <3> HIDE DEF o
    <3>2. Shows(m, [histories EXCEPT ![m] = o], snaps, o, rows)
      BY <1>0, <1>k, <2>4, <3>1, ShownAfterAppend
    <3>3. QED
      BY <3>1, <3>2 DEF o
  <2>7. m \in 0..Len(histories')
    <3>1. Len(histories') = Len(histories)
      BY <1>0, <2>3, <2>5, ExceptSeq
    <3>2. QED
      BY <1>0, <3>1
  <2>8. QED
    BY <2>1, <2>4, <2>6, <2>7 DEF RowsInv
<1>8. CASE Client
  <2>1. UNCHANGED <<histories, orders, rows>>
    BY <1>8 DEF Client, historyVars
  <2>2. /\ QueueFits(main', histories, snaps') /\ SnapsKept /\ From(main', k)
    BY <1>8, <1>k, ClientPosts
  <2>3. snaps' \in Seq(SUBSET Docs)
    BY <2>2, FitShapes
  <2>4. Shows(k, histories, snaps', orders, rows)
    <3> DEFINE T == snaps'
    <3>1. T \in Seq(SUBSET Docs) /\ \A j \in 1..Len(snaps) : j \in 1..Len(T) /\ T[j] = snaps[j]
      BY <2>2, <2>3 DEF SnapsKept
    <3> HIDE DEF T
    <3>2. Shows(k, histories, T, orders, rows)
      BY <1>0, <1>k, <3>1, ShownStands
    <3>3. QED
      BY <3>2 DEF T
  <2>5. QED
    BY <2>1, <2>2, <2>4 DEF RowsInv
<1>9. CASE AppRestart
  <2>1. main' = <<>> /\ histories' = <<>> /\ orders' = <<>> /\ rows' = 0
    BY <1>9 DEF AppRestart, Restart, NoHistory
  <2>2. From(<<>>, 0) /\ Shows(0, <<>>, snaps', <<>>, 0) /\ 0 \in 0..Len(<<>>)
    BY DEF From, Shows
  <2>3. QED
    BY <2>1, <2>2 DEF RowsInv
<1>10. CASE UNCHANGED vars
  BY <1>10, <1>s DEF vars, storeAll, appVars, historyVars, listeners
<1>11. CASE login \/ signOutByForce
  BY <1>11, <1>s DEF login, signOutByForce, historyVars, listeners
<1>12. CASE didTapLogout
  <2>1. /\ main' = OfKinds(main, {"completion"})
        /\ histories' = <<>> /\ orders' = <<>> /\ rows' = 0
    BY <1>12 DEF didTapLogout, NoHistory
  <2>2. From(main', 0)
    <3>1. PICK at : IsSelection(at, main', main, {"completion"})
      BY <1>0, <2>1, OfKindsElements
    <3>2. \A i \in 1..Len(main') : main'[i].kind = "completion"
      BY <3>1 DEF IsSelection
    <3>3. QED
      BY <3>2 DEF From
  <2>3. Shows(0, <<>>, snaps', <<>>, 0) /\ 0 \in 0..Len(<<>>)
    BY DEF Shows
  <2>4. QED
    BY <2>1, <2>2, <2>3 DEF RowsInv
<1>13. QED
  BY <1>1, <1>2, <1>3, <1>4, <1>5, <1>6, <1>7, <1>8, <1>9, <1>10, <1>11, <1>12 DEF Next, MainStep

-----------------------------------------------------------------------------
(***************************************************************************)
(* Theorems                                                                *)
(***************************************************************************)
IInv == StoreInv /\ QueueInv /\ ScreenInv /\ RowsInv

LEMMA InitHolds ==
  ASSUME Init PROVE IInv
<1>1. StoreInv
  <2>1. StoreTyped
    <3>1. /\ worker = <<>> /\ current = FALSE /\ pending = <<>> /\ answers = <<>>
          /\ server = {} /\ cache = {} /\ callbacks = {} /\ confirmed = {} /\ written = {}
      BY DEF Init, StoreInit
    <3>2. /\ worker \in Seq(Tasks) /\ pending \in Seq(Own) /\ answers \in Seq({"ok", "refused"})
          /\ Len(answers) <= Len(pending)
      BY <3>1
    <3>3. QED
      BY <3>1, <3>2 DEF StoreTyped
  <2>2. WritesFit /\ AnswersFit
    BY DEF Init, StoreInit, WritesFit, AnswersFit
  <2>3. QED
    BY <2>1, <2>2 DEF StoreInv
<1>2. QueueInv
  BY DEF Init, StoreInit, QueueInv, QueueFits, EventsInOrder, Reported
<1>3. ScreenInv
  <2>1. /\ listening = FALSE /\ lingering = FALSE /\ signedIn = FALSE /\ home = FALSE
        /\ unsent = {} /\ opened = FALSE /\ rows = 0 /\ orders = <<>>
        /\ told = [d \in Own |-> "nothing"]
    BY DEF Init, StoreInit
  <2>2. AnswersAreTrue /\ told \in [Own -> {"nothing", "ok", "refused"}]
    BY <2>1 DEF AnswersAreTrue
  <2>3. orders \in Seq(Docs) /\ OrdersFit
    BY <2>1 DEF OrdersFit
  <2>4. QED
    BY <2>1, <2>2, <2>3 DEF ScreenInv
<1>4. RowsInv
  <2>1. main = <<>> /\ histories = <<>> /\ orders = <<>> /\ rows = 0
    BY DEF Init, StoreInit
  <2>2. From(main, 0) /\ Shows(0, histories, snaps, orders, rows)
    BY <2>1 DEF From, Shows
  <2>3. QED
    BY <2>1, <2>2 DEF RowsInv
<1>5. QED
  BY <1>1, <1>2, <1>3, <1>4 DEF IInv

LEMMA InvariantHolds == Spec => []IInv
<1>1. IInv /\ [Next]_vars => IInv'
  BY StoreStep, QueueStep, ScreenStep, RowsStep DEF IInv
<1>2. QED
  BY <1>1, InitHolds, PTL DEF Spec

\* Type correctness.
THEOREM TypeCorrect == Spec => []TypeOK
<1>1. IInv => TypeOK
  BY Lengths, FitShapes DEF IInv, StoreInv, StoreTyped, QueueInv, ScreenInv, TypeOK
<1>2. QED
  BY <1>1, InvariantHolds, PTL

\* createOrder reports success only for an order the backend has stored, and
\* failure only for one it refuses: across every number of broken streams,
\* of orders sent again, of sign-outs and of restarts.
THEOREM AnswersCorrect == Spec => []AnswersAreTrue
<1>1. IInv => AnswersAreTrue
  BY DEF IInv, ScreenInv
<1>2. QED
  BY <1>1, InvariantHolds, PTL

\* The history on the screen is the beginning of one snapshot, whatever waits
\* on the main queue between the blocks that bring it in.
THEOREM HistoryCorrect == Spec => []NeverMixed
<1>1. IInv => NeverMixed
  <2> SUFFICES ASSUME IInv, orders # <<>>
               PROVE  \E k \in DOMAIN snaps : IsPrefix(orders, Histories(snaps[k]))
    BY DEF NeverMixed
  <2>1. snaps \in Seq(SUBSET Docs) /\ orders \in Seq(Docs)
    BY FitShapes DEF IInv, QueueInv, ScreenInv
  <2>2. PICK k \in 1..Len(snaps) : Beginning(orders, Histories(snaps[k]))
    BY DEF IInv, ScreenInv, OrdersFit
  <2> DEFINE t == Histories(snaps[k])
  <2>3. t \in Seq(Docs)
    BY <2>1, ElementOfSeq, HistoriesType
  <2> HIDE DEF t
  <2>4. Beginning(orders, t)
    BY <2>2 DEF t
  <2>5. /\ Len(orders) \in Nat /\ Len(t) \in Nat /\ Len(orders) <= Len(t)
        /\ \A i \in 1..Len(orders) : orders[i] = t[i]
    BY <2>1, <2>3, <2>4, LenProperties DEF Beginning
  <2>6. SubSeq(orders, 1, Len(orders)) = SubSeq(t, 1, Len(orders))
    BY <2>1, <2>3, <2>5
  <2>7. IsPrefix(orders, t)
    BY <2>5, <2>6 DEF IsPrefix
  <2>8. k \in DOMAIN snaps
    BY <2>1, LenProperties
  <2>9. QED
    BY <2>7, <2>8 DEF t
<1>2. QED
  BY <1>1, InvariantHolds, PTL

\* A row that the table counts can be filled whenever no rebuild is under way,
\* as long as snapshots only grow: what waits on the main queue is then
\* nothing, and the orders are all that their snapshot has.
THEOREM RowsCorrect == Spec => []RowsExistWhenIdle
<1>1. IInv => RowsExistWhenIdle
  <2> SUFFICES ASSUME IInv, Growing, ~Rebuilding PROVE rows <= Len(orders)
    BY DEF RowsExistWhenIdle
  <2>1. /\ main \in Seq(Blocks) /\ snaps \in Seq(SUBSET Docs) /\ rows \in Nat
        /\ orders \in Seq(Docs) /\ Len(orders) \in Nat /\ Len(main) \in Nat
        /\ QueueFits(main, histories, snaps)
    BY FitShapes, LenProperties DEF IInv, QueueInv, ScreenInv
  <2>2. PICK k \in 0..Len(histories) : Shows(k, histories, snaps, orders, rows)
    BY DEF IInv, RowsInv
  <2>3. \A i \in 1..Len(main) : main[i].kind # "append"
    <3>1. DOMAIN main = 1..Len(main)
      BY <2>1, LenProperties
    <3>2. QED
      BY <3>1 DEF Rebuilding
  <2>4. Grows(snaps)
    <3>1. DOMAIN snaps = 1..Len(snaps)
      BY <2>1, LenProperties
    <3>2. QED
      BY <3>1 DEF Growing, Grows
  <2>5. CASE rows = 0
    BY <2>1, <2>5
  <2>6. CASE rows # 0
    <3>1. k # 0 /\ rows <= Len(Histories(snaps[k])) /\ orders = histories[k]
      BY <2>2, <2>4, <2>6 DEF Shows
    <3>2. k \in 1..Len(histories)
      BY <2>1, <3>1, FitShapes
    <3> DEFINE t == Histories(snaps[k])
    <3>3. Len(t) \in Nat
      BY <2>1, <3>2, FitShapes
    <3>4. RunInOrder(main, k, orders, t)
      BY <2>1, <3>1, <3>2 DEF QueueFits
    <3> HIDE DEF t
    <3>5. PICK s \in Nat : RunFrom(main, k, orders, t, s)
      BY <3>4 DEF RunInOrder
    <3>6. Len(t) <= Len(orders)
      <4> SUFFICES ASSUME Len(orders) < Len(t) PROVE FALSE
        BY <2>1, <3>3
      <4>1. s + 1 \in 1..Len(main) /\ s < s + 1 /\ s + 1 <= s + (Len(t) - Len(orders))
        BY <2>1, <3>3, <3>5 DEF RunFrom
      <4>2. IsAppend(main[s + 1], k)
        BY <3>5, <4>1 DEF RunFrom
      <4>3. QED
        BY <2>3, <4>1, <4>2 DEF IsAppend
    <3>7. QED
      BY <2>1, <3>1, <3>3, <3>6 DEF t
  <2>7. QED
    BY <2>5, <2>6
<1>2. QED
  BY <1>1, InvariantHolds, PTL

-----------------------------------------------------------------------------
(***************************************************************************)
(* The ledger: what becomes of an order that was written                   *)
(***************************************************************************)
Status(d, stored, queue, known) ==
  IF d \in stored THEN "accepted"
  ELSE IF Contains(queue, d) THEN "written"
  ELSE IF d \in known THEN "refused" ELSE "none"

LEMMA StatusShape ==
  /\ statusOf = [d \in Own |-> Status(d, server, pending, written)]
  /\ statusOf' = [d \in Own |-> Status(d, server', pending', written')]
  BY DEF statusOf, Status

LEMMA StatusStands ==
  ASSUME \A e \in Own : Status(e, server', pending', written') = Status(e, server, pending, written)
  PROVE  statusOf' = statusOf
  BY StatusShape

LEMMA StatusMoves ==
  ASSUME NEW d \in Own, NEW v, Status(d, server', pending', written') = v,
         \A e \in Own \ {d} :
           Status(e, server', pending', written') = Status(e, server, pending, written)
  PROVE  /\ statusOf[d] = Status(d, server, pending, written)
         /\ statusOf' = [statusOf EXCEPT ![d] = v]
  BY StatusShape

LEMMA StatusWrites ==
  ASSUME StoreInv, Client, WriteMutations
  PROVE  Ledger!Next
<1> DEFINE d == Head(worker).doc
<1>1. d \in Own \ written /\ written' = written \cup {d}
  BY StoreWrites
<1>2. pending' = Append(pending, d) /\ server' = server /\ current' = current
  BY DEF WriteMutations
<1> HIDE DEF d
<1>3. /\ Len(pending') = Len(pending) + 1 /\ Len(pending) \in Nat
      /\ pending'[Len(pending) + 1] = d /\ \A i \in 1..Len(pending) : pending'[i] = pending[i]
  BY <1>1, <1>2, AppendProperties, LenProperties DEF StoreInv, StoreTyped
<1>4. \A e : Contains(pending', e) <=> Contains(pending, e) \/ e = d
  <2> SUFFICES ASSUME NEW e PROVE Contains(pending', e) <=> Contains(pending, e) \/ e = d
    OBVIOUS
  <2>1. Contains(pending, e) => Contains(pending', e)
    BY <1>3 DEF Contains
  <2>2. e = d => Contains(pending', e)
    BY <1>3 DEF Contains
  <2>3. Contains(pending', e) => Contains(pending, e) \/ e = d
    BY <1>3 DEF Contains
  <2>4. QED
    BY <2>1, <2>2, <2>3
<1>5. d \notin server /\ ~Contains(pending, d)
  BY <1>1 DEF StoreInv, WritesFit, Contains
<1>6. /\ Status(d, server, pending, written) = "none"
      /\ Status(d, server', pending', written') = "written"
  BY <1>1, <1>2, <1>4, <1>5 DEF Status
<1>7. \A e \in Own \ {d} :
        Status(e, server', pending', written') = Status(e, server, pending, written)
  BY <1>1, <1>2, <1>4 DEF Status
<1>8. statusOf[d] = "none" /\ statusOf' = [statusOf EXCEPT ![d] = "written"]
  BY <1>1, <1>6, <1>7, StatusMoves
<1>9. QED
  BY <1>1, <1>2, <1>8 DEF Ledger!Next, Ledger!Write

LEMMA StatusSends ==
  ASSUME StoreInv, Client, BackendTakesWrite
  PROVE  Ledger!Next \/ UNCHANGED Ledger!vars
<1> DEFINE n == Len(answers) + 1
           d == pending[n]
<1>0. current /\ current' = current
  BY DEF BackendTakesWrite
<1>1. /\ Len(answers) < Len(pending) /\ pending' = pending /\ written' = written
      /\ \/ d \in Refused /\ server' = server
         \/ d \notin Refused /\ server' = server \cup {d}
  BY StoreSends DEF BackendTakesWrite
<1>2. n \in 1..Len(pending)
  BY <1>1, Lengths DEF StoreInv
<1> HIDE DEF n
<1>3. d \in Own /\ Contains(pending, d)
  BY <1>2, Lengths DEF StoreInv, Contains
<1> HIDE DEF d
<1>4. CASE server' = server
  BY <1>0, <1>1, <1>4, StatusStands DEF Ledger!vars
<1>5. CASE d \notin Refused /\ server' = server \cup {d} /\ d \notin server
  <2>1. /\ Status(d, server, pending, written) = "written"
        /\ Status(d, server', pending', written') = "accepted"
    BY <1>1, <1>3, <1>5 DEF Status
  <2>2. \A e \in Own \ {d} :
          Status(e, server', pending', written') = Status(e, server, pending, written)
    BY <1>1, <1>5 DEF Status
  <2>3. statusOf[d] = "written" /\ statusOf' = [statusOf EXCEPT ![d] = "accepted"]
    BY <1>3, <2>1, <2>2, StatusMoves
  <2>4. QED
    BY <1>0, <1>3, <1>5, <2>3 DEF Ledger!Next, Ledger!Decide
<1>6. QED
  BY <1>1, <1>4, <1>5

\* The first write leaves the queue: only its own status can change.
LEMMA StatusAnswered ==
  ASSUME StoreInv, answers # <<>>, pending' = Tail(pending), UNCHANGED <<current, server, written>>
  PROVE  Ledger!Next \/ UNCHANGED Ledger!vars
<1> DEFINE d == Head(pending)
           p == Tail(pending)
<1>0. current /\ current' = current
  BY DEF StoreInv, AnswersFit
<1>1. /\ d \in Own /\ d \in written /\ TrueOf(Head(answers), d, server)
      /\ Head(answers) \in {"ok", "refused"} /\ d = pending[1] /\ 1 \in 1..Len(pending)
      /\ Len(p) = Len(pending) - 1
      /\ \A i \in 1..Len(p) : i + 1 \in 1..Len(pending) /\ p[i] = pending[i + 1]
  BY QueueHead
<1>2. pending' = p /\ server' = server /\ written' = written
  OBVIOUS
<1> HIDE DEF d, p
<1>3. Contains(pending, d)
  BY <1>1 DEF Contains
<1>4. \A e \in Own \ {d} : Contains(p, e) <=> Contains(pending, e)
  <2> SUFFICES ASSUME NEW e \in Own \ {d} PROVE Contains(p, e) <=> Contains(pending, e)
    OBVIOUS
  <2>1. Contains(p, e) => Contains(pending, e)
    BY <1>1 DEF Contains
  <2>2. ASSUME NEW i \in 1..Len(pending), pending[i] = e PROVE Contains(p, e)
    <3>1. i # 1 /\ Len(pending) \in Nat
      BY <1>1, <2>2, Lengths DEF StoreInv
    <3>2. i - 1 \in 1..Len(p) /\ (i - 1) + 1 = i
      BY <1>1, <3>1
    <3>3. p[i - 1] = e
      BY <1>1, <2>2, <3>2
    <3>4. QED
      BY <3>2, <3>3 DEF Contains
  <2>3. QED
    BY <2>1, <2>2 DEF Contains
<1>5. \A e \in Own \ {d} :
        Status(e, server', pending', written') = Status(e, server, pending, written)
  BY <1>2, <1>4 DEF Status
<1>6. CASE d \in server \/ Contains(p, d)
  <2>1. Status(d, server', pending', written') = Status(d, server, pending, written)
    BY <1>2, <1>3, <1>6 DEF Status
  <2>2. \A e \in Own :
          Status(e, server', pending', written') = Status(e, server, pending, written)
    BY <1>5, <2>1
  <2>3. QED
    BY <1>0, <2>2, StatusStands DEF Ledger!vars
<1>7. CASE d \notin server /\ ~Contains(p, d)
  <2>1. d \in Refused
    BY <1>1, <1>7 DEF TrueOf
  <2>2. /\ Status(d, server, pending, written) = "written"
        /\ Status(d, server', pending', written') = "refused"
    BY <1>1, <1>2, <1>3, <1>7 DEF Status
  <2>3. statusOf[d] = "written" /\ statusOf' = [statusOf EXCEPT ![d] = "refused"]
    BY <1>1, <1>5, <2>2, StatusMoves
  <2>4. QED
    BY <1>0, <1>1, <2>1, <2>3 DEF Ledger!Next, Ledger!Decide
<1>8. QED
  BY <1>6, <1>7

LEMMA LedgerStep ==
  ASSUME StoreInv, [Next]_vars
  PROVE  Ledger!Next \/ UNCHANGED Ledger!vars
<1>0. /\ cache \subseteq Docs /\ callbacks \subseteq Own /\ server \subseteq Docs
      /\ worker \in Seq(Tasks) /\ current \in BOOLEAN
  BY DEF StoreInv, StoreTyped
<1>1. ASSUME UNCHANGED <<pending, server, written>> PROVE statusOf' = statusOf
  BY <1>1 DEF statusOf
<1>s. ASSUME UNCHANGED <<current, pending, server, written>> PROVE UNCHANGED Ledger!vars
  BY <1>1, <1>s DEF Ledger!vars
<1>u. ASSUME current' \in BOOLEAN, UNCHANGED <<pending, server, written>>
      PROVE  Ledger!Next \/ UNCHANGED Ledger!vars
  <2>1. current' = current \/ current' = ~current
    BY <1>0, <1>u
  <2>2. QED
    BY <1>1, <1>u, <2>1 DEF Ledger!vars, Ledger!Next, Ledger!Switch
<1>2. ASSUME NEW d \in Own, continueButtonPressed(d) PROVE UNCHANGED Ledger!vars
  BY <1>s, <1>2 DEF continueButtonPressed, storeVars
<1>3. CASE \/ openHistory \/ reloadOrderHistory \/ MainStep
           \/ login \/ signOutByForce \/ didTapLogout \/ UNCHANGED vars
  BY <1>s, <1>3
     DEF openHistory, reloadOrderHistory, MainStep, completion, snapshotArrived, appendHistory,
         reloadData, login, signOutByForce, didTapLogout, vars, storeAll, storeVars, appVars
<1>6. CASE AppRestart
  BY <1>u, <1>6 DEF AppRestart, Restart, PersistedQueue
<1>4. CASE Client
  <2>0. written' = written \cup (Own \cap ToSet(pending')) /\ confirmed' = confirmed
    BY <1>4 DEF Client
  <2>1. CASE WriteMutations
    BY <1>4, <2>1, StatusWrites
  <2>2. CASE BackendTakesWrite
    BY <1>4, <2>2, StatusSends
  <2>3. CASE HandleSuccessfulWrite \/ HandleRejectedWrite
    <3>1. /\ answers # <<>> /\ pending' = Tail(pending) /\ UNCHANGED <<worker, current, server>>
          /\ answers' = Tail(answers) \/ answers' = <<>>
          /\ cache' \subseteq cache \cup {Head(pending)} /\ callbacks' \subseteq callbacks
      BY <2>3 DEF HandleSuccessfulWrite, HandleRejectedWrite
    <3>2. cache' \subseteq Docs /\ callbacks' \subseteq Own
      BY <1>0, <3>1, QueueHead
    <3>3. written' = written
      BY <1>4, <3>1, <3>2, StoreAnswered
    <3>4. QED
      BY <3>1, <3>3, StatusAnswered
  <2>4. CASE Listen \/ WriteStreamBreaks \/ ApplyRemoteEvent \/ HandleRejectedListen
    <3>1. /\ UNCHANGED <<current, pending, server, callbacks>>
          /\ answers' = answers \/ answers' = <<>>
          /\ worker' = worker \/ (worker # <<>> /\ worker' = Tail(worker))
          /\ cache' \subseteq cache \cup server
      BY <2>4 DEF Listen, WriteStreamBreaks, ApplyRemoteEvent, HandleRejectedListen, storeVars
    <3>2. PICK w : TasksFit(w) /\ worker' = w
      BY <3>1, TasksLeft
    <3>3. written' = written
      BY <1>0, <2>0, <3>1, <3>2, StoreStands
    <3>4. QED
      BY <1>s, <3>1, <3>3
  <2>7. CASE HandleCredentialChange
    <3>1. /\ worker # <<>> /\ Head(worker).kind = "user" /\ worker' = Tail(worker)
          /\ current' = Head(worker).isUser /\ answers' = <<>>
          /\ UNCHANGED <<pending, server, cache, callbacks>>
      BY <2>7 DEF HandleCredentialChange
    <3>2. current' \in BOOLEAN
      BY <3>1, WorkerPops, TaskShapes
    <3>3. written' = written
      BY <1>0, <2>0, <3>1, <3>2, TasksLeft, StoreStands
    <3>4. QED
      BY <1>u, <3>1, <3>2, <3>3
  <2>5. CASE OtherClient
    <3>1. UNCHANGED <<current, pending, written>>
      BY <1>4, <2>5, StoreOthers DEF OtherClient
    <3>2. server' \cap Own = server \cap Own
      BY <1>0, <2>5, OthersOnly
    <3>3. \A e \in Own :
            Status(e, server', pending', written') = Status(e, server, pending, written)
      BY <3>1, <3>2 DEF Status
    <3>4. QED
      BY <3>1, <3>3, StatusStands DEF Ledger!vars
  <2>6. QED
    BY <1>4, <2>1, <2>2, <2>3, <2>4, <2>5, <2>7 DEF Client, ClientStep
<1>5. QED
  BY <1>2, <1>3, <1>4, <1>6 DEF Next

\* Every step is a step of the ledger or changes no order's status: an order
\* the client has written is neither lost nor decided twice, is refused only
\* if the backend's rules say so, and is decided only while its account is the
\* client's user.  (That it is decided in the end is liveness, and left to
\* TLC.)
THEOREM LedgerKept == Spec => Ledger!Init /\ [][Ledger!Next]_(Ledger!vars)
<1>1. Init => Ledger!Init
  <2> SUFFICES ASSUME Init PROVE Ledger!Init
    OBVIOUS
  <2>1. server = {} /\ pending = <<>> /\ written = {} /\ current = FALSE
    BY DEF Init, StoreInit
  <2>2. \A d \in Own : Status(d, server, pending, written) = "none"
    BY <2>1 DEF Status, Contains
  <2>3. QED
    BY <2>1, <2>2, StatusShape DEF Ledger!Init
<1>2. IInv /\ [Next]_vars => [Ledger!Next]_(Ledger!vars)
  BY LedgerStep DEF IInv
<1>3. QED
  BY <1>1, <1>2, InvariantHolds, PTL DEF Spec

-----------------------------------------------------------------------------
(***************************************************************************)
(* Whose client it is when the worker w comes to its i-th task: the        *)
(* account's, if the last change of user before it says so, or if there is *)
(* none and the account is the client's user now (c).                      *)
(***************************************************************************)
UserAt(w, c, i) ==
  \/ c /\ \A j \in 1..(i - 1) : w[j].kind # "user"
  \/ \E j \in 1..(i - 1) : /\ w[j].kind = "user" /\ w[j].isUser
                           /\ \A h \in (j + 1)..(i - 1) : w[h].kind # "user"

\* A task that is posted changes nothing before it, and, unless it is a change
\* of user, nothing after it; a login makes the account the user.
LEMMA UserPosted ==
  ASSUME NEW w \in Seq(Tasks), NEW t \in Tasks, NEW c
  PROVE  LET u == Append(w, t)
         IN /\ u \in Seq(Tasks) /\ Len(u) = Len(w) + 1 /\ u[Len(w) + 1] = t
            /\ \A i \in 1..Len(w) : u[i] = w[i]
            /\ \A i \in 1..(Len(w) + 1) : UserAt(w, c, i) => UserAt(u, c, i)
            /\ t.kind # "user" /\ UserAt(w, c, Len(w) + 1) => UserAt(u, c, Len(w) + 2)
            /\ t.kind = "user" /\ t.isUser => UserAt(u, c, Len(w) + 2)
<1> DEFINE u == Append(w, t)
<1>1. /\ u \in Seq(Tasks) /\ Len(u) = Len(w) + 1 /\ u[Len(w) + 1] = t
      /\ \A i \in 1..Len(w) : u[i] = w[i]
      /\ Len(w) \in Nat
  BY AppendProperties, LenProperties
<1> HIDE DEF u
<1>2. ASSUME NEW i \in 1..(Len(w) + 1), UserAt(w, c, i) PROVE UserAt(u, c, i)
  <2>1. \A j \in 1..(i - 1) : u[j] = w[j]
    BY <1>1
  <2>2. CASE c /\ \A j \in 1..(i - 1) : w[j].kind # "user"
    BY <2>1, <2>2 DEF UserAt
  <2>3. ASSUME NEW j \in 1..(i - 1), w[j].kind = "user", w[j].isUser,
               \A h \in (j + 1)..(i - 1) : w[h].kind # "user"
        PROVE  UserAt(u, c, i)
    <3>1. \A h \in (j + 1)..(i - 1) : u[h] = w[h]
      BY <2>1
    <3>2. QED
      BY <2>1, <2>3, <3>1 DEF UserAt
  <2>4. QED
    BY <1>2, <2>2, <2>3 DEF UserAt
<1>3. ASSUME t.kind # "user", UserAt(w, c, Len(w) + 1) PROVE UserAt(u, c, Len(w) + 2)
  <2>1. \A j \in 1..(Len(w) + 1) : j = Len(w) + 1 \/ j \in 1..Len(w)
    BY <1>1
  <2>2. (Len(w) + 1) - 1 = Len(w) /\ (Len(w) + 2) - 1 = Len(w) + 1
    BY <1>1
  <2>3. CASE c /\ \A j \in 1..Len(w) : w[j].kind # "user"
    <3>1. \A j \in 1..(Len(w) + 1) : u[j].kind # "user"
      BY <1>1, <1>3, <2>1, <2>3
    <3>2. QED
      BY <2>2, <2>3, <3>1 DEF UserAt
  <2>4. ASSUME NEW j \in 1..Len(w), w[j].kind = "user", w[j].isUser,
               \A h \in (j + 1)..Len(w) : w[h].kind # "user"
        PROVE  UserAt(u, c, Len(w) + 2)
    <3>1. j \in 1..(Len(w) + 1) /\ u[j] = w[j]
      BY <1>1
    <3>2. \A h \in (j + 1)..(Len(w) + 1) : h = Len(w) + 1 \/ (h \in (j + 1)..Len(w) /\ h \in 1..Len(w))
      BY <1>1
    <3>3. \A h \in (j + 1)..(Len(w) + 1) : u[h].kind # "user"
      BY <1>1, <1>3, <2>4, <3>2
    <3>4. QED
      BY <2>2, <2>4, <3>1, <3>3 DEF UserAt
  <2>5. QED
    BY <1>3, <2>2, <2>3, <2>4 DEF UserAt
<1>4. ASSUME t.kind = "user", t.isUser PROVE UserAt(u, c, Len(w) + 2)
  <2>1. /\ (Len(w) + 2) - 1 = Len(w) + 1 /\ Len(w) + 1 \in 1..(Len(w) + 1)
        /\ ((Len(w) + 1) + 1)..(Len(w) + 1) = {}
    BY <1>1
  <2>2. QED
    BY <1>1, <1>4, <2>1 DEF UserAt
<1>5. QED
  BY <1>1, <1>2, <1>3, <1>4 DEF u

\* The worker runs its first task: the next ones have the same user.
LEMMA UserPopped ==
  ASSUME NEW w \in Seq(Tasks), w # <<>>, NEW c, NEW d,
         Head(w).kind # "user" => d = c, Head(w).kind = "user" => d = Head(w).isUser,
         NEW i \in 1..Len(w), UserAt(w, c, i + 1)
  PROVE  UserAt(Tail(w), d, i)
<1> DEFINE v == Tail(w)
<1>1. /\ Len(w) \in Nat /\ Len(v) = Len(w) - 1 /\ Head(w) = w[1]
      /\ \A j \in 1..Len(v) : v[j] = w[j + 1]
  BY LenProperties
<1> HIDE DEF v
<1>2. \A j \in 1..(i - 1) : v[j] = w[j + 1] /\ j + 1 \in 1..i
  BY <1>1
<1>3. (i + 1) - 1 = i /\ 1 \in 1..i
  OBVIOUS
<1>4. CASE c /\ \A j \in 1..i : w[j].kind # "user"
  <2>1. \A j \in 1..(i - 1) : v[j].kind # "user"
    BY <1>2, <1>4
  <2>2. d
    BY <1>1, <1>3, <1>4
  <2>3. QED
    BY <2>1, <2>2 DEF UserAt, v
<1>5. ASSUME NEW j \in 1..i, w[j].kind = "user", w[j].isUser,
             \A h \in (j + 1)..i : w[h].kind # "user"
      PROVE  UserAt(v, d, i)
  <2>1. CASE j = 1
    <3>1. d
      BY <1>1, <1>5, <2>1
    <3>2. \A h \in 1..(i - 1) : h + 1 \in (j + 1)..i
      BY <2>1
    <3>3. \A h \in 1..(i - 1) : v[h].kind # "user"
      BY <1>2, <1>5, <3>2
    <3>4. QED
      BY <3>1, <3>3 DEF UserAt
  <2>2. CASE j # 1
    <3>1. j - 1 \in 1..(i - 1) /\ (j - 1) + 1 = j
      BY <2>2
    <3>2. v[j - 1] = w[j]
      BY <1>2, <3>1
    <3>3. \A h \in ((j - 1) + 1)..(i - 1) : h \in 1..(i - 1) /\ h + 1 \in (j + 1)..i
      BY <2>2
    <3>4. \A h \in ((j - 1) + 1)..(i - 1) : v[h].kind # "user"
      BY <1>2, <1>5, <3>3
    <3>5. QED
      BY <1>5, <3>1, <3>2, <3>4 DEF UserAt
  <2>3. QED
    BY <2>1, <2>2
<1>6. UserAt(v, d, i)
  BY <1>3, <1>4, <1>5 DEF UserAt, v
<1>7. QED
  BY <1>6 DEF v

\* Tasks of other kinds are dropped: those that stay have the same user.
LEMMA UserLeft ==
  ASSUME NEW w \in Seq(Tasks), NEW at, NEW r \in Seq(Tasks), NEW c,
         IsSelection(at, r, w, {"write", "user"}),
         NEW i \in 1..Len(r), UserAt(w, c, at[i])
  PROVE  UserAt(r, c, i)
<1>1. /\ Len(r) \in Nat /\ Len(w) \in Nat
      /\ \A j \in 1..Len(r) : at[j] \in 1..Len(w) /\ r[j] = w[at[j]]
      /\ \A h, j \in 1..Len(r) : h < j => at[h] < at[j]
  BY LenProperties DEF IsSelection
<1>2. \A j \in 1..(i - 1) : j \in 1..Len(r) /\ at[j] \in 1..(at[i] - 1)
  <2> SUFFICES ASSUME NEW j \in 1..(i - 1) PROVE j \in 1..Len(r) /\ at[j] \in 1..(at[i] - 1)
    OBVIOUS
  <2>1. j \in 1..Len(r) /\ j < i
    BY <1>1
  <2>2. at[j] < at[i] /\ at[j] \in 1..Len(w) /\ at[i] \in 1..Len(w)
    BY <1>1, <2>1
  <2>3. QED
    BY <2>1, <2>2
<1>3. CASE c /\ \A j \in 1..(at[i] - 1) : w[j].kind # "user"
  BY <1>1, <1>2, <1>3 DEF UserAt
<1>4. ASSUME NEW j \in 1..(at[i] - 1), w[j].kind = "user", w[j].isUser,
             \A h \in (j + 1)..(at[i] - 1) : w[h].kind # "user"
      PROVE  UserAt(r, c, i)
  <2>1. j \in 1..Len(w) /\ w[j].kind \in {"write", "user"} /\ j < at[i]
    BY <1>1, <1>4
  <2>2. PICK k \in 1..Len(r) : at[k] = j
    BY <2>1 DEF IsSelection
  <2>3. k \in 1..(i - 1)
    <3>1. ~(i < k) /\ i # k
      <4>1. i < k => at[i] < at[k]
        BY <1>1
      <4>2. QED
        BY <1>1, <2>1, <2>2, <4>1
    <3>2. QED
      BY <1>1, <3>1
  <2>4. ASSUME NEW h \in (k + 1)..(i - 1) PROVE r[h].kind # "user"
    <3>1. h \in 1..(i - 1) /\ h \in 1..Len(r) /\ k < h
      BY <1>1, <2>3
    <3>2. j < at[h] /\ at[h] \in 1..(at[i] - 1)
      BY <1>1, <1>2, <2>2, <3>1
    <3>3. at[h] \in (j + 1)..(at[i] - 1)
      BY <2>1, <3>2
    <3>4. QED
      BY <1>1, <1>4, <3>1, <3>3
  <2>5. r[k].kind = "user" /\ r[k].isUser
    BY <1>1, <1>4, <2>2
  <2>6. QED
    BY <2>3, <2>4, <2>5 DEF UserAt
<1>5. QED
  BY <1>3, <1>4 DEF UserAt

\* Every order that waits on the worker finds its account there, and so would
\* one that is placed now.
FiledInv ==
  /\ worker \in Seq(Tasks)
  /\ \A i \in 1..Len(worker) : worker[i].kind = "write" => UserAt(worker, current, i)
  /\ signedIn => UserAt(worker, current, Len(worker) + 1)

\* A task is posted.
LEMMA FiledPosted ==
  ASSUME NEW w \in Seq(Tasks), NEW t \in Tasks, worker' = Append(w, t), current' = current,
         \A i \in 1..Len(w) : w[i].kind = "write" => UserAt(w, current, i),
         t.kind = "write" => UserAt(w, current, Len(w) + 1),
         signedIn' => \/ t.kind = "user" /\ t.isUser
                      \/ t.kind # "user" /\ UserAt(w, current, Len(w) + 1)
  PROVE  FiledInv'
<1> DEFINE u == Append(w, t)
<1>1. /\ u \in Seq(Tasks) /\ Len(u) = Len(w) + 1 /\ u[Len(w) + 1] = t /\ Len(w) \in Nat
      /\ \A i \in 1..Len(w) : u[i] = w[i]
      /\ \A i \in 1..(Len(w) + 1) : UserAt(w, current, i) => UserAt(u, current, i)
      /\ t.kind # "user" /\ UserAt(w, current, Len(w) + 1) => UserAt(u, current, Len(w) + 2)
      /\ t.kind = "user" /\ t.isUser => UserAt(u, current, Len(w) + 2)
  BY UserPosted, LenProperties
<1>2. worker' = u /\ current' = current
  OBVIOUS
<1> HIDE DEF u
<1>3. ASSUME NEW i \in 1..Len(u), u[i].kind = "write" PROVE UserAt(u, current, i)
  <2>1. CASE i = Len(w) + 1
    BY <1>1, <1>3, <2>1
  <2>2. CASE i # Len(w) + 1
    <3>1. i \in 1..Len(w) /\ i \in 1..(Len(w) + 1)
      BY <1>1, <2>2
    <3>2. QED
      BY <1>1, <1>3, <3>1
  <2>3. QED
    BY <2>1, <2>2
<1>4. signedIn' => UserAt(u, current, Len(u) + 1)
  <2>1. Len(u) + 1 = Len(w) + 2
    BY <1>1
  <2>2. QED
    BY <1>1, <2>1
<1>5. QED
  BY <1>1, <1>2, <1>3, <1>4 DEF FiledInv

\* The worker runs its first task.
LEMMA FiledRun ==
  ASSUME FiledInv, worker # <<>>, worker' = Tail(worker), signedIn' = signedIn,
         Head(worker).kind # "user" => current' = current,
         Head(worker).kind = "user" => current' = Head(worker).isUser
  PROVE  FiledInv'
<1> DEFINE v == Tail(worker)
           d == current'
<1>1. /\ v \in Seq(Tasks) /\ Len(v) = Len(worker) - 1 /\ Len(worker) \in Nat /\ Len(worker) # 0
      /\ \A i \in 1..Len(v) : v[i] = worker[i + 1] /\ i + 1 \in 1..Len(worker) /\ i \in 1..Len(worker)
  BY LenProperties DEF FiledInv
<1>2. ASSUME NEW i \in 1..Len(worker), UserAt(worker, current, i + 1) PROVE UserAt(v, d, i)
  BY <1>2, UserPopped DEF FiledInv
<1>3. worker' = v /\ current' = d /\ signedIn' = signedIn
  OBVIOUS
<1> HIDE DEF v, d
<1>4. \A i \in 1..Len(v) : v[i].kind = "write" => UserAt(v, d, i)
  BY <1>1, <1>2 DEF FiledInv
<1>5. signedIn => UserAt(v, d, Len(v) + 1)
  <2>1. Len(v) + 1 = Len(worker) /\ Len(worker) \in 1..Len(worker)
    BY <1>1
  <2>2. QED
    BY <1>2, <2>1 DEF FiledInv
<1>6. /\ worker' \in Seq(Tasks)
      /\ \A i \in 1..Len(worker') : worker'[i].kind = "write" => UserAt(worker', current', i)
      /\ signedIn' => UserAt(worker', current', Len(worker') + 1)
  <2>1. worker' \in Seq(Tasks)
    BY <1>1, <1>3, Zenon
  <2>2. \A i \in 1..Len(worker') : worker'[i].kind = "write" => UserAt(worker', current', i)
    BY <1>3, <1>4, Zenon
  <2>3. ASSUME signedIn' PROVE UserAt(worker', current', Len(worker') + 1)
    <3>1. signedIn
      BY <1>3, <2>3
    <3>2. UserAt(v, d, Len(v) + 1)
      BY <1>5, <3>1
    <3>3. v = worker' /\ d = current'
      BY <1>3
    <3>4. QED
      BY <3>2, <3>3, Zenon
  <2>4. QED
    BY <2>1, <2>2, <2>3
<1>7. QED
  BY <1>6 DEF FiledInv

LEMMA FiledStep ==
  ASSUME FiledInv, [Next]_vars
  PROVE  FiledInv'
<1>0. worker \in Seq(Tasks)
  BY DEF FiledInv
<1>s. ASSUME UNCHANGED <<worker, current, signedIn>> PROVE FiledInv'
  BY <1>s DEF FiledInv
<1>1. ASSUME NEW d \in Own, continueButtonPressed(d) PROVE FiledInv'
  <2> DEFINE t == [kind |-> "write", doc |-> d]
  <2>1. t \in Tasks /\ t.kind = "write"
    BY TaskShapes
  <2>2. /\ (signedIn /\ worker' = Append(worker, t)) \/ worker' = worker
        /\ UNCHANGED <<current, signedIn>>
    BY <1>1 DEF continueButtonPressed, userIsThere, addDocument, session
  <2> HIDE DEF t
  <2>3. CASE worker' = worker
    BY <1>s, <2>2, <2>3
  <2>4. CASE signedIn /\ worker' = Append(worker, t)
    BY <1>0, <2>1, <2>2, <2>4, FiledPosted DEF FiledInv
  <2>5. QED
    BY <2>2, <2>3, <2>4
<1>2. CASE openHistory
  <2> DEFINE t == [kind |-> "listen"]
  <2>1. t \in Tasks /\ t.kind = "listen"
    BY TaskShapes
  <2>2. /\ worker' = Append(worker, t) \/ worker' = worker
        /\ UNCHANGED <<current, signedIn>>
    BY <1>2 DEF openHistory, addSnapshotListener, session
  <2> HIDE DEF t
  <2>3. CASE worker' = worker
    BY <1>s, <2>2, <2>3
  <2>4. CASE worker' = Append(worker, t)
    BY <1>0, <2>1, <2>2, <2>4, FiledPosted DEF FiledInv
  <2>5. QED
    BY <2>2, <2>3, <2>4
<1>3. CASE login \/ signOutByForce
  <2>1. PICK u \in BOOLEAN : /\ worker' = Append(worker, [kind |-> "user", isUser |-> u])
                             /\ signedIn' = u /\ current' = current
    BY <1>3 DEF login, signOutByForce, credentialChanged
  <2> DEFINE t == [kind |-> "user", isUser |-> u]
  <2>2. t \in Tasks /\ t.kind = "user" /\ t.isUser = u
    BY TaskShapes
  <2>3. worker' = Append(worker, t)
    BY <2>1
  <2> HIDE DEF t
  <2>4. QED
    BY <1>0, <2>1, <2>2, <2>3, FiledPosted DEF FiledInv
<1>4. CASE didTapLogout
  <2> DEFINE w == OfKinds(worker, {"write", "user"})
             t == [kind |-> "user", isUser |-> FALSE]
  <2>1. /\ worker' = Append(w, t) \/ worker' = w
        /\ current' = current /\ signedIn' = FALSE
    BY <1>4 DEF didTapLogout, credentialChanged
  <2>2. w \in Seq(Tasks) /\ \E at : IsSelection(at, w, worker, {"write", "user"})
    BY <1>0, OfKindsElements
  <2>3. t \in Tasks /\ t.kind = "user"
    BY TaskShapes
  <2> HIDE DEF w, t
  <2>4. PICK at : IsSelection(at, w, worker, {"write", "user"})
    BY <2>2
  <2>5. ASSUME NEW i \in 1..Len(w), w[i].kind = "write" PROVE UserAt(w, current, i)
    <3>1. at[i] \in 1..Len(worker) /\ w[i] = worker[at[i]]
      BY <2>4 DEF IsSelection
    <3>2. UserAt(worker, current, at[i])
      BY <2>5, <3>1 DEF FiledInv
    <3>3. QED
      BY <1>0, <2>2, <2>4, <3>2, UserLeft
  <2>6. CASE worker' = Append(w, t)
    BY <2>1, <2>2, <2>3, <2>5, <2>6, FiledPosted
  <2>7. CASE worker' = w
    BY <2>1, <2>2, <2>5, <2>7 DEF FiledInv
  <2>8. QED
    BY <2>1, <2>6, <2>7
<1>5. CASE reloadOrderHistory \/ MainStep
  BY <1>5, <1>s DEF reloadOrderHistory, MainStep, completion, snapshotArrived, appendHistory,
                    reloadData, appVars, session
<1>6. CASE Client
  <2>1. signedIn' = signedIn
    BY <1>6 DEF Client, session
  <2>2. CASE WriteMutations \/ Listen
    <3>1. /\ worker # <<>> /\ worker' = Tail(worker) /\ Head(worker).kind # "user"
          /\ current' = current
      BY <2>2 DEF WriteMutations, Listen
    <3>2. QED
      BY <2>1, <3>1, FiledRun
  <2>3. CASE HandleCredentialChange
    <3>1. /\ worker # <<>> /\ worker' = Tail(worker) /\ Head(worker).kind = "user"
          /\ current' = Head(worker).isUser
      BY <2>3 DEF HandleCredentialChange
    <3>2. QED
      BY <2>1, <3>1, FiledRun
  <2>4. CASE \/ BackendTakesWrite \/ HandleSuccessfulWrite \/ HandleRejectedWrite
             \/ WriteStreamBreaks \/ ApplyRemoteEvent \/ HandleRejectedListen \/ OtherClient
    BY <1>s, <2>1, <2>4 DEF BackendTakesWrite, HandleSuccessfulWrite, HandleRejectedWrite,
       WriteStreamBreaks, ApplyRemoteEvent, HandleRejectedListen, OtherClient
  <2>5. QED
    BY <1>6, <2>2, <2>3, <2>4 DEF Client, ClientStep
<1>7. CASE AppRestart
  <2>1. worker' = <<>> /\ signedIn' = FALSE
    BY <1>7 DEF AppRestart, Restart
  <2>2. worker' \in Seq(Tasks) /\ Len(worker') = 0
    BY <2>1
  <2>3. QED
    BY <2>1, <2>2 DEF FiledInv
<1>8. CASE UNCHANGED vars
  BY <1>8, <1>s DEF vars, storeAll, appVars, session
<1>9. QED
  BY <1>1, <1>2, <1>3, <1>4, <1>5, <1>6, <1>7, <1>8 DEF Next

\* An order goes into the queue of the account that placed it, whatever logins,
\* logouts and forced sign-outs wait on the worker before and behind it.
THEOREM FiledCorrect == Spec => []FiledUnderItsAccount
<1>1. Init => FiledInv
  <2> SUFFICES ASSUME Init PROVE FiledInv
    OBVIOUS
  <2>1. worker = <<>> /\ signedIn = FALSE
    BY DEF Init, StoreInit
  <2>2. worker \in Seq(Tasks) /\ Len(worker) = 0
    BY <2>1
  <2>3. QED
    BY <2>1, <2>2 DEF FiledInv
<1>2. FiledInv /\ [Next]_vars => FiledInv'
  BY FiledStep
<1>3. FiledInv => FiledUnderItsAccount
  <2> SUFFICES ASSUME FiledInv, worker # <<>>, Head(worker).kind = "write" PROVE current
    BY DEF FiledUnderItsAccount
  <2>1. 1 \in 1..Len(worker) /\ Head(worker) = worker[1]
    BY LenProperties DEF FiledInv
  <2>2. UserAt(worker, current, 1)
    BY <2>1 DEF FiledInv
  <2>3. 1..(1 - 1) = {}
    OBVIOUS
  <2>4. QED
    BY <2>2, <2>3 DEF UserAt
<1>4. QED
  BY <1>1, <1>2, <1>3, PTL DEF Spec
=============================================================================
