---------------------------- MODULE SearchProofs ----------------------------
(***************************************************************************)
(* Proofs about Search, for all restaurants, texts and what they find.     *)
(*                                                                         *)
(* Only a snapshot changes the restaurants under the rows, and it leaves a *)
(* block on the queue; so with no block waiting the rows are the present   *)
(* restaurants or what the text finds among them.  The loop of             *)
(* filterRestaurants never finds more than there are, hence no row is      *)
(* beyond the restaurants' end then.                                       *)
(***************************************************************************)
EXTENDS Search, ArrayLemmas

Blocks == blocks \in Nat

IInv == Blocks /\ IdleRowsAreCurrent

LEMMA IInvInit == Init => IInv
<1> SUFFICES ASSUME Init PROVE IInv
  OBVIOUS
<1>1. filteredData = restaurantList /\ blocks = 0
  BY DEF Init, FeedInit
<1>2. QED
  BY <1>1 DEF IInv, Blocks, IdleRowsAreCurrent

\* Only a snapshot replaces the restaurants under the rows, and it leaves a
\* block on the queue; the last block to run makes the rows the restaurants,
\* and a new text filters these.
LEMMA IInvNext == IInv /\ [Next]_vars => IInv'
<1> SUFFICES ASSUME IInv, [Next]_vars PROVE IInv'
  OBVIOUS
<1> USE DEF IInv, Blocks, IdleRowsAreCurrent
<1>1. CASE restaurantsArrive
  <2>1. PICK D \in SUBSET Restaurants : SnapshotOf(All, D)
    BY <1>1 DEF restaurantsArrive
  <2>2. UNCHANGED <<filteredData, searchText>>
        /\ blocks' = (IF trap' = "none" THEN blocks + 1 ELSE blocks)
    BY <1>1 DEF restaurantsArrive
  <2>3. CASE trap' = "none"
    BY <2>2, <2>3
  <2>4. CASE trap' # "none"
    <3>1. UNCHANGED restaurantList
      BY <1>1, <2>1, <2>4 DEF SnapshotOf, restaurantsArrive
    <3>2. QED
      BY <2>2, <2>4, <3>1
  <2>5. QED
    BY <2>3, <2>4
<1>2. CASE closure
  <2>1. filteredData' = restaurantList' /\ blocks' \in Nat
    BY <1>2 DEF closure, AllRows, feedVars
  <2>2. QED
    BY <2>1
<1>3. ASSUME NEW t \in Texts \cup {NoText}, textDidChange(t) PROVE IInv'
  <2>1. filteredData' = Filtered(restaurantList', searchText') /\ blocks' = blocks
    BY <1>3 DEF textDidChange, FilteredAnew, feedVars
  <2>2. QED
    BY <2>1
<1>4. ASSUME NEW r \in 1..Len(filteredData), didSelectRowAt(r) PROVE IInv'
  BY <1>4 DEF didSelectRowAt, searchVars
<1>5. CASE UNCHANGED vars
  BY <1>5 DEF vars, feedVars, searchVars
<1>6. QED
  BY <1>1, <1>2, <1>3, <1>4, <1>5 DEF Next

\* When no block waits, the rows are the present restaurants, all of them or
\* those that the text finds.
THEOREM RowsCurrent == Spec => []IdleRowsAreCurrent
<1>1. IInv => IdleRowsAreCurrent
  BY DEF IInv
<1>2. QED
  BY <1>1, IInvInit, IInvNext, PTL DEF Spec
-----------------------------------------------------------------------------
(***************************************************************************)
(* What the loop of filterRestaurants leaves in the rows                   *)
(*                                                                         *)
(* FoldLeft takes a function of the sets of indices which satisfies the    *)
(* recursion below.  There is one, level by level of the sets' sizes, and  *)
(* for every set of indices its value lists what the text finds there.     *)
(***************************************************************************)
Taken(list, text, f, s) ==
  IF s = {} THEN <<>>
  ELSE IF list[Max(s)] \in Found[text]
       THEN Append(f[s \ {Max(s)}], list[Max(s)])
       ELSE f[s \ {Max(s)}]
Recursion(list, text, f) == f = [s \in SUBSET DOMAIN list |-> Taken(list, text, f, s)]

LEMMA FilteredIsRecursive ==
  \A list, text :
    text # NoText =>
      Filtered(list, text) = (CHOOSE f : Recursion(list, text, f))[DOMAIN list]
BY Zenon DEF Filtered, FoldLeft, MapThenFoldSet, Recursion, Taken

\* The sets of up to that many indices, and the recursion on them.
Level(D, n) == {s \in SUBSET D : Cardinality(s) <= n}
UpTo(list, text, n, f) ==
  f = [s \in Level(DOMAIN list, n) |-> Taken(list, text, f, s)]

LEMMA MaxGone ==
  ASSUME NEW n \in Nat, NEW s \in SUBSET (1..n), s # {}
  PROVE  /\ Max(s) \in s /\ s \ {Max(s)} \in SUBSET (1..n)
         /\ Cardinality(s) \in Nat /\ Cardinality(s \ {Max(s)}) \in Nat
         /\ Cardinality(s \ {Max(s)}) = Cardinality(s) - 1
<1>1. Max(s) \in s
  BY MaxIsMember
<1>2. IsFiniteSet(1..n)
  BY FS_Interval
<1>3. IsFiniteSet(s) /\ IsFiniteSet(s \ {Max(s)})
  BY <1>2, FS_Subset
<1>4. Cardinality(s) \in Nat /\ Cardinality(s \ {Max(s)}) \in Nat
  BY <1>3, FS_CardinalityType
<1>5. Cardinality(s \ {Max(s)}) = Cardinality(s) - 1
  BY <1>1, <1>3, FS_RemoveElement
<1>6. QED
  BY <1>1, <1>4, <1>5

LEMMA NextLevel ==
  ASSUME NEW list, NEW text, NEW m \in Nat, DOMAIN list = 1..m,
         NEW n \in Nat, NEW f, UpTo(list, text, n, f)
  PROVE  \E g : UpTo(list, text, n + 1, g)
<1> DEFINE D == DOMAIN list
           g == [s \in Level(D, n + 1) |-> Taken(list, text, f, s)]
<1>1. ASSUME NEW s \in Level(D, n + 1)
      PROVE  Taken(list, text, f, s) = Taken(list, text, g, s)
  <2>1. CASE s = {}
    BY <2>1 DEF Taken
  <2>2. CASE s # {}
    <3> DEFINE t == s \ {Max(s)}
    <3>1. s \in SUBSET D /\ Cardinality(s) <= n + 1
      BY DEF Level
    <3>2. t \in SUBSET D /\ Cardinality(t) = Cardinality(s) - 1 /\ Cardinality(s) \in Nat
      BY <2>2, <3>1, MaxGone
    <3>3. Cardinality(t) <= n /\ Cardinality(t) <= n + 1
      BY <3>1, <3>2
    <3> HIDE DEF t
    <3>4. t \in Level(D, n) /\ t \in Level(D, n + 1)
      BY <3>2, <3>3 DEF Level
    <3>5. f[t] = Taken(list, text, f, t) /\ g[t] = Taken(list, text, f, t)
      BY <3>4 DEF UpTo
    <3> HIDE DEF g
    <3>6. f[t] = g[t]
      BY <3>5
    <3>7. QED
      BY <2>2, <3>6 DEF Taken, t
  <2>3. QED
    BY <2>1, <2>2
<1>2. g = [s \in Level(D, n + 1) |-> Taken(list, text, g, s)]
  BY <1>1
<1> HIDE DEF g
<1>3. QED
  BY <1>2 DEF UpTo

LEMMA EveryLevel ==
  ASSUME NEW list, NEW text, NEW m \in Nat, DOMAIN list = 1..m
  PROVE  \A n \in Nat : \E f : UpTo(list, text, n, f)
<1> DEFINE D == DOMAIN list
           Bad == {n \in Nat : ~\E f : UpTo(list, text, n, f)}
<1>1. SUFFICES ASSUME Bad # {} PROVE FALSE
  OBVIOUS
<1>2. Min(Bad) \in Bad /\ \A n \in Bad : Min(Bad) <= n
  BY <1>1, MinProperty
<1>3. PICK n \in Bad : \A k \in Bad : n <= k
  BY <1>2
<1>4. CASE n = 0
  <2> DEFINE f == [s \in Level(D, 0) |-> <<>>]
  <2>1. ASSUME NEW s \in Level(D, 0) PROVE s = {}
    <3>1. s \in SUBSET D /\ Cardinality(s) <= 0
      BY DEF Level
    <3>2. IsFiniteSet(s)
      <4>1. IsFiniteSet(1..m)
        BY FS_Interval
      <4>2. QED
        BY <3>1, <4>1, FS_Subset
    <3>3. Cardinality(s) = 0
      BY <3>1, <3>2, FS_CardinalityType
    <3>4. QED
      BY <3>2, <3>3, FS_EmptySet
  <2>2. f = [s \in Level(D, 0) |-> Taken(list, text, f, s)]
    BY <2>1 DEF Taken
  <2> HIDE DEF f
  <2>3. QED
    BY <1>4, <2>2 DEF UpTo
<1>5. CASE n # 0
  <2>1. n - 1 \in Nat /\ ~(n <= n - 1)
    BY <1>5
  <2>2. \E f : UpTo(list, text, n - 1, f)
    BY <1>3, <2>1
  <2>3. \E f : UpTo(list, text, (n - 1) + 1, f)
    BY <2>1, <2>2, NextLevel
  <2>4. (n - 1) + 1 = n
    OBVIOUS
  <2>5. \E f : UpTo(list, text, n, f)
    BY <2>3, <2>4
  <2>6. QED
    BY <2>5
<1>6. QED
  BY <1>4, <1>5

LEMMA RecursionHolds ==
  ASSUME NEW list, NEW text, NEW m \in Nat, DOMAIN list = 1..m
  PROVE  Recursion(list, text, CHOOSE f : Recursion(list, text, f))
<1> DEFINE n == Cardinality(DOMAIN list)
<1>1. IsFiniteSet(DOMAIN list) /\ n \in Nat
  BY FS_Interval, FS_CardinalityType
<1>2. Level(DOMAIN list, n) = SUBSET DOMAIN list
  BY <1>1, FS_Subset DEF Level
<1>3. PICK f : UpTo(list, text, n, f)
  BY <1>1, EveryLevel
<1>4. Recursion(list, text, f)
  BY <1>2, <1>3 DEF UpTo, Recursion
<1>5. QED
  BY <1>4

\* What the rows are when the places s of the list have been visited.
Lists(list, text, s, rows) ==
  /\ rows \in Seq(Parsable) /\ Len(rows) <= Cardinality(s)
  /\ \A r \in 1..Len(rows) : \E i \in s : rows[r] = list[i] /\ list[i] \in Found[text]
  /\ \A i \in s : list[i] \in Found[text] => \E r \in 1..Len(rows) : rows[r] = list[i]

LEMMA OneMore ==
  ASSUME NEW list \in Seq(Parsable), NEW text, NEW rows,
         NEW s, NEW i \in 1..Len(list), i \in s,
         Cardinality(s) \in Nat, Cardinality(s \ {i}) = Cardinality(s) - 1,
         Lists(list, text, s \ {i}, rows)
  PROVE  Lists(list, text, s, IF list[i] \in Found[text] THEN Append(rows, list[i]) ELSE rows)
<1>1. list[i] \in Parsable /\ rows \in Seq(Parsable) /\ Len(rows) \in Nat
  BY ElementOfSeq, LenProperties DEF Lists
<1>2. CASE list[i] \notin Found[text]
  BY <1>1, <1>2 DEF Lists
<1>3. CASE list[i] \in Found[text]
  <2> DEFINE new == Append(rows, list[i])
  <2>1. /\ new \in Seq(Parsable) /\ Len(new) = Len(rows) + 1
        /\ \A r \in 1..Len(rows) : new[r] = rows[r]
        /\ new[Len(rows) + 1] = list[i]
    BY <1>1, AppendProperties
  <2> HIDE DEF new
  <2>2. Len(new) <= Cardinality(s)
    BY <1>1, <2>1 DEF Lists
  <2>3. ASSUME NEW r \in 1..Len(new)
        PROVE  \E k \in s : new[r] = list[k] /\ list[k] \in Found[text]
    <3>1. CASE r = Len(rows) + 1
      BY <1>3, <2>1, <3>1
    <3>2. CASE r # Len(rows) + 1
      <4>1. r \in 1..Len(rows)
        BY <1>1, <2>1, <3>2
      <4>2. QED
        BY <2>1, <4>1 DEF Lists
    <3>3. QED
      BY <3>1, <3>2
  <2>4. ASSUME NEW k \in s, list[k] \in Found[text]
        PROVE  \E r \in 1..Len(new) : new[r] = list[k]
    <3>1. CASE k = i
      <4>1. Len(rows) + 1 \in 1..Len(new)
        BY <1>1, <2>1
      <4>2. QED
        BY <2>1, <3>1, <4>1
    <3>2. CASE k # i
      <4>1. PICK r \in 1..Len(rows) : rows[r] = list[k]
        BY <2>4, <3>2 DEF Lists
      <4>2. r \in 1..Len(new)
        BY <1>1, <2>1
      <4>3. QED
        BY <2>1, <4>1, <4>2
    <3>3. QED
      BY <3>1, <3>2
  <2>5. Lists(list, text, s, new)
    BY <2>1, <2>2, <2>3, <2>4 DEF Lists
  <2>6. QED
    BY <1>3, <2>5 DEF new
<1>4. QED
  BY <1>2, <1>3

\* filterRestaurants: every row is a restaurant that the text finds, every
\* restaurant it finds has a row, and there are not more rows than restaurants.
THEOREM FilteredLists ==
  ASSUME NEW list \in Seq(Parsable), NEW text, text # NoText
  PROVE  Lists(list, text, DOMAIN list, Filtered(list, text))
<1> DEFINE D == DOMAIN list
           f == CHOOSE g : Recursion(list, text, g)
<1>1. Len(list) \in Nat /\ D = 1..Len(list)
  BY LenProperties
<1>2. Recursion(list, text, f)
  BY <1>1, RecursionHolds
<1> HIDE DEF f
<1> DEFINE Bad == {n \in Nat : \E s \in SUBSET D :
                     Cardinality(s) = n /\ ~Lists(list, text, s, f[s])}
<1>3. ASSUME NEW n \in Bad, \A k \in Bad : n <= k PROVE FALSE
  <2>1. PICK s \in SUBSET D : Cardinality(s) = n /\ ~Lists(list, text, s, f[s])
    OBVIOUS
  <2>2. f[s] = Taken(list, text, f, s)
    BY <1>2 DEF Recursion
  <2>3. CASE s = {}
    <3>1. f[s] = <<>> /\ Cardinality(s) = 0
      BY <2>2, <2>3, FS_EmptySet DEF Taken
    <3>2. <<>> \in Seq(Parsable) /\ Len(<<>>) = 0
      BY EmptySeq
    <3>3. Lists(list, text, s, <<>>)
      BY <2>3, <3>1, <3>2 DEF Lists
    <3>4. QED
      BY <2>1, <3>1, <3>3
  <2>4. CASE s # {}
    <3> DEFINE t == s \ {Max(s)}
    <3>1. /\ Max(s) \in s /\ t \in SUBSET D
          /\ Cardinality(s) \in Nat /\ Cardinality(t) \in Nat
          /\ Cardinality(t) = Cardinality(s) - 1
      BY <1>1, <2>1, <2>4, MaxGone
    <3>2. Lists(list, text, t, f[t])
      <4> HIDE DEF t
      <4>1. n \in Nat /\ ~(n <= n - 1)
        OBVIOUS
      <4>2. Cardinality(t) \notin Bad
        BY <1>3, <2>1, <3>1, <4>1
      <4>3. QED
        BY <3>1, <4>2
    <3>3. Max(s) \in 1..Len(list)
      BY <1>1, <3>1
    <3>4. Lists(list, text, s,
                IF list[Max(s)] \in Found[text] THEN Append(f[t], list[Max(s)]) ELSE f[t])
      BY <3>1, <3>2, <3>3, OneMore
    <3>5. Lists(list, text, s, f[s])
      BY <2>2, <2>4, <3>4 DEF Taken
    <3>6. QED
      BY <2>1, <3>5
  <2>5. QED
    BY <2>3, <2>4
<1>4. Bad = {}
  <2>1. Bad # {} => Min(Bad) \in Bad /\ \A k \in Bad : Min(Bad) <= k
    BY MinProperty
  <2> HIDE DEF Bad
  <2>2. QED
    BY <1>3, <2>1
<1>5. Lists(list, text, D, f[D])
  <2>1. Cardinality(D) \in Nat
    BY <1>1, FS_Interval, FS_CardinalityType
  <2>2. QED
    BY <1>4, <2>1
<1>6. QED
  BY <1>5, FilteredIsRecursive DEF f
-----------------------------------------------------------------------------
(***************************************************************************)
(* The types, and the gap                                                  *)
(***************************************************************************)
\* Whatever text filters them, the rows are restaurants, and not more than
\* there are.
LEMMA FilteredFits ==
  \A list \in Seq(Parsable), text \in Texts \cup {NoText} :
    /\ Filtered(list, text) \in Seq(Parsable)
    /\ Len(Filtered(list, text)) <= Len(list)
<1> SUFFICES ASSUME NEW list \in Seq(Parsable), NEW text \in Texts \cup {NoText}
             PROVE  /\ Filtered(list, text) \in Seq(Parsable)
                    /\ Len(Filtered(list, text)) <= Len(list)
  OBVIOUS
<1>1. Len(list) \in Nat /\ DOMAIN list = 1..Len(list)
  BY LenProperties
<1>2. CASE text = NoText
  <2>1. Filtered(list, text) = list
    BY <1>2 DEF Filtered
  <2>2. QED
    BY <1>1, <2>1
<1>3. CASE text # NoText
  <2>1. Cardinality(DOMAIN list) = Len(list)
    BY <1>1, FS_Interval
  <2>2. QED
    BY <1>3, <2>1, FilteredLists DEF Lists
<1>4. QED
  BY <1>2, <1>3

\* The documents of a snapshot are a sequence of documents.
LEMMA InIdOrderType ==
  ASSUME NEW D \in SUBSET Restaurants, NEW list \in InIdOrder(D)
  PROVE  list \in Seq(D)
<1>1. Cardinality(D) \in Nat
  BY RestaurantsAssumption, FS_Subset, FS_CardinalityType
<1>2. list \in [1..Cardinality(D) -> D]
  BY DEF InIdOrder
<1>3. QED
  BY <1>1, <1>2, IsASeq

LEMMA SnapshotType ==
  ASSUME FeedTypeOK, NEW filter, NEW D \in SUBSET Restaurants, SnapshotOf(filter, D)
  PROVE  FeedTypeOK'
<1>1. All \in listening' /\ snapshots' \in 0..MaxSnapshots
  BY SnapshotsAssumption DEF SnapshotOf, FeedTypeOK
<1>2. CASE Parsed(D) \subseteq Bundled
  <2>1. PICK list \in InIdOrder(Parsed(D)) :
          restaurantList' = list /\ restaurantIDS' = restaurantIDS \o list
    BY <1>2 DEF SnapshotOf, IdsAdded
  <2>2. Parsed(D) \in SUBSET Restaurants /\ Parsed(D) \subseteq Parsable
    BY DEF Parsed
  <2>3. list \in Seq(Parsed(D))
    BY <2>2, InIdOrderType
  <2>4. list \in Seq(Parsable) /\ restaurantIDS \in Seq(Parsable)
    BY <2>2, <2>3, SeqMonotonic DEF FeedTypeOK
  <2>5. restaurantIDS' \in Seq(Parsable)
    BY <2>1, <2>4, ConcatProperties
  <2>6. trap' = trap
    BY <1>2 DEF SnapshotOf
  <2>7. QED
    BY <1>1, <2>1, <2>4, <2>5, <2>6 DEF FeedTypeOK
<1>3. CASE ~(Parsed(D) \subseteq Bundled)
  <2>1. UNCHANGED <<restaurantList, restaurantIDS>> /\ trap' = "image"
    BY <1>3 DEF SnapshotOf
  <2>2. QED
    BY <1>1, <2>1 DEF FeedTypeOK
<1>4. QED
  BY <1>2, <1>3

LEMMA TypeInit == Init => TypeOK
<1> SUFFICES ASSUME Init PROVE TypeOK
  OBVIOUS
<1>1. /\ restaurantList = <<>> /\ restaurantIDS = <<>> /\ filteredData = <<>>
      /\ listening = {All} /\ snapshots = 0 /\ trap = "none"
      /\ searchText = NoText /\ blocks = 0
  BY DEF Init, FeedInit
<1>2. <<>> \in Seq(Parsable)
  BY EmptySeq
<1>3. FeedTypeOK
  BY <1>1, <1>2, SnapshotsAssumption DEF FeedTypeOK
<1>4. QED
  BY <1>1, <1>2, <1>3, MaxBlocksAssumption DEF TypeOK

LEMMA TypeNext == TypeOK /\ [Next]_vars => TypeOK'
<1> SUFFICES ASSUME TypeOK, [Next]_vars PROVE TypeOK'
  OBVIOUS
<1>0. /\ FeedTypeOK /\ restaurantList \in Seq(Parsable)
      /\ filteredData \in Seq(Parsable) /\ searchText \in Texts \cup {NoText}
      /\ blocks \in 0..MaxBlocks /\ MaxBlocks \in Nat
  BY MaxBlocksAssumption DEF TypeOK, FeedTypeOK
<1>1. CASE restaurantsArrive
  <2>1. PICK D \in SUBSET Restaurants : SnapshotOf(All, D)
    BY <1>1 DEF restaurantsArrive
  <2>2. FeedTypeOK'
    BY <1>0, <2>1, SnapshotType
  <2>3. UNCHANGED <<filteredData, searchText>> /\ blocks' \in 0..MaxBlocks
    BY <1>0, <1>1 DEF restaurantsArrive
  <2>4. QED
    BY <1>0, <2>2, <2>3 DEF TypeOK
<1>2. CASE closure
  <2>1. /\ UNCHANGED <<feedVars, searchText>> /\ filteredData' = restaurantList
        /\ blocks' \in 0..MaxBlocks
    BY <1>0, <1>2 DEF closure, AllRows
  <2>2. FeedTypeOK'
    BY <1>0, <2>1 DEF feedVars, FeedTypeOK
  <2>3. QED
    BY <1>0, <2>1, <2>2 DEF TypeOK
<1>3. ASSUME NEW t \in Texts \cup {NoText}, textDidChange(t) PROVE TypeOK'
  <2>1. /\ UNCHANGED <<feedVars, blocks>> /\ searchText' = t
        /\ filteredData' = Filtered(restaurantList, t)
    BY <1>3 DEF textDidChange, FilteredAnew
  <2>2. FeedTypeOK'
    BY <1>0, <2>1 DEF feedVars, FeedTypeOK
  <2>3. QED
    BY <1>0, <2>1, <2>2, FilteredFits DEF TypeOK
<1>4. ASSUME NEW r \in 1..Len(filteredData), didSelectRowAt(r) PROVE TypeOK'
  <2>1. /\ UNCHANGED <<restaurantList, restaurantIDS, listening, snapshots, searchVars>>
        /\ trap' \in {"index", "path"}
    BY <1>4 DEF didSelectRowAt
  <2>2. FeedTypeOK'
    BY <1>0, <2>1 DEF FeedTypeOK
  <2>3. QED
    BY <1>0, <2>1, <2>2 DEF TypeOK, searchVars
<1>5. CASE UNCHANGED vars
  <2>1. FeedTypeOK'
    BY <1>0, <1>5 DEF vars, feedVars, FeedTypeOK
  <2>2. QED
    BY <1>0, <1>5, <2>1 DEF vars, searchVars, TypeOK
<1>6. QED
  BY <1>1, <1>2, <1>3, <1>4, <1>5 DEF Next

\* The rows and the restaurants behind them are restaurants that could be
\* read, and the blocks on the queue are within their bound.
THEOREM TypeCorrect == Spec => []TypeOK
BY TypeInit, TypeNext, PTL DEF Spec

\* With no block on the queue the rows are the restaurants or some of them, so
\* the row that is pressed is not beyond the restaurants' end.
LEMMA TrapStep ==
  TypeOK /\ IInv /\ [Next]_vars => (trap' = "index" /\ trap = "none" => blocks > 0)
<1> SUFFICES ASSUME TypeOK, IInv, [Next]_vars, trap' = "index", trap = "none", ~(blocks > 0)
             PROVE  FALSE
  OBVIOUS
<1>1. /\ restaurantList \in Seq(Parsable) /\ filteredData \in Seq(Parsable)
      /\ searchText \in Texts \cup {NoText} /\ blocks = 0
  BY DEF TypeOK, FeedTypeOK, IInv, Blocks
<1>2. Len(filteredData) \in Nat /\ Len(restaurantList) \in Nat
      /\ Len(filteredData) <= Len(restaurantList)
  <2>1. Len(filteredData) \in Nat /\ Len(restaurantList) \in Nat
    BY <1>1, LenProperties
  <2>2. Len(filteredData) <= Len(restaurantList)
    BY <1>1, <2>1, FilteredFits DEF IInv, IdleRowsAreCurrent
  <2>3. QED
    BY <2>1, <2>2
<1>3. CASE restaurantsArrive
  BY <1>3 DEF restaurantsArrive, SnapshotOf
<1>4. CASE closure \/ UNCHANGED vars
  BY <1>4 DEF closure, vars, feedVars
<1>5. ASSUME NEW t \in Texts \cup {NoText}, textDidChange(t) PROVE FALSE
  BY <1>5 DEF textDidChange, feedVars
<1>6. ASSUME NEW r \in 1..Len(filteredData), didSelectRowAt(r) PROVE FALSE
  BY <1>2, <1>6 DEF didSelectRowAt
<1>7. QED
  BY <1>3, <1>4, <1>5, <1>6 DEF Next

\* Only while a block is waiting that will replace the rows can a row be asked
\* for that restaurantList does not have.
THEOREM TrapNeedsGap == Spec => IndexTrapNeedsGap
BY TypeInit, TypeNext, IInvInit, IInvNext, TrapStep, PTL DEF Spec, IndexTrapNeedsGap
=============================================================================
