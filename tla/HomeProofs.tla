----------------------------- MODULE HomeProofs -----------------------------
(***************************************************************************)
(* Proofs about Home, for every set of restaurants and categories.         *)
(*                                                                         *)
(* restaurantIDS is never cut back while restaurantList is replaced by     *)
(* lists of any length.  That a row always has an id follows from the      *)
(* stronger fact that the ids of the present list are the last ones, which *)
(* every snapshot re-establishes and nothing else disturbs.                *)
(***************************************************************************)
EXTENDS Home, FiniteSetTheorems, SequenceTheorems, TLAPS

\* The documents of a snapshot are a sequence of documents.
LEMMA InIdOrderType ==
  ASSUME NEW D \in SUBSET Restaurants, NEW list \in InIdOrder(D)
  PROVE  list \in Seq(D)
<1>1. Cardinality(D) \in Nat
  BY RestaurantsAssumption, FS_Subset, FS_CardinalityType
<1>2. list \in [1..Cardinality(D) -> D]
  BY DEF InIdOrder
<1>3. QED
  BY <1>1, <1>2, IsASeq

Lists == restaurantList \in Seq(Parsable) /\ restaurantIDS \in Seq(Parsable)

IInv == Lists /\ IdsEndWithList /\ RowsHaveIds

LEMMA IInvInit == Init => IInv
<1> SUFFICES ASSUME Init PROVE IInv
  OBVIOUS
<1>1. restaurantList = <<>> /\ restaurantIDS = <<>> /\ trap = "none"
  BY DEF Init, FeedInit
<1>2. Lists
  BY <1>1, EmptySeq DEF Lists
<1>3. IdsEndWithList
  BY <1>1, EmptySeq DEF IdsEndWithList
<1>4. QED
  BY <1>1, <1>2, <1>3 DEF IInv, RowsHaveIds

\* A snapshot puts the ids of its list behind all others.
LEMMA SnapshotKeeps ==
  ASSUME IInv, NEW filter, NEW D \in SUBSET Restaurants, SnapshotOf(filter, D)
  PROVE  IInv'
<1>1. CASE Parsed(D) \subseteq Bundled
  <2>1. PICK list \in InIdOrder(Parsed(D)) :
          restaurantList' = list /\ restaurantIDS' = restaurantIDS \o list
    BY <1>1 DEF SnapshotOf, IdsAdded
  <2>2. Parsed(D) \in SUBSET Restaurants /\ Parsed(D) \subseteq Parsable
    BY DEF Parsed
  <2>3. list \in Seq(Parsed(D))
    BY <2>2, InIdOrderType
  <2>4. list \in Seq(Parsable) /\ restaurantIDS \in Seq(Parsable)
    BY <2>2, <2>3, SeqMonotonic DEF IInv, Lists
  <2>5. /\ restaurantIDS' \in Seq(Parsable)
        /\ Len(restaurantIDS') = Len(restaurantIDS) + Len(list)
        /\ \A r \in 1..Len(list) :
             restaurantIDS'[Len(restaurantIDS) + r] = list[r]
    <3>1. Len(restaurantIDS) \in Nat /\ Len(list) \in Nat
      BY <2>4, LenProperties
    <3>2. \A i \in 1..(Len(restaurantIDS) + Len(list)) :
            restaurantIDS'[i] = IF i <= Len(restaurantIDS) THEN restaurantIDS[i]
                                ELSE list[i - Len(restaurantIDS)]
      BY <2>1, <2>4, ConcatProperties
    <3>3. ASSUME NEW r \in 1..Len(list)
          PROVE  restaurantIDS'[Len(restaurantIDS) + r] = list[r]
      BY <3>1, <3>2
    <3>4. QED
      BY <2>1, <2>4, <3>3, ConcatProperties
  <2>6. IdsEndWithList'
    BY <2>1, <2>4, <2>5, LenProperties DEF IdsEndWithList
  <2>7. trap' = trap
    BY <1>1 DEF SnapshotOf
  <2>8. QED
    BY <2>1, <2>4, <2>5, <2>6, <2>7 DEF IInv, Lists, RowsHaveIds
<1>2. CASE ~(Parsed(D) \subseteq Bundled)
  <2>1. UNCHANGED <<restaurantList, restaurantIDS>> /\ trap' = "image"
    BY <1>2 DEF SnapshotOf
  <2>2. QED
    BY <2>1 DEF IInv, Lists, IdsEndWithList, RowsHaveIds
<1>3. QED
  BY <1>1, <1>2

\* A row that is tapped has an id.
LEMMA SelectKeeps ==
  ASSUME IInv, NEW r \in 1..Len(restaurantList), didSelectRowAt(r)
  PROVE  IInv'
<1>1. Len(restaurantList) \in Nat /\ Len(restaurantIDS) \in Nat
  BY LenProperties DEF IInv, Lists
<1>2. r \in 1..Len(restaurantIDS)
  BY <1>1 DEF IInv, IdsEndWithList
<1>3. UNCHANGED <<restaurantList, restaurantIDS, trap>>
  BY <1>2 DEF didSelectRowAt
<1>4. QED
  BY <1>3 DEF IInv, Lists, IdsEndWithList, RowsHaveIds

LEMMA IInvNext == IInv /\ [Next]_vars => IInv'
<1> SUFFICES ASSUME IInv, [Next]_vars PROVE IInv'
  OBVIOUS
<1>1. ASSUME UNCHANGED <<restaurantList, restaurantIDS, trap>> PROVE IInv'
  BY <1>1 DEF IInv, Lists, IdsEndWithList, RowsHaveIds
<1>2. CASE categoriesArrive
  BY <1>1, <1>2 DEF categoriesArrive, feedVars
<1>3. CASE restaurantsArrive
  <2>1. PICK filter \in listening : \E D \in SUBSET Matching(filter) : SnapshotOf(filter, D)
    BY <1>3 DEF restaurantsArrive
  <2>2. PICK D \in SUBSET Matching(filter) : SnapshotOf(filter, D)
    BY <2>1
  <2>3. D \in SUBSET Restaurants
    BY DEF Matching
  <2>4. QED
    BY <2>2, <2>3, SnapshotKeeps
<1>4. ASSUME NEW i \in 1..Len(categoriesArray), didSelectItemAt(i) PROVE IInv'
  BY <1>1, <1>4 DEF didSelectItemAt, fetchRestaurants
<1>5. ASSUME NEW r \in 1..Len(restaurantList), didSelectRowAt(r) PROVE IInv'
  BY <1>5, SelectKeeps
<1>6. CASE viewDidAppear
  BY <1>1, <1>6 DEF viewDidAppear, feedVars
<1>7. CASE UNCHANGED vars
  BY <1>1, <1>7 DEF vars, feedVars
<1>8. QED
  BY <1>2, <1>3, <1>4, <1>5, <1>6, <1>7 DEF Next

\* Behind all earlier ids restaurantIDS has those of the restaurants shown,
\* after any number of snapshots of any number of listeners.
THEOREM IdsCorrect == Spec => []IdsEndWithList
<1>1. IInv => IdsEndWithList
  BY DEF IInv
<1>2. QED
  BY <1>1, IInvInit, IInvNext, PTL DEF Spec

\* didSelectRowAt never indexes past the end of restaurantIDS.
THEOREM RowsCorrect == Spec => []RowsHaveIds
<1>1. IInv => RowsHaveIds
  BY DEF IInv
<1>2. QED
  BY <1>1, IInvInit, IInvNext, PTL DEF Spec

-----------------------------------------------------------------------------
(***************************************************************************)
(* Types                                                                   *)
(***************************************************************************)
\* The categories are categories, and so are the filters asked for.  What the
\* Details screen is given comes from a row and from an id, which needs the
\* invariant above: a row has an id.
TInv == IInv /\ TypeOK

LEMMA TypesInit == Init => TInv
<1> SUFFICES ASSUME Init PROVE TInv
  OBVIOUS
<1>1. IInv
  BY IInvInit
<1>2. categoriesArray \in Seq(Categories) /\ categorySnapshots \in 0..MaxCategories
  BY CategoriesAssumption, MaxCategoriesAssumption DEF Init
<1>3. FeedTypeOK /\ listening \subseteq Categories \cup {All}
  BY <1>1, SnapshotsAssumption DEF Init, FeedInit, FeedTypeOK, IInv, Lists
<1>4. QED
  BY <1>1, <1>2, <1>3 DEF TInv, TypeOK, Init

LEMMA TypesNext == TInv /\ [Next]_vars => TInv'
<1> SUFFICES ASSUME TInv, [Next]_vars PROVE TInv'
  OBVIOUS
<1>0. IInv' /\ Lists' /\ TypeOK /\ FeedTypeOK
  BY IInvNext DEF TInv, IInv, TypeOK
<1>1. CASE categoriesArrive
  <2>1. PICK D \in SUBSET Categories : categoriesArray' \in InIdOrder(D)
    BY <1>1 DEF categoriesArrive
  <2>2. Cardinality(D) \in Nat
    BY CategoriesAssumption, FS_Subset, FS_CardinalityType
  <2>3. categoriesArray' \in [1..Cardinality(D) -> Categories]
    BY <2>1 DEF InIdOrder
  <2>4. categoriesArray' \in Seq(Categories)
    BY <2>2, <2>3
  <2>5. categorySnapshots' \in 0..MaxCategories
    BY <1>0, <1>1, MaxCategoriesAssumption DEF categoriesArrive, TypeOK
  <2>6. QED
    BY <1>0, <1>1, <2>4, <2>5 DEF categoriesArrive, feedVars, TInv, TypeOK, FeedTypeOK
<1>2. CASE restaurantsArrive
  <2>1. PICK filter \in listening : \E D \in SUBSET Matching(filter) : SnapshotOf(filter, D)
    BY <1>2 DEF restaurantsArrive
  <2>2. PICK D \in SUBSET Matching(filter) : SnapshotOf(filter, D)
    BY <2>1
  <2>3. /\ snapshots < MaxSnapshots /\ snapshots' = snapshots + 1 /\ listening' = listening
        /\ trap' = trap \/ trap' = "image"
    BY <2>2 DEF SnapshotOf
  <2>4. snapshots' \in 0..MaxSnapshots
    BY <1>0, <2>3, SnapshotsAssumption DEF FeedTypeOK
  <2>5. FeedTypeOK'
    BY <1>0, <2>3, <2>4 DEF FeedTypeOK, Lists
  <2>6. QED
    BY <1>0, <1>2, <2>3, <2>5 DEF restaurantsArrive, categoryVars, TInv, TypeOK
<1>3. ASSUME NEW i \in 1..Len(categoriesArray), didSelectItemAt(i) PROVE TInv'
  <2>1. categoriesArray[i] \in Categories
    BY <1>0, ElementOfSeq DEF TypeOK
  <2>2. listening' \subseteq Categories \cup {All} /\ All \in listening'
    BY <1>0, <1>3, <2>1 DEF didSelectItemAt, fetchRestaurants, TypeOK, FeedTypeOK
  <2>3. QED
    BY <1>0, <1>3, <2>2 DEF didSelectItemAt, fetchRestaurants, categoryVars, TInv, TypeOK,
       FeedTypeOK
<1>4. ASSUME NEW r \in 1..Len(restaurantList), didSelectRowAt(r) PROVE TInv'
  <2>1. trap' = trap \/ trap' = "index"
    BY <1>4 DEF didSelectRowAt
  <2>2. restaurantList[r] \in Parsable
    BY <1>0, ElementOfSeq DEF FeedTypeOK
  <2>3. details' \in [shown : Parsable, restID : Parsable] \cup {Closed}
    <3>1. CASE r \in 1..Len(restaurantIDS)
      <4>1. IdOfRow(r) \in Parsable
        BY <1>0, <3>1, ElementOfSeq DEF FeedTypeOK, IdOfRow
      <4>2. details' = [shown |-> restaurantList[r], restID |-> IdOfRow(r)]
        BY <1>4, <3>1 DEF didSelectRowAt
      <4>3. QED
        BY <2>2, <4>1, <4>2
    <3>2. CASE r \notin 1..Len(restaurantIDS)
      BY <1>0, <1>4, <3>2 DEF didSelectRowAt, TypeOK
    <3>3. QED
      BY <3>1, <3>2
  <2>4. FeedTypeOK'
    BY <1>0, <1>4, <2>1 DEF didSelectRowAt, FeedTypeOK
  <2>5. QED
    BY <1>0, <1>4, <2>3, <2>4 DEF didSelectRowAt, categoryVars, TInv, TypeOK
<1>5. CASE viewDidAppear
  BY <1>0, <1>5 DEF viewDidAppear, feedVars, categoryVars, TInv, TypeOK, FeedTypeOK
<1>6. CASE UNCHANGED vars
  BY <1>0, <1>6 DEF vars, feedVars, categoryVars, TInv, TypeOK, FeedTypeOK
<1>7. QED
  BY <1>1, <1>2, <1>3, <1>4, <1>5, <1>6 DEF Next

\* Type correctness: only well-formed restaurants are shown or opened, only
\* filters of categories are listened to.
THEOREM TypeCorrect == Spec => []TypeOK
<1>1. TInv => TypeOK
  BY DEF TInv
<1>2. QED
  BY <1>1, TypesInit, TypesNext, PTL DEF Spec
=============================================================================
