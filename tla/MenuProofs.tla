----------------------------- MODULE MenuProofs -----------------------------
(***************************************************************************)
(* Proofs about Menu, for every menu, every pool of cells and every bound. *)
(*                                                                         *)
(* Rows: a cell on the screen names a document only because the rows the  *)
(* table counts exist (ShownRowsExist).                                    *)
(*                                                                         *)
(* The cart: the arrays may fall apart as lines, since meals share values  *)
(* and a recycled cell may untick a meal that it did not tick, and still   *)
(* have one entry per ticked cell (LinesAreTicks); until such a mistake    *)
(* each holds a value as often as ticked meals bear it (InCart).  The      *)
(* proof counts occurrences and needs nothing of which cell UIKit hands    *)
(* out for which row.                                                      *)
(***************************************************************************)
EXTENDS Menu, ArrayLemmas, FiniteSetTheorems

-----------------------------------------------------------------------------
(***************************************************************************)
(* Lemmas about the operators                                              *)
(***************************************************************************)
\* firstIndex(of:)! finds a place of the array when there is one.
LEMMA FirstIndexInRange ==
  ASSUME NEW S, NEW s \in Seq(S), NEW e, Indices(s, e) # {}
  PROVE  Min(Indices(s, e)) \in 1..Len(s) /\ s[Min(Indices(s, e))] = e
<1>1. Indices(s, e) \in SUBSET Nat
  BY LenProperties DEF Indices
<1>2. Min(Indices(s, e)) \in Indices(s, e)
  BY <1>1, MinProperty
<1>3. QED
  BY <1>2 DEF Indices

\* The documents of a snapshot, in any order, are a sequence of documents.
LEMMA InIdOrderType ==
  ASSUME NEW D \in SUBSET Docs, NEW menu \in InIdOrder(D)
  PROVE  menu \in Seq(D)
<1>1. Cardinality(D) \in Nat
  BY DocsAssumption, FS_Subset, FS_CardinalityType
<1>2. menu \in [1..Cardinality(D) -> D]
  BY DEF InIdOrder
<1>3. QED
  BY <1>1, <1>2, IsASeq

\* What a removal leaves of an array, when there is something to remove.
LEMMA RemoveOneProperties ==
  ASSUME NEW S, NEW s \in Seq(S), NEW e, Indices(s, e) # {}
  PROVE  /\ RemoveOne(s, e) \in Seq(S)
         /\ Len(RemoveOne(s, e)) = Len(s) - 1
         /\ \A i \in 1..(Len(s) - 1) :
              RemoveOne(s, e)[i] = IF i < Min(Indices(s, e)) THEN s[i] ELSE s[i + 1]
BY FirstIndexInRange, RemoveAtProperties DEF RemoveOne

-----------------------------------------------------------------------------
(***************************************************************************)
(* Types, and the rows of the table                                        *)
(***************************************************************************)
TypeAndRows == TypeOK /\ ShownRowsExist

LEMMA TypeAndRowsInit == Init => TypeAndRows
<1> SUFFICES ASSUME Init PROVE TypeAndRows
  OBVIOUS
<1> USE DocsAssumption, BoundsAssumption DEF Init, Labels, foodQuantity
<1>1. Len(mealList) = 0
  BY EmptySeq
<1>2. TypeOK
  <2>1. /\ cells \in [Cells -> [row : Nat, meal : Docs \cup {NoMeal}, label : Labels]]
        /\ \A c \in Cells : cells[c].row = 0
    OBVIOUS
  <2>2. \A S : <<>> \in Seq(S)
    BY EmptySeq
  <2>3. mealList \in Seq(Parsable) /\ titleArray \in Seq({Recipe[d] : d \in Docs})
    BY <2>2
  <2>4. /\ amountArray \in Seq({Price[d] : d \in Docs})
        /\ imageArray \in Seq({Image[d] : d \in Docs})
        /\ quantityOfItems \in Seq({foodQuantity})
    BY <2>2
  <2>5. reloads \in 0..MaxReloads /\ snapshots \in 0..MaxSnapshots /\ rows \in Nat
    OBVIOUS
  <2>6. /\ cartHidden \in BOOLEAN /\ trapped \in {"no", "image", "unwrap"}
        /\ tickedAs \in [Cells -> Docs \cup {NoMeal}] /\ mistaken \in BOOLEAN
        /\ screen \in {"loading", "shown", "covered"}
    OBVIOUS
  <2>7. QED
    BY <2>1, <2>3, <2>4, <2>5, <2>6 DEF TypeOK
<1>3. ShownRowsExist
  BY <1>1 DEF ShownRowsExist
<1>4. QED
  BY <1>2, <1>3 DEF TypeAndRows

LEMMA MealsArriveKeeps == TypeAndRows /\ MealsArrive => TypeAndRows'
<1> SUFFICES ASSUME TypeAndRows, MealsArrive PROVE TypeAndRows'
  OBVIOUS
<1>1. PICK D \in SUBSET Docs : SnapshotOf(D)
  BY DEF MealsArrive
<1>2. UNCHANGED <<screen, reloads, rows, cells, cartVars, tickVars>>
  BY <1>1 DEF SnapshotOf, tableVars
<1>3. CASE MealsOf(D) \subseteq Bundled
  <2>1. PICK menu \in InIdOrder(MealsOf(D)) : mealList' = mealList \o menu
    BY <1>1, <1>3 DEF SnapshotOf, AppendedWith
  <2>2. MealsOf(D) \in SUBSET Docs /\ MealsOf(D) \subseteq Parsable
    BY DEF MealsOf
  <2>3. menu \in Seq(MealsOf(D))
    BY <2>2, InIdOrderType
  <2>4. menu \in Seq(Parsable) /\ mealList \in Seq(Parsable)
    BY <2>2, <2>3, SeqMonotonic DEF TypeAndRows, TypeOK
  <2>5. /\ mealList' \in Seq(Parsable)
        /\ Len(mealList) \in Nat /\ Len(menu) \in Nat
        /\ Len(mealList') = Len(mealList) + Len(menu)
        /\ \A i \in 1..Len(mealList) : mealList'[i] = mealList[i]
    BY <2>1, <2>4, ConcatProperties, LenProperties
  <2>6. TypeOK'
    <3>1. snapshots' \in 0..MaxSnapshots /\ trapped' = trapped
      BY <1>1, <1>3, BoundsAssumption DEF TypeAndRows, TypeOK, SnapshotOf
    <3>2. mealList' \in Seq(Parsable) /\ TypeOK
      BY <2>5 DEF TypeAndRows
    <3>3. QED
      BY <1>2, <3>1, <3>2 DEF TypeOK, cartVars, tickVars
  <2>7. ShownRowsExist'
    <3>1. ShownRowsExist /\ rows \in Nat /\ cells \in [Cells -> [row : Nat, meal : Docs \cup {NoMeal}, label : Labels]]
      BY DEF TypeAndRows, TypeOK
    <3>2. rows' = rows /\ cells' = cells
      BY <1>2
    <3>3. QED
      BY <2>5, <3>1, <3>2 DEF ShownRowsExist
  <2>8. QED
    BY <2>6, <2>7 DEF TypeAndRows
<1>4. CASE ~(MealsOf(D) \subseteq Bundled)
  <2>1. mealList' = mealList /\ trapped' = "image" /\ snapshots' = snapshots + 1
        /\ snapshots < MaxSnapshots
    BY <1>1, <1>4 DEF SnapshotOf
  <2>2. snapshots' \in 0..MaxSnapshots
    BY <2>1, BoundsAssumption DEF TypeAndRows, TypeOK
  <2>3. TypeOK'
    BY <1>2, <2>1, <2>2 DEF TypeAndRows, TypeOK, cartVars, tickVars
  <2>4. ShownRowsExist'
    BY <1>2, <2>1 DEF TypeAndRows, ShownRowsExist
  <2>5. QED
    BY <2>3, <2>4 DEF TypeAndRows
<1>5. QED
  BY <1>3, <1>4

LEMMA TableKeeps ==
  TypeAndRows /\ (viewDidAppear \/ viewCartButton \/ seeMore \/ reloadData) => TypeAndRows'
<1> USE DEF TypeAndRows, cartVars, tickVars
<1>1. ASSUME TypeAndRows, viewDidAppear PROVE TypeAndRows'
  BY <1>1, BoundsAssumption DEF TypeOK, ShownRowsExist, viewDidAppear, ReloadQueued
<1>2. ASSUME TypeAndRows, viewCartButton \/ seeMore PROVE TypeAndRows'
  BY <1>2 DEF TypeOK, ShownRowsExist, viewCartButton, seeMore, tableVars
<1>3. ASSUME TypeAndRows, reloadData PROVE TypeAndRows'
  <2>1. rows' = Len(mealList) /\ mealList' = mealList /\ Len(mealList) \in Nat
    BY <1>3, LenProperties DEF TypeOK, reloadData
  <2>2. /\ cells' \in [Cells -> [row : Nat, meal : Docs \cup {NoMeal}, label : Labels]]
        /\ \A c \in Cells : cells'[c].row = 0
    BY <1>3 DEF TypeOK, reloadData
  <2>3. TypeOK'
    BY <1>3, <2>1, <2>2, BoundsAssumption DEF TypeOK, reloadData
  <2>4. ShownRowsExist'
    BY <2>1, <2>2 DEF ShownRowsExist
  <2>5. QED
    BY <2>3, <2>4
<1>4. QED
  BY <1>1, <1>2, <1>3

LEMMA CellForRowKeeps ==
  ASSUME TypeAndRows, NEW c \in Cells, NEW r \in 1..rows, cellForRow(r, c)
  PROVE  TypeAndRows'
<1> USE DEF TypeAndRows
<1>1. rows \in Nat /\ rows <= Len(mealList) /\ Len(mealList) \in Nat
  BY LenProperties DEF TypeOK, ShownRowsExist
<1>2. mealList[r] \in Docs /\ r \in 1..Len(mealList)
  <2>1. r \in 1..Len(mealList)
    BY <1>1
  <2>2. mealList \in Seq(Parsable)
    BY DEF TypeOK
  <2>3. mealList[r] \in Parsable
    BY <2>1, <2>2, ElementOfSeq
  <2>4. QED
    BY <2>1, <2>3, DocsAssumption
<1>3. cells' = [cells EXCEPT ![c] = [row |-> r, meal |-> mealList[r],
                                     label |-> cells[c].label]]
  BY DEF cellForRow, setup
<1>4. UNCHANGED <<mealList, snapshots, screen, reloads, rows, cartVars, trapped, tickVars>>
  BY DEF cellForRow, tableVars
<1>5. TypeOK'
  BY <1>1, <1>2, <1>3, <1>4 DEF TypeOK, cartVars, tickVars
<1>6. ShownRowsExist'
  BY <1>1, <1>2, <1>3, <1>4 DEF TypeOK, ShownRowsExist
<1>7. QED
  BY <1>5, <1>6

LEMMA TapKeeps ==
  ASSUME TypeAndRows, NEW c \in Cells, addButtonPressed(c)
  PROVE  TypeAndRows'
<1> USE DEF TypeAndRows
<1> DEFINE d == cells[c].meal
<1>1. d \in Docs
  BY DEF TypeOK, addButtonPressed
<1>2. UNCHANGED <<mealList, snapshots, screen, reloads, rows>>
  BY DEF addButtonPressed, tableVars
<1>3. ASSUME NEW text \in Labels, SetLabel(c, text)
      PROVE  /\ cells' \in [Cells -> [row : Nat, meal : Docs \cup {NoMeal}, label : Labels]]
             /\ \A e \in Cells : cells'[e].row = cells[e].row /\ cells'[e].meal = cells[e].meal
  BY <1>3 DEF TypeOK, SetLabel
<1> HIDE DEF d
<1>4. CASE TapAdd(c)
  <2>1. didTapAddBtn(d) /\ SetLabel(c, "Added") /\ UNCHANGED <<trapped, mistaken>>
        /\ tickedAs' = [tickedAs EXCEPT ![c] = d]
    BY <1>4 DEF TapAdd, d
  <2>2. /\ titleArray' \in Seq({Recipe[x] : x \in Docs})
        /\ amountArray' \in Seq({Price[x] : x \in Docs})
        /\ imageArray' \in Seq({Image[x] : x \in Docs})
        /\ quantityOfItems' \in Seq({foodQuantity})
    BY <1>1, <2>1, AppendProperties DEF TypeOK, didTapAddBtn
  <2>3. tickedAs' \in [Cells -> Docs \cup {NoMeal}]
    BY <1>1, <2>1 DEF TypeOK
  <2>4. QED
    BY <1>2, <1>3, <2>1, <2>2, <2>3 DEF TypeOK, ShownRowsExist, Labels, didTapAddBtn
<1>5. CASE TapAdded(c)
  <2>1. tickedAs' = tickedAs /\ mistaken' \in BOOLEAN
    BY <1>5 DEF TapAdded, TypeOK
  <2>2. CASE CanRemove(d) /\ didTapRemoveBtn(d) /\ SetLabel(c, "Add") /\ UNCHANGED trapped
    <3>1. /\ titleArray' \in Seq({Recipe[x] : x \in Docs})
          /\ amountArray' \in Seq({Price[x] : x \in Docs})
          /\ imageArray' \in Seq({Image[x] : x \in Docs})
          /\ quantityOfItems' \in Seq({foodQuantity})
      BY <2>2, RemoveOneProperties DEF TypeOK, CanRemove, didTapRemoveBtn
    <3>2. cartHidden' \in BOOLEAN
      BY <2>2 DEF TypeOK, didTapRemoveBtn, HiddenAfterRemoval
    <3>3. QED
      BY <1>2, <1>3, <2>1, <2>2, <3>1, <3>2 DEF TypeOK, ShownRowsExist, Labels
  <2>3. CASE trapped' = "unwrap" /\ UNCHANGED <<cartVars, cells>>
    BY <1>2, <2>1, <2>3 DEF TypeOK, ShownRowsExist, cartVars
  <2>4. QED
    BY <1>5, <2>2, <2>3 DEF TapAdded, d
<1>6. QED
  BY <1>4, <1>5 DEF addButtonPressed

LEMMA TypeAndRowsStep == TypeAndRows /\ [Next]_vars => TypeAndRows'
<1> SUFFICES ASSUME TypeAndRows, [Next]_vars PROVE TypeAndRows'
  OBVIOUS
<1>1. CASE UNCHANGED vars
  BY <1>1 DEF TypeAndRows, TypeOK, ShownRowsExist, vars, tableVars, cartVars, tickVars
<1>2. QED
  BY <1>1, MealsArriveKeeps, TableKeeps, CellForRowKeeps, TapKeeps DEF Next

\* Every behaviour of the menu screen is well typed.
THEOREM TypeCorrect == Spec => []TypeOK
<1>1. TypeAndRows => TypeOK
  BY DEF TypeAndRows
<1>2. QED
  BY <1>1, TypeAndRowsInit, TypeAndRowsStep, PTL DEF Spec

\* The table never asks for a row the list has not, and never shows a meal
\* other than the one at that row, whatever snapshots arrive in between.
THEOREM RowsCorrect == Spec => []ShownRowsExist
<1>1. TypeAndRows => ShownRowsExist
  BY DEF TypeAndRows
<1>2. QED
  BY <1>1, TypeAndRowsInit, TypeAndRowsStep, PTL DEF Spec

-----------------------------------------------------------------------------
(***************************************************************************)
(* The bar that leads to the Cart                                          *)
(***************************************************************************)
LEMMA AddShowsBar ==
  ASSUME TypeOK, NEW d \in Docs, didTapAddBtn(d)
  PROVE  CartViewShowsLines'
<1>1. Len(titleArray') = Len(titleArray) + 1 /\ Len(titleArray) \in Nat
  BY AppendProperties, LenProperties DEF TypeOK, didTapAddBtn
<1>2. titleArray' # <<>>
  <2>1. Len(titleArray') # 0
    BY <1>1
  <2>2. QED
    BY <2>1
<1>3. QED
  BY <1>2 DEF didTapAddBtn, CartViewShowsLines

\* The bar is there when something is removed, and goes with the last line.
LEMMA RemoveKeepsBar ==
  ASSUME TypeOK, CartViewShowsLines, NEW d \in Docs, CanRemove(d), didTapRemoveBtn(d)
  PROVE  CartViewShowsLines'
<1> DEFINE n == Len(titleArray)
<1>1. /\ titleArray \in Seq({Recipe[x] : x \in Docs}) /\ Indices(titleArray, Recipe[d]) # {}
      /\ titleArray' = RemoveOne(titleArray, Recipe[d])
  BY DEF TypeOK, CanRemove, didTapRemoveBtn
<1>2. n \in Nat /\ Len(titleArray') = n - 1 /\ titleArray' \in Seq({Recipe[x] : x \in Docs})
  BY <1>1, RemoveOneProperties, LenProperties
<1>3. titleArray # <<>>
  BY <1>1, FirstIndexInRange
<1>4. cartHidden' <=> n = 1
  BY <1>3 DEF CartViewShowsLines, didTapRemoveBtn, HiddenAfterRemoval, TypeOK
<1>5. titleArray' = <<>> <=> n = 1
  BY <1>2, EmptySeq
<1>6. QED
  BY <1>4, <1>5 DEF CartViewShowsLines

LEMMA BarStep == TypeOK /\ CartViewShowsLines /\ [Next]_vars => CartViewShowsLines'
<1> SUFFICES ASSUME TypeOK, CartViewShowsLines, [Next]_vars
             PROVE  CartViewShowsLines'
  OBVIOUS
<1>1. CASE UNCHANGED cartVars
  BY <1>1 DEF CartViewShowsLines, cartVars
<1>2. ASSUME NEW c \in Cells, addButtonPressed(c) PROVE CartViewShowsLines'
  <2>1. cells[c].meal \in Docs
    BY <1>2 DEF TypeOK, addButtonPressed
  <2>2. \/ didTapAddBtn(cells[c].meal)
        \/ CanRemove(cells[c].meal) /\ didTapRemoveBtn(cells[c].meal)
        \/ UNCHANGED cartVars
    BY <1>2 DEF addButtonPressed, TapAdd, TapAdded
  <2>3. QED
    BY <1>1, <2>1, <2>2, AddShowsBar, RemoveKeepsBar
<1>3. CASE UNCHANGED vars
  BY <1>1, <1>3 DEF vars
<1>4. ASSUME NEW c \in Cells, NEW r \in 1..rows, cellForRow(r, c)
      PROVE  UNCHANGED cartVars
  BY <1>4 DEF cellForRow
<1>5. MealsArrive \/ viewDidAppear \/ viewCartButton \/ seeMore \/ reloadData
        => UNCHANGED cartVars
  BY DEF MealsArrive, SnapshotOf, viewDidAppear, viewCartButton, seeMore, reloadData
<1>6. QED
  BY <1>1, <1>2, <1>3, <1>4, <1>5 DEF Next

\* The bar that leads to the Cart shows exactly while there is a line to
\* order, for every menu: also when meals share a recipe, and whichever cell
\* UIKit recycles.
THEOREM BarCorrect == Spec => []CartViewShowsLines
<1>1. Init => CartViewShowsLines
  BY DEF Init, CartViewShowsLines
<1>2. TypeAndRows => TypeOK
  BY DEF TypeAndRows
<1>3. TypeOK /\ CartViewShowsLines /\ [Next]_vars => CartViewShowsLines'
  BY BarStep
<1>4. QED
  BY <1>1, <1>2, <1>3, TypeAndRowsInit, TypeAndRowsStep, PTL DEF Spec
-----------------------------------------------------------------------------
(***************************************************************************)
(* The cart is what was ticked                                             *)
(***************************************************************************)
\* The cells of T whose meal in list bears that value of the attribute.
Bearing(T, list, attribute, v) == {c \in T : attribute[list[c]] = v}

\* An array is the bag of an attribute over those cells.
IsBag(array, T, list, attribute) ==
  \A d \in Docs :
    Count(array, {attribute[d]}) = Cardinality(Bearing(T, list, attribute, attribute[d]))

InCart ==
  /\ IsBag(titleArray, Ticked, tickedAs, Recipe)
  /\ IsBag(amountArray, Ticked, tickedAs, Price)
  /\ IsBag(imageArray, Ticked, tickedAs, Image)

TickedInv == LinesAreTicks /\ UnwrapNeedsMistake /\ (~mistaken => InCart)

LEMMA IndicesArePlaces == \A s, v : Indices(s, v) = Places(s, {v})
BY DEF Indices, Places

LEMMA HoldsIsBag ==
  \A array, attribute : Holds(array, attribute) <=> IsBag(array, Ticked, tickedAs, attribute)
<1>1. ASSUME NEW s, NEW v PROVE Cardinality(Indices(s, v)) = Count(s, {v})
  <2>1. Indices(s, v) = Places(s, {v})
    BY IndicesArePlaces
  <2>2. QED
    BY <2>1 DEF Count
<1>2. \A attribute, v :
        TimesTicked(attribute, v) = Cardinality(Bearing(Ticked, tickedAs, attribute, v))
  BY DEF TimesTicked, Bearing
<1>3. QED
  BY <1>1, <1>2 DEF Holds, IsBag

LEMMA TickedFinite == IsFiniteSet(Ticked) /\ Cardinality(Ticked) \in Nat
<1>1. Ticked \subseteq Cells
  BY DEF Ticked
<1>2. QED
  BY <1>1, CellsAssumption, FS_Subset, FS_CardinalityType

\* A cell more and an element more, of the attribute that its row bears.
LEMMA BagAppend ==
  ASSUME NEW S, NEW array \in Seq(S), NEW T, IsFiniteSet(T), NEW list, NEW attribute,
         IsBag(array, T, list, attribute),
         NEW c, c \notin T, attribute[list[c]] \in S
  PROVE  IsBag(Append(array, attribute[list[c]]), T \cup {c}, list, attribute)
<1> DEFINE e == attribute[list[c]]
           U == T \cup {c}
<1> SUFFICES ASSUME NEW d \in Docs
             PROVE  Count(Append(array, e), {attribute[d]})
                      = Cardinality(Bearing(U, list, attribute, attribute[d]))
  BY DEF IsBag
<1> DEFINE v == attribute[d]
           B == Bearing(T, list, attribute, v)
<1>1. Count(array, {v}) = Cardinality(B)
  BY DEF IsBag
<1>2. IsFiniteSet(B) /\ c \notin B
  <2>1. B \subseteq T
    BY DEF Bearing
  <2>2. QED
    BY <2>1, FS_Subset
<1>3. Count(Append(array, e), {v}) = IF e = v THEN Count(array, {v}) + 1 ELSE Count(array, {v})
  BY CountAppend
<1>4. CASE e = v
  <2>1. Bearing(U, list, attribute, v) = B \cup {c}
    BY <1>4 DEF Bearing
  <2>2. Cardinality(B \cup {c}) = Cardinality(B) + 1
    BY <1>2, FS_AddElement
  <2>3. QED
    BY <1>1, <1>3, <1>4, <2>1, <2>2
<1>5. CASE e # v
  <2>1. Bearing(U, list, attribute, v) = B
    BY <1>5 DEF Bearing
  <2>2. QED
    BY <1>1, <1>3, <1>5, <2>1
<1>6. QED
  BY <1>4, <1>5

\* A cell less and an element less, of the attribute that its row bears.
LEMMA BagRemove ==
  ASSUME NEW S, NEW array \in Seq(S), NEW T, IsFiniteSet(T), NEW list, NEW attribute,
         IsBag(array, T, list, attribute),
         NEW c \in T, NEW k \in 1..Len(array), array[k] = attribute[list[c]]
  PROVE  IsBag(RemoveAt(array, k), T \ {c}, list, attribute)
<1> DEFINE U == T \ {c}
<1> SUFFICES ASSUME NEW d \in Docs
             PROVE  Count(RemoveAt(array, k), {attribute[d]})
                      = Cardinality(Bearing(U, list, attribute, attribute[d]))
  BY DEF IsBag
<1> DEFINE v == attribute[d]
           B == Bearing(T, list, attribute, v)
<1>1. Count(array, {v}) = Cardinality(B)
  BY DEF IsBag
<1>2. IsFiniteSet(B)
  <2>1. B \subseteq T
    BY DEF Bearing
  <2>2. QED
    BY <2>1, FS_Subset
<1>3. Count(RemoveAt(array, k), {v})
        = IF array[k] = v THEN Count(array, {v}) - 1 ELSE Count(array, {v})
  BY CountRemoveAt
<1>4. CASE array[k] = v
  <2>1. Bearing(U, list, attribute, v) = B \ {c} /\ c \in B
    BY <1>4 DEF Bearing
  <2>2. Cardinality(B \ {c}) = Cardinality(B) - 1
    BY <1>2, <2>1, FS_RemoveElement
  <2>3. QED
    BY <1>1, <1>3, <1>4, <2>1, <2>2
<1>5. CASE array[k] # v
  <2>1. Bearing(U, list, attribute, v) = B
    BY <1>5 DEF Bearing
  <2>2. QED
    BY <1>1, <1>3, <1>5, <2>1
<1>6. QED
  BY <1>4, <1>5

\* Only what the cells of T were ticked as matters.
LEMMA BagOfSame ==
  ASSUME NEW T, NEW list, NEW other, \A c \in T : other[c] = list[c]
  PROVE  \A array, attribute :
           IsBag(array, T, list, attribute) => IsBag(array, T, other, attribute)
<1>1. \A attribute, v : Bearing(T, other, attribute, v) = Bearing(T, list, attribute, v)
  BY DEF Bearing
<1>2. QED
  BY <1>1 DEF IsBag

\* What a cell of T was ticked as is found in the array.
LEMMA BagHasOne ==
  ASSUME NEW array, NEW T, IsFiniteSet(T), NEW list, NEW attribute,
         IsBag(array, T, list, attribute), NEW c \in T, list[c] \in Docs
  PROVE  Indices(array, attribute[list[c]]) # {}
<1> DEFINE v == attribute[list[c]]
           B == Bearing(T, list, attribute, v)
<1>1. Count(array, {v}) = Cardinality(B)
  BY DEF IsBag
<1>2. IsFiniteSet(B) /\ c \in B
  <2>1. B \subseteq T /\ c \in B
    BY DEF Bearing
  <2>2. QED
    BY <2>1, FS_Subset
<1>3. Cardinality(B) # 0
  BY <1>2, FS_EmptySet
<1>4. Indices(array, v) = Places(array, {v})
  BY IndicesArePlaces
<1>5. QED
  BY <1>1, <1>3, <1>4, FS_EmptySet DEF Count

-----------------------------------------------------------------------------
LEMMA TickedInit == Init => TickedInv
<1> SUFFICES ASSUME Init PROVE TickedInv
  OBVIOUS
<1>1. /\ Ticked = {} /\ trapped = "no"
      /\ titleArray = <<>> /\ amountArray = <<>> /\ imageArray = <<>> /\ quantityOfItems = <<>>
  BY DEF Init, Ticked
<1>2. \A list, attribute, v : Bearing({}, list, attribute, v) = {}
  BY DEF Bearing
<1>3. \A list, attribute : IsBag(<<>>, {}, list, attribute)
  BY <1>2, CountEmpty, FS_EmptySet DEF IsBag
<1>4. InCart
  BY <1>1, <1>3 DEF InCart
<1>5. LinesAreTicks
  BY <1>1, FS_EmptySet, EmptySeq DEF LinesAreTicks
<1>6. UnwrapNeedsMistake
  BY <1>1 DEF UnwrapNeedsMistake
<1>7. QED
  BY <1>4, <1>5, <1>6 DEF TickedInv

\* A tick: one cell more, one entry more in each array.
LEMMA AddTicked ==
  ASSUME TypeAndRows, TickedInv, NEW c \in Cells, cells[c].meal \in Docs, TapAdd(c)
  PROVE  TickedInv'
<1> DEFINE d == cells[c].meal
<1>1. /\ didTapAddBtn(d) /\ cells[c].label = "Add" /\ SetLabel(c, "Added") /\ d \in Docs
      /\ tickedAs' = [tickedAs EXCEPT ![c] = d] /\ UNCHANGED <<trapped, mistaken>>
  BY DEF TapAdd
<1>2. TypeOK /\ LinesAreTicks
  BY DEF TypeAndRows, TickedInv
<1> HIDE DEF d
<1>3. Ticked' = Ticked \cup {c} /\ c \notin Ticked
  BY <1>1, <1>2 DEF Ticked, TypeOK, SetLabel
<1>4. Cardinality(Ticked') = Cardinality(Ticked) + 1
  BY <1>3, TickedFinite, FS_AddElement
<1>5. LinesAreTicks'
  <2>1. /\ Len(titleArray') = Len(titleArray) + 1 /\ Len(amountArray') = Len(amountArray) + 1
        /\ Len(imageArray') = Len(imageArray) + 1
        /\ Len(quantityOfItems') = Len(quantityOfItems) + 1
    BY <1>1, <1>2, AppendProperties DEF TypeOK, didTapAddBtn
  <2>2. QED
    BY <1>2, <1>4, <2>1 DEF LinesAreTicks
<1>6. ASSUME ~mistaken PROVE InCart'
  <2>1. tickedAs'[c] = d /\ \A x \in Ticked : tickedAs'[x] = tickedAs[x]
    BY <1>1, <1>2, <1>3 DEF TypeOK, Ticked
  <2>2. ASSUME NEW S, NEW array \in Seq(S), NEW attribute,
               IsBag(array, Ticked, tickedAs, attribute), attribute[d] \in S
        PROVE  IsBag(Append(array, attribute[d]), Ticked', tickedAs', attribute)
    <3>1. IsBag(array, Ticked, tickedAs', attribute)
      BY <2>1, <2>2, BagOfSame
    <3>2. QED
      BY <1>3, <2>1, <2>2, <3>1, TickedFinite, BagAppend
  <2>3. IsBag(titleArray', Ticked', tickedAs', Recipe)
    <3>1. titleArray \in Seq({Recipe[x] : x \in Docs}) /\ IsBag(titleArray, Ticked, tickedAs, Recipe)
      BY <1>2, <1>6 DEF TypeOK, InCart, TickedInv
    <3>2. titleArray' = Append(titleArray, Recipe[d]) /\ Recipe[d] \in {Recipe[x] : x \in Docs}
      BY <1>1 DEF didTapAddBtn
    <3>3. QED
      BY <2>2, <3>1, <3>2
  <2>4. IsBag(amountArray', Ticked', tickedAs', Price)
    <3>1. amountArray \in Seq({Price[x] : x \in Docs}) /\ IsBag(amountArray, Ticked, tickedAs, Price)
      BY <1>2, <1>6 DEF TypeOK, InCart, TickedInv
    <3>2. amountArray' = Append(amountArray, Price[d]) /\ Price[d] \in {Price[x] : x \in Docs}
      BY <1>1 DEF didTapAddBtn
    <3>3. QED
      BY <2>2, <3>1, <3>2
  <2>5. IsBag(imageArray', Ticked', tickedAs', Image)
    <3>1. imageArray \in Seq({Image[x] : x \in Docs}) /\ IsBag(imageArray, Ticked, tickedAs, Image)
      BY <1>2, <1>6 DEF TypeOK, InCart, TickedInv
    <3>2. imageArray' = Append(imageArray, Image[d]) /\ Image[d] \in {Image[x] : x \in Docs}
      BY <1>1 DEF didTapAddBtn
    <3>3. QED
      BY <2>2, <3>1, <3>2
  <2>6. QED
    BY <2>3, <2>4, <2>5 DEF InCart
<1>7. UnwrapNeedsMistake'
  BY <1>1 DEF UnwrapNeedsMistake, TickedInv
<1>8. QED
  BY <1>1, <1>5, <1>6, <1>7 DEF TickedInv

\* A tap on the meal that was ticked finds an entry to take out in each array.
LEMMA NoMistakeNoTrap ==
  ASSUME TypeAndRows, LinesAreTicks, InCart, NEW c \in Ticked, tickedAs[c] \in Docs
  PROVE  CanRemove(tickedAs[c])
<1> DEFINE d == tickedAs[c]
<1>1. /\ Indices(titleArray, Recipe[d]) # {} /\ Indices(amountArray, Price[d]) # {}
      /\ Indices(imageArray, Image[d]) # {}
  BY TickedFinite, BagHasOne DEF InCart
<1>2. Indices(quantityOfItems, foodQuantity) # {}
  <2>1. Cardinality(Ticked) # 0 /\ Len(quantityOfItems) = Cardinality(Ticked)
    BY TickedFinite, FS_EmptySet DEF LinesAreTicks
  <2>2. quantityOfItems \in Seq({foodQuantity})
    BY DEF TypeAndRows, TypeOK
  <2>3. Len(quantityOfItems) \in Nat /\ 1 \in 1..Len(quantityOfItems)
    BY <2>1, TickedFinite
  <2>4. quantityOfItems[1] = foodQuantity
    BY <2>2, <2>3, ElementOfSeq
  <2>5. QED
    BY <2>3, <2>4 DEF Indices
<1>3. QED
  BY <1>1, <1>2 DEF CanRemove

\* A tick is taken back: one cell less, one entry less in each array, and as
\* long as it is the meal that was ticked, one of its own values.
LEMMA RemoveTicked ==
  ASSUME TypeAndRows, TickedInv, NEW c \in Cells, cells[c].meal \in Docs, TapAdded(c)
  PROVE  TickedInv'
<1> DEFINE d == cells[c].meal
<1>1. /\ c \in Ticked /\ d \in Docs /\ tickedAs' = tickedAs
      /\ mistaken' = (mistaken \/ tickedAs[c] # d)
  BY DEF TapAdded, Ticked
<1>2. TypeOK /\ LinesAreTicks
  BY DEF TypeAndRows, TickedInv
<1>3. CASE CanRemove(d) /\ didTapRemoveBtn(d) /\ SetLabel(c, "Add") /\ UNCHANGED trapped
  <2> HIDE DEF d
  <2>1. Ticked' = Ticked \ {c}
    BY <1>2, <1>3 DEF Ticked, TypeOK, SetLabel
  <2>2. Cardinality(Ticked') = Cardinality(Ticked) - 1
    BY <1>1, <2>1, TickedFinite, FS_RemoveElement
  <2>3. LinesAreTicks'
    <3>1. /\ Len(titleArray') = Len(titleArray) - 1 /\ Len(amountArray') = Len(amountArray) - 1
          /\ Len(imageArray') = Len(imageArray) - 1
          /\ Len(quantityOfItems') = Len(quantityOfItems) - 1
      BY <1>2, <1>3, RemoveOneProperties DEF TypeOK, CanRemove, didTapRemoveBtn
    <3>2. QED
      BY <1>2, <2>2, <3>1 DEF LinesAreTicks
  <2>4. ASSUME ~mistaken' PROVE InCart'
    <3>1. ~mistaken /\ d = tickedAs[c] /\ InCart
      BY <1>1, <2>4 DEF TickedInv
    <3>2. ASSUME NEW S, NEW array \in Seq(S), NEW attribute,
                 IsBag(array, Ticked, tickedAs, attribute), Indices(array, attribute[d]) # {}
          PROVE  IsBag(RemoveOne(array, attribute[d]), Ticked', tickedAs', attribute)
      <4> DEFINE k == Min(Indices(array, attribute[d]))
      <4>1. k \in 1..Len(array) /\ array[k] = attribute[tickedAs[c]]
        BY <3>1, <3>2, FirstIndexInRange
      <4> HIDE DEF k
      <4>2. IsBag(RemoveAt(array, k), Ticked \ {c}, tickedAs, attribute)
        BY <1>1, <3>2, <4>1, TickedFinite, BagRemove
      <4>3. QED
        BY <1>1, <2>1, <4>2 DEF RemoveOne, k
    <3>3. IsBag(titleArray', Ticked', tickedAs', Recipe)
      BY <1>2, <1>3, <3>1, <3>2 DEF TypeOK, InCart, CanRemove, didTapRemoveBtn
    <3>4. IsBag(amountArray', Ticked', tickedAs', Price)
      BY <1>2, <1>3, <3>1, <3>2 DEF TypeOK, InCart, CanRemove, didTapRemoveBtn
    <3>5. IsBag(imageArray', Ticked', tickedAs', Image)
      BY <1>2, <1>3, <3>1, <3>2 DEF TypeOK, InCart, CanRemove, didTapRemoveBtn
    <3>6. QED
      BY <3>3, <3>4, <3>5 DEF InCart
  <2>5. UnwrapNeedsMistake'
    BY <1>1, <1>3 DEF UnwrapNeedsMistake, TickedInv
  <2>6. QED
    BY <2>3, <2>4, <2>5 DEF TickedInv
<1>4. CASE ~CanRemove(d) /\ trapped' = "unwrap" /\ UNCHANGED <<cartVars, cells>>
  <2>1. mistaken'
    <3>1. SUFFICES ASSUME ~mistaken, tickedAs[c] = d PROVE FALSE
      BY <1>1
    <3>2. CanRemove(tickedAs[c])
      BY <1>1, <1>2, <3>1, NoMistakeNoTrap DEF TickedInv
    <3>3. QED
      BY <1>4, <3>1, <3>2
  <2>2. LinesAreTicks'
    BY <1>2, <1>4 DEF LinesAreTicks, Ticked, cartVars
  <2>3. QED
    BY <2>1, <2>2 DEF TickedInv, UnwrapNeedsMistake
<1>5. QED
  BY <1>3, <1>4 DEF TapAdded

\* Neither the table nor a snapshot touches a label or the cart.
LEMMA TickedKept ==
  ASSUME TickedInv, UNCHANGED <<cartVars, tickVars>>,
         \A c \in Cells : cells'[c].label = cells[c].label,
         trapped' = trapped \/ trapped' = "image"
  PROVE  TickedInv'
<1>1. Ticked' = Ticked
  BY DEF Ticked
<1>2. LinesAreTicks' /\ (InCart => InCart')
  BY <1>1 DEF TickedInv, LinesAreTicks, InCart, cartVars, tickVars
<1>3. UnwrapNeedsMistake'
  BY DEF TickedInv, UnwrapNeedsMistake, tickVars
<1>4. QED
  BY <1>2, <1>3 DEF TickedInv, tickVars

LEMMA TickedStep == TypeAndRows /\ TickedInv /\ [Next]_vars => TickedInv'
<1> SUFFICES ASSUME TypeAndRows, TickedInv, [Next]_vars PROVE TickedInv'
  OBVIOUS
<1>1. TypeOK
  BY DEF TypeAndRows
<1>2. CASE MealsArrive
  <2>1. PICK D \in SUBSET Docs : SnapshotOf(D)
    BY <1>2 DEF MealsArrive
  <2>2. UNCHANGED <<cells, cartVars, tickVars>> /\ (trapped' = trapped \/ trapped' = "image")
    BY <2>1 DEF SnapshotOf
  <2>3. QED
    BY <2>2, TickedKept
<1>3. CASE viewDidAppear \/ viewCartButton \/ seeMore \/ reloadData
  <2>1. UNCHANGED <<cartVars, tickVars, trapped>>
    BY <1>3 DEF viewDidAppear, viewCartButton, seeMore, reloadData
  <2>2. cells' = cells \/ cells' = [c \in Cells |-> [cells[c] EXCEPT !.row = 0]]
    BY <1>3 DEF viewDidAppear, viewCartButton, seeMore, reloadData
  <2>3. \A c \in Cells : cells'[c].label = cells[c].label
    BY <1>1, <2>2 DEF TypeOK
  <2>4. QED
    BY <2>1, <2>3, TickedKept
<1>4. ASSUME NEW c \in Cells, NEW r \in 1..rows, cellForRow(r, c) PROVE TickedInv'
  <2>1. /\ UNCHANGED <<cartVars, tickVars, trapped>>
        /\ cells' = [cells EXCEPT ![c] = [row |-> r, meal |-> mealList[r], label |-> cells[c].label]]
    BY <1>4 DEF cellForRow, setup
  <2>2. \A e \in Cells : cells'[e].label = cells[e].label
    BY <1>1, <2>1 DEF TypeOK
  <2>3. QED
    BY <2>1, <2>2, TickedKept
<1>5. CASE UNCHANGED vars
  <2>1. UNCHANGED <<cells, cartVars, tickVars, trapped>>
    BY <1>5 DEF vars
  <2>2. QED
    BY <2>1, TickedKept
<1>6. ASSUME NEW c \in Cells, addButtonPressed(c) PROVE TickedInv'
  <2>1. cells[c].meal \in Docs
    BY <1>1, <1>6 DEF TypeOK, addButtonPressed
  <2>2. QED
    BY <1>6, <2>1, AddTicked, RemoveTicked DEF addButtonPressed
<1>7. QED
  BY <1>2, <1>3, <1>4, <1>5, <1>6 DEF Next

LEMMA TickedAlways == Spec => []TickedInv
<1>1. Init => TypeAndRows /\ TickedInv
  BY TypeAndRowsInit, TickedInit
<1>2. TypeAndRows /\ TickedInv /\ [Next]_vars => (TypeAndRows /\ TickedInv)'
  BY TypeAndRowsStep, TickedStep
<1>3. QED
  BY <1>1, <1>2, PTL DEF Spec

\* The four arrays have one entry per cell labelled "Added", for every menu,
\* with values shared by meals and whichever cell UIKit hands out for a row.
THEOREM LinesCorrect == Spec => []LinesAreTicks
<1>1. TickedInv => LinesAreTicks
  BY DEF TickedInv
<1>2. QED
  BY <1>1, TickedAlways, PTL

\* Until a label that came with a recycled cell is tapped, the cart holds
\* exactly what was ticked, for every menu and however many snapshots list its
\* meals again: didTapRemoveBtn, which searches each array by value, takes out
\* values of the meal itself.
THEOREM TicksCorrect == Spec => []CartIsWhatWasTicked
<1>1. TickedInv => CartIsWhatWasTicked
  BY HoldsIsBag DEF TickedInv, InCart, CartIsWhatWasTicked
<1>2. QED
  BY <1>1, TickedAlways, PTL

\* The forced unwrappings of didTapRemoveBtn fail for such a label only, for
\* every menu, whichever values its meals share.
THEOREM UnwrapsCorrect == Spec => []UnwrapNeedsMistake
<1>1. TickedInv => UnwrapNeedsMistake
  BY DEF TickedInv
<1>2. QED
  BY <1>1, TickedAlways, PTL
=============================================================================
