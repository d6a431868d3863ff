-------------------------------- MODULE Home --------------------------------
(***************************************************************************)
(* HomeScreenViewController: the categories, the restaurants of the one    *)
(* that was tapped, and the way to a restaurant's menu.  Its closures only *)
(* reload the views, in the same turn of the main queue, so that the rows  *)
(* are those of restaurantList and the cells those of categoriesArray.     *)
(***************************************************************************)
EXTENDS RestaurantFeed

CONSTANTS
  Categories,    \* names of categories, by document id
  MaxCategories  \* bound: snapshots of the categories

ASSUME CategoriesAssumption == Categories \subseteq Nat /\ IsFiniteSet(Categories)
ASSUME MaxCategoriesAssumption == MaxCategories \in Nat

VARIABLES
  categoriesArray,
  categorySnapshots,
  details          \* what the Details screen on top was given, or Closed

Closed == [shown |-> 0, restID |-> 0]

categoryVars == <<categoriesArray, categorySnapshots>>
vars == <<feedVars, categoryVars, details>>

Init ==
  /\ FeedInit(All)
  /\ categoriesArray = <<>> /\ categorySnapshots = 0
  /\ details = Closed

OnScreen == trap = "none" /\ details = Closed

\* fetchCategories' callback replaces the array
categoriesArrive ==
  /\ trap = "none" /\ categorySnapshots < MaxCategories
  /\ categorySnapshots' = categorySnapshots + 1
  /\ \E D \in SUBSET Categories : categoriesArray' \in InIdOrder(D)
  /\ UNCHANGED <<feedVars, details>>

\* A snapshot may arrive while the Details screen is on top.
restaurantsArrive ==
  /\ trap = "none"
  /\ \E filter \in listening : \E D \in SUBSET Matching(filter) : SnapshotOf(filter, D)
  /\ UNCHANGED <<categoryVars, details>>

\* the first category stands for all restaurants, whatever its name
didSelectItemAt(i) ==
  /\ OnScreen
  /\ fetchRestaurants(IF i = 1 THEN All ELSE categoriesArray[i])
  /\ UNCHANGED <<categoryVars, details>>

\* restaurantIDS[indexPath.row]
IdOfRow(r) == restaurantIDS[r]

didSelectRowAt(r) ==
  /\ OnScreen
  /\ IF r \in 1..Len(restaurantIDS)
     THEN /\ details' = [shown |-> restaurantList[r], restID |-> IdOfRow(r)]
          /\ UNCHANGED trap
     ELSE trap' = "index" /\ UNCHANGED details
  /\ UNCHANGED <<restaurantList, restaurantIDS, listening, snapshots, categoryVars>>

\* back from the Details screen
viewDidAppear ==
  /\ trap = "none" /\ details # Closed
  /\ details' = Closed
  /\ UNCHANGED <<feedVars, categoryVars>>

Next ==
  \/ categoriesArrive
  \/ restaurantsArrive
  \/ \E i \in 1..Len(categoriesArray) : didSelectItemAt(i)
  \/ \E r \in 1..Len(restaurantList) : didSelectRowAt(r)
  \/ viewDidAppear

Spec == Init /\ [][Next]_vars

-----------------------------------------------------------------------------
(***************************************************************************)
(* Properties                                                              *)
(***************************************************************************)
\* Type invariant.
TypeOK ==
  /\ FeedTypeOK
  /\ listening \subseteq Categories \cup {All}
  /\ categoriesArray \in Seq(Categories) /\ categorySnapshots \in 0..MaxCategories
  /\ details \in [shown : Parsable, restID : Parsable] \cup {Closed}

\* However many listeners bring lists of different lengths in turn, a row can
\* always be selected: restaurantIDS has an id at its index.
RowsHaveIds == trap # "index"

\* A row opens the menu of the restaurant it shows.
OpensWhatItShows == details # Closed => details.restID = details.shown
=============================================================================
