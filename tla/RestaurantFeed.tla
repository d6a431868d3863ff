--------------------------- MODULE RestaurantFeed ---------------------------
(***************************************************************************)
(* HomeScreenViewModel's restaurants, which the Home screen and the Search *)
(* screen each have an object of: fetchRestaurants and its listeners.      *)
(*                                                                         *)
(* Each fetch adds a snapshot listener, none is ever removed, and every    *)
(* snapshot of every one of them replaces restaurantList and adds to       *)
(* restaurantIDS.                                                          *)
(***************************************************************************)
EXTENDS Queries, SequencesExt

CONSTANTS
  Restaurants,   \* document ids, in the order in which a query lists them
  Category,      \* restaurant -> its mealType
  Parsable,      \* restaurants with all five strings
  Bundled,       \* restaurants whose imageName is an asset of the app
  All,           \* the filter of a fetch without a category
  MaxSnapshots   \* bound: snapshots of restaurants delivered

ASSUME RestaurantsAssumption ==
  /\ Restaurants \subseteq Nat /\ IsFiniteSet(Restaurants)
  /\ Parsable \subseteq Restaurants /\ Bundled \subseteq Restaurants
ASSUME SnapshotsAssumption == MaxSnapshots \in Nat

VARIABLES
  restaurantList,   \* the restaurants of the last snapshot
  restaurantIDS,    \* the document ids, for didSelectRowAt
  listening,        \* the filters that have a listener
  snapshots,        \* snapshots delivered so far
  trap              \* the runtime trap that has ended the app, or "none"

feedVars == <<restaurantList, restaurantIDS, listening, snapshots, trap>>

\* before the first fetch of viewDidLoad has returned
FeedInit(filter) ==
  /\ restaurantList = <<>> /\ restaurantIDS = <<>>
  /\ listening = {filter} /\ snapshots = 0 /\ trap = "none"

fetchRestaurants(filter) ==
  /\ listening' = listening \cup {filter}
  /\ UNCHANGED <<restaurantList, restaurantIDS, snapshots, trap>>

Matching(filter) ==
  {d \in Restaurants : filter = All \/ Category[d] = filter}

\* a slip: documents are taken over unchecked
Unchecked(D) == D
Parsed(D) == D \cap Parsable

\* slips: no id is added a second time; only the fetch of all adds ids
IdsOnce(filter, list) == SelectSeq(list, LAMBDA d : ~Contains(restaurantIDS, d))
IdsOfUnfiltered(filter, list) == IF filter = All THEN list ELSE <<>>
\* restaurantIDS.append beside each append to the new list
IdsAdded(filter, list) == list

\* The callback, up to its call of closure: the documents of a query in id
\* order; one whose image is not bundled traps.
SnapshotOf(filter, D) ==
  /\ filter \in listening /\ D \subseteq Matching(filter)
  /\ snapshots < MaxSnapshots
  /\ snapshots' = snapshots + 1
  /\ IF Parsed(D) \subseteq Bundled
     THEN /\ \E list \in InIdOrder(Parsed(D)) :
               /\ restaurantList' = list
               /\ restaurantIDS' = restaurantIDS \o IdsAdded(filter, list)
          /\ UNCHANGED trap
     ELSE trap' = "image" /\ UNCHANGED <<restaurantList, restaurantIDS>>
  /\ UNCHANGED listening

FeedTypeOK ==
  /\ restaurantList \in Seq(Parsable) /\ restaurantIDS \in Seq(Parsable)
  /\ All \in listening /\ snapshots \in 0..MaxSnapshots
  /\ trap \in {"none", "image", "index", "path"}

\* The ids a snapshot adds are those of the list it brings: behind all earlier
\* ids there is, in its order, the id of every restaurant on the list.
IdsEndWithList ==
  LET before == Len(restaurantIDS) - Len(restaurantList)
  IN /\ before >= 0
     /\ \A r \in 1..Len(restaurantList) : restaurantIDS[before + r] = restaurantList[r]
=============================================================================
