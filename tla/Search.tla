------------------------------- MODULE Search -------------------------------
(***************************************************************************)
(* SearchRestaurantViewController: the rows are filteredData, which every  *)
(* change of the text computes from the restaurants and which every        *)
(* snapshot replaces, one turn of the main queue later.                    *)
(***************************************************************************)
EXTENDS RestaurantFeed

CONSTANTS
  Texts,       \* non-empty texts in the search bar
  Found,       \* text -> restaurants whose name or category contains it
  NoText,      \* the empty search bar
  MaxBlocks    \* bound: closure's blocks waiting on the main queue

ASSUME TextsAssumption ==
  NoText \notin Texts /\ \A t \in Texts : Found[t] \subseteq Restaurants
ASSUME MaxBlocksAssumption == MaxBlocks \in Nat

VARIABLES
  filteredData,   \* the rows
  searchText,     \* the text they were last filtered by
  blocks          \* closure's blocks waiting on the main queue

searchVars == <<filteredData, searchText, blocks>>
vars == <<feedVars, searchVars>>

Init ==
  /\ FeedInit(All)
  /\ filteredData = <<>> /\ searchText = NoText /\ blocks = 0

\* fetchRestaurants' callback with this screen's closure, which posts a block
restaurantsArrive ==
  /\ trap = "none" /\ blocks < MaxBlocks
  /\ \E D \in SUBSET Restaurants : SnapshotOf(All, D)
  /\ blocks' = IF trap' = "none" THEN blocks + 1 ELSE blocks
  /\ UNCHANGED <<filteredData, searchText>>

\* a slip: the block adds the restaurants to the rows
AddedToRows(list) == filteredData \o list
AllRows(list) == list

\* the block: all restaurants there are by now, whatever the text is
closure ==
  /\ trap = "none" /\ blocks > 0
  /\ blocks' = blocks - 1
  /\ filteredData' = AllRows(restaurantList)
  /\ UNCHANGED <<feedVars, searchText>>

\* filterRestaurants: the loop appends what the text finds
Filtered(list, text) ==
  IF text = NoText THEN list
  ELSE FoldLeft(LAMBDA rows, d : IF d \in Found[text] THEN Append(rows, d) ELSE rows,
                <<>>, list)

\* a slip: a longer text searches what the shorter one has found
Narrowed(list, text) == Filtered(filteredData, text)
\* filteredData = [], and then from all restaurants
FilteredAnew(list, text) == Filtered(list, text)

textDidChange(t) ==
  /\ trap = "none"
  /\ searchText' = t
  /\ filteredData' = FilteredAnew(restaurantList, t)
  /\ UNCHANGED <<feedVars, blocks>>

\* The row is looked up in restaurantList, and nothing of it is handed on: the
\* Details screen asks for the menu of the restaurant "", which is no path of a
\* document.
didSelectRowAt(r) ==
  /\ trap = "none"
  /\ \/ r > Len(restaurantList) /\ trap' = "index"
     \/ r <= Len(restaurantList) /\ trap' = "path"
  /\ UNCHANGED <<restaurantList, restaurantIDS, listening, snapshots, searchVars>>

Next ==
  \/ restaurantsArrive
  \/ closure
  \/ \E t \in Texts \cup {NoText} : textDidChange(t)
  \/ \E r \in 1..Len(filteredData) : didSelectRowAt(r)

Spec == Init /\ [][Next]_vars

-----------------------------------------------------------------------------
(***************************************************************************)
(* Properties                                                              *)
(***************************************************************************)
\* Type invariant.
TypeOK ==
  /\ FeedTypeOK
  /\ filteredData \in Seq(Parsable) /\ searchText \in Texts \cup {NoText}
  /\ blocks \in 0..MaxBlocks

\* When no block is waiting, the rows come from the present restaurants, as a
\* whole or filtered by the text: never from an earlier snapshot or text, and
\* never the two mixed.
IdleRowsAreCurrent ==
  blocks = 0 => \/ filteredData = restaurantList
                \/ filteredData = Filtered(restaurantList, searchText)

\* A row can be asked for in restaurantList unless a block is waiting that
\* will replace the rows: only in that gap is a row beyond its end.
IndexTrapNeedsGap == [][trap' = "index" /\ trap = "none" => blocks > 0]_vars
=============================================================================
