-------------------------------- MODULE Menu --------------------------------
(***************************************************************************)
(* The menu of one restaurant: DetailsViewController with its              *)
(* DetailsViewModel and DetailsTableViewCell.                              *)
(*                                                                         *)
(* The meals arrive in Firestore snapshots, in the order of their document *)
(* ids, and are appended to mealList.  The table shows mealList through a  *)
(* pool of cells: a reload puts all of them back, and UIKit may hand out   *)
(* any for any row.  Every tap on a cell's button adds a line to the cart  *)
(* or takes one out; a line is spread over four parallel arrays and is     *)
(* taken out of each of them BY VALUE.                                     *)
(***************************************************************************)
EXTENDS Queries, SequencesExt

CONSTANTS
  Docs,          \* the document ids of the restaurant's meals, in their order
  Parsable,      \* the documents with all four fields and a numeric price
  Bundled,       \* the documents whose imageName is an asset of the app
  Recipe,        \* document -> what the cell hands over as the line's title
  Price,         \* document -> price in cents
  Image,         \* document -> image of the meal
  Cells,         \* UIKit's pool of DetailsTableViewCell objects
  NoMeal,        \* what a cell shows before its first setup
  MaxSnapshots,  \* bound: snapshots delivered
  MaxReloads,    \* bound: table reloads waiting on the main queue
  MaxLines       \* bound: lines in the cart

ASSUME DocsAssumption ==
  /\ Docs \subseteq Nat /\ IsFiniteSet(Docs)
  /\ Parsable \subseteq Docs /\ Bundled \subseteq Docs
  /\ NoMeal \notin Docs
  /\ DOMAIN Recipe = Docs /\ DOMAIN Price = Docs /\ DOMAIN Image = Docs

ASSUME CellsAssumption == IsFiniteSet(Cells)

ASSUME BoundsAssumption ==
  MaxSnapshots \in Nat /\ MaxReloads \in Nat \ {0} /\ MaxLines \in Nat

VARIABLES
  mealList,         \* DetailsViewModel.mealList, as document ids
  snapshots,        \* snapshots delivered so far
  screen,           \* "loading", "shown", or "covered" by the Cart or See more
  reloads,          \* reloads of the table waiting on the main queue
  rows,             \* numberOfRows as the table last asked for it
  cells,            \* the cells: row 0 is the reuse pool
  titleArray, amountArray, imageArray, quantityOfItems,   \* the cart
  cartHidden,       \* cartView.isHidden
  trapped,          \* what ended the app: "no", an "image" that is not
                    \* bundled, or an "unwrap" of nil
  tickedAs,         \* history variable: the meal a cell showed when its label
                    \* last became "Added"
  mistaken          \* history variable: a cell labelled "Added" was tapped when
                    \* it showed another meal than that

tableVars == <<reloads, rows>>
cartVars == <<titleArray, amountArray, imageArray, quantityOfItems, cartHidden>>
tickVars == <<tickedAs, mistaken>>
vars == <<mealList, snapshots, screen, tableVars, cells, cartVars, trapped, tickVars>>

foodQuantity == "1"
Labels == {"Add", "Added"}

(***************************************************************************)
(* Swift's Array.firstIndex(of:)! and remove(at:)                          *)
(***************************************************************************)
Indices(s, e) == {i \in 1..Len(s) : s[i] = e}
RemoveOne(s, e) == RemoveAt(s, Min(Indices(s, e)))

Init ==
  /\ mealList = <<>> /\ snapshots = 0
  /\ screen = "loading" /\ reloads = 1 /\ rows = 0
  /\ cells = [c \in Cells |-> [row |-> 0, meal |-> NoMeal, label |-> "Add"]]
  /\ titleArray = <<>> /\ amountArray = <<>>
  /\ imageArray = <<>> /\ quantityOfItems = <<>>
  /\ cartHidden = TRUE /\ trapped = "no"
  /\ tickedAs = [c \in Cells |-> NoMeal] /\ mistaken = FALSE

Running == trapped = "no"

(***************************************************************************)
(* A snapshot of the meals (getRestaurantMeals' callback): every document  *)
(* that parses is appended, in id order; one whose image is not bundled    *)
(* traps.  Earlier snapshots are not taken back, and nobody is told.       *)
(***************************************************************************)
\* a slip: documents are taken over unchecked
MealsUnchecked(D) == D
MealsOf(D) == D \cap Parsable

\* a slip: the snapshot replaces the list the table was built from
ReplacedBy(list, menu) == menu
AppendedWith(list, menu) == list \o menu

SnapshotOf(D) ==
  /\ snapshots < MaxSnapshots
  /\ snapshots' = snapshots + 1
  /\ IF MealsOf(D) \subseteq Bundled
     THEN /\ \E menu \in InIdOrder(MealsOf(D)) :
                mealList' = AppendedWith(mealList, menu)
          /\ UNCHANGED trapped
     ELSE /\ trapped' = "image"
          /\ UNCHANGED mealList
  /\ UNCHANGED <<screen, tableVars, cells, cartVars, tickVars>>

MealsArrive == Running /\ \E D \in SUBSET Docs : SnapshotOf(D)

(***************************************************************************)
(* The screen and its table.  The table loads itself once at first layout  *)
(* (reloads = 1 at the start); viewDidAppear queues one more reload, each  *)
(* time the screen appears.  Nothing else ever reloads the table.          *)
(***************************************************************************)
\* a slip: the table is not reloaded
NoReload == reloads
ReloadQueued == reloads + 1

viewDidAppear ==
  /\ Running
  /\ screen \in {"loading", "covered"} /\ reloads < MaxReloads
  /\ screen' = "shown" /\ reloads' = ReloadQueued
  /\ UNCHANGED <<mealList, snapshots, rows, cells, cartVars, trapped, tickVars>>

\* viewCartButton: the Cart screen gets copies of the four arrays
HandedOver == [titles |-> titleArray, prices |-> amountArray,
               images |-> imageArray, numbers |-> quantityOfItems]

viewCartButton ==
  /\ Running
  /\ screen = "shown" /\ ~cartHidden
  /\ screen' = "covered"
  /\ UNCHANGED <<mealList, snapshots, tableVars, cells, cartVars, trapped, tickVars>>

\* seeMore: the More Details screen is pushed over the menu
seeMore ==
  /\ Running
  /\ screen = "shown" /\ screen' = "covered"
  /\ UNCHANGED <<mealList, snapshots, tableVars, cells, cartVars, trapped, tickVars>>

\* reloadData: asks for numberOfRows and puts every cell into the reuse pool
reloadData ==
  /\ Running
  /\ reloads > 0
  /\ reloads' = reloads - 1
  /\ rows' = Len(mealList)
  /\ cells' = [c \in Cells |-> [cells[c] EXCEPT !.row = 0]]
  /\ UNCHANGED <<mealList, snapshots, screen, cartVars, trapped, tickVars>>

\* a slip: setup also clears the label of the cell it fills
setupCleared(cell, r) == [row |-> r, meal |-> mealList[r], label |-> "Add"]
\* setup(with:) fills in the meal and leaves the label of the button alone
setup(cell, r) == [row |-> r, meal |-> mealList[r], label |-> cell.label]

\* cellForRowAt for a row that comes on the screen, in whichever cell UIKit
\* dequeues; the row that cell showed before has left the screen
cellForRow(r, c) ==
  /\ Running
  /\ r \in 1..rows /\ \A d \in Cells : cells[d].row # r
  /\ cells' = [cells EXCEPT ![c] = setup(cells[c], r)]
  /\ UNCHANGED <<mealList, snapshots, screen, tableVars, cartVars, trapped, tickVars>>

(***************************************************************************)
(* addButtonPressed: the label of the cell decides which way the tap goes  *)
(***************************************************************************)
SetLabel(c, text) == cells' = [cells EXCEPT ![c].label = text]

\* a slip: an image that is in the cart already is not added again
AddImageOnce(d) ==
  /\ cartHidden' = FALSE
  /\ titleArray' = Append(titleArray, Recipe[d])
  /\ amountArray' = Append(amountArray, Price[d])
  /\ imageArray' = IF Contains(imageArray, Image[d]) THEN imageArray
                   ELSE Append(imageArray, Image[d])
  /\ quantityOfItems' = Append(quantityOfItems, foodQuantity)

didTapAddBtn(d) ==
  /\ cartHidden' = FALSE
  /\ titleArray' = Append(titleArray, Recipe[d])
  /\ amountArray' = Append(amountArray, Price[d])
  /\ imageArray' = Append(imageArray, Image[d])
  /\ quantityOfItems' = Append(quantityOfItems, foodQuantity)

CanRemove(d) ==
  /\ Indices(titleArray, Recipe[d]) # {} /\ Indices(amountArray, Price[d]) # {}
  /\ Indices(imageArray, Image[d]) # {}
  /\ Indices(quantityOfItems, foodQuantity) # {}

\* a slip: the bar stays when the last line goes
HiddenAsBefore == cartHidden
HiddenAfterRemoval == Len(titleArray) = 1 \/ cartHidden

\* a slip: the image of the line is forgotten
RemoveLineButImage(d) ==
  /\ titleArray' = RemoveOne(titleArray, Recipe[d])
  /\ amountArray' = RemoveOne(amountArray, Price[d])
  /\ quantityOfItems' = RemoveOne(quantityOfItems, foodQuantity)
  /\ cartHidden' = HiddenAfterRemoval /\ UNCHANGED imageArray

didTapRemoveBtn(d) ==
  /\ titleArray' = RemoveOne(titleArray, Recipe[d])
  /\ amountArray' = RemoveOne(amountArray, Price[d])
  /\ imageArray' = RemoveOne(imageArray, Image[d])
  /\ quantityOfItems' = RemoveOne(quantityOfItems, foodQuantity)
  /\ cartHidden' = HiddenAfterRemoval

TapAdd(c) ==
  /\ cells[c].label = "Add" /\ Len(titleArray) < MaxLines
  /\ didTapAddBtn(cells[c].meal) /\ SetLabel(c, "Added")
  /\ tickedAs' = [tickedAs EXCEPT ![c] = cells[c].meal]
  /\ UNCHANGED <<trapped, mistaken>>

TapAdded(c) ==
  /\ cells[c].label = "Added"
  /\ \/ /\ CanRemove(cells[c].meal)
        /\ didTapRemoveBtn(cells[c].meal) /\ SetLabel(c, "Add")
        /\ UNCHANGED trapped
     \/ /\ ~CanRemove(cells[c].meal)
        /\ trapped' = "unwrap" /\ UNCHANGED <<cartVars, cells>>
  /\ mistaken' = (mistaken \/ tickedAs[c] # cells[c].meal)
  /\ UNCHANGED tickedAs

addButtonPressed(c) ==
  /\ Running /\ screen = "shown" /\ cells[c].row # 0
  /\ TapAdd(c) \/ TapAdded(c)
  /\ UNCHANGED <<mealList, snapshots, screen, tableVars>>

Next ==
  \/ MealsArrive
  \/ viewDidAppear
  \/ viewCartButton \/ seeMore
  \/ reloadData
  \/ \E c \in Cells : (\E r \in 1..rows : cellForRow(r, c)) \/ addButtonPressed(c)

Spec == Init /\ [][Next]_vars

\* The main queue and the run loop serve what is waiting: the screen appears,
\* a queued reload runs, a row on the screen gets its cell.  Snapshots (the
\* network) and taps (the user) are under no obligation.
FairSpec ==
  /\ Spec
  /\ WF_vars(viewDidAppear /\ screen = "loading") /\ WF_vars(reloadData)
  /\ WF_vars(\E c \in Cells : \E r \in 1..rows : cellForRow(r, c))

-----------------------------------------------------------------------------
(***************************************************************************)
(* Properties                                                              *)
(***************************************************************************)
\* Type invariant: a line's title, amount and image come from the documents.
TypeOK ==
  /\ mealList \in Seq(Parsable) /\ snapshots \in 0..MaxSnapshots
  /\ screen \in {"loading", "shown", "covered"}
  /\ reloads \in 0..MaxReloads /\ rows \in Nat
  /\ cells \in [Cells -> [row : Nat, meal : Docs \cup {NoMeal}, label : Labels]]
  /\ \A c \in Cells : cells[c].row # 0 => cells[c].meal \in Docs
  /\ titleArray \in Seq({Recipe[d] : d \in Docs})
  /\ amountArray \in Seq({Price[d] : d \in Docs})
  /\ imageArray \in Seq({Image[d] : d \in Docs})
  /\ quantityOfItems \in Seq({foodQuantity})
  /\ cartHidden \in BOOLEAN /\ trapped \in {"no", "image", "unwrap"}
  /\ tickedAs \in [Cells -> Docs \cup {NoMeal}] /\ mistaken \in BOOLEAN

\* A row the table still counts can be filled from mealList at any later time,
\* and a row on the screen shows the meal that is now at its place in the
\* list: cellForRowAt indexes a list that snapshots have changed since the
\* table asked for its length.
ShownRowsExist ==
  /\ rows <= Len(mealList)
  /\ \A c \in Cells :
       cells[c].row # 0 => /\ cells[c].row \in 1..Len(mealList)
                           /\ cells[c].meal = mealList[cells[c].row]

\* The four arrays lose and gain their lines together: each has as many entries
\* as cells are labelled "Added", on the screen or in the pool, although each is
\* searched on its own, whichever cell UIKit hands out, and also when meals
\* share values or a tap meets the label of another row.
Ticked == {c \in Cells : cells[c].label = "Added"}
LinesAreTicks ==
  /\ Len(titleArray) = Cardinality(Ticked) /\ Len(amountArray) = Cardinality(Ticked)
  /\ Len(imageArray) = Cardinality(Ticked) /\ Len(quantityOfItems) = Cardinality(Ticked)

\* As long as no one has tapped a label that came with a recycled cell, the
\* cart holds exactly what was ticked: each array is the bag of its attribute
\* over the meals that were ticked, also when meals share a recipe, a price or
\* an image (a removal by value may then take another line's), when a second
\* snapshot lists every meal again, and across scrolling, reloads and visits to
\* other screens.
TimesTicked(attribute, v) ==
  Cardinality({c \in Ticked : attribute[tickedAs[c]] = v})
Holds(array, attribute) ==
  \A v \in {attribute[d] : d \in Docs} :
     Cardinality(Indices(array, v)) = TimesTicked(attribute, v)
CartIsWhatWasTicked ==
  ~mistaken => /\ Holds(titleArray, Recipe) /\ Holds(amountArray, Price)
               /\ Holds(imageArray, Image)

\* The bar that leads to the Cart shows exactly while there is a line to order.
CartViewShowsLines == cartHidden <=> titleArray = <<>>

\* The forced unwrappings of didTapRemoveBtn succeed.
UnwrapsSucceed == trapped # "unwrap"

\* They fail only for a label that came with a recycled cell: never because
\* meals share values, so that a removal took another line's recipe, price or
\* image.
UnwrapNeedsMistake == trapped = "unwrap" => mistaken

\* Meals that arrive before the screen has appeared are all shown: each of the
\* two early reloads may be served before they come, but not both.  (Later
\* meals are shown only when the user comes back from the Cart or See more.)
EarlyMealsAreShown ==
  screen = "loading" /\ mealList # <<>> ~>
    ~Running \/ (rows > 0 /\ rows = Len(mealList))
=============================================================================
