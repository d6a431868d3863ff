# Foodly in TLA+

Foodly (`src/Foodly/Foodly`, Swift, UIKit, Firebase) is an iOS app to order
food: sign up or log in, browse restaurants, tick meals on a restaurant's menu,
adjust the quantities in the cart, apply a promo code, order, see who delivers,
look at one's orders and edit one's profile. All remote data comes from
Firestore, mostly through `Router`, as *snapshot listeners* that may fire any
number of times; the promo codes come from Remote Config, the user from Auth.

The app has no server code of its own and no unit test of its logic. What makes
it hard is that every screen keeps its state in parallel arrays and in cells
that UIKit recycles, that the current user is changed by Auth behind the app's
back, and that answers of Firebase arrive between any two touches of the user.

## 1. Inventory

| Component | State | Operations | What makes it correct |
|---|---|---|---|
| **Menu** (`DetailsViewController`, `DetailsViewModel`, `DetailsTableViewCell`) | `mealList`; the cart as four parallel arrays; the label of each cell | a snapshot of the meals, reload, cell (re)use, tap on Add / Added, view cart, see more | rows asked for exist; the arrays gain and lose lines together; the cart is what was ticked, until the label of a recycled cell is tapped; early meals are shown |
| **Cart** (`CartsViewController`, `CartViewModel`) | the lines (arrays), the rows derived from them, the labels of the bill, the accepted discount | +, -, swipe, promo code, its alerts, Continue | rows are lines; the bill covers the rows; a discount needs a code |
| **Promo codes** (`RemoteConfigPromoCodes`) | `promoCodes`, `taxValue` | `fetchValue` and its late answer | only served codes count |
| **Orders** (`OrderService`, `OrderAPI`, `Router`) | none of their own; the Firestore client holds the queue | create, read (listener), both only if there is a user | an order goes into the queue of its account and is decided once; the answer is true and comes |
| **Order history** (`OrderHistoryModel`, `OrderHistoryViewController`) | `orders`, the local array of each callback | snapshot, one block per document, reload, refresh | never a mixture of snapshots; converges, and reaches the screen; indices exist |
| **Firestore client** (vendored, `src/Foodly/Pods/FirebaseFirestore`) | persisted mutation queue, cache, callbacks, listener, the user it works for | write, listen, acknowledge, refuse (a write or a query), resend, change of user, restart | the app relies on its ordering of callbacks and snapshots |
| **Confirmation** (`ConfirmationViewController`, `DeliveryViewModel`) | the view model's person, the labels, the number to call | snapshot, registration, block, Done, call | the person called is the person shown |
| **Home** (`HomeScreenViewModel`, `HomeScreenViewController`) | `restaurantList`, `restaurantIDS`, categories | fetch per category (each adds a listener), select a row | the selected row opens the restaurant it shows |
| **Search** (`SearchRestaurantViewController`) | `filteredData`, the text typed | snapshot, typing, select | the rows match the text |
| **Session** (`LoginViewController`, `SignUpViewController`, `AuthManager`, `CreateUser`) | the pages presented, their indicators and alerts | log in, sign up, log out, callbacks | Home has a user unless Auth gave them up; the user gets an answer; an account has its profile |
| **Auth client** (vendored, `src/Foodly/Pods/FirebaseAuth`) | current user (keychain), work queue | `signIn`, `createUser`, `signOut`, the sign-out that Auth itself forces | the user is current before the callback runs |
| **Profile** (`ProfileViewModel`, `ProfileViewController`) | the details fetched, the form, Edit/Done | fetch, edit, type, save | a document names its owner |
| **Onboarding**, **More Details**, **shell** | a page counter; a list that is always empty; none | | |

Interactions: Onboarding presents a login page, which presents a sign-up page
and so on; a login pushes Home, Profile and the orders on its page, and logging
out dismisses that page. Home and Search push the Menu, the Menu hands *copies*
of its four arrays to the Cart, the Cart hands an order to `OrderService` and
pushes the Confirmation screen without waiting. `Router` turns requests into
Firestore calls; Firestore and Auth call back on the main queue, on which UIKit
runs too, so there is no data race in the app: all interleaving is between
*blocks* of the main queue, the workers of the two clients, the network, other
clients and restarts.

`PROJECT.json` lists the hazards, each at its line with the properties that
watch it.

## 2. Plan

1. *(done)* `Menu`, `Cart` with its abstraction `Basket`, `Firestore` and
   `Orders` with `OrderLedger`; theorems about Menu and Cart.
2. *(done)* `Home` and `Search` over `RestaurantFeed`: two lists of which one
   is replaced and the other appended to, listeners that are never removed, a
   row that opens another restaurant; theorems about both.
3. *(done)* `Auth`, `Users`, `Session` and `Profile`, composed in one
   specification, since what they share is the current user; `Delivery`;
   theorems about both.
4. *(done)* Proofs about `Orders`: types, answers, the history, its rows, and
   the safety part of `OrderLedger`; the bar of the Menu; the types of Home.

5. *(done)* The properties that count: indicators, traps and documents of
   `Profile`, what the Menu's arrays hold; the bill, the discount and the types
   of the Cart; the types of Search and the gap in which a row can be missing.
6. *(done)* The user who goes: sign-outs by Auth and by the user in `Session`
   and in `Orders`, with the client's change of user, `FiledUnderItsAccount`
   and `AccountHasProfile`; cells that UIKit recycles at every reload.

With that every invariant and every action property that a passing run checks
is a theorem; what is left to the runs is liveness (section 6). What could
follow: the safety side of the liveness properties, as invariants that say what
is waiting for whom. No module uses a RECURSIVE operator, so that each can be
proved about.

## 3. The modules

### Menu (`MCMenu`, `MenuProofs`)

A meal is its Firestore document id; `Recipe`, `Price` and `Image` say which
attributes it has. They are what the cell hands to `didTapAddBtn` (the *recipe*
is used as the line's title). Names, colours, item counts and the sum on the
bar are left out.

- `MealsArrive` is the whole callback of `getRestaurantMeals`: parse, append
  in id order, trap on an image the app does not bundle. It may run again at
  any time with any set of documents.
- `viewDidAppear` and `reloadData`: the reload is a block on the main queue
  (`ReloadQueued`); the table asks `numberOfRows` once per reload and puts all
  cells into the reuse pool; `cellForRow` fills a row that comes on the screen,
  in whichever cell UIKit dequeues. Nobody tells the table of a later snapshot:
  meals that come after the two early reloads are unseen until the user is back
  from the Cart (`viewCartButton`) or from More Details (`seeMore`), and
  `EarlyMealsAreShown` promises only the others.
- `addButtonPressed` with `didTapAddBtn` / `didTapRemoveBtn`: the label of the
  cell decides; removal is by value in each array; a failed unwrapping sets
  `trapped`, after which nothing happens. A trap is possible only before the
  first array is changed or in the middle of a handler that never returns;
  what the arrays hold after it is not observable.
- `viewCartButton` passes copies (`HandedOver`); the Menu keeps its own arrays
  while the Cart is shown, which is why they are not variables of both.

The label stays with the cell and the meal with the row, so a reload or a
scroll may put "Added" on a meal that was never added. Two history variables
say when that matters: `tickedAs`, the meal a cell showed when its label last
became "Added", and `mistaken`, that a cell labelled "Added" was tapped while it
showed another meal. Until then the cart is exactly what was ticked
(`CartIsWhatWasTicked`) and no unwrapping fails (`UnwrapNeedsMistake`), though
meals share recipes, prices and images as in the app's sample data: a removal
by value may then take the value out at another line's index, but as many are
left as ticked meals bear it. The *index* therefore need not be that of one
line, and a line of the Cart may show one meal's title with another's price;
that is why the arrays are compared with the ticks as bags, and why the only
property that also holds after a mistaken tap is that they have as many entries
as there are ticks (`LinesAreTicks`).

### Cart (`MCCart`, `Basket`, `CartProofs`)

Lines are the arrays, `cartItems` the rows derived from them. Money is integer
cents and the discount hundredths of a cent; the `%.2f` of the code is `Cents`,
rounding half up. Float rounding itself is not modelled: the prices of the
instance keep the tax off half a cent, where it would matter.

- `plusTapped`, `minusTapped` are `addBtnTapped` with the whole `reloadCart`
  in the same step; `swipeDelete` is `commit editingStyle`, which changes the
  rows only: the total keeps the line, which comes back with the next + or -.
  `BillCoversRows` says what is left of the bill then.
- `fetchCompleted` may happen at any time or never; before it the list of
  codes is the one empty word that splitting an empty string yields.
- `promoBtnPressed` may present two alerts; UIKit shows only the first
  (`PresentFirst`), which is what keeps a blank field from being accepted.
- `viewDidAppear` recomputes the bill when the user comes back.

`Basket` is what the lines promise; `ImplementsBasket` is the refinement.

### Firestore, Orders (`MCOrders`, `OrderLedger`, `OrdersProofs`)

`Firestore` models one collection of the vendored client from its source:
calls are enqueued on the worker; `WriteMutations` persists the write and shows
it to the listener at once; the backend takes writes in order; on an answer the
completion is posted before the snapshot; a broken stream loses answers, and
everything unanswered is sent again; a restart keeps the mutation queue and the
cache and loses tasks, callbacks and blocks. The queue and the completions
belong to a user: `HandleCredentialChange`, a task like the others, makes the
account `current` or not, and while it is not its writes are neither sent nor
shown nor answered. Only the account of the orders is modelled; for its
queue another user is like none. `HandleRejectedListen` is the backend refusing
the query, after which the listener hears nothing more. A listener outlives its
screen (`lingering`) and keeps the cache fresh. `BackendTakesWrite` and
`OtherClient` are the outside world. A snapshot is the *set* of its documents;
`Ascending` lists a set in the order of the query.

`Orders` adds the app. `login`, `didTapLogout` and `signOutByForce` (Auth's own,
of which no screen hears) change Auth's user at once (`signedIn`) and the
client's by a task of the worker; `home` says that the screens exist, which
after a forced sign-out they still do. `continueButtonPressed` hands on the
order and shows the Confirmation at once; without a user `OrderAPI` has no
reference, `Router` does nothing, and the order is `unsent`. Then come
`openHistory`, `reloadOrderHistory`, and the blocks of the main queue in their
order: `completion`, `snapshotArrived` (a fresh local array, and one block per
well-formed document), `appendHistory` (adds to that array and makes it
`orders`), `reloadData`. `written` is a history variable: which orders the
client ever persisted. After a restart the client is not used, and has no user,
until somebody logs in; when the app is killed, so is what its worker had not
come to.

`OrderLedger` says what becomes of an order once it is written; it decides one
only while its account is `active`. The Confirmation screen promises less than
it seems: the order may be refused afterwards, be lost with the process, or not
be sent at all. `ConfirmedIsAnswered` says that only a restart, or the account
staying away, can keep an order that was handed on from being answered.
`HistoryConverges` is about the model's `orders`; no snapshot reloads the table,
so `HistoryReachesScreen` is about the rows, and needs a user who keeps coming
back or pulling the table down.

### Auth, Users, Session, Profile (`MCProfile`, `SessionProofs`)

Four layers of one specification, whose `Spec` is in `Profile`.

- `Auth`: a call goes to Auth's work queue; on success that queue makes the
  account current *first* and only then posts the callback, so that between
  the two the user has changed and nobody has been told. A call may fail, also
  after the backend has created the account (`unheard`). `signOut` takes effect
  at once. `signOutByForceWithUserID` may happen whenever there is a user: a
  refresh of the token, begun by a timer or for Firestore, is refused because
  the account was disabled or deleted or the token revoked. No screen listens,
  so Home may be left without a user; `lapsed` records it until the next login
  or logout. A restart keeps the user, or loses it if the keychain cannot be
  read.
- `Users`: the documents of the `users` collection. A write waits on the
  client's worker (which a kill loses), then, the first `saved` of them, in the
  persisted queue of the user who made it, and is sent only while that user is
  current; `Seen` is what a reader gets, persisted writes included. `unkept`
  records the accounts a write to whose document was refused, lost, or could
  not be made for want of a user. The client's user is Auth's here; that a
  write waiting on the worker nevertheless gets into the queue of the user who
  made it is `FiledUnderItsAccount` of `Orders`.
- `Session`: the stack of presented `pages`, each with its kind, its number,
  the Homes pushed on it, its indicators and its alert. The taps
  (`toLoginPage`, `didTapRegister`, `loginButtonTapped`, `getStartedButton`,
  `alertClosed`, `didTapLogout`) and the callbacks (`loginAnswered`,
  `signupAnswered`, `profileWritten`). The indicator lets touches through, so
  that a button may be tapped again while a call is under way; UIKit presents
  no alert on a page that is covered or already presents one. A callback whose
  page has gone unwraps `self!` in one of its branches, which is a trap;
  `createUser`'s callback writes to whoever is `currentUser!` by then; and a
  Home that is shown at once reads `docId!`, which traps if the user has gone
  between the login and its callback (`HomeTraps`).
- `Profile`: the tab of the Home on top. `form.stage` goes from "none" to
  "fetching" (`viewDidLoad`), "posted" (`profileFetched`), "shown"
  (`notificationCompletion`); `editButton`, `typeContact`, `saveButton` may
  come between any two of these, and Done writes the whole document from what
  view model and form hold then. The fetch waits for the writes that were on
  the worker before it (`form.ahead`; the action `worker`).

Address and phone always move together and are one *contact*; email and name
are the account itself, so that a document says whose it is. Only the Home on
top has a Profile, since its controller is loaded when it is shown and goes
when it is covered. Two history variables say when the user hurried:
`overlapped` (a call to Auth made while another was under way) and `nameless`
(a form saved before the name was in it). Without them and `lapsed`,
`TrapNeedsOverlap` and `DocumentsNameTheirOwner` could not say what they say;
that both traps and foreign documents do occur otherwise is what the model
shows. `AccountHasProfile` says that an account that exists has its document or
has it on its way, and lists what can have taken it away: the answer to its
creation was lost, the write was refused or lost before it was persisted, or
calls overlapped.

### Delivery (`MCDelivery`, `DeliveryProofs`)

The delivery person on the Confirmation screen. A text is the document it
comes from. `snapshotArrives` is the listener's callback: among the complete
documents of a snapshot the last to have a field as a string decides it, field
by field; then the closure sets the number to call at once and posts a block
for the labels, if the screen has registered and not yet gone.
`viewDidAppear` registers, which may be after the first snapshot; then nobody
is told of it. `showDetails` shows what the view model holds when it runs.
History variables: `heard` (the screen was told at least once) and `mixed` (a
document had a field that is no string, so that a person may be put together
from two).

### RestaurantFeed, Home, Search (`MCHome`, `MCSearch`, `HomeProofs`, `SearchProofs`)

Home and Search each have a `HomeScreenViewModel`; what it does with
restaurants is `RestaurantFeed`. A restaurant is its document id, `Category`
its mealType. A fetch adds a listener for a filter; `SnapshotOf` is the whole
callback up to the call of `closure`: parse, replace `restaurantList`, append
to `restaurantIDS`, or trap on an image that is not bundled (what the two lists
hold in the middle of the callback is not observable after the trap).

`Home` adds the categories, `didSelectItemAt` (a fetch, hence a listener that
stays), `didSelectRowAt`, which reads both lists at one index, and the Details
screen on top, under which snapshots still arrive. Its closures reload the
views in the same turn of the main queue, so the rows are the list.

`Search` adds `filteredData`. Its closure posts a block, so between a snapshot
and its block (`closure`) the rows are of an older list; the text may change
there (`textDidChange`), and a row may be selected. `Found` says which
restaurants a text finds; lower-casing and `contains` are in it.
`didSelectRowAt` ends in a trap each time: no id is handed on, and the Details
screen asks for `document("")`. (A property would restate the step; it is
recorded as a hazard.)

`Queries` has the order in which a query lists its documents, as the set of
sequences that it may be, for all modules but `Firestore`, which needs the one.

## 4. Runs

| Run | Expect | Shows |
|---|---|---|
| `menu` | pass | 4 documents: two meals that share price and image, one with an unbundled image, one unparsable; 2 snapshots (every meal twice), 2 cells handed out at will, 2 pending reloads, 2 lines: the rows counted exist; the four arrays have an entry per tick and hold what was ticked until a label that came with a recycled cell is tapped, and only then does an unwrapping fail; the bar shows exactly while there is a line; meals that arrive before the screen appears are shown, however they race the two early reloads |
| `menu_unwrap` | violation | a recycled cell labelled "Added" removes a meal that is not in the cart: trap |
| `cart` | pass | up to 2 lines of 2 titles and 2 prices, quantities to 2, 3 texts, 1 order: rows are lines, the bill covers the rows, a discount needs a served code, refinement of `Basket` |
| `cart_discount` | violation | "N% off" is not N% after + or - |
| `orders` | pass | 2 own orders (one refused) and 2 foreign documents (one malformed, one deletable), one foreign step, one sign-out by Auth or the user, refused queries: unmixed history; while snapshots grow, the rows counted exist whenever no rebuild is under way; the orders converge, and the table with them if it keeps being reloaded |
| `orders_session` | pass | the same orders, one broken stream, one restart, one sign-out: filed under their account, ledger, true answers that come |
| `home` | pass | 4 restaurants (one unparsable, one with an unbundled image), of which one category has two, 3 snapshots of restaurants, 2 of categories: the ids end with those of the present list, and a row always has an id |
| `home_opens` | violation | after a second snapshot a row opens another restaurant's menu |
| `search` | pass | 3 restaurants, 3 texts of which one continues another, 3 snapshots, 2 waiting blocks: rows at rest come from the present restaurants; only while a block waits is a row beyond them |
| `session` | pass | 2 accounts (one registered), 2 calls to Auth, 3 pages, 1 save, 1 restart, forced sign-outs at any time: Home has a user unless Auth gave them up; indicators wait for something and end; only overlapping calls and forced sign-outs trap; documents name their owner if nobody hurries; an account has its profile, or one of the named reasons not to |
| `session_created` | violation | "Account created successfully" is said when the profile was not saved |
| `delivery` | pass | 4 documents (one incomplete, one with a phone that is no string), 4 snapshots, 2 blocks: the person called is the person shown, and one the screen is told of is shown |

The largest are `orders` (811,000 states, two and a half minutes with its
liveness), `session` (289,000), `orders_session` (246,000) and `menu` (90,000).

*Bounds.* Two snapshots are the fewest that duplicate the menu; two cells and
two meals the fewest that show one cell for two meals while another keeps its
own; two lines, the most that two cells can tick, the fewest in which a removal
by value can meet another line's value. (The properties of `menu` were also
checked once with three meals that share recipe, price and image pairwise, 1.9
million states.)
Two lines distinguish the row of a line from the line at that index after a
swipe. Two own orders show order of sending, one of them refused; one loss and
one restart are enough for a lost answer followed by a resend in another
process; one sign-out, for orders before it, while it waits on the worker, and
after the login that follows. The questions about the history and those about
the orders are checked in two runs, since their bounded events do not interact:
the history goes with a restart, and the orders do not depend on it. Two
snapshots separate the two lists of Home; the third brings back the first
filter. Two waiting blocks let one run while the other still waits. Two calls
overlap; three pages are a login page, a sign-up page on it and the login page
to which "created" leads, so that a late answer finds its page covered or gone;
one save and one restart come before, between and after these. Four snapshots
with two waiting blocks let a person come before the screen has registered, one
while a block waits, and one after.
Deadlock is not checked: the user may stop anywhere, a trapped app stops, and
the bounded steps run out.

*Slips.* A definition marked "a slip" is not part of the specification: it is
a plausible bug in the definition that follows it, with which the property
named in `PROJECT.json` must fail.

## 5. Fairness

- `Menu!FairSpec`: the run loop makes the screen appear, runs queued reloads
  and fills rows; snapshots and taps are free.
- `Orders!FairSpec`: the main queue and the client's worker run what is
  waiting, changes of user included; the stream delivers in the end (breaks are
  bounded by `MaxLosses`, and the client retries with backoff for ever); remote
  events arrive. Users, sign-outs by whomever, other clients, refused queries,
  stream breaks and restarts are under no obligation, so that
  `HistoryConverges` speaks of any behaviour in which they stop.
  `HistoryReachesScreen` assumes a user who reloads again and again, in its own
  antecedent.
- `Profile!FairSpec`: Auth calls back in the end, if only with a timeout, and
  the main queue runs what is waiting. Writes are under no obligation (offline,
  Firestore never completes one), nor are users, forced sign-outs and restarts.
  It serves `LoginIsAnswered` only.
- `Delivery!FairSpec`: the main queue runs its blocks.

## 6. Proofs (TLAPS)

| Theorem | Statement |
|---|---|
| `MenuProofs!TypeCorrect` | `Spec => []TypeOK` |
| `MenuProofs!RowsCorrect` | `Spec => []ShownRowsExist`. Inductive with `TypeOK`: lists only grow, and a cell's meal is kept by appending |
| `MenuProofs!BarCorrect` | `Spec => []CartViewShowsLines`: the bar is switched on with every line and off with the last title, whatever the other arrays lose |
| `MenuProofs!LinesCorrect`, `MenuProofs!TicksCorrect`, `MenuProofs!UnwrapsCorrect` | `Spec => []LinesAreTicks`, `Spec => []CartIsWhatWasTicked`, `Spec => []UnwrapNeedsMistake`, for every menu and whatever cells UIKit hands out. One invariant, `TickedInv`, which counts: unless mistaken, each value is in its array as often as ticked meals bear it, and a tap adds or takes one on both sides; so what is untapped is there to be found |
| `CartProofs!RowsCorrect` | `Spec => []RowsAreLines`. Invariant `IInv`: arrays are aligned and typed, and the rows embed into the lines in order; a swipe composes the embedding with the map that skips the removed row |
| `CartProofs!CartImplementsBasket` | `Spec => TheBasket!Spec`; uses `RowsAreLines`, since a tap's row must be an index into the lines |
| `CartProofs!BillCorrect` | `Spec => []BillCoversRows`. After every tap and visit the bill is that of the rows themselves; a swipe leaves the bill and composes the embedding of the rows |
| `CartProofs!DiscountCorrect` | `Spec => DiscountNeedsCode`, an action property. Invariant `PromoInv`: the alert says "valid" only while the field holds a served code; for the blank word, the complaint is the alert presented first |
| `CartProofs!TypeCorrect` | `Spec => []TypeOK`, with the fold of the prices (see below) |
| `OrdersProofs!TypeCorrect` | `Spec => []TypeOK`, from the invariant below |
| `OrdersProofs!AnswersCorrect` | `Spec => []AnswersAreTrue` |
| `OrdersProofs!HistoryCorrect` | `Spec => []NeverMixed` |
| `OrdersProofs!RowsCorrect` | `Spec => []RowsExistWhenIdle` |
| `OrdersProofs!LedgerKept` | `Spec => Ledger!Init /\ [][Ledger!Next]_(Ledger!vars)`, the safety part of the refinement |
| `OrdersProofs!FiledCorrect` | `Spec => []FiledUnderItsAccount`. Invariant `FiledInv`: for each write that waits on the worker, the last change of user before it, or else the client's user, is the account's, and the last of all is Auth's |
| `HomeProofs!IdsCorrect`, `HomeProofs!RowsCorrect` | `Spec => []IdsEndWithList`, `Spec => []RowsHaveIds`. That an index into the list is one into the ids is not inductive: the lengths alone say nothing after the list is replaced. It follows from the ids ending with the list's |
| `HomeProofs!TypeCorrect` | `Spec => []TypeOK`; what a row opens is typed only because the row has an id |
| `SearchProofs!RowsCurrent` | `Spec => []IdleRowsAreCurrent`. Inductive with `blocks \in Nat`: only a snapshot changes the restaurants under the rows, and it leaves a block |
| `SearchProofs!TypeCorrect` | `Spec => []TypeOK`, with the fold of the filter |
| `SearchProofs!FilteredLists` | what the loop of `filterRestaurants` leaves has a row for every restaurant that the text finds, only such rows, and no more rows than there are restaurants |
| `SearchProofs!TrapNeedsGap` | `Spec => IndexTrapNeedsGap`, an action property: with no block waiting the rows are the restaurants or a filter of them, which is no longer than they are |
| `SessionProofs!TypeCorrect`, `SessionProofs!HomeCorrect` | `Spec => []TypeOK`, `Spec => []HomeHasUser`. Invariant: page numbers are used once, so that whatever is under way for a page fits its kind; login and sign-up pages alternate, so that behind a login page that is logged out of stands a sign-up page, on which no answer to an earlier login can push a Home; without a user, unless they lapsed, there is no Home on top and no answer on its way that would push one there |
| `SessionProofs!IndicatorsCorrect` | `Spec => []IndicatorsTellTheTruth`. Invariant `Indicated`: a login page has exactly as many indicators as there are requests, waiting callbacks and answers of that page still to take one off, a sign-up page at least as many. Every call and callback changes both sides by one |
| `SessionProofs!TrapCorrect` | `Spec => []TrapNeedsOverlap`. Invariant `Calm`: unless calls overlapped, at most one call is under way or waiting to be told, its page is presented with no Home on it or above it, and who has logged in is the current user when the page hears of it, unless they lapsed |
| `SessionProofs!OwnerCorrect` | `Spec => []DocumentsNameTheirOwner`. Invariant `OwnerInv`: without overlap the form is that of the current user with a Home on top; without a nameless save the names in it are blank or its owner's |
| `SessionProofs!ProfilesCorrect` | `Spec => []AccountHasProfile`. Unless calls overlapped, the callback of a sign-up finds the account it is for as the current user, or none; every step that takes a write or a callback away stores the document or records why not |
| `DeliveryProofs!TypeCorrect`, `DeliveryProofs!CallsCorrect` | `Spec => []TypeOK`, `Spec => []CallsWhoIsShown`. Invariant: the number is the view model's from the first time the screen is told, and so are the labels when no block waits; before it has appeared it has been told nothing |

The invariant of `Orders` has four parts. *StoreInv*: an order goes to the
worker once, from there to the queue, and is then `written`; only written
orders are on the backend and none that it refuses; answers on their way are
true. *QueueInv*: exactly the snapshots not yet brought in wait on the main
queue, in their order (`EventsInOrder`); the blocks of each snapshot stand
together and add exactly the documents by which its array is still short
(`RunInOrder`); completions that wait are true. *ScreenInv*: the orders shown
are the beginning of a snapshot, and what was told is true. *RowsInv*: the
orders are the array of some snapshot k, nothing has been added for a later one,
what waits is of k or later and in order, and the table has counted no more
rows than k will have. That the documents of a set can be listed by rank
(`RankExists`) is proved there too.

The community modules define a fold (`FoldSeq` in the Cart's `Sum`, `FoldLeft`
in Search's `Filtered`) by a recursive function over the subsets of the
indices, which is a CHOOSE. So before anything can be said of a fold it is
proved that such a function exists, level by level of the subsets' sizes
(`NextLevel`, `EveryLevel`, `RecursionHolds`); then the fact about the fold
follows for the smallest subset at which it could fail. The least
counterexample (`ArrayLemmas!MinProperty`) takes the place of the library's
induction theorems, which take an operator.

`ArrayLemmas` has the facts about sequences and least indices that several
proofs cite, and those on counting: how often the elements of a set occur in a
sequence, and how append, remove and the removal of the first change that.
Assumptions are the named ASSUMEs of the modules: documents are a finite set of
naturals, as are restaurants; prices are naturals, bounds are naturals; `Blank`
and `NoUser` are no accounts, `NoDoc` no document. No theorem has a hypothesis
of its own beyond these.

Only model-checked: liveness (`EarlyMealsAreShown`, `HistoryConverges`,
`HistoryReachesScreen`, `ConfirmedIsAnswered`, `LoginIsAnswered`,
`PersonIsShown`), and with it the part of `ImplementsLedger` that an order is
decided in the end. Each rests on fairness, that is on ENABLED, which the
provers do not reason about.

## 7. Findings

Four, each with its run: the forced unwrapping that fails for a recycled cell
(`menu_unwrap`), the discount that is not the percentage announced
(`cart_discount`; the amount due can even become negative), the row of Home
that opens another restaurant's menu (`home_opens`), and the success that is
announced exactly when the profile was not saved, while after a success nobody
is told and the indicator stays (`session_created`).

The models contain further behaviours that no document or comment of the app
contradicts, so that they are not findings: meals that come late are not shown,
a swiped line stays in the total and is ordered, a confirmed order may be
refused, a delivery person who comes first is not shown, Search opens the menu
of nothing, a login tapped twice can trap or push two Homes, and a form saved
before it was filled empties the user's document. Two follow from Auth signing
the user out by itself, of which no screen hears: Home and Profile unwrap a user
who has gone, even after one single login (`HomeTraps`, `viewDidLoad`,
`saveButton`), and an order may be confirmed that `Router` has silently dropped
(`unsent`).

## 8. Not modelled

- *Onboarding*: a pager of three fixed slides; its buttons are in `Session`.
- *More Details*: its list is always empty. *Shell*: start-up wiring,
  storyboards, xibs, assets.
- Of Home the welcome text; of the login and sign-up pages passwords, wording,
  the eye buttons and the limit on characters.
- `Discount.swift`, `PromoDiscount.swift`, `FireNetworking.swift` and
  `SearchViewController.swift`, which nothing uses; update and delete of
  `OrderAPI`, which no screen requests.
- Of Firestore and Auth everything the app does not exercise: transactions,
  limits, limbo resolution, garbage collection, providers. When a token is
  refreshed, and why it is refused, is left open: it may be at any time. In
  `Orders` no second account has orders of its own.
- The rest of `src/Foodly/Pods` (BoringSSL, gRPC, abseil, leveldb, generated
  certificates), which is nearly all of the repository's lines: third-party
  code on which the app's behaviour does not depend beyond what is above, so
  the mapped lines are a small share of the repository, though most of the
  app's own logic.
- Float rounding; two presses of Continue before the Confirmation screen has
  appeared.

Hazards without a property, with the reason in `PROJECT.json`: an image that is
not bundled, the snapshot of an empty history (excluded in `HistoryConverges`),
a refused query, which is only printed, an order placed when Auth has given the
user up, Continue pressed again after going back, listeners that are never
removed, Search's rows.
