------------------------------- MODULE Orders -------------------------------
(***************************************************************************)
(* From Continue to "My Order History": the Cart hands an order to         *)
(* OrderService and shows the Confirmation screen; Router.create writes it *)
(* through Firestore; OrderHistoryModel listens to the collection and      *)
(* rebuilds orders block by block on the main queue; the history screen    *)
(* shows as many rows as orders had at the last reload.  Around them the   *)
(* account comes and goes: login, logout, and Auth ending the session by   *)
(* itself while the screens stay.                                          *)
(***************************************************************************)
EXTENDS Firestore

CONSTANTS
  Malformed,    \* documents that lack one of the four strings
  MaxSignOuts   \* bound: the account is signed out, by the user or by Auth

ASSUME MalformedAssumption == Malformed \subseteq Docs \ Own
ASSUME SignOutsAssumption == MaxSignOuts \in Nat

VARIABLES
  signedIn,    \* the account is Auth's current user
  home,        \* the tabs that a login presents, and all their screens, exist
  signOuts,    \* counter of the bounded step
  histories,   \* the local array of each run of the listener's callback
  orders,      \* OrderHistoryModel.orders
  rows,        \* numberOfRows as the history table last asked for it
  opened,      \* the history screen, and with it its model, exists
  confirmed,   \* orders for which the Confirmation screen was shown
  unsent,      \* those of them that Router found no user to file under
  told,        \* what the completion of createOrder printed, per order
  written      \* history variable: own orders the client has written

session == <<signedIn, home, signOuts>>
historyVars == <<histories, orders, rows, opened>>
appVars == <<session, historyVars, confirmed, unsent, told, written>>
vars == <<storeAll, appVars>>

Init ==
  /\ StoreInit
  /\ signedIn = FALSE /\ home = FALSE /\ signOuts = 0
  /\ histories = <<>> /\ orders = <<>> /\ rows = 0 /\ opened = FALSE
  /\ confirmed = {} /\ unsent = {} /\ told = [d \in Own |-> "nothing"] /\ written = {}

(***************************************************************************)
(* The session                                                             *)
(***************************************************************************)
\* A login presents the tabs, with screens of their own.
login ==
  /\ ~home /\ home' = TRUE /\ signedIn' = TRUE
  /\ credentialChanged(worker, TRUE)
  /\ UNCHANGED <<current, storeVars, listeners, main, counters, signOuts, historyVars,
                 confirmed, unsent, told, written>>

\* Auth gives the user up by itself, when a refreshed token is refused; no
\* screen hears of it.
signOutByForce ==
  /\ signedIn /\ signedIn' = FALSE
  /\ signOuts < MaxSignOuts /\ signOuts' = signOuts + 1
  /\ credentialChanged(worker, FALSE)
  /\ UNCHANGED <<current, storeVars, listeners, main, counters, home, historyVars,
                 confirmed, unsent, told, written>>

NoHistory == histories' = <<>> /\ orders' = <<>> /\ rows' = 0 /\ opened' = FALSE

\* didTapLogout: the tabs are dismissed, and with them the history screen.
\* Its listener stays, but what it still brings in no screen ever shows, so
\* its tasks and blocks are dropped here.
didTapLogout ==
  /\ home /\ home' = FALSE /\ signedIn' = FALSE
  /\ LET tasks == OfKinds(worker, {"write", "user"})
     IN \/ /\ signedIn /\ signOuts < MaxSignOuts /\ signOuts' = signOuts + 1
           /\ credentialChanged(tasks, FALSE)
        \/ ~signedIn /\ worker' = tasks /\ UNCHANGED signOuts
  /\ lingering' = (listening \/ lingering) /\ listening' = FALSE /\ snaps' = <<>>
  /\ main' = OfKinds(main, {"completion"})
  /\ NoHistory
  /\ UNCHANGED <<current, storeVars, counters, confirmed, unsent, told, written>>

(***************************************************************************)
(* The screens                                                             *)
(***************************************************************************)
\* a slip: the user is remembered from the login
userRemembered == home
\* OrderAPI.baseDocumentReference: there is a user to file under
userIsThere == signedIn

\* continueButtonPressed: the order goes to OrderService, whose answer is
\* only printed, and the Confirmation screen is pushed at once.  Without a
\* user there is no collection, and Router does nothing.
continueButtonPressed(d) ==
  /\ home /\ d \notin confirmed
  /\ \/ userIsThere /\ addDocument(d) /\ UNCHANGED unsent
     \/ ~userIsThere /\ unsent' = unsent \cup {d} /\ UNCHANGED worker
  /\ confirmed' = confirmed \cup {d}
  /\ UNCHANGED <<current, storeVars, listeners, main, counters, session, historyVars,
                 told, written>>

\* the history screen is made, and with it OrderHistoryModel (init), whose
\* listener again needs a user
openHistory ==
  /\ home /\ ~opened /\ opened' = TRUE
  /\ \/ userIsThere /\ addSnapshotListener
     \/ ~userIsThere /\ UNCHANGED worker
  /\ UNCHANGED <<current, storeVars, listeners, main, counters, session,
                 histories, orders, rows, confirmed, unsent, told, written>>

\* viewWillAppear, or the user pulls to refresh (bound: one reload waiting
\* on the queue at a time)
ReloadBlock == [kind |-> "reload"]
reloadOrderHistory ==
  /\ opened /\ ~Contains(main, ReloadBlock)
  /\ main' = Append(main, ReloadBlock)
  /\ UNCHANGED <<worker, current, storeVars, listeners, counters, appVars>>

(***************************************************************************)
(* Blocks on the main queue, in order                                      *)
(***************************************************************************)
NextIs(kind) == main # <<>> /\ Head(main).kind = kind

\* a slip: an error is passed on as success(nil)
SuccessAnyway(result) == "ok"
\* Router.create: failure(error) if there is an error, else success(nil)
ResultOf(result) == result

completion ==
  /\ NextIs("completion")
  /\ told' = [told EXCEPT ![Head(main).doc] = ResultOf(Head(main).result)]
  /\ main' = Tail(main)
  /\ UNCHANGED <<worker, current, storeVars, listeners, counters, session, historyVars,
                 confirmed, unsent, written>>

\* a slip: a missing string does not leave the document out
HistoriesUnchecked(D) == Ascending({IF d \in Malformed THEN 0 ELSE d : d \in D})
\* The documents of a snapshot that have all four strings
Histories(D) == Ascending(D \ Malformed)
AppendBlocks(k) ==
  LET docs == Histories(snaps[k])
  IN [i \in 1..Len(docs) |-> [kind |-> "append", snap |-> k, doc |-> docs[i]]]

\* The listener's callback: a fresh local array, and one block per document
snapshotArrived ==
  /\ NextIs("event")
  /\ histories' = Append(histories, <<>>)
  /\ main' = Tail(main) \o AppendBlocks(Head(main).snap)
  /\ UNCHANGED <<worker, current, storeVars, listeners, counters, session, orders, rows, opened,
                 confirmed, unsent, told, written>>

\* a slip: the blocks add to orders itself
AddedToOrders(k, d) == Append(orders, d)
AddedToItsHistory(k, d) == Append(histories[k], d)

\* One such block: it adds its document to its callback's array and makes
\* that array, as far as it is, the orders
appendHistory ==
  /\ NextIs("append")
  /\ LET k == Head(main).snap
         list == AddedToItsHistory(k, Head(main).doc)
     IN histories' = [histories EXCEPT ![k] = list] /\ orders' = list
  /\ main' = Tail(main)
  /\ UNCHANGED <<worker, current, storeVars, listeners, counters, session, rows, opened,
                 confirmed, unsent, told, written>>

\* a slip: the table counts the documents of the snapshot, not the orders
CountOfSnapshot == Cardinality(Raised)
numberOfRows == Len(orders)

reloadData ==
  /\ NextIs("reload")
  /\ rows' = numberOfRows
  /\ main' = Tail(main)
  /\ UNCHANGED <<worker, current, storeVars, listeners, counters, session, histories, orders,
                 opened, confirmed, unsent, told, written>>

MainStep == completion \/ snapshotArrived \/ appendHistory \/ reloadData

\* A restart of the process forgets the screens and what they held, and
\* begins with the login page.
AppRestart ==
  /\ Restart
  /\ home' = FALSE /\ signedIn' = FALSE
  /\ NoHistory
  /\ UNCHANGED <<signOuts, confirmed, unsent, told, written>>

Client ==
  /\ ClientStep
  /\ written' = written \cup (Own \cap ToSet(pending'))
  /\ UNCHANGED <<session, historyVars, confirmed, unsent, told>>

Next ==
  \/ login \/ signOutByForce \/ didTapLogout
  \/ \E d \in Own : continueButtonPressed(d)
  \/ openHistory
  \/ reloadOrderHistory
  \/ MainStep
  \/ Client
  \/ AppRestart

Spec == Init /\ [][Next]_vars

\* The main queue and the client's worker run what is waiting for them, and
\* the network delivers in the end (broken streams are bounded).  Users,
\* Auth, other clients, stream breaks, refused queries and restarts are under
\* no obligation.
Obliged ==
  \/ WriteMutations \/ Listen \/ HandleCredentialChange
  \/ BackendTakesWrite \/ HandleSuccessfulWrite \/ HandleRejectedWrite
FairSpec ==
  /\ Spec
  /\ WF_vars(MainStep)
  /\ WF_vars(Client /\ Obliged)
  /\ WF_vars(Client /\ ApplyRemoteEvent)

-----------------------------------------------------------------------------
(***************************************************************************)
(* Properties                                                              *)
(***************************************************************************)
Blocks ==
  [kind : {"completion"}, doc : Own, result : {"ok", "refused"}]
    \cup [kind : {"event"}, snap : Nat]
    \cup [kind : {"append"}, snap : Nat, doc : Docs]
    \cup [kind : {"reload"}]

Tasks ==
  [kind : {"write"}, doc : Own] \cup [kind : {"listen"}] \cup [kind : {"user"}, isUser : BOOLEAN]

\* Type invariant.
TypeOK ==
  /\ worker \in Seq(Tasks) /\ current \in BOOLEAN
  /\ signedIn \in BOOLEAN /\ home \in BOOLEAN
  /\ pending \in Seq(Own) /\ answers \in Seq({"ok", "refused"})
  /\ Len(answers) <= Len(pending)
  /\ server \subseteq Docs /\ cache \subseteq Docs /\ callbacks \subseteq Own
  /\ listening \in BOOLEAN /\ lingering \in BOOLEAN /\ snaps \in Seq(SUBSET Docs) /\ main \in Seq(Blocks)
  /\ histories \in Seq(Seq(Docs)) /\ orders \in Seq(Docs)
  /\ rows \in Nat /\ opened \in BOOLEAN
  /\ confirmed \subseteq Own /\ written \subseteq confirmed /\ unsent \subseteq confirmed
  /\ told \in [Own -> {"nothing", "ok", "refused"}]

\* The history on the screen is never a mixture of two snapshots: it is the
\* beginning of one of them, although each is brought in block by block while
\* further snapshots, completions and reloads wait on the same queue.
NeverMixed ==
  orders # <<>> => \E k \in DOMAIN snaps : IsPrefix(orders, Histories(snaps[k]))

\* createOrder reports success only for an order the backend has stored, and
\* failure only for one it refuses, across resends, restarts and sign-outs.
AnswersAreTrue ==
  \A d \in Own : /\ told[d] = "ok" => d \in server
                 /\ told[d] = "refused" => d \in Refused

\* An order goes into the queue of the account that placed it: whatever
\* logins and sign-outs wait on the worker, the account is the client's user
\* again, or still, when the worker comes to the order.
FiledUnderItsAccount ==
  worker # <<>> /\ Head(worker).kind = "write" => current

\* Once the client has written an order it is neither lost nor decided twice,
\* nor decided while its account is not the client's: the app implements
\* OrderLedger, through broken streams, sign-outs and restarts.
statusOf ==
  [d \in Own |-> IF d \in server THEN "accepted"
                 ELSE IF Contains(pending, d) THEN "written"
                 ELSE IF d \in written THEN "refused" ELSE "none"]
Ledger == INSTANCE OrderLedger WITH status <- statusOf, active <- current
ImplementsLedger == Ledger!Spec

\* When nothing happens any more, the orders of a history model whose listener
\* the backend has not refused are exactly the well-formed documents of the
\* backend, in their order; refused orders have left them.  (With no document
\* left they stay the last ones: an empty snapshot posts no block.)
OrdersSettled ==
  opened /\ listening /\ Histories(server) # <<>> => orders = Histories(server)
HistoryConverges == <>[]OrdersSettled

\* No snapshot reloads the table, so what is on the screen converges only if
\* the user does not stop coming back to it or pulling it down: then, in the
\* end, it counts a row for every well-formed document of the backend.
HistoryReachesScreen ==
  []<><<reloadData>>_vars =>
    <>[](opened /\ listening /\ Histories(server) # <<>> => rows = Len(Histories(server)))

\* While the listener's snapshots only grow, the rows the table counts exist
\* whenever no rebuild is under way: a row that scrolls in later can be filled.
\* (A refusal, a deletion or a sign-out makes the next snapshot shorter under
\* the table.)
Rebuilding == \E i \in DOMAIN main : main[i].kind = "append"
Growing == \A i, j \in DOMAIN snaps : i < j => snaps[i] \subseteq snaps[j]
RowsExistWhenIdle == Growing /\ ~Rebuilding => rows <= Len(orders)

\* Every order that was announced as confirmed, and handed on, is in the end
\* answered, through broken streams, behind refused orders and after a time
\* signed out, so that none is lost: only a restart of the app may come
\* between, or that the account does not come back.
ConfirmedIsAnswered ==
  []<>(restarts > 0 \/ ~current \/ \A d \in confirmed \ unsent : told[d] # "nothing")
=============================================================================
