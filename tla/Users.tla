------------------------------- MODULE Users --------------------------------
(***************************************************************************)
(* The documents of the users collection, one per account, as sign-up and  *)
(* Profile write and read them through Firestore.  A write waits first on  *)
(* the client's worker and then in the persisted queue of the user who     *)
(* made it, where readers see it; it is sent only while that user is the   *)
(* current one.                                                            *)
(***************************************************************************)
EXTENDS Auth

CONSTANTS NoDoc, Contacts   \* the texts of address and phone number

ASSUME ContactsAssumption == "" \in Contacts

VARIABLES
  users,    \* the backend's documents: account -> whose identity, contact
  writes,   \* writes the backend has not decided
  saved,    \* how many of them are persisted; the rest waits on the worker
  unkept    \* history variable: accounts a write to whose document was refused,
            \* was lost with the process or could not be made

usersVars == <<users, writes, saved, unkept>>

UserDoc(who, contact) == [who |-> who, contact |-> contact]
UserDocs == [who : Accounts \cup {Blank}, contact : Contacts]
ASSUME NoDocAssumption == NoDoc \notin UserDocs

UsersInit ==
  /\ \E contact \in Contacts \ {""} :
       users = [a \in Accounts |-> IF a \in Registered THEN UserDoc(a, contact) ELSE NoDoc]
  /\ writes = <<>> /\ saved = 0 /\ unkept = {}

\* document(currentUser!.uid).setData(doc), called by a page
setData(doc, page, kind) ==
  /\ writes' = Append(writes, [to |-> currentUser, doc |-> doc, page |-> page, kind |-> kind])
  /\ UNCHANGED <<saved, unkept>>

\* The worker persists the next write.
WriteMutations ==
  /\ saved < Len(writes) /\ saved' = saved + 1
  /\ UNCHANGED <<authVars, users, writes, unkept>>

\* What a reader of an account's document sees
Pending(a) == {i \in 1..saved : writes[i].to = a}
Seen(a) == IF Pending(a) = {} THEN users[a] ELSE writes[Max(Pending(a))].doc

\* The backend stores or refuses the oldest persisted write of the current user, and
\* the completion goes to the main queue unless the app was restarted.
Oldest(i) == \A j \in 1..(i - 1) : writes[j].to # writes[i].to
Decide(i) ==
  LET w == writes[i] IN
  /\ w.to = currentUser /\ Oldest(i)
  /\ writes' = RemoveAt(writes, i) /\ saved' = saved - 1
  /\ \E ok \in BOOLEAN :
       /\ users' = IF ok THEN [users EXCEPT ![w.to] = w.doc] ELSE users
       /\ unkept' = IF ok THEN unkept ELSE unkept \cup {w.to}
       /\ main' = IF w.page = 0 THEN main
                  ELSE Append(main, [kind |-> w.kind, account |-> w.to, page |-> w.page, ok |-> ok])
  /\ UNCHANGED <<accounts, currentUser, requests, sent, overlapped, lapsed, unheard>>

\* What is not persisted is lost.
UsersRestart ==
  /\ writes' = [i \in 1..saved |-> [writes[i] EXCEPT !.page = 0]]
  /\ unkept' = unkept \cup {writes[i].to : i \in (saved + 1)..Len(writes)}
  /\ UNCHANGED <<users, saved>>
=============================================================================
