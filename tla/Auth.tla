-------------------------------- MODULE Auth --------------------------------
(***************************************************************************)
(* FIRAuth as the login and sign-up screens use it.  A call goes to Auth's *)
(* work queue and from there to the backend; on success the work queue     *)
(* makes the account the current user FIRST and only then posts the        *)
(* caller's callback to the main queue.  The current user is kept in the   *)
(* keychain.  When a refresh of its token shows that the account has gone  *)
(* or was disabled, or that the token is not accepted any more, Auth signs *)
(* the user out by itself; nothing in the app listens for that.            *)
(***************************************************************************)
EXTENDS Integers, FiniteSets, SequencesExt

CONSTANTS
  Accounts,      \* the email addresses that may be registered
  Registered,    \* those that are when the app is first started
  Blank,         \* what an empty or malformed field sends
  NoUser,        \* currentUser == nil
  MaxRequests    \* bound: calls of signIn and createUser

ASSUME AccountsAssumption ==
  Registered \subseteq Accounts /\ Blank \notin Accounts /\ NoUser \notin Accounts
ASSUME RequestsAssumption == MaxRequests \in Nat

VARIABLES
  accounts,      \* registered with the backend
  currentUser,   \* Auth.auth().currentUser
  requests,      \* calls that the backend has not answered
  main,          \* callbacks waiting on the main queue
  sent,          \* calls made so far
  overlapped,    \* history variable: a call was made before an earlier one
                 \* had called back
  lapsed,        \* history variable: Auth has signed the user out by itself,
                 \* and since then nobody has logged in or out
  unheard        \* history variable: accounts the backend has created without
                 \* the app being told so

authVars ==
  <<accounts, currentUser, requests, main, sent, overlapped, lapsed, unheard>>

AuthInit ==
  /\ accounts = Registered /\ currentUser = NoUser
  /\ requests = {} /\ main = <<>> /\ sent = 0 /\ overlapped = FALSE
  /\ lapsed = FALSE /\ unheard = {}

\* signIn(withEmail:password:) and createUser(withEmail:password:), called
\* by the page with that id
Call(kind, account, page) ==
  /\ sent < MaxRequests
  /\ sent' = sent + 1
  /\ requests' = requests \cup
       {[kind |-> kind, account |-> account, page |-> page, no |-> sent + 1]}
  /\ overlapped' = (overlapped \/ requests # {} \/ main # <<>>)
  /\ UNCHANGED <<accounts, currentUser, main, lapsed, unheard>>

\* a slip: a failure is not passed on
PostSuccess(kind, r, ok) ==
  IF ok THEN Append(main, [kind |-> kind, account |-> r.account, page |-> r.page, ok |-> ok])
  ELSE main
Post(kind, r, ok) ==
  Append(main, [kind |-> kind, account |-> r.account, page |-> r.page, ok |-> ok])

\* a slip: the callback runs before the user is current
CurrentAsBefore(account) == currentUser
BecomesCurrent(account) == account

\* Nobody can log in to an account that does not exist, nor create one twice.
Accepted(r) ==
  /\ r.account \in Accounts
  /\ (r.kind = "login") <=> (r.account \in accounts)
Succeeds(r) ==
  /\ Accepted(r)
  /\ accounts' = accounts \cup {r.account}
  /\ currentUser' = BecomesCurrent(r.account) /\ lapsed' = FALSE
  /\ requests' = requests \ {r} /\ main' = Post(r.kind, r, TRUE)
  /\ UNCHANGED <<sent, overlapped, unheard>>

\* A call may always fail; if it is the answer that is lost, the backend has
\* created the account nevertheless.  The current user stays who it was.
Fails(r) ==
  /\ \/ UNCHANGED <<accounts, unheard>>
     \/ /\ Accepted(r) /\ r.kind = "signup"
        /\ accounts' = accounts \cup {r.account} /\ unheard' = unheard \cup {r.account}
  /\ requests' = requests \ {r} /\ main' = Post(r.kind, r, FALSE)
  /\ UNCHANGED <<currentUser, sent, overlapped, lapsed>>

\* accounts whose creation these callbacks tell of
Told(callbacks) ==
  {callbacks[i].account : i \in {k \in DOMAIN callbacks : callbacks[k].kind = "signup" /\ callbacks[k].ok}}

Answer == \E r \in requests : Succeeds(r) \/ Fails(r)

\* signOut waits for the work queue
signOut ==
  /\ currentUser' = NoUser /\ lapsed' = FALSE
  /\ UNCHANGED <<accounts, requests, main, sent, overlapped, unheard>>

\* A refresh of the current user's token, begun by Auth's timer or for
\* Firestore, is answered with one of four errors.
signOutByForceWithUserID ==
  /\ currentUser # NoUser
  /\ currentUser' = NoUser /\ lapsed' = TRUE
  /\ UNCHANGED <<accounts, requests, main, sent, overlapped, unheard>>

\* The process ends and starts again: the current user is in the keychain,
\* if that can be read, callbacks are gone, and of the calls under way nobody hears any more.
AuthRestart ==
  /\ \E done \in SUBSET {r \in requests : Accepted(r)} :
       /\ accounts' = accounts \cup {r.account : r \in done}
       /\ unheard' = unheard \cup {r.account : r \in {q \in done : q.kind = "signup"}} \cup Told(main)
  /\ requests' = {} /\ main' = <<>>
  /\ currentUser' \in {currentUser, NoUser} /\ lapsed' = FALSE
  /\ UNCHANGED <<sent, overlapped>>
=============================================================================
