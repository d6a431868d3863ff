------------------------------- MODULE Session ------------------------------
(***************************************************************************)
(* The screens before and around Home: LoginViewController and             *)
(* SignUpViewController, presented over the Onboarding screen and over     *)
(* each other, with CreateUser.  A login that succeeds pushes Home on its  *)
(* own page; logging out dismisses that page with all that is on it.       *)
(*                                                                         *)
(* The indicator of a page does not take touches, so the user may tap      *)
(* again, or leave the page, while a call is under way.                    *)
(***************************************************************************)
EXTENDS Users

CONSTANTS MaxPages,     \* bound: pages presented
          MaxRestarts   \* bound: the app is killed and started again

ASSUME PagesAssumption == MaxPages \in Nat /\ MaxRestarts \in Nat

VARIABLES
  pages,      \* what is presented over Onboarding, the last on top
  presented,  \* pages presented so far; numbers them
  trapped,    \* a runtime trap (nil unwrapped) has ended the app
  restarts

screenVars == <<pages, presented, trapped, restarts>>
sessionVars == <<authVars, usersVars, screenVars>>

SessionInit ==
  /\ AuthInit /\ UsersInit
  /\ pages = <<>> /\ presented = 0 /\ trapped = FALSE /\ restarts = 0

(***************************************************************************)
(* Pages: huds counts the MBProgressHUDs on it, homes the tab bars pushed  *)
(* on a login page, alert is what it presents as an alert                  *)
(***************************************************************************)
Top == Last(pages)
NewPage(kind) == [kind |-> kind, id |-> presented + 1, homes |-> 0, huds |-> 0, alert |-> "none"]

AtOnboarding == ~trapped /\ pages = <<>>
\* An alert is modal, and a Home covers the login page it was pushed on.
At(kind) == ~trapped /\ pages # <<>> /\ Top.kind = kind /\ Top.alert = "none" /\ Top.homes = 0
AtHome == ~trapped /\ pages # <<>> /\ Top.alert = "none" /\ Top.homes > 0

OnTop(page) == [pages EXCEPT ![Len(pages)] = page]

presentPage(kind, below) ==
  /\ presented < MaxPages /\ presented' = presented + 1
  /\ pages' = Append(below, NewPage(kind))

\* UIKit presents nothing on a page that is covered or presents already.
Alerted(i, page, text) ==
  IF i = Len(pages) /\ page.homes = 0 /\ page.alert = "none"
  THEN [page EXCEPT !.alert = text] ELSE page

AlertedAtHome(page, text) ==
  IF page.homes > 0 /\ page.alert = "none" THEN [page EXCEPT !.alert = text] ELSE page

showIndicator(page) == [page EXCEPT !.huds = @ + 1]
\* a slip: the indicator stays
KeepIndicator(page) == page
hideIndicator(page) == [page EXCEPT !.huds = IF @ > 0 THEN @ - 1 ELSE 0]

-----------------------------------------------------------------------------
(***************************************************************************)
(* The user                                                                *)
(***************************************************************************)
\* Onboarding's Skip and Get Started, and toLoginScreen
toLoginPage ==
  /\ AtOnboarding \/ At("signup")
  /\ presentPage("login", pages)
  /\ UNCHANGED <<authVars, usersVars, trapped, restarts>>

didTapRegister ==
  /\ At("login")
  /\ presentPage("signup", pages)
  /\ UNCHANGED <<authVars, usersVars, trapped, restarts>>

\* A blank field is complained about, and sent.
loginButtonTapped(account) ==
  /\ At("login")
  /\ Call("login", account, Top.id)
  /\ pages' = OnTop(showIndicator(IF account = Blank THEN Alerted(Len(pages), Top, "incomplete") ELSE Top))
  /\ UNCHANGED <<usersVars, presented, trapped, restarts>>

\* validateTextField complains, but always answers true.  What it complains
\* about may be acceptable to the backend (a name of one word).
getStartedButton(account) ==
  /\ At("signup")
  /\ Call("signup", account, Top.id)
  /\ \E complaint \in {"invalid"} \cup (IF account = Blank THEN {} ELSE {"none"}) :
       pages' = OnTop(showIndicator(Alerted(Len(pages), Top, complaint)))
  /\ UNCHANGED <<usersVars, presented, trapped, restarts>>

\* The button of an alert; that of "created" leads to a login page.
alertClosed ==
  /\ ~trapped /\ pages # <<>> /\ Top.alert # "none"
  /\ LET closed == OnTop([Top EXCEPT !.alert = "none"])
     IN IF Top.alert = "created" THEN presentPage("login", closed)
        ELSE pages' = closed /\ UNCHANGED presented
  /\ UNCHANGED <<authVars, usersVars, trapped, restarts>>

\* a slip: the page stays
PageStays == pages
\* dismiss, called by a controller inside the page
Dismissed == Front(pages)

\* signOut fails if the keychain does.
didTapLogout ==
  /\ AtHome
  /\ \/ signOut /\ pages' = Dismissed
     \/ UNCHANGED authVars /\ pages' = OnTop(AlertedAtHome(Top, "error"))
  /\ UNCHANGED <<usersVars, presented, trapped, restarts>>

-----------------------------------------------------------------------------
(***************************************************************************)
(* Callbacks on the main queue                                             *)
(***************************************************************************)
Runs(kind) == ~trapped /\ main # <<>> /\ Head(main).kind = kind
callbackRun == main' = Tail(main) /\ UNCHANGED <<accounts, currentUser, requests, sent, overlapped, lapsed, unheard>>

IsFor(i) == pages[i].id = Head(main).page
Gone == \A i \in DOMAIN pages : ~IsFor(i)

navigateToHome(page) == [page EXCEPT !.homes = @ + 1]

\* Home on a page that shows loads at once, and reads docId!.
HomeTraps(i) == Head(main).ok /\ i = Len(pages) /\ currentUser = NoUser

\* The login page is captured weakly; if it has gone, a failure unwraps it.
loginAnswered ==
  /\ Runs("login") /\ callbackRun
  /\ \/ \E i \in DOMAIN pages :
          /\ IsFor(i)
          /\ LET page == hideIndicator(pages[i])
             IN pages' = [pages EXCEPT ![i] =
                            IF Head(main).ok THEN navigateToHome(page)
                            ELSE Alerted(i, page, "rejected")]
          /\ trapped' = HomeTraps(i)
     \/ Gone /\ trapped' = ~Head(main).ok /\ UNCHANGED pages
  /\ UNCHANGED <<usersVars, presented, restarts>>

\* The sign-up page is told of a failure; it keeps its indicator while the
\* profile is written.
createUserHandler(text) ==
  \E i \in DOMAIN pages :
     IsFor(i) /\ pages' = [pages EXCEPT ![i] = hideIndicator(Alerted(i, pages[i], text))]

\* a slip: an account is taken for a failure
NeverCreated(ok) == FALSE
Created(ok) == ok

\* a slip: the fields are read after they were emptied
SignedUpEmpty(account) == UserDoc(Blank, "")
\* a slip: arguments of one type change places
SignedUpSwapped(account) == UserDoc("", account)
\* address and phone number start empty
SignedUp(account) == UserDoc(account, "")

\* createUser's callback: the profile goes to the document of whoever is the
\* current user now
signupAnswered ==
  /\ Runs("signup") /\ callbackRun
  /\ \/ /\ ~Created(Head(main).ok) /\ createUserHandler("network")
        /\ UNCHANGED <<writes, saved, unkept, trapped>>
     \/ /\ Created(Head(main).ok) /\ currentUser = NoUser
        /\ trapped' = TRUE /\ unkept' = unkept \cup {Head(main).account}
        /\ UNCHANGED <<writes, saved, pages>>
     \/ /\ Created(Head(main).ok) /\ currentUser # NoUser
        /\ setData(SignedUp(Head(main).account), Head(main).page, "profile")
        /\ UNCHANGED <<pages, trapped>>
  /\ UNCHANGED <<users, presented, restarts>>

\* setData's completion: the handler hears "true" if there was an error and
\* nothing otherwise
profileWritten ==
  /\ Runs("profile") /\ callbackRun
  /\ \/ ~Head(main).ok /\ createUserHandler("created")
     \/ Head(main).ok /\ UNCHANGED pages
  /\ UNCHANGED <<usersVars, presented, trapped, restarts>>

DecideWrite == ~trapped /\ \E i \in 1..saved : Decide(i) /\ UNCHANGED screenVars

AnswerCall == ~trapped /\ Answer /\ UNCHANGED <<usersVars, screenVars>>

TokenRefused == ~trapped /\ signOutByForceWithUserID /\ UNCHANGED <<usersVars, screenVars>>

\* the app starts with Onboarding, whoever the current user is
appRestart ==
  /\ restarts < MaxRestarts /\ restarts' = restarts + 1
  /\ AuthRestart /\ UsersRestart
  /\ pages' = <<>> /\ trapped' = FALSE /\ UNCHANGED presented
=============================================================================
