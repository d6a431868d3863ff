------------------------------- MODULE Profile ------------------------------
(***************************************************************************)
(* The Profile tab of the Home on the screen (ProfileViewController and    *)
(* ProfileViewModel), composed with the session around it.  The details    *)
(* are fetched once, when the tab is first shown, and brought into the     *)
(* form by a block; Edit and Done may be tapped before that.               *)
(***************************************************************************)
EXTENDS Session

CONSTANT MaxSaves   \* bound: writes of the form

ASSUME SavesAssumption == MaxSaves \in Nat

VARIABLES
  form,      \* the tab of the Home on top
  saves,     \* writes of forms so far
  nameless   \* history variable: a form without a name on it was saved

formVars == <<form, saves, nameless>>
vars == <<sessionVars, formVars>>

\* No controller yet: of is the account whose document is fetched; email
\* (with the name) and contact are the view model's; label and text are on
\* the screen; remembered is the text when Edit was tapped; ahead counts the
\* writes that wait on the worker before the fetch.
NoForm == [stage |-> "none", of |-> NoUser, email |-> Blank, contact |-> "", label |-> Blank,
           text |-> "", remembered |-> "", editing |-> FALSE, ahead |-> 0]

Init == SessionInit /\ form = NoForm /\ saves = 0 /\ nameless = FALSE

\* The Home on the screen goes with its page, or under another Home.
HomeId == IF pages = <<>> THEN <<>> ELSE <<Top.id, Top.homes>>
SessionStep ==
  /\ \/ toLoginPage \/ didTapRegister \/ alertClosed \/ didTapLogout
     \/ \E a \in Accounts \cup {Blank} : loginButtonTapped(a) \/ getStartedButton(a)
     \/ loginAnswered \/ signupAnswered \/ profileWritten
     \/ DecideWrite \/ AnswerCall \/ TokenRefused \/ appRestart
  /\ form' = IF HomeId' = HomeId THEN form ELSE NoForm
  /\ UNCHANGED <<saves, nameless>>

\* viewDidLoad: docId! is the current user's
viewDidLoad ==
  /\ AtHome /\ form.stage = "none"
  /\ IF currentUser = NoUser THEN trapped' = TRUE /\ UNCHANGED form
     ELSE /\ form' = [form EXCEPT !.stage = "fetching", !.of = currentUser,
                                  !.ahead = Len(writes) - saved]
          /\ UNCHANGED trapped
  /\ UNCHANGED <<authVars, usersVars, pages, presented, restarts, saves, nameless>>

DetailsTaken(doc) ==
  [form EXCEPT !.stage = "posted", !.email = doc.who, !.contact = doc.contact]

worker ==
  /\ ~trapped /\ WriteMutations
  /\ form' = [form EXCEPT !.ahead = IF @ > 0 THEN @ - 1 ELSE 0]
  /\ UNCHANGED <<screenVars, saves, nameless>>

\* getDocument's answer, which may be an error, posts the block in any case
profileFetched ==
  /\ ~trapped /\ form.stage = "fetching" /\ form.ahead = 0
  /\ \/ Seen(form.of) # NoDoc /\ form' = DetailsTaken(Seen(form.of))
     \/ form' = [form EXCEPT !.stage = "posted"]
  /\ UNCHANGED <<sessionVars, saves, nameless>>

notificationCompletion ==
  /\ ~trapped /\ form.stage = "posted"
  /\ form' = [form EXCEPT !.stage = "shown", !.label = form.email, !.text = form.contact]
  /\ UNCHANGED <<sessionVars, saves, nameless>>

editButton ==
  /\ AtHome /\ form.stage # "none" /\ ~form.editing
  /\ form' = [form EXCEPT !.editing = TRUE, !.remembered = form.text]
  /\ UNCHANGED <<sessionVars, saves, nameless>>

typeContact(text) ==
  /\ AtHome /\ form.editing /\ form' = [form EXCEPT !.text = text]
  /\ UNCHANGED <<sessionVars, saves, nameless>>

\* Done: what differs from what Edit remembered is written, with the name and
\* the email that the view model has now, to the current user's document
saveButton ==
  /\ AtHome /\ form.editing
  /\ form' = [form EXCEPT !.editing = FALSE]
  /\ IF form.text = form.remembered THEN UNCHANGED <<writes, saved, unkept, trapped, saves, nameless>>
     ELSE /\ saves < MaxSaves /\ saves' = saves + 1
          /\ nameless' = (nameless \/ form.label = Blank)
          /\ IF currentUser = NoUser THEN trapped' = TRUE /\ UNCHANGED <<writes, saved, unkept>>
             ELSE setData(UserDoc(form.email, form.text), Top.id, "save") /\ UNCHANGED trapped
  /\ UNCHANGED <<authVars, users, pages, presented, restarts>>

\* updateProfile's completion, an alert on the Profile screen, if it is there
profileUpdated ==
  /\ Runs("save") /\ callbackRun
  /\ pages' = IF pages = <<>> \/ Top.id # Head(main).page THEN pages
              ELSE OnTop(AlertedAtHome(Top, IF Head(main).ok THEN "updated" ELSE "error"))
  /\ UNCHANGED <<usersVars, presented, trapped, restarts, formVars>>

Next ==
  \/ SessionStep
  \/ viewDidLoad \/ worker \/ profileFetched \/ notificationCompletion
  \/ editButton \/ (\E text \in Contacts : typeContact(text)) \/ saveButton
  \/ profileUpdated

Spec == Init /\ [][Next]_vars

\* Auth calls back in the end, if only with a timeout, and the main queue runs
\* what is waiting.  Users, writes and restarts are under no obligation.
MainStep == loginAnswered \/ signupAnswered \/ profileWritten
FairSpec ==
  /\ Spec
  /\ WF_vars(SessionStep /\ AnswerCall)
  /\ WF_vars((SessionStep /\ MainStep) \/ profileUpdated)

-----------------------------------------------------------------------------
(***************************************************************************)
(* Properties                                                              *)
(***************************************************************************)
Waiting(id) ==
  Cardinality({r \in requests : r.page = id})
    + Cardinality({i \in DOMAIN main : main[i].page = id /\ main[i].kind \in {"login", "signup"}})

Requests == [kind : {"login", "signup"}, account : Accounts \cup {Blank},
             page : 1..MaxPages, no : 1..MaxRequests]
Callbacks == [kind : {"login", "signup", "profile", "save"}, account : Accounts \cup {Blank},
              page : 1..MaxPages, ok : BOOLEAN]
Writes == [to : Accounts, doc : UserDocs, page : 0..MaxPages, kind : {"profile", "save"}]
Alerts == {"none", "incomplete", "invalid", "rejected", "network", "created", "updated", "error"}
PageStates == [kind : {"login", "signup"}, id : 1..MaxPages, homes : Nat, huds : Nat, alert : Alerts]
Forms == [stage : {"none", "fetching", "posted", "shown"}, of : Accounts \cup {NoUser},
          email : Accounts \cup {Blank}, contact : Contacts, label : Accounts \cup {Blank},
          text : Contacts, remembered : Contacts, editing : BOOLEAN, ahead : Nat]

AuthTyped ==
  /\ accounts \subseteq Accounts /\ currentUser \in Accounts \cup {NoUser}
  /\ requests \subseteq Requests /\ main \in Seq(Callbacks)
  /\ sent \in 0..MaxRequests /\ overlapped \in BOOLEAN
  /\ lapsed \in BOOLEAN /\ unheard \subseteq Accounts \cup {Blank}
UsersTyped ==
  /\ users \in [Accounts -> UserDocs \cup {NoDoc}] /\ writes \in Seq(Writes)
  /\ saved \in 0..Len(writes) /\ unkept \subseteq Accounts \cup {Blank}
ScreenTyped ==
  /\ pages \in Seq(PageStates) /\ presented \in 0..MaxPages
  /\ trapped \in BOOLEAN /\ restarts \in 0..MaxRestarts
FormTyped == form \in Forms /\ saves \in 0..MaxSaves /\ nameless \in BOOLEAN

\* Type invariant.
TypeOK == AuthTyped /\ UsersTyped /\ ScreenTyped /\ FormTyped

\* Unless Auth has signed them out by itself, whoever looks at Home is signed
\* in, so that its forced unwrappings of the current user succeed: also when
\* answers of earlier taps, of other pages and of sign-ups come late, in any
\* order, or after a logout.
HomeHasUser == pages # <<>> /\ Top.homes > 0 /\ ~lapsed => currentUser # NoUser

\* A login page says "Loading..." exactly as often as it waits for an answer,
\* whatever was tapped meanwhile; a sign-up page says so at least as often.
IndicatorsTellTheTruth ==
  \A i \in DOMAIN pages :
    /\ pages[i].kind = "login" => pages[i].huds = Waiting(pages[i].id)
    /\ pages[i].huds >= Waiting(pages[i].id)

\* The forced unwrappings of the session (self!, docId! and currentUser!) fail
\* only if a call to Auth was made while another was under way, or Auth has
\* signed the user out by itself and nobody has logged in since.
TrapNeedsOverlap == trapped => overlapped \/ lapsed

\* A user's document always says whose it is, whichever screen wrote it: the
\* form with the details fetched earlier or sign-up with what was typed, both
\* to the document of whoever is current by then.  It needs users who wait for
\* Auth's answer, and for their name before they tap Done.
NamesItsOwner(doc, a) == doc = NoDoc \/ doc.who = a
DocumentsNameTheirOwner ==
  ~overlapped /\ ~nameless =>
    /\ \A a \in Accounts : NamesItsOwner(users[a], a)
    /\ \A i \in DOMAIN writes : NamesItsOwner(writes[i].doc, writes[i].to)

\* No login page says "Loading..." for ever, however Auth answers and however
\* often the user taps meanwhile.
Loading == \E i \in DOMAIN pages : pages[i].kind = "login" /\ pages[i].huds > 0
LoginIsAnswered == []<>(trapped \/ ~Loading)

\* An account that exists has its document, or the document is on its way: the
\* callback of its creation, or a write, waits.  If not, the answer to its
\* creation was lost, or the write was refused, lost before it was persisted or
\* impossible for want of a user; or calls overlapped, and the document went to
\* another account.  Logouts and kills of the app do not lose it on the way.
OnItsWay(a) == a \in Told(main) \/ \E i \in DOMAIN writes : writes[i].to = a
AccountHasProfile ==
  \A a \in accounts :
    users[a] # NoDoc \/ OnItsWay(a) \/ a \in unheard \/ a \in unkept \/ overlapped

\* "Account created successfully" is said of an account that is complete.
CreatedMeansSaved ==
  pages # <<>> /\ Top.alert = "created" => currentUser # NoUser /\ users[currentUser] # NoDoc
=============================================================================
