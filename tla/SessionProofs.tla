---------------------------- MODULE SessionProofs ---------------------------
(***************************************************************************)
(* Whoever looks at Home is signed in unless Auth has signed them out by   *)
(* itself, a page says Loading while it waits, only that and overlapping   *)
(* calls trap, documents name their owner, and an account has its document *)
(* unless something is known to have failed: for every number of accounts, *)
(* calls, pages, saves and restarts.                                       *)
(*                                                                         *)
(* The argument for Home: page numbers are never used twice, so whatever   *)
(* is under way for a page (a call, a write, a callback) speaks of a page  *)
(* of its own kind.  Login and sign-up pages alternate, so that behind a   *)
(* login page that is logged out of there is a sign-up page, on which no   *)
(* answer to an earlier login can push a Home.                             *)
(*                                                                         *)
(* For the indicators: a login page has exactly as many as there are calls *)
(* and callbacks that will take one off it again (Indicated), counted by   *)
(* ArrayLemmas' Count; a sign-up page has at least as many.  For the       *)
(* traps: while no two calls have overlapped, at most one is under way,    *)
(* from a page that is still there and under no Home (Calm).  For the      *)
(* documents: while no calls overlap and until a nameless form is saved, a *)
(* form is the current user's, and the names in it are blank or its        *)
(* owner's (OwnerInv).                                                     *)
(***************************************************************************)
EXTENDS Profile, ArrayLemmas, TLAPS

Kinds == {"login", "signup"}

\* The kind of page that a write or a callback of that kind belongs to.
PageKind(kind) == IF kind \in {"login", "save"} THEN "login" ELSE "signup"

\* A page with that number, if there is or was one, is of that kind.
Is(id, kind) ==
  id <= presented /\ \A j \in 1..Len(pages) : pages[j].id = id => pages[j].kind = kind

PagesNumbered == \A i \in 1..Len(pages) : Is(pages[i].id, pages[i].kind)
RequestsFit == \A r \in requests : Is(r.page, r.kind)
CallbacksFit == \A i \in 1..Len(main) : Is(main[i].page, PageKind(main[i].kind))
WritesFit ==
  \A i \in 1..Len(writes) : writes[i].page # 0 => Is(writes[i].page, PageKind(writes[i].kind))
Numbered == PagesNumbered /\ RequestsFit /\ CallbacksFit /\ WritesFit

Alternate == \A i \in 1..(Len(pages) - 1) : pages[i].kind # pages[i + 1].kind
Fits(page) ==
  /\ page.homes > 0 => page.kind = "login"
  /\ page.alert = "created" => page.kind = "signup"
PagesFit == \A i \in 1..Len(pages) : Fits(pages[i])
PagesSound == Alternate /\ PagesFit

\* Without a user there is no Home on top, nor a callback that pushes one,
\* unless Auth has signed the user out by itself.
HomeFor(i, id) == main[i].kind = "login" /\ main[i].ok /\ main[i].page = id
SignedIn ==
  /\ lapsed => currentUser = NoUser
  /\ currentUser = NoUser /\ ~lapsed /\ pages # <<>> =>
       Top.homes = 0 /\ \A i \in 1..Len(main) : ~HomeFor(i, Top.id)

StateTyped == AuthTyped /\ UsersTyped /\ ScreenTyped
SessionInv == StateTyped /\ Numbered /\ PagesSound /\ SignedIn

\* The tab that fetches does so for an account.
FormInv == FormTyped /\ (form.stage # "none" => form.of \in Accounts)

IInv == SessionInv /\ FormInv

-----------------------------------------------------------------------------
(***************************************************************************)
(* Pages                                                                   *)
(***************************************************************************)
LEMMA TopProperties ==
  ASSUME pages \in Seq(PageStates), pages # <<>>
  PROVE  /\ Len(pages) \in Nat \ {0} /\ Len(pages) \in 1..Len(pages)
         /\ Top = pages[Len(pages)] /\ Top \in PageStates
<1>1. Len(pages) \in Nat \ {0}
  BY EmptySeq
<1>2. Top = pages[Len(pages)]
  BY DEF Top, Last
<1>3. QED
  BY <1>1, <1>2, ElementOfSeq

\* Every page was there before with its number and kind, or is the next one.
Evolve ==
  /\ presented' \in Nat /\ presented <= presented'
  /\ \A j \in 1..Len(pages') :
       \/ \E i \in 1..Len(pages) : pages'[j].id = pages[i].id /\ pages'[j].kind = pages[i].kind
       \/ pages'[j].id = presented + 1 /\ presented' = presented + 1

\* What is said of a page number stays true, as numbers are used once.
LEMMA IsStays ==
  ASSUME Evolve, presented \in Nat, NEW id \in Nat, NEW kind \in Kinds, Is(id, kind)
  PROVE  id <= presented' /\ \A j \in 1..Len(pages') : pages'[j].id = id => pages'[j].kind = kind
<1>1. id <= presented'
  BY DEF Evolve, Is
<1>2. ASSUME NEW j \in 1..Len(pages'), pages'[j].id = id PROVE pages'[j].kind = kind
  <2>1. ~(pages'[j].id = presented + 1)
    BY <1>2 DEF Is
  <2>2. PICK i \in 1..Len(pages) : pages'[j].id = pages[i].id /\ pages'[j].kind = pages[i].kind
    BY <2>1 DEF Evolve
  <2>3. QED
    BY <1>2, <2>2 DEF Is
<1>3. QED
  BY <1>1, <1>2

\* A page of this step has the number and the kind of one before, or it is new.
NumbersKept ==
  /\ Evolve
  /\ \A j \in 1..Len(pages') :
       pages'[j].id <= presented => Is(pages'[j].id, pages'[j].kind)
  /\ \A j, k \in 1..Len(pages') :
       pages'[j].id > presented /\ pages'[k].id > presented => pages'[j].kind = pages'[k].kind

\* Every page number of a state is within those given.
LEMMA NumbersGiven ==
  ASSUME ScreenTyped, PagesNumbered
  PROVE  \A j \in 1..Len(pages) :
           /\ pages[j].id \in Nat /\ ~(pages[j].id > presented)
           /\ Is(pages[j].id, pages[j].kind)
<1> SUFFICES ASSUME NEW j \in 1..Len(pages)
             PROVE  /\ pages[j].id \in Nat /\ ~(pages[j].id > presented)
                    /\ Is(pages[j].id, pages[j].kind)
  OBVIOUS
<1>1. pages[j] \in PageStates
  BY ElementOfSeq DEF ScreenTyped
<1>2. pages[j].id \in Nat
  BY <1>1 DEF PageStates
<1>3. Is(pages[j].id, pages[j].kind)
  BY DEF PagesNumbered
<1>4. pages[j].id <= presented /\ presented \in Nat
  BY <1>3, PagesAssumption DEF Is, ScreenTyped
<1>5. QED
  BY <1>2, <1>3, <1>4

\* What is under way after the step fits the pages before it.
RequestsStay == \A r \in requests' : Is(r.page, r.kind)
CallbacksStay == \A i \in 1..Len(main') : Is(main'[i].page, PageKind(main'[i].kind))
WritesStay ==
  \A i \in 1..Len(writes') :
    writes'[i].page # 0 => Is(writes'[i].page, PageKind(writes'[i].kind))

\* The numbering survives a step, if what the step adds fits the pages it
\* starts from.
LEMMA NumberedStays ==
  ASSUME StateTyped, StateTyped', Numbered, NumbersKept,
         RequestsStay, CallbacksStay, WritesStay
  PROVE  Numbered'
<1>1. presented \in Nat /\ presented' \in Nat /\ MaxPages \in Nat
  BY PagesAssumption DEF StateTyped, ScreenTyped
<1>2. \A id \in Nat, kind \in Kinds : Is(id, kind) =>
        id <= presented' /\ \A j \in 1..Len(pages') : pages'[j].id = id => pages'[j].kind = kind
  BY <1>1, IsStays DEF NumbersKept
<1>3. \A id \in Nat, kind \in Kinds : Is(id, kind) => Is(id, kind)'
  BY <1>2 DEF Is
<1>4. PagesNumbered'
  <2> SUFFICES ASSUME NEW j \in 1..Len(pages') PROVE Is(pages[j].id, pages[j].kind)'
    BY DEF PagesNumbered
  <2>1. pages'[j] \in PageStates
    BY ElementOfSeq DEF StateTyped, ScreenTyped
  <2>2. pages'[j].id \in 1..MaxPages /\ pages'[j].kind \in Kinds
    BY <2>1 DEF PageStates, Kinds
  <2>3. CASE pages'[j].id <= presented
    <3>1. Is(pages'[j].id, pages'[j].kind)
      BY <2>3 DEF NumbersKept
    <3>2. /\ pages'[j].id <= presented'
          /\ \A k \in 1..Len(pages') : pages'[k].id = pages'[j].id => pages'[k].kind = pages'[j].kind
      BY <1>2, <2>2, <3>1
    <3>3. QED
      BY <3>2 DEF Is
  <2>4. CASE pages'[j].id > presented
    <3>1. pages'[j].id <= presented'
      <4>1. \A i \in 1..Len(pages) : pages'[j].id # pages[i].id
        BY <2>4, NumbersGiven DEF StateTyped, Numbered
      <4>2. pages'[j].id = presented + 1 /\ presented' = presented + 1
        BY <4>1 DEF NumbersKept, Evolve
      <4>3. QED
        BY <1>1, <4>2
    <3>2. QED
      BY <2>4, <3>1 DEF NumbersKept, Is
  <2>5. QED
    BY <1>1, <2>2, <2>3, <2>4
<1>5. RequestsFit'
  <2> SUFFICES ASSUME NEW r \in requests' PROVE Is(r.page, r.kind)'
    BY DEF RequestsFit
  <2>1. r.page \in Nat /\ r.kind \in Kinds
    BY DEF StateTyped, AuthTyped, Requests, Kinds
  <2>2. QED
    BY <1>3, <2>1 DEF RequestsStay
<1>6. CallbacksFit'
  <2> SUFFICES ASSUME NEW i \in 1..Len(main') PROVE Is(main[i].page, PageKind(main[i].kind))'
    BY DEF CallbacksFit
  <2>1. main'[i] \in Callbacks
    BY ElementOfSeq DEF StateTyped, AuthTyped
  <2>2. main'[i].page \in Nat /\ PageKind(main'[i].kind) \in Kinds
    BY <2>1 DEF Callbacks, PageKind, Kinds
  <2>3. QED
    BY <1>2, <2>2 DEF CallbacksStay, Is, PageKind
<1>7. WritesFit'
  <2> SUFFICES ASSUME NEW i \in 1..Len(writes'), writes'[i].page # 0
               PROVE  Is(writes[i].page, PageKind(writes[i].kind))'
    BY DEF WritesFit
  <2>1. writes'[i] \in Writes
    BY ElementOfSeq DEF StateTyped, UsersTyped
  <2>2. writes'[i].page \in Nat /\ PageKind(writes'[i].kind) \in Kinds
    BY <2>1 DEF Writes, PageKind, Kinds
  <2>3. QED
    BY <1>2, <2>2 DEF WritesStay, Is, PageKind
<1>8. QED
  BY <1>4, <1>5, <1>6, <1>7 DEF Numbered

LEMMA KeptNumbers ==
  ASSUME ScreenTyped, PagesNumbered, presented' = presented, Len(pages') \in Nat,
         \A j \in 1..Len(pages') :
           \E i \in 1..Len(pages) : pages'[j].id = pages[i].id /\ pages'[j].kind = pages[i].kind
  PROVE  NumbersKept
<1>1. presented \in Nat
  BY PagesAssumption DEF ScreenTyped
<1>2. Evolve
  BY <1>1 DEF Evolve
<1>3. \A j \in 1..Len(pages') :
        ~(pages'[j].id > presented) /\ Is(pages'[j].id, pages'[j].kind)
  BY NumbersGiven
<1>4. QED
  BY <1>2, <1>3 DEF NumbersKept

LEMMA SamePages ==
  ASSUME ScreenTyped, PagesNumbered, PagesSound, UNCHANGED <<pages, presented>>
  PROVE  NumbersKept /\ PagesSound'
<1>1. Len(pages) \in Nat
  BY LenProperties DEF ScreenTyped
<1>2. NumbersKept
  BY <1>1, KeptNumbers
<1>3. QED
  BY <1>2 DEF PagesSound, Alternate, PagesFit, Fits

\* One page changes in its indicators, its alert or its Homes.
LEMMA ReplacePage ==
  ASSUME ScreenTyped, PagesNumbered, PagesSound,
         NEW i \in 1..Len(pages), NEW page \in PageStates,
         page.kind = pages[i].kind, page.id = pages[i].id, Fits(page),
         pages' = [pages EXCEPT ![i] = page], presented' = presented
  PROVE  /\ pages' \in Seq(PageStates) /\ Len(pages') = Len(pages)
         /\ \A j \in 1..Len(pages) : pages'[j] = IF j = i THEN page ELSE pages[j]
         /\ NumbersKept /\ PagesSound'
<1>1. /\ pages' \in Seq(PageStates) /\ Len(pages') = Len(pages)
      /\ \A j \in 1..Len(pages) : pages'[j] = IF j = i THEN page ELSE pages[j]
  BY ExceptSeq DEF ScreenTyped
<1>2. presented \in Nat /\ Len(pages) \in Nat
  BY PagesAssumption, LenProperties DEF ScreenTyped
<1>3. \A j \in 1..Len(pages) : pages'[j].id = pages[j].id /\ pages'[j].kind = pages[j].kind
  BY <1>1
<1>5. NumbersKept
  BY <1>1, <1>2, <1>3, KeptNumbers
<1>6. Alternate'
  BY <1>1, <1>2, <1>3 DEF PagesSound, Alternate
<1>7. PagesFit'
  BY <1>1 DEF PagesSound, PagesFit, Fits
<1>8. QED
  BY <1>1, <1>5, <1>6, <1>7 DEF PagesSound

\* A page of the other kind is presented.
LEMMA PushPage ==
  ASSUME ScreenTyped, PagesNumbered, PagesSound,
         NEW kind \in Kinds, NEW below \in Seq(PageStates), Len(below) = Len(pages),
         \A j \in 1..Len(pages) :
           below[j].id = pages[j].id /\ below[j].kind = pages[j].kind /\ Fits(below[j]),
         pages # <<>> => Top.kind # kind,
         presentPage(kind, below)
  PROVE  /\ pages' \in Seq(PageStates) /\ presented' \in 0..MaxPages
         /\ pages' # <<>> /\ Top' = NewPage(kind)
         /\ NumbersKept /\ PagesSound'
<1>1. presented \in Nat /\ Len(pages) \in Nat /\ MaxPages \in Nat
  BY PagesAssumption, LenProperties DEF ScreenTyped
<1>2. presented' = presented + 1 /\ presented < MaxPages /\ pages' = Append(below, NewPage(kind))
  BY DEF presentPage
<1>3. NewPage(kind) \in PageStates
  BY <1>1, <1>2 DEF NewPage, PageStates, Kinds, Alerts
<1>4. /\ pages' \in Seq(PageStates) /\ pages' # <<>> /\ Len(pages') = Len(pages) + 1
      /\ \A j \in 1..Len(pages) : pages'[j] = below[j]
      /\ pages'[Len(pages) + 1] = NewPage(kind)
  BY <1>2, <1>3, AppendProperties
<1>5. /\ NewPage(kind).id = presented + 1 /\ NewPage(kind).kind = kind
      /\ Fits(NewPage(kind))
  BY DEF NewPage, Fits
<1>6. Top' = NewPage(kind)
  BY <1>4 DEF Top, Last
<1>7. \A j \in 1..Len(pages') :
        \/ /\ j \in 1..Len(pages)
           /\ pages'[j].id = pages[j].id /\ pages'[j].kind = pages[j].kind /\ Fits(pages'[j])
        \/ j = Len(pages) + 1 /\ pages'[j] = NewPage(kind)
  BY <1>1, <1>4
<1>8. Evolve
  BY <1>1, <1>2, <1>5, <1>7 DEF Evolve
<1>9. NumbersKept
  <2>1. \A j \in 1..Len(pages) : Is(pages[j].id, pages[j].kind)
    BY NumbersGiven
  <2>2. \A j \in 1..Len(pages') :
          pages'[j].id <= presented => Is(pages'[j].id, pages'[j].kind)
    BY <1>1, <1>5, <1>7, <2>1
  <2>3. \A j \in 1..Len(pages) : ~(pages[j].id > presented)
    BY NumbersGiven
  <2>4. QED
    BY <1>5, <1>7, <1>8, <2>2, <2>3 DEF NumbersKept
<1>10. Alternate'
  <2> SUFFICES ASSUME NEW j \in 1..(Len(pages') - 1) PROVE pages'[j].kind # pages'[j + 1].kind
    BY DEF Alternate
  <2>1. CASE j < Len(pages)
    <3>1. j \in 1..(Len(pages) - 1) /\ j + 1 \in 1..Len(pages)
      BY <1>1, <1>4, <2>1
    <3>2. QED
      BY <1>4, <3>1 DEF PagesSound, Alternate
  <2>2. CASE ~(j < Len(pages))
    <3>1. j = Len(pages) /\ pages # <<>>
      BY <1>1, <1>4, <2>2, EmptySeq
    <3>2. pages'[j].kind = Top.kind
      BY <1>1, <1>4, <3>1 DEF Top, Last
    <3>3. QED
      BY <1>1, <1>4, <1>5, <3>1, <3>2
  <2>3. QED
    BY <2>1, <2>2
<1>11. PagesFit'
  BY <1>5, <1>7 DEF PagesFit, Fits
<1>12. QED
  BY <1>1, <1>2, <1>4, <1>6, <1>9, <1>10, <1>11 DEF PagesSound

-----------------------------------------------------------------------------
(***************************************************************************)
(* Calls, callbacks and writes                                             *)
(***************************************************************************)
LEMMA NothingAdded ==
  ASSUME Numbered
  PROVE  /\ requests' \subseteq requests => RequestsStay
         /\ main' = main => CallbacksStay
         /\ writes' = writes => WritesStay
BY DEF Numbered, RequestsFit, CallbacksFit, WritesFit, RequestsStay, CallbacksStay, WritesStay

LEMMA CallbackAdded ==
  ASSUME main \in Seq(Callbacks), CallbacksFit,
         NEW c \in Callbacks, Is(c.page, PageKind(c.kind)), main' = Append(main, c)
  PROVE  /\ main' \in Seq(Callbacks) /\ CallbacksStay
         /\ \A i \in 1..Len(main') : main'[i] = c \/ \E k \in 1..Len(main) : main'[i] = main[k]
<1>1. /\ main' \in Seq(Callbacks) /\ Len(main') = Len(main) + 1 /\ Len(main) \in Nat
      /\ \A i \in 1..Len(main) : main'[i] = main[i]
      /\ main'[Len(main) + 1] = c
  BY AppendProperties, LenProperties
<1>2. \A i \in 1..Len(main') : i \in 1..Len(main) \/ i = Len(main) + 1
  BY <1>1
<1>3. CallbacksStay
  BY <1>1, <1>2 DEF CallbacksFit, CallbacksStay
<1>4. QED
  BY <1>1, <1>2, <1>3

LEMMA CallbackRuns ==
  ASSUME main \in Seq(Callbacks), CallbacksFit, main # <<>>, main' = Tail(main)
  PROVE  /\ Head(main) \in Callbacks /\ Is(Head(main).page, PageKind(Head(main).kind))
         /\ 1 \in 1..Len(main) /\ Head(main) = main[1]
         /\ main' \in Seq(Callbacks) /\ CallbacksStay
         /\ \A i \in 1..Len(main') : \E k \in 1..Len(main) : main'[i] = main[k]
<1>1. /\ Head(main) \in Callbacks /\ main' \in Seq(Callbacks)
      /\ Len(main') = Len(main) - 1
      /\ \A i \in 1..Len(Tail(main)) : main'[i] = main[i + 1]
  BY HeadTailProperties
<1>2. Len(main) \in Nat \ {0} /\ Head(main) = main[1]
  BY EmptySeq
<1>3. \A i \in 1..Len(main') : i + 1 \in 1..Len(main) /\ main'[i] = main[i + 1]
  BY <1>1, <1>2
<1>4. CallbacksStay
  BY <1>3 DEF CallbacksFit, CallbacksStay
<1>5. 1 \in 1..Len(main) /\ Is(Head(main).page, PageKind(Head(main).kind))
  BY <1>2 DEF CallbacksFit
<1>6. QED
  BY <1>1, <1>2, <1>3, <1>4, <1>5

LEMMA WriteAdded ==
  ASSUME writes \in Seq(Writes), WritesFit, currentUser \in Accounts,
         NEW doc \in UserDocs, NEW page \in 1..MaxPages, NEW kind \in {"profile", "save"},
         Is(page, PageKind(kind)), setData(doc, page, kind)
  PROVE  /\ writes' \in Seq(Writes) /\ WritesStay
         /\ Len(writes') = Len(writes) + 1 /\ Len(writes) \in Nat
         /\ saved' = saved /\ unkept' = unkept
<1> DEFINE w == [to |-> currentUser, doc |-> doc, page |-> page, kind |-> kind]
<1>1. w \in Writes /\ w.page = page /\ w.kind = kind
  BY PagesAssumption DEF Writes
<1>2. writes' = Append(writes, w)
  BY DEF setData
<1> HIDE DEF w
<1>3. /\ writes' \in Seq(Writes) /\ Len(writes') = Len(writes) + 1 /\ Len(writes) \in Nat
      /\ \A i \in 1..Len(writes) : writes'[i] = writes[i]
      /\ writes'[Len(writes) + 1] = w
  BY <1>1, <1>2, AppendProperties, LenProperties
<1>4. \A i \in 1..Len(writes') : i \in 1..Len(writes) \/ i = Len(writes) + 1
  BY <1>3
<1>5. QED
  BY <1>1, <1>3, <1>4 DEF WritesFit, WritesStay, setData

LEMMA WriteRemoved ==
  ASSUME writes \in Seq(Writes), WritesFit, NEW i \in 1..Len(writes), writes' = RemoveAt(writes, i)
  PROVE  /\ writes' \in Seq(Writes) /\ WritesStay
         /\ Len(writes') = Len(writes) - 1 /\ Len(writes) \in Nat
<1>1. /\ writes' \in Seq(Writes) /\ Len(writes') = Len(writes) - 1 /\ Len(writes) \in Nat
      /\ \A j \in 1..(Len(writes) - 1) : writes'[j] = IF j < i THEN writes[j] ELSE writes[j + 1]
  BY RemoveAtProperties, LenProperties
<1>2. \A j \in 1..Len(writes') : \E k \in 1..Len(writes) : writes'[j] = writes[k]
  <2> SUFFICES ASSUME NEW j \in 1..Len(writes')
               PROVE  \E k \in 1..Len(writes) : writes'[j] = writes[k]
    OBVIOUS
  <2>1. j \in 1..Len(writes) /\ j + 1 \in 1..Len(writes) /\ j \in 1..(Len(writes) - 1)
    BY <1>1
  <2>2. writes'[j] = writes[j] \/ writes'[j] = writes[j + 1]
    BY <1>1, <2>1
  <2>3. QED
    BY <2>1, <2>2
<1>3. QED
  BY <1>1, <1>2 DEF WritesFit, WritesStay

\* After a restart nobody hears of the writes that wait.
LEMMA WritesOrphaned ==
  ASSUME UsersTyped, UsersRestart
  PROVE  /\ writes' \in Seq(Writes) /\ WritesStay /\ Len(writes') = saved
         /\ \A i \in 1..saved :
              /\ i \in 1..Len(writes)
              /\ writes'[i].doc = writes[i].doc /\ writes'[i].to = writes[i].to
<1>1. /\ Len(writes) \in Nat /\ saved \in Nat /\ saved <= Len(writes)
      /\ \A i \in 1..Len(writes) : writes[i] \in Writes
  BY LenProperties, ElementOfSeq DEF UsersTyped
<1>2. writes' = [i \in 1..saved |-> [writes[i] EXCEPT !.page = 0]]
  BY DEF UsersRestart
<1>3. \A i \in 1..saved :
        /\ i \in 1..Len(writes) /\ writes'[i] \in Writes /\ writes'[i].page = 0
        /\ writes'[i].doc = writes[i].doc /\ writes'[i].to = writes[i].to
  <2> SUFFICES ASSUME NEW i \in 1..saved
               PROVE  /\ i \in 1..Len(writes) /\ writes'[i] \in Writes /\ writes'[i].page = 0
                      /\ writes'[i].doc = writes[i].doc /\ writes'[i].to = writes[i].to
    OBVIOUS
  <2>1. /\ i \in 1..Len(writes) /\ writes[i] \in Writes
        /\ writes'[i] = [writes[i] EXCEPT !.page = 0] /\ 0 \in 0..MaxPages
    BY <1>1, <1>2, PagesAssumption
  <2>2. QED
    BY <2>1 DEF Writes
<1>4. writes' \in [1..saved -> Writes]
  BY <1>2, <1>3
<1>5. writes' \in Seq(Writes) /\ Len(writes') = saved
  BY <1>1, <1>4
<1>6. QED
  BY <1>3, <1>5 DEF WritesStay

-----------------------------------------------------------------------------
(***************************************************************************)
(* Steps                                                                   *)
(***************************************************************************)
\* All but the pages is sound after the step, and no new callback pushes a Home.
NoNewHome ==
  /\ lapsed' => currentUser' = NoUser
  /\ currentUser' = NoUser /\ ~lapsed' => currentUser = NoUser /\ ~lapsed
  /\ \A i \in 1..Len(main') :
       (\E k \in 1..Len(main) : main'[i] = main[k]) \/ ~(main'[i].kind = "login" /\ main'[i].ok)
OthersStay ==
  /\ AuthTyped' /\ UsersTyped' /\ trapped' \in BOOLEAN /\ restarts' = restarts
  /\ RequestsStay /\ CallbacksStay /\ WritesStay /\ NoNewHome

LEMMA OthersUnchanged ==
  ASSUME SessionInv, UNCHANGED <<authVars, usersVars, restarts>>, trapped' \in BOOLEAN
  PROVE  OthersStay
<1>1. AuthTyped' /\ UsersTyped'
  BY DEF SessionInv, StateTyped, AuthTyped, UsersTyped, authVars, usersVars
<1>2. RequestsStay /\ CallbacksStay /\ WritesStay
  BY NothingAdded DEF SessionInv, authVars, usersVars
<1>3. NoNewHome
  BY DEF NoNewHome, authVars, SessionInv, SignedIn
<1>4. QED
  BY <1>1, <1>2, <1>3 DEF OthersStay

LEMMA SignedInStays ==
  ASSUME SignedIn, NoNewHome,
         pages' # <<>> /\ currentUser' = NoUser /\ ~lapsed' =>
           pages # <<>> /\ Top'.id = Top.id /\ Top'.homes = Top.homes
  PROVE  SignedIn'
<1> SUFFICES ASSUME currentUser' = NoUser, ~lapsed', pages' # <<>>
             PROVE  Top'.homes = 0 /\ \A i \in 1..Len(main') : ~HomeFor(i, Top.id)'
  BY DEF SignedIn, NoNewHome
<1>1. /\ pages # <<>> /\ Top'.id = Top.id /\ Top'.homes = Top.homes
      /\ currentUser = NoUser /\ ~lapsed
  BY DEF NoNewHome
<1>2. Top.homes = 0 /\ \A k \in 1..Len(main) : ~HomeFor(k, Top.id)
  BY <1>1 DEF SignedIn
<1>3. ASSUME NEW i \in 1..Len(main') PROVE ~HomeFor(i, Top.id)'
  BY <1>1, <1>2 DEF NoNewHome, HomeFor
<1>4. QED
  BY <1>1, <1>2, <1>3

LEMMA QuietStep ==
  ASSUME SessionInv, OthersStay, UNCHANGED <<pages, presented>>
  PROVE  SessionInv'
<1>1. StateTyped'
  BY DEF SessionInv, StateTyped, ScreenTyped, OthersStay
<1>2. NumbersKept /\ PagesSound'
  BY SamePages DEF SessionInv, StateTyped, Numbered
<1>3. Numbered'
  BY <1>1, <1>2, NumberedStays DEF SessionInv, OthersStay
<1>4. Top' = Top
  BY DEF Top, Last
<1>5. SignedIn'
  BY <1>4, SignedInStays DEF SessionInv, OthersStay
<1>6. QED
  BY <1>1, <1>2, <1>3, <1>5 DEF SessionInv

\* One page changes; if there is no user, it is not a Home that comes on top.
LEMMA ReplaceStep ==
  ASSUME SessionInv, OthersStay,
         NEW i \in 1..Len(pages), NEW page \in PageStates,
         page.kind = pages[i].kind, page.id = pages[i].id, Fits(page),
         currentUser' = NoUser /\ ~lapsed' /\ i = Len(pages) => page.homes = pages[i].homes,
         pages' = [pages EXCEPT ![i] = page], presented' = presented
  PROVE  SessionInv'
<1>1. /\ pages' \in Seq(PageStates) /\ Len(pages') = Len(pages)
      /\ \A j \in 1..Len(pages) : pages'[j] = IF j = i THEN page ELSE pages[j]
      /\ NumbersKept /\ PagesSound'
  BY ReplacePage DEF SessionInv, StateTyped, Numbered
<1>2. StateTyped'
  BY <1>1 DEF SessionInv, StateTyped, ScreenTyped, OthersStay
<1>3. Numbered'
  BY <1>1, <1>2, NumberedStays DEF SessionInv, OthersStay
<1>4. Len(pages) \in Nat /\ pages # <<>> /\ Len(pages) \in 1..Len(pages)
  BY LenProperties, EmptySeq DEF SessionInv, StateTyped, ScreenTyped
<1>5. Top = pages[Len(pages)] /\ Top' = pages'[Len(pages)]
  BY <1>1 DEF Top, Last
<1>6. currentUser' = NoUser /\ ~lapsed' => Top'.id = Top.id /\ Top'.homes = Top.homes
  BY <1>1, <1>4, <1>5
<1>7. SignedIn'
  BY <1>4, <1>6, SignedInStays DEF SessionInv, OthersStay
<1>8. QED
  BY <1>1, <1>2, <1>3, <1>7 DEF SessionInv

\* Nothing that is under way concerns a page that is only now presented.
LEMMA PushStep ==
  ASSUME SessionInv, OthersStay, main' = main,
         NEW kind \in Kinds, NEW below \in Seq(PageStates), Len(below) = Len(pages),
         \A j \in 1..Len(pages) :
           below[j].id = pages[j].id /\ below[j].kind = pages[j].kind /\ Fits(below[j]),
         pages # <<>> => Top.kind # kind,
         presentPage(kind, below)
  PROVE  SessionInv'
<1>1. /\ pages' \in Seq(PageStates) /\ presented' \in 0..MaxPages
      /\ pages' # <<>> /\ Top' = NewPage(kind)
      /\ NumbersKept /\ PagesSound'
  BY PushPage DEF SessionInv, StateTyped, Numbered
<1>2. StateTyped'
  BY <1>1 DEF SessionInv, StateTyped, ScreenTyped, OthersStay
<1>3. Numbered'
  BY <1>1, <1>2, NumberedStays DEF SessionInv, OthersStay
<1>4. Top'.homes = 0 /\ Top'.id = presented + 1 /\ presented \in Nat
  BY <1>1, PagesAssumption DEF NewPage, SessionInv, StateTyped, ScreenTyped
<1>5. ASSUME NEW i \in 1..Len(main') PROVE ~HomeFor(i, Top.id)'
  <2>1. main'[i].page <= presented
    BY DEF SessionInv, Numbered, CallbacksFit, Is
  <2>2. QED
    BY <1>4, <2>1 DEF HomeFor
<1>6. SignedIn'
  BY <1>4, <1>5 DEF SignedIn, OthersStay, NoNewHome
<1>7. QED
  BY <1>1, <1>2, <1>3, <1>6 DEF SessionInv

\* What the helpers leave of a page.
SameBut(page, old) ==
  /\ page \in PageStates
  /\ page.kind = old.kind /\ page.id = old.id /\ page.homes = old.homes

LEMMA PageHelpers ==
  ASSUME NEW page \in PageStates, NEW i \in Nat, NEW text \in Alerts
  PROVE  /\ SameBut(showIndicator(page), page) /\ showIndicator(page).alert = page.alert
         /\ SameBut(hideIndicator(page), page) /\ hideIndicator(page).alert = page.alert
         /\ SameBut([page EXCEPT !.alert = text], page)
         /\ [page EXCEPT !.alert = text].alert = text
         /\ SameBut(Alerted(i, page, text), page)
         /\ Alerted(i, page, text).alert \in {page.alert, text}
         /\ SameBut(AlertedAtHome(page, text), page)
         /\ AlertedAtHome(page, text).alert \in {page.alert, text}
         /\ navigateToHome(page) \in PageStates
         /\ navigateToHome(page).kind = page.kind /\ navigateToHome(page).id = page.id
         /\ navigateToHome(page).alert = page.alert
<1> USE DEF PageStates, SameBut
<1>1. SameBut(showIndicator(page), page) /\ showIndicator(page).alert = page.alert
  BY DEF showIndicator
<1>2. SameBut(hideIndicator(page), page) /\ hideIndicator(page).alert = page.alert
  BY DEF hideIndicator
<1>3. /\ SameBut([page EXCEPT !.alert = text], page)
      /\ [page EXCEPT !.alert = text].alert = text
  OBVIOUS
<1>4. /\ SameBut(Alerted(i, page, text), page)
      /\ Alerted(i, page, text).alert \in {page.alert, text}
  BY <1>3 DEF Alerted
<1>5. /\ SameBut(AlertedAtHome(page, text), page)
      /\ AlertedAtHome(page, text).alert \in {page.alert, text}
  BY <1>3 DEF AlertedAtHome
<1>6. /\ navigateToHome(page) \in PageStates
      /\ navigateToHome(page).kind = page.kind /\ navigateToHome(page).id = page.id
      /\ navigateToHome(page).alert = page.alert
  BY DEF navigateToHome
<1>7. QED
  BY <1>1, <1>2, <1>3, <1>4, <1>5, <1>6

-----------------------------------------------------------------------------
(***************************************************************************)
(* The user's actions                                                      *)
(***************************************************************************)
\* The page on top, with an alert and the indicators as it likes.
LEMMA TopStep ==
  ASSUME SessionInv, OthersStay, pages # <<>>,
         NEW page, SameBut(page, Top), page.alert = "created" => Top.kind = "signup",
         pages' = OnTop(page), presented' = presented
  PROVE  SessionInv'
<1>1. pages \in Seq(PageStates)
  BY DEF SessionInv, StateTyped, ScreenTyped
<1>2. Len(pages) \in 1..Len(pages) /\ Top = pages[Len(pages)]
  BY <1>1, TopProperties
<1>3. page \in PageStates /\ page.kind = Top.kind /\ page.id = Top.id /\ page.homes = Top.homes
  BY DEF SameBut
<1>4. Fits(Top)
  BY <1>2 DEF SessionInv, PagesSound, PagesFit
<1>5. Fits(page)
  BY <1>3, <1>4 DEF Fits
<1>6. pages' = [pages EXCEPT ![Len(pages)] = page]
  BY DEF OnTop
<1>7. QED
  BY <1>2, <1>3, <1>5, <1>6, ReplaceStep

LEMMA PresentStep ==
  ASSUME SessionInv, NEW kind \in Kinds, pages # <<>> => Top.kind # kind,
         presentPage(kind, pages), UNCHANGED <<authVars, usersVars, trapped, restarts>>
  PROVE  SessionInv'
<1>1. OthersStay
  BY OthersUnchanged DEF SessionInv, StateTyped, ScreenTyped
<1>2. pages \in Seq(PageStates) /\ main' = main
  BY DEF SessionInv, StateTyped, ScreenTyped, authVars
<1>3. \A j \in 1..Len(pages) : Fits(pages[j])
  BY DEF SessionInv, PagesSound, PagesFit
<1>4. QED
  BY <1>1, <1>2, <1>3, PushStep

LEMMA ToLoginPage == SessionInv /\ toLoginPage => SessionInv'
<1> SUFFICES ASSUME SessionInv, toLoginPage PROVE SessionInv'
  OBVIOUS
<1>1. pages # <<>> => Top.kind # "login"
  BY DEF toLoginPage, AtOnboarding, At
<1>2. QED
  BY <1>1, PresentStep DEF toLoginPage, Kinds

LEMMA DidTapRegister == SessionInv /\ didTapRegister => SessionInv'
<1> SUFFICES ASSUME SessionInv, didTapRegister PROVE SessionInv'
  OBVIOUS
<1>1. pages # <<>> => Top.kind # "signup"
  BY DEF didTapRegister, At
<1>2. QED
  BY <1>1, PresentStep DEF didTapRegister, Kinds

\* A call belongs to the page on top.
LEMMA CallStays ==
  ASSUME SessionInv, NEW kind \in Kinds, NEW account \in Accounts \cup {Blank},
         At(kind), Call(kind, account, Top.id), UNCHANGED <<usersVars, trapped, restarts>>
  PROVE  OthersStay
<1> DEFINE r == [kind |-> kind, account |-> account, page |-> Top.id, no |-> sent + 1]
<1>1. pages \in Seq(PageStates) /\ pages # <<>> /\ Top.kind = kind
  BY DEF SessionInv, StateTyped, ScreenTyped, At
<1>2. Len(pages) \in 1..Len(pages) /\ Top = pages[Len(pages)] /\ Top \in PageStates
  BY <1>1, TopProperties
<1>3. Is(Top.id, kind)
  BY <1>1, <1>2 DEF SessionInv, Numbered, PagesNumbered
<1>4. sent + 1 \in 1..MaxRequests /\ sent' \in 0..MaxRequests
  BY RequestsAssumption DEF Call, SessionInv, StateTyped, AuthTyped
<1>5. r \in Requests
  BY <1>2, <1>4 DEF Requests, PageStates, Kinds
<1>6. requests' = requests \cup {r} /\ r.page = Top.id /\ r.kind = kind
  BY DEF Call
<1>7. overlapped' \in BOOLEAN
  BY DEF Call, SessionInv, StateTyped, AuthTyped
<1> HIDE DEF r
<1>8. AuthTyped'
  BY <1>4, <1>5, <1>6, <1>7 DEF Call, SessionInv, StateTyped, AuthTyped
<1>9. RequestsStay
  BY <1>3, <1>6 DEF RequestsStay, SessionInv, Numbered, RequestsFit
<1>10. CallbacksStay /\ WritesStay
  BY NothingAdded DEF SessionInv, Call, usersVars
<1>11. NoNewHome
  BY DEF NoNewHome, Call, SessionInv, SignedIn
<1>12. UsersTyped' /\ trapped' \in BOOLEAN
  BY DEF SessionInv, StateTyped, UsersTyped, ScreenTyped, usersVars
<1>13. QED
  BY <1>8, <1>9, <1>10, <1>11, <1>12 DEF OthersStay

\* What the helpers make of the page on top.
LEMMA TopHelpers ==
  ASSUME SessionInv, pages # <<>>, NEW text \in Alerts \ {"created"}
  PROVE  LET complained == showIndicator(Alerted(Len(pages), Top, text))
         IN /\ SameBut(complained, Top)
            /\ complained.alert = "created" => Top.kind = "signup"
            /\ SameBut(showIndicator(Top), Top)
            /\ showIndicator(Top).alert = "created" => Top.kind = "signup"
            /\ SameBut(AlertedAtHome(Top, text), Top)
            /\ AlertedAtHome(Top, text).alert = "created" => Top.kind = "signup"
<1>1. /\ Len(pages) \in 1..Len(pages) /\ Len(pages) \in Nat
      /\ Top = pages[Len(pages)] /\ Top \in PageStates
  BY TopProperties DEF SessionInv, StateTyped, ScreenTyped
<1>2. Top.alert = "created" => Top.kind = "signup"
  BY <1>1 DEF SessionInv, PagesSound, PagesFit, Fits
<1> DEFINE a == Alerted(Len(pages), Top, text)
<1>3. SameBut(a, Top) /\ a.alert \in {Top.alert, text}
  BY <1>1, PageHelpers
<1>4. a \in PageStates
  BY <1>3 DEF SameBut
<1> HIDE DEF a
<1>5. SameBut(showIndicator(a), a) /\ showIndicator(a).alert = a.alert
  BY <1>1, <1>4, PageHelpers
<1>6. SameBut(showIndicator(a), Top)
  BY <1>3, <1>5 DEF SameBut
<1>7. showIndicator(a).alert = "created" => Top.kind = "signup"
  BY <1>2, <1>3, <1>5
<1>8. SameBut(showIndicator(Top), Top) /\ showIndicator(Top).alert = Top.alert
  BY <1>1, PageHelpers
<1>9. SameBut(AlertedAtHome(Top, text), Top) /\ AlertedAtHome(Top, text).alert \in {Top.alert, text}
  BY <1>1, PageHelpers
<1>10. QED
  BY <1>2, <1>6, <1>7, <1>8, <1>9 DEF a

LEMMA LoginButtonTapped ==
  ASSUME SessionInv, NEW account \in Accounts \cup {Blank}, loginButtonTapped(account)
  PROVE  SessionInv'
<1>1. OthersStay /\ pages # <<>>
  BY CallStays DEF loginButtonTapped, Kinds, At
<1>2. PICK page : /\ pages' = OnTop(page) /\ SameBut(page, Top)
                  /\ page.alert = "created" => Top.kind = "signup"
  <2>1. "incomplete" \in Alerts \ {"created"}
    BY DEF Alerts
  <2>2. CASE account = Blank
    <3> DEFINE page == showIndicator(Alerted(Len(pages), Top, "incomplete"))
    <3>1. pages' = OnTop(page)
      BY <2>2 DEF loginButtonTapped
    <3>2. SameBut(page, Top) /\ (page.alert = "created" => Top.kind = "signup")
      BY <1>1, <2>1, TopHelpers
    <3> HIDE DEF page
    <3>3. QED
      BY <3>1, <3>2
  <2>3. CASE account # Blank
    <3>1. pages' = OnTop(showIndicator(Top))
      BY <2>3 DEF loginButtonTapped
    <3>2. QED
      BY <1>1, <2>1, <3>1, TopHelpers
  <2>4. QED
    BY <2>2, <2>3
<1>3. presented' = presented
  BY DEF loginButtonTapped
<1>4. QED
  BY <1>1, <1>2, <1>3, TopStep

LEMMA GetStartedButton ==
  ASSUME SessionInv, NEW account \in Accounts \cup {Blank}, getStartedButton(account)
  PROVE  SessionInv'
<1>1. OthersStay /\ pages # <<>>
  BY CallStays DEF getStartedButton, Kinds, At
<1>2. PICK text \in {"invalid", "none"} : pages' = OnTop(showIndicator(Alerted(Len(pages), Top, text)))
  BY DEF getStartedButton
<1>3. text \in Alerts \ {"created"}
  BY DEF Alerts
<1>4. presented' = presented
  BY DEF getStartedButton
<1> DEFINE page == showIndicator(Alerted(Len(pages), Top, text))
<1>5. SameBut(page, Top) /\ (page.alert = "created" => Top.kind = "signup")
  BY <1>1, <1>3, TopHelpers
<1>6. pages' = OnTop(page)
  BY <1>2
<1> HIDE DEF page
<1>7. QED
  BY <1>1, <1>4, <1>5, <1>6, TopStep

LEMMA AlertClosed == SessionInv /\ alertClosed => SessionInv'
<1> SUFFICES ASSUME SessionInv, alertClosed PROVE SessionInv'
  OBVIOUS
<1> DEFINE page == [Top EXCEPT !.alert = "none"]
           closed == OnTop(page)
<1>1. OthersStay /\ pages # <<>> /\ main' = main
  BY OthersUnchanged DEF alertClosed, SessionInv, StateTyped, ScreenTyped, authVars
<1>2. /\ pages \in Seq(PageStates)
      /\ Len(pages) \in 1..Len(pages) /\ Len(pages) \in Nat
      /\ Top = pages[Len(pages)] /\ Top \in PageStates
  BY <1>1, TopProperties DEF SessionInv, StateTyped, ScreenTyped
<1>3. "none" \in Alerts
  BY DEF Alerts
<1>4. SameBut(page, Top) /\ page.alert = "none"
  BY <1>2, <1>3, PageHelpers
<1> HIDE DEF page
<1>5. Fits(Top) /\ \A j \in 1..Len(pages) : Fits(pages[j])
  BY <1>2 DEF SessionInv, PagesSound, PagesFit
<1>6. CASE Top.alert = "created"
  <2>1. presentPage("login", closed)
    BY <1>6 DEF alertClosed, page
  <2>2. Top.kind # "login"
    BY <1>5, <1>6 DEF Fits
  <2>3. page \in PageStates /\ closed = [pages EXCEPT ![Len(pages)] = page]
    BY <1>4 DEF OnTop, SameBut
  <2>4. /\ closed \in Seq(PageStates) /\ Len(closed) = Len(pages)
        /\ \A j \in 1..Len(pages) : closed[j] = IF j = Len(pages) THEN page ELSE pages[j]
    BY <1>2, <2>3, ExceptSeq
  <2>5. Fits(page) /\ page.kind = Top.kind /\ page.id = Top.id
    BY <1>4, <1>5 DEF Fits, SameBut
  <2>6. \A j \in 1..Len(pages) :
          closed[j].id = pages[j].id /\ closed[j].kind = pages[j].kind /\ Fits(closed[j])
    BY <1>2, <1>5, <2>4, <2>5
  <2> HIDE DEF closed
  <2>7. QED
    BY <1>1, <2>1, <2>2, <2>4, <2>6, PushStep DEF Kinds
<1>7. CASE Top.alert # "created"
  <2>1. pages' = OnTop(page) /\ presented' = presented
    BY <1>7 DEF alertClosed, page
  <2>2. QED
    BY <1>1, <1>4, <2>1, TopStep
<1>8. QED
  BY <1>6, <1>7

\* Logging out uncovers a sign-up page: no login is answered there.
LEMMA SignedOut ==
  ASSUME SessionInv, AtHome, signOut, pages' = Front(pages),
         UNCHANGED <<usersVars, presented, trapped, restarts>>
  PROVE  SessionInv'
<1>1. /\ pages \in Seq(PageStates) /\ pages # <<>> /\ presented \in Nat
      /\ Len(pages) \in Nat \ {0} /\ Top = pages[Len(pages)] /\ Top.homes > 0
      /\ Len(pages) \in 1..Len(pages)
  BY TopProperties, PagesAssumption DEF AtHome, SessionInv, StateTyped, ScreenTyped
<1>2. /\ pages' \in Seq(PageStates) /\ Len(pages') = Len(pages) - 1
      /\ \A j \in 1..(Len(pages) - 1) : pages'[j] = pages[j]
  BY <1>1, FrontElements
<1>3. Top.kind = "login"
  BY <1>1 DEF SessionInv, PagesSound, PagesFit, Fits
<1>4. StateTyped'
  BY <1>2 DEF SessionInv, StateTyped, AuthTyped, UsersTyped, ScreenTyped, signOut, usersVars
<1>5. NumbersKept
  BY <1>1, <1>2, KeptNumbers DEF SessionInv, StateTyped, Numbered
<1>6. RequestsStay /\ CallbacksStay /\ WritesStay
  BY NothingAdded DEF SessionInv, signOut, usersVars
<1>7. Numbered'
  BY <1>4, <1>5, <1>6, NumberedStays DEF SessionInv
<1>8. PagesSound'
  BY <1>1, <1>2 DEF SessionInv, PagesSound, Alternate, PagesFit, Fits
<1>9. SignedIn'
  <2> SUFFICES ASSUME pages' # <<>>
               PROVE  Top'.homes = 0 /\ \A i \in 1..Len(main') : ~HomeFor(i, Top.id)'
    BY DEF SignedIn, signOut
  <2> DEFINE k == Len(pages) - 1
  <2>1. k \in 1..(Len(pages) - 1) /\ k \in 1..Len(pages) /\ k + 1 = Len(pages)
    BY <1>1, <1>2, EmptySeq
  <2>2. Top' = pages[k]
    BY <1>2, <2>1 DEF Top, Last
  <2>3. pages[k] \in PageStates /\ pages[k].kind # "login" /\ Fits(pages[k])
    BY <1>1, <1>3, <2>1, ElementOfSeq DEF SessionInv, PagesSound, PagesFit, Alternate
  <2>4. pages[k].homes = 0
    BY <2>3 DEF Fits, PageStates
  <2>5. ASSUME NEW i \in 1..Len(main') PROVE ~HomeFor(i, Top.id)'
    <3>1. main' = main /\ Is(main[i].page, PageKind(main[i].kind))
      BY DEF signOut, SessionInv, Numbered, CallbacksFit
    <3>2. main[i].kind = "login" => main[i].page # pages[k].id
      BY <2>1, <2>3, <3>1 DEF Is, PageKind
    <3>3. QED
      BY <2>2, <3>1, <3>2 DEF HomeFor
  <2>6. QED
    BY <2>2, <2>4, <2>5
<1>10. QED
  BY <1>4, <1>7, <1>8, <1>9 DEF SessionInv

LEMMA DidTapLogout == SessionInv /\ didTapLogout => SessionInv'
<1> SUFFICES ASSUME SessionInv, didTapLogout PROVE SessionInv'
  OBVIOUS
<1>1. CASE signOut /\ pages' = Dismissed
  BY <1>1, SignedOut DEF didTapLogout, Dismissed
<1>2. CASE UNCHANGED authVars /\ pages' = OnTop(AlertedAtHome(Top, "error"))
  <2>1. OthersStay /\ pages # <<>> /\ presented' = presented
    BY <1>2, OthersUnchanged DEF didTapLogout, AtHome, SessionInv, StateTyped, ScreenTyped
  <2>2. "error" \in Alerts \ {"created"}
    BY DEF Alerts
  <2>3. QED
    BY <1>2, <2>1, <2>2, TopHelpers, TopStep
<1>3. QED
  BY <1>1, <1>2 DEF didTapLogout

-----------------------------------------------------------------------------
(***************************************************************************)
(* Callbacks and answers                                                   *)
(***************************************************************************)
LEMMA ToldTyped ==
  ASSUME main \in Seq(Callbacks) PROVE Told(main) \subseteq Accounts \cup {Blank}
<1>1. DOMAIN main = 1..Len(main) /\ \A i \in 1..Len(main) : main[i] \in Callbacks
  BY LenProperties, ElementOfSeq
<1>2. QED
  BY <1>1 DEF Told, Callbacks

\* A callback runs that writes nothing.
LEMMA OthersAtCallback ==
  ASSUME SessionInv, main # <<>>, callbackRun, UNCHANGED <<usersVars, restarts>>,
         trapped' \in BOOLEAN
  PROVE  OthersStay
<1>1. main \in Seq(Callbacks) /\ CallbacksFit /\ main' = Tail(main)
  BY DEF SessionInv, StateTyped, AuthTyped, Numbered, callbackRun
<1>2. /\ main' \in Seq(Callbacks) /\ CallbacksStay
      /\ \A i \in 1..Len(main') : \E k \in 1..Len(main) : main'[i] = main[k]
  BY <1>1, CallbackRuns
<1>3. AuthTyped' /\ UsersTyped'
  BY <1>2 DEF SessionInv, StateTyped, AuthTyped, UsersTyped, callbackRun, usersVars
<1>4. RequestsStay /\ WritesStay
  BY NothingAdded DEF SessionInv, callbackRun, usersVars
<1>5. NoNewHome
  BY <1>2 DEF NoNewHome, callbackRun, SessionInv, SignedIn
<1>6. QED
  BY <1>2, <1>3, <1>4, <1>5 DEF OthersStay

\* The callback at the head and the page it is for.
LEMMA HeadFits ==
  ASSUME SessionInv, main # <<>>
  PROVE  /\ Head(main) \in Callbacks /\ Head(main) = main[1] /\ 1 \in 1..Len(main)
         /\ Is(Head(main).page, PageKind(Head(main).kind))
         /\ \A i \in 1..Len(pages) : IsFor(i) => pages[i].kind = PageKind(Head(main).kind)
<1>1. main \in Seq(Callbacks) /\ CallbacksFit
  BY DEF SessionInv, StateTyped, AuthTyped, Numbered
<1>2. Head(main) \in Callbacks /\ Head(main) = main[1] /\ 1 \in 1..Len(main)
  <2>1. Head(main) \in Callbacks
    BY <1>1, HeadTailProperties
  <2>2. Len(main) \in Nat \ {0} /\ Head(main) = main[1]
    BY <1>1, EmptySeq
  <2>3. QED
    BY <2>1, <2>2
<1>3. Is(Head(main).page, PageKind(Head(main).kind))
  BY <1>1, <1>2 DEF CallbacksFit
<1>4. QED
  BY <1>2, <1>3 DEF Is, IsFor

LEMMA LoginAnswered == SessionInv /\ loginAnswered => SessionInv'
<1> SUFFICES ASSUME SessionInv, loginAnswered PROVE SessionInv'
  OBVIOUS
<1>1. main # <<>> /\ Head(main).kind = "login" /\ Head(main) \in Callbacks
  BY HeadFits DEF loginAnswered, Runs
<1>2. trapped' \in BOOLEAN
  <2>1. Head(main).ok \in BOOLEAN
    BY <1>1 DEF Callbacks
  <2>2. QED
    BY <2>1 DEF loginAnswered, HomeTraps
<1>3. OthersStay /\ presented' = presented
  BY <1>1, <1>2, OthersAtCallback DEF loginAnswered
<1>4. CASE pages' = pages
  BY <1>3, <1>4, QuietStep
<1>5. CASE pages' # pages
  <2>1. DOMAIN pages = 1..Len(pages) /\ pages \in Seq(PageStates)
    BY LenProperties DEF SessionInv, StateTyped, ScreenTyped
  <2>2. PICK i \in 1..Len(pages) :
          /\ IsFor(i)
          /\ pages' = [pages EXCEPT ![i] =
                          IF Head(main).ok THEN navigateToHome(hideIndicator(pages[i]))
                          ELSE Alerted(i, hideIndicator(pages[i]), "rejected")]
    BY <1>5, <2>1 DEF loginAnswered
  <2>3. pages[i] \in PageStates /\ pages[i].kind = "login" /\ Fits(pages[i]) /\ i \in Nat
    BY <1>1, <2>1, <2>2, HeadFits, ElementOfSeq
       DEF PageKind, SessionInv, PagesSound, PagesFit
  <2> DEFINE hidden == hideIndicator(pages[i])
  <2>4. SameBut(hidden, pages[i]) /\ hidden.alert = pages[i].alert /\ "rejected" \in Alerts
    BY <2>3, PageHelpers DEF Alerts
  <2>5. hidden \in PageStates /\ hidden.kind = "login" /\ hidden.id = pages[i].id
        /\ hidden.homes = pages[i].homes /\ hidden.alert # "created"
    BY <2>3, <2>4 DEF SameBut, Fits
  <2> HIDE DEF hidden
  <2>6. CASE Head(main).ok
    <3> DEFINE page == navigateToHome(hidden)
    <3>1. page \in PageStates /\ page.kind = "login" /\ page.id = pages[i].id /\ page.alert # "created"
      BY <2>3, <2>4, <2>5, PageHelpers
    <3>2. pages' = [pages EXCEPT ![i] = page]
      BY <2>2, <2>6 DEF hidden
    <3> HIDE DEF page
    <3>3. Fits(page)
      BY <3>1 DEF Fits
    <3>4. ~(currentUser' = NoUser /\ ~lapsed' /\ i = Len(pages))
      <4> SUFFICES ASSUME currentUser' = NoUser, ~lapsed', i = Len(pages) PROVE FALSE
        OBVIOUS
      <4>1. currentUser = NoUser /\ ~lapsed /\ pages # <<>>
        BY <2>2, <1>3, EmptySeq DEF OthersStay, NoNewHome
      <4>2. Top = pages[i]
        BY DEF Top, Last
      <4>3. HomeFor(1, Top.id) /\ 1 \in 1..Len(main)
        BY <1>1, <2>2, <2>6, <4>2, HeadFits DEF HomeFor, IsFor
      <4>4. QED
        BY <4>1, <4>3 DEF SessionInv, SignedIn
    <3>5. QED
      BY <1>3, <2>3, <3>1, <3>2, <3>3, <3>4, ReplaceStep
  <2>7. CASE ~Head(main).ok
    <3> DEFINE page == Alerted(i, hidden, "rejected")
    <3>1. SameBut(page, hidden) /\ page.alert \in {hidden.alert, "rejected"}
      BY <2>3, <2>4, <2>5, PageHelpers
    <3>2. pages' = [pages EXCEPT ![i] = page]
      BY <2>2, <2>7 DEF hidden
    <3> HIDE DEF page
    <3>3. page \in PageStates /\ page.kind = "login" /\ page.id = pages[i].id
          /\ page.homes = pages[i].homes /\ Fits(page)
      BY <2>5, <3>1 DEF SameBut, Fits
    <3>4. QED
      BY <1>3, <2>3, <3>2, <3>3, ReplaceStep
  <2>8. QED
    BY <2>6, <2>7
<1>6. QED
  BY <1>4, <1>5

\* A sign-up page hears of a failure.
LEMMA SignUpHears ==
  ASSUME SessionInv, OthersStay, presented' = presented, main # <<>>,
         Head(main).kind \in {"signup", "profile"}, NEW text \in Alerts, createUserHandler(text)
  PROVE  SessionInv'
<1>1. DOMAIN pages = 1..Len(pages) /\ pages \in Seq(PageStates)
  BY LenProperties DEF SessionInv, StateTyped, ScreenTyped
<1>2. PICK i \in 1..Len(pages) :
        IsFor(i) /\ pages' = [pages EXCEPT ![i] = hideIndicator(Alerted(i, pages[i], text))]
  BY <1>1 DEF createUserHandler
<1>3. pages[i] \in PageStates /\ pages[i].kind = "signup" /\ Fits(pages[i]) /\ i \in Nat
  BY <1>1, <1>2, HeadFits, ElementOfSeq DEF PageKind, SessionInv, PagesSound, PagesFit
<1> DEFINE a == Alerted(i, pages[i], text)
           page == hideIndicator(a)
<1>4. SameBut(a, pages[i])
  BY <1>3, PageHelpers
<1>5. a \in PageStates
  BY <1>4 DEF SameBut
<1> HIDE DEF a
<1>6. SameBut(page, a)
  BY <1>3, <1>5, PageHelpers
<1>7. pages' = [pages EXCEPT ![i] = page]
  BY <1>2 DEF a
<1> HIDE DEF page
<1>8. page \in PageStates /\ page.kind = pages[i].kind /\ page.id = pages[i].id
      /\ page.homes = pages[i].homes /\ Fits(page)
  BY <1>3, <1>4, <1>6 DEF SameBut, Fits
<1>9. QED
  BY <1>7, <1>8, ReplaceStep

LEMMA SignupAnswered == SessionInv /\ signupAnswered => SessionInv'
<1> SUFFICES ASSUME SessionInv, signupAnswered PROVE SessionInv'
  OBVIOUS
<1>1. /\ main # <<>> /\ Head(main).kind = "signup" /\ Head(main) \in Callbacks
      /\ callbackRun /\ presented' = presented /\ restarts' = restarts /\ users' = users
      /\ Is(Head(main).page, "signup")
  BY HeadFits DEF signupAnswered, Runs, PageKind
<1>2. trapped' \in BOOLEAN
  BY DEF signupAnswered, SessionInv, StateTyped, ScreenTyped
<1>3. /\ AuthTyped' /\ CallbacksStay /\ RequestsStay /\ NoNewHome
  <2>1. main \in Seq(Callbacks) /\ CallbacksFit /\ main' = Tail(main)
    BY <1>1 DEF SessionInv, StateTyped, AuthTyped, Numbered, callbackRun
  <2>2. /\ main' \in Seq(Callbacks) /\ CallbacksStay
        /\ \A i \in 1..Len(main') : \E k \in 1..Len(main) : main'[i] = main[k]
    BY <1>1, <2>1, CallbackRuns
  <2>3. AuthTyped'
    BY <1>1, <2>2 DEF SessionInv, StateTyped, AuthTyped, callbackRun
  <2>4. RequestsStay
    BY <1>1, NothingAdded DEF SessionInv, callbackRun
  <2>5. NoNewHome
    BY <1>1, <2>2 DEF NoNewHome, callbackRun, SessionInv, SignedIn
  <2>6. QED
    BY <2>2, <2>3, <2>4, <2>5
<1>4. CASE createUserHandler("network") /\ UNCHANGED <<writes, saved, unkept>>
  <2>1. OthersStay
    BY <1>1, <1>2, <1>4, OthersAtCallback DEF usersVars
  <2>2. QED
    BY <1>1, <1>4, <2>1, SignUpHears DEF Alerts
<1>5. CASE UNCHANGED <<writes, saved, pages>> /\ unkept' = unkept \cup {Head(main).account}
  <2>1. unkept' \subseteq Accounts \cup {Blank}
    BY <1>1, <1>5 DEF Callbacks, SessionInv, StateTyped, UsersTyped
  <2>2. UsersTyped' /\ WritesStay
    BY <1>1, <1>5, <2>1, NothingAdded DEF SessionInv, StateTyped, UsersTyped
  <2>3. OthersStay
    BY <1>1, <1>2, <1>3, <2>2 DEF OthersStay
  <2>4. QED
    BY <1>1, <1>5, <2>3, QuietStep
<1>6. CASE /\ currentUser # NoUser /\ UNCHANGED pages
           /\ setData(SignedUp(Head(main).account), Head(main).page, "profile")
  <2>1. SignedUp(Head(main).account) \in UserDocs /\ Head(main).page \in 1..MaxPages
        /\ currentUser \in Accounts
    BY <1>1, <1>6, ContactsAssumption
       DEF Callbacks, SignedUp, UserDoc, UserDocs, SessionInv, StateTyped, AuthTyped
  <2>2. /\ writes' \in Seq(Writes) /\ WritesStay
        /\ Len(writes') = Len(writes) + 1 /\ Len(writes) \in Nat
        /\ saved' = saved /\ unkept' = unkept
    <3>1. writes \in Seq(Writes) /\ WritesFit
      BY DEF SessionInv, StateTyped, UsersTyped, Numbered
    <3>2. Is(Head(main).page, PageKind("profile"))
      BY <1>1 DEF PageKind
    <3>3. QED
      BY <1>6, <2>1, <3>1, <3>2, WriteAdded
  <2>3. saved' \in 0..Len(writes')
    BY <2>2 DEF SessionInv, StateTyped, UsersTyped
  <2>4. UsersTyped'
    BY <1>1, <2>2, <2>3 DEF SessionInv, StateTyped, UsersTyped
  <2>5. OthersStay
    BY <1>1, <1>2, <1>3, <2>2, <2>4 DEF OthersStay
  <2>6. QED
    BY <1>1, <1>6, <2>5, QuietStep
<1>7. QED
  BY <1>4, <1>5, <1>6 DEF signupAnswered

LEMMA ProfileWritten == SessionInv /\ profileWritten => SessionInv'
<1> SUFFICES ASSUME SessionInv, profileWritten PROVE SessionInv'
  OBVIOUS
<1>1. main # <<>> /\ Head(main).kind = "profile" /\ presented' = presented
  BY DEF profileWritten, Runs
<1>2. OthersStay
  BY <1>1, OthersAtCallback DEF profileWritten, SessionInv, StateTyped, ScreenTyped
<1>3. CASE createUserHandler("created")
  BY <1>1, <1>2, <1>3, SignUpHears DEF Alerts
<1>4. CASE pages' = pages
  BY <1>1, <1>2, <1>4, QuietStep
<1>5. QED
  BY <1>3, <1>4 DEF profileWritten

LEMMA AnswerStep == SessionInv /\ AnswerCall => SessionInv'
<1> SUFFICES ASSUME SessionInv, AnswerCall PROVE SessionInv'
  OBVIOUS
<1>1. PICK r \in requests : Succeeds(r) \/ Fails(r)
  BY DEF AnswerCall, Answer
<1>2. r \in Requests /\ Is(r.page, r.kind)
  BY DEF SessionInv, StateTyped, AuthTyped, Numbered, RequestsFit
<1>3. PICK ok \in BOOLEAN :
        /\ main' = Post(r.kind, r, ok)
        /\ currentUser' = (IF ok THEN r.account ELSE currentUser)
        /\ lapsed' = (IF ok THEN FALSE ELSE lapsed)
        /\ ok => r.account \in Accounts
  BY <1>1 DEF Succeeds, Fails, Accepted, BecomesCurrent
<1> DEFINE c == [kind |-> r.kind, account |-> r.account, page |-> r.page, ok |-> ok]
<1>4. main' = Append(main, c)
  BY <1>3 DEF Post
<1>5. c \in Callbacks /\ c.page = r.page /\ c.kind = r.kind /\ c.ok = ok
  BY <1>2 DEF Requests, Callbacks
<1>6. Is(c.page, PageKind(c.kind))
  BY <1>2, <1>5 DEF PageKind, Requests
<1> HIDE DEF c
<1>7. /\ main' \in Seq(Callbacks) /\ CallbacksStay
      /\ \A i \in 1..Len(main') : main'[i] = c \/ \E k \in 1..Len(main) : main'[i] = main[k]
  BY <1>4, <1>5, <1>6, CallbackAdded DEF SessionInv, StateTyped, AuthTyped, Numbered
<1>8. /\ accounts' \subseteq Accounts /\ unheard' \subseteq Accounts \cup {Blank}
      /\ requests' = requests \ {r} /\ UNCHANGED <<sent, overlapped>>
  BY <1>1 DEF Succeeds, Fails, Accepted, SessionInv, StateTyped, AuthTyped
<1>9. AuthTyped'
  BY <1>3, <1>7, <1>8 DEF SessionInv, StateTyped, AuthTyped
<1>10. RequestsStay /\ WritesStay /\ UsersTyped' /\ trapped' \in BOOLEAN
  BY <1>8, NothingAdded
     DEF AnswerCall, SessionInv, StateTyped, UsersTyped, ScreenTyped, usersVars, screenVars
<1>11. NoNewHome \/ (currentUser' # NoUser /\ ~lapsed')
  <2>1. CASE ok
    BY <1>3, <2>1, AccountsAssumption
  <2>2. CASE ~ok
    BY <1>3, <1>5, <1>7, <2>2 DEF NoNewHome, SessionInv, SignedIn
  <2>3. QED
    BY <2>1, <2>2
<1>12. UNCHANGED screenVars
  BY DEF AnswerCall
<1>13. CASE NoNewHome
  BY <1>7, <1>9, <1>10, <1>12, <1>13, QuietStep DEF OthersStay, screenVars
<1>14. CASE currentUser' # NoUser /\ ~lapsed'
  <2>1. StateTyped'
    BY <1>9, <1>10, <1>12 DEF SessionInv, StateTyped, ScreenTyped, screenVars
  <2>2. NumbersKept /\ PagesSound'
    BY <1>12, SamePages DEF SessionInv, StateTyped, Numbered, screenVars
  <2>3. Numbered'
    BY <1>7, <1>10, <2>1, <2>2, NumberedStays DEF SessionInv
  <2>4. SignedIn'
    BY <1>14 DEF SignedIn
  <2>5. QED
    BY <2>1, <2>2, <2>3, <2>4 DEF SessionInv
<1>15. QED
  BY <1>11, <1>13, <1>14

\* The backend decides a write; its completion pushes no Home.
LEMMA DecideStep == SessionInv /\ DecideWrite => SessionInv'
<1> SUFFICES ASSUME SessionInv, DecideWrite PROVE SessionInv'
  OBVIOUS
<1>1. writes \in Seq(Writes) /\ DOMAIN writes = 1..Len(writes) /\ WritesFit
  BY LenProperties DEF SessionInv, StateTyped, UsersTyped, Numbered
<1>2. PICK i \in 1..saved : Decide(i)
  BY DEF DecideWrite
<1> DEFINE w == writes[i]
<1>16. i \in 1..Len(writes) /\ saved \in Nat /\ 1 <= saved /\ saved <= Len(writes) /\ Len(writes) \in Nat
  BY <1>1, LenProperties DEF SessionInv, StateTyped, UsersTyped
<1>3. w \in Writes /\ (w.page # 0 => Is(w.page, PageKind(w.kind)))
  BY <1>1, <1>16, ElementOfSeq DEF WritesFit
<1>4. /\ writes' = RemoveAt(writes, i) /\ saved' = saved - 1
      /\ UNCHANGED <<accounts, currentUser, requests, sent, overlapped, lapsed, unheard>>
  BY <1>2 DEF Decide
<1>5. PICK ok \in BOOLEAN :
        /\ users' = IF ok THEN [users EXCEPT ![w.to] = w.doc] ELSE users
        /\ unkept' = IF ok THEN unkept ELSE unkept \cup {w.to}
        /\ main' = IF w.page = 0 THEN main
                   ELSE Append(main, [kind |-> w.kind, account |-> w.to, page |-> w.page, ok |-> ok])
  BY <1>2 DEF Decide
<1> HIDE DEF w
<1>6. writes' \in Seq(Writes) /\ WritesStay /\ Len(writes') = Len(writes) - 1
  BY <1>1, <1>4, <1>16, WriteRemoved
<1>7. w.to \in Accounts /\ w.doc \in UserDocs /\ w.page \in 0..MaxPages /\ w.kind \in {"profile", "save"}
  BY <1>3 DEF Writes
<1>8. UsersTyped'
  <2>1. saved' \in 0..Len(writes')
    BY <1>4, <1>6, <1>16
  <2>2. users' \in [Accounts -> UserDocs \cup {NoDoc}] /\ unkept' \subseteq Accounts \cup {Blank}
    BY <1>5, <1>7 DEF SessionInv, StateTyped, UsersTyped
  <2>3. QED
    BY <1>6, <2>1, <2>2 DEF UsersTyped
<1>9. /\ main' \in Seq(Callbacks) /\ CallbacksStay
      /\ \A j \in 1..Len(main') :
           (\E k \in 1..Len(main) : main'[j] = main[k]) \/ main'[j].kind # "login"
  <2>1. main \in Seq(Callbacks) /\ CallbacksFit
    BY DEF SessionInv, StateTyped, AuthTyped, Numbered
  <2>2. CASE w.page = 0
    <3>1. main' = main
      BY <1>5, <2>2
    <3>2. QED
      BY <2>1, <3>1, NothingAdded DEF SessionInv
  <2>3. CASE w.page # 0
    <3> DEFINE c == [kind |-> w.kind, account |-> w.to, page |-> w.page, ok |-> ok]
    <3>1. main' = Append(main, c)
      BY <1>5, <2>3
    <3>2. c \in Callbacks /\ c.kind = w.kind /\ c.page = w.page
      BY <1>7, <2>3, PagesAssumption DEF Callbacks
    <3>3. Is(c.page, PageKind(c.kind)) /\ c.kind # "login"
      BY <1>3, <1>7, <2>3, <3>2
    <3> HIDE DEF c
    <3>4. QED
      BY <2>1, <3>1, <3>2, <3>3, CallbackAdded
  <2>4. QED
    BY <2>2, <2>3
<1>10. AuthTyped' /\ RequestsStay
  BY <1>4, <1>9, NothingAdded DEF SessionInv, StateTyped, AuthTyped
<1>11. NoNewHome
  BY <1>4, <1>9 DEF NoNewHome, SessionInv, SignedIn
<1>12. OthersStay
  BY <1>6, <1>8, <1>9, <1>10, <1>11
     DEF OthersStay, DecideWrite, SessionInv, StateTyped, ScreenTyped, screenVars
<1>13. QED
  BY <1>12, QuietStep DEF DecideWrite, screenVars

\* Auth signs the user out by itself: Home stays.
LEMMA SignedOutByForce == SessionInv /\ TokenRefused => SessionInv'
<1> SUFFICES ASSUME SessionInv, TokenRefused PROVE SessionInv'
  OBVIOUS
<1>1. /\ currentUser' = NoUser /\ lapsed' = TRUE
      /\ UNCHANGED <<accounts, requests, main, sent, overlapped, unheard>>
      /\ UNCHANGED <<usersVars, screenVars>>
  BY DEF TokenRefused, signOutByForceWithUserID
<1>2. AuthTyped' /\ UsersTyped' /\ trapped' \in BOOLEAN
  BY <1>1 DEF SessionInv, StateTyped, AuthTyped, UsersTyped, ScreenTyped, usersVars, screenVars
<1>3. RequestsStay /\ CallbacksStay /\ WritesStay
  BY <1>1, NothingAdded DEF SessionInv, usersVars
<1>4. NoNewHome
  BY <1>1 DEF NoNewHome
<1>5. OthersStay
  BY <1>1, <1>2, <1>3, <1>4 DEF OthersStay, screenVars
<1>6. QED
  BY <1>1, <1>5, QuietStep DEF screenVars

\* A restart leaves no page, and nothing that is for one.
LEMMA AppRestart == SessionInv /\ appRestart => SessionInv'
<1> SUFFICES ASSUME SessionInv, appRestart PROVE SessionInv'
  OBVIOUS
<1>1. /\ pages' = <<>> /\ requests' = {} /\ main' = <<>> /\ presented' = presented
      /\ restarts' \in 0..MaxRestarts /\ trapped' \in BOOLEAN
  <2>1. restarts \in Nat /\ MaxRestarts \in Nat
    BY PagesAssumption DEF SessionInv, StateTyped, ScreenTyped
  <2>2. restarts < MaxRestarts /\ restarts' = restarts + 1
    BY DEF appRestart
  <2>3. restarts' \in 0..MaxRestarts
    BY <2>1, <2>2
  <2>4. QED
    BY <2>3 DEF appRestart, AuthRestart
<1>2. /\ accounts' \subseteq Accounts /\ currentUser' \in Accounts \cup {NoUser}
      /\ unheard' \subseteq Accounts \cup {Blank} /\ lapsed' = FALSE
  <2>1. Told(main) \subseteq Accounts \cup {Blank}
    BY ToldTyped DEF SessionInv, StateTyped, AuthTyped
  <2>2. QED
    BY <2>1 DEF appRestart, AuthRestart, Accepted, SessionInv, StateTyped, AuthTyped
<1>3. /\ writes' \in Seq(Writes) /\ WritesStay /\ saved' \in 0..Len(writes')
      /\ unkept' \subseteq Accounts \cup {Blank} /\ users' = users
  <2>1. UsersTyped /\ UsersRestart
    BY DEF appRestart, SessionInv, StateTyped
  <2>2. writes' \in Seq(Writes) /\ WritesStay /\ Len(writes') = saved
    BY <2>1, WritesOrphaned
  <2>3. saved' = saved /\ saved \in Nat /\ users' = users
    BY <2>1, LenProperties DEF UsersTyped, UsersRestart
  <2>4. \A i \in (saved + 1)..Len(writes) : writes[i] \in Writes
    BY <2>1, <2>3, LenProperties, ElementOfSeq DEF UsersTyped
  <2>5. unkept' \subseteq Accounts \cup {Blank}
    BY <2>1, <2>4 DEF UsersTyped, UsersRestart, Writes
  <2>6. QED
    BY <2>2, <2>3, <2>5
<1>4. /\ pages' \in Seq(PageStates) /\ main' \in Seq(Callbacks)
      /\ Len(pages') = 0 /\ Len(main') = 0
  BY <1>1, EmptySeq
<1>5. StateTyped'
  BY <1>1, <1>2, <1>3, <1>4
     DEF appRestart, AuthRestart, SessionInv, StateTyped, AuthTyped, UsersTyped, ScreenTyped
<1>6. NumbersKept
  BY <1>1, <1>4, KeptNumbers DEF SessionInv, StateTyped, Numbered
<1>7. RequestsStay /\ CallbacksStay
  BY <1>1, <1>4 DEF RequestsStay, CallbacksStay
<1>8. Numbered'
  BY <1>3, <1>5, <1>6, <1>7, NumberedStays DEF SessionInv
<1>9. PagesSound' /\ SignedIn'
  BY <1>1, <1>2, <1>4 DEF PagesSound, Alternate, PagesFit, SignedIn
<1>10. QED
  BY <1>5, <1>8, <1>9 DEF SessionInv

LEMMA SessionStays == SessionInv /\ SessionStep => SessionInv'
<1> SUFFICES ASSUME SessionInv, SessionStep PROVE SessionInv'
  OBVIOUS
<1>1. CASE \E a \in Accounts \cup {Blank} : loginButtonTapped(a) \/ getStartedButton(a)
  BY <1>1, LoginButtonTapped, GetStartedButton
<1>2. CASE toLoginPage \/ didTapRegister \/ alertClosed \/ didTapLogout
  BY <1>2, ToLoginPage, DidTapRegister, AlertClosed, DidTapLogout
<1>3. CASE loginAnswered \/ signupAnswered \/ profileWritten
  BY <1>3, LoginAnswered, SignupAnswered, ProfileWritten
<1>4. CASE DecideWrite \/ AnswerCall \/ TokenRefused \/ appRestart
  BY <1>4, DecideStep, AnswerStep, SignedOutByForce, AppRestart
<1>5. QED
  BY <1>1, <1>2, <1>3, <1>4 DEF SessionStep

-----------------------------------------------------------------------------
(***************************************************************************)
(* The form                                                                *)
(***************************************************************************)
LEMMA NoFormTyped == NoForm \in Forms /\ NoForm.stage = "none"
BY ContactsAssumption DEF NoForm, Forms

LEMMA SessionStepForm == FormInv /\ SessionStep => FormInv'
BY NoFormTyped DEF FormInv, FormTyped, SessionStep

\* A user's document, as stored or as it waits to be written.
LEMMA SeenTyped ==
  ASSUME SessionInv, NEW a \in Accounts PROVE Seen(a) \in UserDocs \cup {NoDoc}
<1>1. CASE Pending(a) = {}
  BY <1>1 DEF Seen, SessionInv, StateTyped, UsersTyped
<1>2. CASE Pending(a) # {}
  <2>1. writes \in Seq(Writes) /\ Len(writes) \in Nat /\ DOMAIN writes = 1..Len(writes)
    BY LenProperties DEF SessionInv, StateTyped, UsersTyped
  <2>2. Pending(a) \in SUBSET (1..Len(writes))
    BY <2>1 DEF Pending, SessionInv, StateTyped, UsersTyped
  <2>3. Max(Pending(a)) \in 1..Len(writes)
    BY <1>2, <2>1, <2>2, MaxIsMember
  <2>4. writes[Max(Pending(a))] \in Writes
    BY <2>1, <2>3, ElementOfSeq
  <2>5. QED
    BY <1>2, <2>4 DEF Seen, Writes
<1>3. QED
  BY <1>1, <1>2

\* The steps of the form that concern nothing else.
FormStep ==
  \/ profileFetched \/ notificationCompletion \/ editButton
  \/ \E text \in Contacts : typeContact(text)

LEMMA FormStays == IInv /\ FormStep => IInv'
<1> SUFFICES ASSUME IInv, FormStep PROVE IInv'
  OBVIOUS
<1>1. UNCHANGED sessionVars /\ UNCHANGED <<saves, nameless>>
  BY DEF FormStep, profileFetched, notificationCompletion, editButton, typeContact
<1>2. SessionInv'
  <2>1. OthersStay
    BY <1>1, OthersUnchanged
       DEF IInv, SessionInv, StateTyped, ScreenTyped, sessionVars, screenVars
  <2>2. QED
    BY <1>1, <2>1, QuietStep DEF IInv, sessionVars, screenVars
<1>3. form' \in Forms /\ (form'.stage # "none" => form'.of \in Accounts)
  <2>1. form \in Forms /\ (form.stage # "none" => form.of \in Accounts)
    BY DEF IInv, FormInv, FormTyped
  <2>2. CASE profileFetched
    <3>1. CASE Seen(form.of) # NoDoc /\ form' = DetailsTaken(Seen(form.of))
      <4>1. form.of \in Accounts
        BY <2>1, <2>2 DEF profileFetched
      <4>2. Seen(form.of) \in UserDocs
        BY <3>1, <4>1, SeenTyped DEF IInv
      <4>3. Seen(form.of).who \in Accounts \cup {Blank} /\ Seen(form.of).contact \in Contacts
        BY <4>2 DEF UserDocs
      <4>4. QED
        BY <2>1, <3>1, <4>1, <4>3 DEF DetailsTaken, Forms
    <3>2. CASE form' = [form EXCEPT !.stage = "posted"]
      BY <2>1, <2>2, <3>2 DEF profileFetched, Forms
    <3>3. QED
      BY <2>2, <3>1, <3>2 DEF profileFetched
  <2>3. CASE notificationCompletion
    BY <2>1, <2>3 DEF notificationCompletion, Forms
  <2>4. CASE editButton
    BY <2>1, <2>4 DEF editButton, Forms
  <2>5. ASSUME NEW text \in Contacts, typeContact(text)
        PROVE  form' \in Forms /\ (form'.stage # "none" => form'.of \in Accounts)
    BY <2>1, <2>5 DEF typeContact, Forms
  <2>6. QED
    BY <2>2, <2>3, <2>4, <2>5 DEF FormStep
<1>4. QED
  BY <1>1, <1>2, <1>3 DEF IInv, FormInv, FormTyped

LEMMA ViewDidLoad == IInv /\ viewDidLoad => IInv'
<1> SUFFICES ASSUME IInv, viewDidLoad PROVE IInv'
  OBVIOUS
<1>1. SessionInv'
  <2>1. OthersStay
    BY OthersUnchanged DEF viewDidLoad, IInv, SessionInv, StateTyped, ScreenTyped
  <2>2. QED
    BY <2>1, QuietStep DEF viewDidLoad, IInv
<1>2. Len(writes) - saved \in Nat
  BY LenProperties DEF IInv, SessionInv, StateTyped, UsersTyped
<1>3. FormInv'
  <2>1. form \in Forms /\ (form.stage # "none" => form.of \in Accounts) /\ UNCHANGED <<saves, nameless>>
    BY DEF IInv, FormInv, FormTyped, viewDidLoad
  <2>2. CASE currentUser = NoUser
    BY <2>1, <2>2 DEF viewDidLoad, IInv, FormInv, FormTyped
  <2>3. CASE currentUser # NoUser
    <3>1. currentUser \in Accounts
      BY <2>3 DEF IInv, SessionInv, StateTyped, AuthTyped
    <3> DEFINE rest == Len(writes) - saved
    <3>2. form' = [form EXCEPT !.stage = "fetching", !.of = currentUser, !.ahead = rest] /\ rest \in Nat
      BY <1>2, <2>3 DEF viewDidLoad
    <3> HIDE DEF rest
    <3>3. form' \in Forms /\ form'.of \in Accounts
      BY <2>1, <3>1, <3>2 DEF Forms
    <3>4. QED
      BY <2>1, <3>3 DEF IInv, FormInv, FormTyped
  <2>4. QED
    BY <2>2, <2>3
<1>4. QED
  BY <1>1, <1>3 DEF IInv

\* The worker persists a write; the fetch comes nearer.
LEMMA WorkerStays == IInv /\ worker => IInv'
<1> SUFFICES ASSUME IInv, worker PROVE IInv'
  OBVIOUS
<1>1. /\ saved < Len(writes) /\ saved' = saved + 1
      /\ UNCHANGED <<authVars, users, writes, unkept, screenVars, saves, nameless>>
      /\ form' = [form EXCEPT !.ahead = IF @ > 0 THEN @ - 1 ELSE 0]
  BY DEF worker, WriteMutations
<1>2. SessionInv'
  <2>1. saved' \in 0..Len(writes')
    BY <1>1, LenProperties DEF IInv, SessionInv, StateTyped, UsersTyped
  <2>2. AuthTyped' /\ UsersTyped' /\ trapped' \in BOOLEAN
    BY <1>1, <2>1
       DEF IInv, SessionInv, StateTyped, AuthTyped, UsersTyped, ScreenTyped, authVars, screenVars
  <2>3. RequestsStay /\ CallbacksStay /\ WritesStay
    BY <1>1, NothingAdded DEF IInv, SessionInv, authVars
  <2>4. NoNewHome
    BY <1>1 DEF NoNewHome, IInv, SessionInv, SignedIn, authVars
  <2>5. OthersStay
    BY <1>1, <2>2, <2>3, <2>4 DEF OthersStay, screenVars
  <2>6. QED
    BY <1>1, <2>5, QuietStep DEF IInv, screenVars
<1>3. FormInv'
  <2>1. form \in Forms /\ (form.stage # "none" => form.of \in Accounts)
    BY DEF IInv, FormInv, FormTyped
  <2>2. form' \in Forms /\ form'.stage = form.stage /\ form'.of = form.of
    BY <1>1, <2>1 DEF Forms
  <2>3. QED
    BY <1>1, <2>1, <2>2 DEF IInv, FormInv, FormTyped
<1>4. QED
  BY <1>2, <1>3 DEF IInv

\* The form is saved on a Home, which is on a login page.
LEMMA SaveButton == IInv /\ saveButton => IInv'
<1> SUFFICES ASSUME IInv, saveButton PROVE IInv'
  OBVIOUS
<1>1. form \in Forms /\ form' = [form EXCEPT !.editing = FALSE]
  BY DEF saveButton, IInv, FormInv, FormTyped
<1>2. saves' \in 0..MaxSaves /\ nameless' \in BOOLEAN
  <2>1. saves \in 0..MaxSaves /\ MaxSaves \in Nat /\ nameless \in BOOLEAN
    BY SavesAssumption DEF IInv, FormInv, FormTyped
  <2>2. CASE form.text = form.remembered
    BY <2>1, <2>2 DEF saveButton
  <2>3. CASE form.text # form.remembered
    <3>1. saves < MaxSaves /\ saves' = saves + 1 /\ nameless' = (nameless \/ form.label = Blank)
      BY <2>3 DEF saveButton
    <3>2. saves' \in 0..MaxSaves
      BY <2>1, <3>1
    <3>3. nameless' \in BOOLEAN
      BY <2>1, <3>1
    <3>4. QED
      BY <3>2, <3>3
  <2>4. QED
    BY <2>2, <2>3
<1>3. FormInv'
  BY <1>1, <1>2 DEF IInv, FormInv, FormTyped, Forms
<1>4. /\ pages \in Seq(PageStates) /\ pages # <<>> /\ Top.homes > 0
      /\ Len(pages) \in 1..Len(pages) /\ Top = pages[Len(pages)] /\ Top \in PageStates
  BY TopProperties DEF saveButton, AtHome, IInv, SessionInv, StateTyped, ScreenTyped
<1>5. Top.id \in 1..MaxPages /\ Is(Top.id, PageKind("save"))
  <2>1. Top.kind = "login" /\ Is(Top.id, Top.kind)
    BY <1>4 DEF IInv, SessionInv, PagesSound, PagesFit, Fits, Numbered, PagesNumbered
  <2>2. QED
    BY <1>4, <2>1 DEF PageStates, PageKind
<1>6. /\ writes' \in Seq(Writes) /\ WritesStay
      /\ saved' \in 0..Len(writes') /\ unkept' \subseteq Accounts \cup {Blank}
  <2>1. CASE UNCHANGED <<writes, saved, unkept>>
    BY <2>1, NothingAdded DEF IInv, SessionInv, StateTyped, UsersTyped
  <2>2. CASE /\ currentUser # NoUser
             /\ setData(UserDoc(form.email, form.text), Top.id, "save")
    <3>1. UserDoc(form.email, form.text) \in UserDocs
      BY <1>1 DEF Forms, UserDoc, UserDocs
    <3>2. currentUser \in Accounts /\ writes \in Seq(Writes) /\ WritesFit
      BY <2>2 DEF IInv, SessionInv, StateTyped, AuthTyped, UsersTyped, Numbered
    <3>3. /\ writes' \in Seq(Writes) /\ WritesStay
          /\ Len(writes') = Len(writes) + 1 /\ Len(writes) \in Nat
          /\ saved' = saved /\ unkept' = unkept
      BY <1>5, <2>2, <3>1, <3>2, WriteAdded
    <3>4. QED
      BY <3>3 DEF IInv, SessionInv, StateTyped, UsersTyped
  <2>3. QED
    BY <2>1, <2>2 DEF saveButton
<1>7. OthersStay
  <2>1. AuthTyped' /\ NoNewHome
    BY DEF saveButton, authVars, IInv, SessionInv, StateTyped, AuthTyped, SignedIn, NoNewHome
  <2>2. UsersTyped' /\ trapped' \in BOOLEAN
    BY <1>6 DEF saveButton, IInv, SessionInv, StateTyped, UsersTyped, ScreenTyped
  <2>3. RequestsStay /\ CallbacksStay
    BY NothingAdded DEF saveButton, authVars, IInv, SessionInv
  <2>4. QED
    BY <1>6, <2>1, <2>2, <2>3 DEF OthersStay, saveButton
<1>8. SessionInv'
  BY <1>7, QuietStep DEF saveButton, IInv
<1>9. QED
  BY <1>3, <1>8 DEF IInv

LEMMA ProfileUpdated == IInv /\ profileUpdated => IInv'
<1> SUFFICES ASSUME IInv, profileUpdated PROVE IInv'
  OBVIOUS
<1>1. FormInv' /\ SessionInv
  BY DEF profileUpdated, formVars, IInv, FormInv, FormTyped
<1>2. OthersStay
  BY <1>1, OthersAtCallback DEF profileUpdated, Runs, SessionInv, StateTyped, ScreenTyped
<1>3. presented' = presented
  BY DEF profileUpdated
<1>4. CASE pages' = pages
  BY <1>1, <1>2, <1>3, <1>4, QuietStep DEF IInv
<1>5. CASE pages' # pages
  <2>1. PICK text \in {"updated", "error"} : pages' = OnTop(AlertedAtHome(Top, text))
    BY <1>5 DEF profileUpdated
  <2>2. text \in Alerts \ {"created"} /\ pages # <<>>
    BY <1>5 DEF Alerts, profileUpdated
  <2>3. QED
    BY <1>1, <1>2, <1>3, <2>1, <2>2, TopHelpers, TopStep DEF IInv
<1>6. QED
  BY <1>4, <1>5

-----------------------------------------------------------------------------
LEMMA IInvInit == Init => IInv
<1> SUFFICES ASSUME Init PROVE IInv
  OBVIOUS
<1>1. /\ accounts = Registered /\ currentUser = NoUser /\ requests = {} /\ main = <<>>
      /\ sent = 0 /\ overlapped = FALSE /\ lapsed = FALSE /\ unheard = {}
      /\ writes = <<>> /\ saved = 0 /\ unkept = {}
      /\ pages = <<>> /\ presented = 0 /\ trapped = FALSE /\ restarts = 0
      /\ form = NoForm /\ saves = 0 /\ nameless = FALSE
  BY DEF Init, SessionInit, AuthInit, UsersInit
<1>2. users \in [Accounts -> UserDocs \cup {NoDoc}]
  <2>1. PICK contact \in Contacts :
          users = [a \in Accounts |-> IF a \in Registered THEN UserDoc(a, contact) ELSE NoDoc]
    BY DEF Init, SessionInit, UsersInit
  <2>2. \A a \in Accounts : UserDoc(a, contact) \in UserDocs
    BY DEF UserDoc, UserDocs
  <2>3. QED
    BY <2>1, <2>2
<1>3. /\ pages \in Seq(PageStates) /\ main \in Seq(Callbacks) /\ writes \in Seq(Writes)
      /\ Len(pages) = 0 /\ Len(main) = 0 /\ Len(writes) = 0
  BY <1>1, EmptySeq
<1>4. \A n \in Nat : 0 \in 0..n
  OBVIOUS
<1>5. 0 \in 0..MaxRequests /\ 0 \in 0..MaxPages /\ 0 \in 0..MaxRestarts /\ 0 \in 0..MaxSaves
  BY <1>4, RequestsAssumption, PagesAssumption, SavesAssumption, Zenon
<1>6. StateTyped
  <2>1. AuthTyped
    BY <1>1, <1>3, <1>5, AccountsAssumption DEF AuthTyped
  <2>2. 0 \in 0..Len(writes)
    BY <1>3
  <2>3. UsersTyped
    BY <1>1, <1>2, <1>3, <2>2 DEF UsersTyped
  <2>4. ScreenTyped
    BY <1>1, <1>3, <1>5 DEF ScreenTyped
  <2>5. QED
    BY <2>1, <2>3, <2>4 DEF StateTyped
<1>7. Numbered
  BY <1>1, <1>3 DEF Numbered, PagesNumbered, RequestsFit, CallbacksFit, WritesFit
<1>8. PagesSound /\ SignedIn
  BY <1>1, <1>3 DEF PagesSound, Alternate, PagesFit, SignedIn
<1>9. FormInv
  BY <1>1, <1>5, NoFormTyped DEF FormInv, FormTyped
<1>10. QED
  BY <1>6, <1>7, <1>8, <1>9 DEF IInv, SessionInv

LEMMA IInvNext == IInv /\ [Next]_vars => IInv'
<1> SUFFICES ASSUME IInv, [Next]_vars PROVE IInv'
  OBVIOUS
<1>1. CASE SessionStep
  BY <1>1, SessionStays, SessionStepForm DEF IInv
<1>2. CASE FormStep
  BY <1>2, FormStays
<1>3. CASE viewDidLoad \/ worker \/ saveButton \/ profileUpdated
  BY <1>3, ViewDidLoad, WorkerStays, SaveButton, ProfileUpdated
<1>4. CASE UNCHANGED vars
  <2>1. OthersStay
    BY <1>4, OthersUnchanged
       DEF IInv, SessionInv, StateTyped, ScreenTyped, vars, sessionVars, screenVars
  <2>2. SessionInv'
    BY <1>4, <2>1, QuietStep DEF IInv, vars, sessionVars, screenVars
  <2>3. FormInv'
    BY <1>4 DEF IInv, FormInv, FormTyped, vars, formVars
  <2>4. QED
    BY <2>2, <2>3 DEF IInv
<1>5. QED
  BY <1>1, <1>2, <1>3, <1>4 DEF Next, FormStep

LEMMA Inductive == Spec => []IInv
BY IInvInit, IInvNext, PTL DEF Spec

\* Type correctness of the session and its Profile tab: FIRAuth's queues, the
\* documents of the users, the pages presented and the form.
THEOREM TypeCorrect == Spec => []TypeOK
<1>1. IInv => TypeOK
  BY DEF IInv, SessionInv, StateTyped, FormInv, TypeOK
<1>2. QED
  BY <1>1, Inductive, PTL

LEMMA HomeIsUsed == IInv => HomeHasUser
<1> SUFFICES ASSUME IInv, pages # <<>>, Top.homes > 0, ~lapsed PROVE currentUser # NoUser
  BY DEF HomeHasUser
<1>1. ~(Top.homes = 0)
  BY TopProperties DEF IInv, SessionInv, StateTyped, ScreenTyped, PageStates
<1>2. QED
  BY <1>1 DEF IInv, SessionInv, SignedIn

\* Unless Auth has signed them out by itself, whoever looks at Home is signed
\* in, so that HomeViewController's and ProfileViewController's forced
\* unwrappings of the current user succeed, in whatever order answers, logouts
\* and further taps come.
THEOREM HomeCorrect == Spec => []HomeHasUser
BY HomeIsUsed, Inductive, PTL

-----------------------------------------------------------------------------
(***************************************************************************)
(* What a page waits for                                                   *)
(***************************************************************************)
\* Callbacks of calls to Auth; those, and completions of sign-up's write, for a
\* page; calls and writes of a page.
CallAnswers == {c \in Callbacks : c.kind \in Kinds}
AnswersFor(id) == {c \in CallAnswers : c.page = id}
ProfilesFor(id) == {c \in Callbacks : c.kind = "profile" /\ c.page = id}
RequestsFor(id) == {r \in requests : r.page = id}
ProfileWrites(id) == {w \in Writes : w.kind = "profile" /\ w.page = id}

\* Waiting(id), as a count; and what a sign-up page has ahead of it.
Awaited(id) == Cardinality(RequestsFor(id)) + Count(main, AnswersFor(id))
Owed(id) == Awaited(id) + Count(main, ProfilesFor(id)) + Count(writes, ProfileWrites(id))
\* All calls that have not called back.
UnderWay == Cardinality(requests) + Count(main, CallAnswers)

RequestsNumbered == IsFiniteSet(requests) /\ \A r \in requests : r.no <= sent

LEMMA QueuesTyped ==
  ASSUME StateTyped PROVE main \in Seq(Callbacks) /\ writes \in Seq(Writes)
BY DEF StateTyped, AuthTyped, UsersTyped

LEMMA WaitingIsAwaited == StateTyped => \A id \in Nat : Waiting(id) = Awaited(id)
<1> SUFFICES ASSUME StateTyped, NEW id \in Nat PROVE Waiting(id) = Awaited(id)
  OBVIOUS
<1>1. /\ DOMAIN main = 1..Len(main)
      /\ \A i \in 1..Len(main) : main[i] \in Callbacks
  BY QueuesTyped, LenProperties, ElementOfSeq
<1>2. {i \in DOMAIN main : main[i].page = id /\ main[i].kind \in {"login", "signup"}}
        = Places(main, AnswersFor(id))
  BY <1>1 DEF Places, AnswersFor, CallAnswers, Kinds
<1>3. QED
  BY <1>2 DEF Waiting, Awaited, Count, RequestsFor

LEMMA CountsTyped ==
  ASSUME StateTyped, RequestsNumbered, NEW id
  PROVE  /\ IsFiniteSet(RequestsFor(id)) /\ Cardinality(RequestsFor(id)) \in Nat
         /\ Cardinality(requests) \in Nat
         /\ Count(main, AnswersFor(id)) \in Nat /\ Count(main, CallAnswers) \in Nat
         /\ Count(main, ProfilesFor(id)) \in Nat /\ Count(writes, ProfileWrites(id)) \in Nat
         /\ Awaited(id) \in Nat /\ Owed(id) \in Nat /\ UnderWay \in Nat
<1>1. IsFiniteSet(RequestsFor(id)) /\ Cardinality(RequestsFor(id)) \in Nat
  <2>1. RequestsFor(id) \in SUBSET requests
    BY DEF RequestsFor
  <2>2. QED
    BY <2>1, FS_Subset, FS_CardinalityType DEF RequestsNumbered
<1>2. Cardinality(requests) \in Nat
  BY FS_CardinalityType DEF RequestsNumbered
<1>3. /\ Count(main, AnswersFor(id)) \in Nat /\ Count(main, CallAnswers) \in Nat
      /\ Count(main, ProfilesFor(id)) \in Nat /\ Count(writes, ProfileWrites(id)) \in Nat
  BY QueuesTyped, CountType
<1>4. QED
  BY <1>1, <1>2, <1>3 DEF Awaited, Owed, UnderWay

\* Nothing is under way for a page that is still to be presented.
LEMMA NothingForNew ==
  ASSUME StateTyped, Numbered, NEW id \in Nat, id > presented
  PROVE  Awaited(id) = 0 /\ Owed(id) = 0
<1>0. presented \in Nat
  BY PagesAssumption DEF StateTyped, ScreenTyped
<1>1. RequestsFor(id) = {}
  BY <1>0 DEF RequestsFor, Numbered, RequestsFit, Is
<1>2. \A i \in 1..Len(main) : main[i].page # id
  BY <1>0 DEF Numbered, CallbacksFit, Is
<1>3. \A i \in 1..Len(writes) : writes[i].page # id
  BY <1>0 DEF Numbered, WritesFit, Is
<1>4. Cardinality(RequestsFor(id)) = 0
  BY <1>1, FS_EmptySet
<1>5. Count(main, AnswersFor(id)) = 0 /\ Count(main, ProfilesFor(id)) = 0
  <2>1. \A i \in 1..Len(main) : main[i] \notin AnswersFor(id) /\ main[i] \notin ProfilesFor(id)
    BY <1>2 DEF AnswersFor, ProfilesFor
  <2>2. QED
    BY <2>1, QueuesTyped, CountType
<1>6. Count(writes, ProfileWrites(id)) = 0
  <2>1. \A i \in 1..Len(writes) : writes[i] \notin ProfileWrites(id)
    BY <1>3 DEF ProfileWrites
  <2>2. QED
    BY <2>1, QueuesTyped, CountType
<1>7. QED
  BY <1>4, <1>5, <1>6 DEF Awaited, Owed

\* A call: its page waits once more.
LEMMA CallCounts ==
  ASSUME StateTyped, RequestsNumbered, NEW kind, NEW account, NEW page,
         Call(kind, account, page), writes' = writes
  PROVE  /\ RequestsNumbered'
         /\ \A id : /\ Awaited(id)' = IF id = page THEN Awaited(id) + 1 ELSE Awaited(id)
                    /\ Owed(id)' = IF id = page THEN Owed(id) + 1 ELSE Owed(id)
<1> DEFINE r == [kind |-> kind, account |-> account, page |-> page, no |-> sent + 1]
<1>1. /\ requests' = requests \cup {r} /\ main' = main /\ sent' = sent + 1
      /\ r.page = page /\ r.no = sent + 1 /\ sent \in Nat
  BY RequestsAssumption DEF Call, StateTyped, AuthTyped
<1> HIDE DEF r
<1>2. \A q \in requests : q.no \in Nat /\ q.no <= sent
  BY DEF RequestsNumbered, StateTyped, AuthTyped, Requests
<1>3. r \notin requests
  BY <1>1, <1>2
<1>4. RequestsNumbered'
  <2>1. IsFiniteSet(requests')
    BY <1>1, FS_AddElement DEF RequestsNumbered
  <2>2. \A q \in requests' : q.no <= sent'
    BY <1>1, <1>2
  <2>3. QED
    BY <2>1, <2>2 DEF RequestsNumbered
<1>5. ASSUME NEW id
      PROVE  /\ Awaited(id)' = IF id = page THEN Awaited(id) + 1 ELSE Awaited(id)
             /\ Owed(id)' = IF id = page THEN Owed(id) + 1 ELSE Owed(id)
  <2>0. /\ IsFiniteSet(RequestsFor(id)) /\ Cardinality(RequestsFor(id)) \in Nat
        /\ Count(main, AnswersFor(id)) \in Nat
        /\ Count(main, ProfilesFor(id)) \in Nat /\ Count(writes, ProfileWrites(id)) \in Nat
    BY CountsTyped
  <2>1. Cardinality(RequestsFor(id)') =
          IF id = page THEN Cardinality(RequestsFor(id)) + 1 ELSE Cardinality(RequestsFor(id))
    <3>1. CASE id = page
      <4>1. RequestsFor(id)' = RequestsFor(id) \cup {r} /\ r \notin RequestsFor(id)
        BY <1>1, <1>3, <3>1 DEF RequestsFor
      <4>2. QED
        BY <2>0, <3>1, <4>1, FS_AddElement
    <3>2. CASE id # page
      <4>1. RequestsFor(id)' = RequestsFor(id)
        BY <1>1, <3>2 DEF RequestsFor
      <4>2. QED
        BY <3>2, <4>1
    <3>3. QED
      BY <3>1, <3>2
  <2>2. /\ Awaited(id)' = Cardinality(RequestsFor(id)') + Count(main, AnswersFor(id))
        /\ Owed(id)' = Awaited(id)' + Count(main, ProfilesFor(id)) + Count(writes, ProfileWrites(id))
    BY <1>1 DEF Awaited, Owed
  <2>3. QED
    BY <2>0, <2>1, <2>2 DEF Awaited, Owed
<1>6. QED
  BY <1>4, <1>5

\* An answer: what was a call is a callback now, of the same page.
LEMMA AnswerCounts ==
  ASSUME StateTyped, RequestsNumbered, NEW r \in requests, NEW ok \in BOOLEAN,
         requests' = requests \ {r}, main' = Post(r.kind, r, ok), UNCHANGED <<sent, writes>>
  PROVE  /\ RequestsNumbered' /\ UnderWay' = UnderWay
         /\ \A id : Awaited(id)' = Awaited(id) /\ Owed(id)' = Owed(id)
<1> DEFINE c == [kind |-> r.kind, account |-> r.account, page |-> r.page, ok |-> ok]
<1>1. /\ main' = Append(main, c) /\ main \in Seq(Callbacks)
      /\ c \in CallAnswers /\ c.page = r.page /\ c.kind # "profile"
  BY QueuesTyped DEF Post, StateTyped, AuthTyped, Requests, Callbacks, CallAnswers, Kinds
<1> HIDE DEF c
<1>2. c \in Callbacks
  BY <1>1 DEF CallAnswers
<1>3. IsFiniteSet(requests) /\ IsFiniteSet(requests') /\ RequestsNumbered'
  BY FS_Subset DEF RequestsNumbered
<1>4. UnderWay' = UnderWay
  <2>1. Cardinality(requests') = Cardinality(requests) - 1
    BY <1>3, FS_RemoveElement
  <2>2. Count(main', CallAnswers) = Count(main, CallAnswers) + 1
    BY <1>1, <1>2, CountAppend
  <2>3. Cardinality(requests) \in Nat /\ Count(main, CallAnswers) \in Nat
    BY CountsTyped
  <2>4. QED
    BY <2>1, <2>2, <2>3 DEF UnderWay
<1>5. ASSUME NEW id PROVE Awaited(id)' = Awaited(id) /\ Owed(id)' = Owed(id)
  <2>0. /\ IsFiniteSet(RequestsFor(id)) /\ Cardinality(RequestsFor(id)) \in Nat
        /\ Count(main, AnswersFor(id)) \in Nat
    BY CountsTyped
  <2>1. Count(main', ProfilesFor(id)) = Count(main, ProfilesFor(id))
    <3>1. c \notin ProfilesFor(id)
      BY <1>1 DEF ProfilesFor
    <3>2. QED
      BY <1>1, <1>2, <3>1, CountAppend
  <2>2. /\ Awaited(id)' = Cardinality(RequestsFor(id)') + Count(main', AnswersFor(id))
        /\ Owed(id)' = Awaited(id)' + Count(main', ProfilesFor(id)) + Count(writes, ProfileWrites(id))
    BY DEF Awaited, Owed
  <2>3. Awaited(id)' = Awaited(id)
    <3>1. CASE id = r.page
      <4>1. RequestsFor(id)' = RequestsFor(id) \ {r} /\ r \in RequestsFor(id)
        BY <3>1 DEF RequestsFor
      <4>2. Cardinality(RequestsFor(id)') = Cardinality(RequestsFor(id)) - 1
        BY <2>0, <4>1, FS_RemoveElement
      <4>3. c \in AnswersFor(id)
        BY <1>1, <3>1 DEF AnswersFor
      <4>4. Count(main', AnswersFor(id)) = Count(main, AnswersFor(id)) + 1
        BY <1>1, <1>2, <4>3, CountAppend
      <4>5. QED
        BY <2>0, <2>2, <4>2, <4>4 DEF Awaited
    <3>2. CASE id # r.page
      <4>1. RequestsFor(id)' = RequestsFor(id) /\ c \notin AnswersFor(id)
        BY <1>1, <3>2 DEF RequestsFor, AnswersFor
      <4>2. Count(main', AnswersFor(id)) = Count(main, AnswersFor(id))
        BY <1>1, <1>2, <4>1, CountAppend
      <4>3. QED
        BY <2>2, <4>1, <4>2 DEF Awaited
    <3>3. QED
      BY <3>1, <3>2
  <2>4. QED
    BY <2>1, <2>2, <2>3 DEF Owed
<1>6. QED
  BY <1>3, <1>4, <1>5

\* A write is decided: a sign-up page's write becomes its completion.
LEMMA DecideCounts ==
  ASSUME StateTyped, RequestsNumbered, NEW i \in DOMAIN writes, Decide(i)
  PROVE  /\ UnderWay' = UnderWay /\ RequestsNumbered'
         /\ \A id \in 1..MaxPages : Awaited(id)' = Awaited(id) /\ Owed(id)' = Owed(id)
<1> DEFINE w == writes[i]
<1>1. /\ main \in Seq(Callbacks) /\ writes \in Seq(Writes) /\ i \in 1..Len(writes) /\ w \in Writes
  BY QueuesTyped, LenProperties, ElementOfSeq
<1>2. /\ writes' = RemoveAt(writes, i) /\ requests' = requests /\ sent' = sent
  BY DEF Decide
<1>3. PICK ok \in BOOLEAN :
        main' = IF w.page = 0 THEN main
                ELSE Append(main, [kind |-> w.kind, account |-> w.to, page |-> w.page, ok |-> ok])
  BY DEF Decide
<1> DEFINE c == [kind |-> w.kind, account |-> w.to, page |-> w.page, ok |-> ok]
<1>4. w.page # 0 => main' = Append(main, c) /\ c \in Callbacks
  BY <1>1, <1>3, PagesAssumption DEF Writes, Callbacks
<1>5. c.kind = w.kind /\ c.page = w.page /\ c.kind \notin Kinds
  BY <1>1 DEF Writes, Kinds
<1>6. w.page = 0 => main' = main
  BY <1>3
<1> HIDE DEF c
<1>7. RequestsNumbered'
  BY <1>2 DEF RequestsNumbered
<1>8. ASSUME NEW T, w.page # 0 => c \notin T PROVE Count(main', T) = Count(main, T)
  <2>1. CASE w.page = 0
    BY <1>6, <2>1
  <2>2. CASE w.page # 0
    <3>1. main' = Append(main, c) /\ c \in Callbacks /\ c \notin T
      BY <1>4, <1>8, <2>2
    <3>2. QED
      BY <1>1, <3>1, CountAppend
  <2>3. QED
    BY <2>1, <2>2
<1>9. UnderWay' = UnderWay
  <2>1. c \notin CallAnswers
    BY <1>5 DEF CallAnswers
  <2>2. Count(main', CallAnswers) = Count(main, CallAnswers)
    BY <1>8, <2>1
  <2>3. QED
    BY <1>2, <2>2 DEF UnderWay
<1>10. ASSUME NEW id \in 1..MaxPages PROVE Awaited(id)' = Awaited(id) /\ Owed(id)' = Owed(id)
  <2>0. id # 0 /\ Count(main, ProfilesFor(id)) \in Nat /\ Count(writes, ProfileWrites(id)) \in Nat
        /\ Awaited(id) \in Nat
    BY CountsTyped, PagesAssumption
  <2>1. c \notin AnswersFor(id)
    BY <1>5 DEF AnswersFor, CallAnswers
  <2>2. Awaited(id)' = Awaited(id)
    <3>1. Count(main', AnswersFor(id)) = Count(main, AnswersFor(id)) /\ RequestsFor(id)' = RequestsFor(id)
      BY <1>2, <1>8, <2>1 DEF RequestsFor
    <3>2. QED
      BY <3>1 DEF Awaited
  <2>3. /\ Owed(id) = Awaited(id) + Count(main, ProfilesFor(id)) + Count(writes, ProfileWrites(id))
        /\ Owed(id)' = Awaited(id)' + Count(main', ProfilesFor(id)) + Count(writes', ProfileWrites(id))
    BY DEF Owed
  <2>4. Count(writes', ProfileWrites(id)) =
          IF w \in ProfileWrites(id) THEN Count(writes, ProfileWrites(id)) - 1
          ELSE Count(writes, ProfileWrites(id))
    BY <1>1, <1>2, CountRemoveAt
  <2>5. CASE w \in ProfileWrites(id)
    <3>1. w.page # 0 /\ c \in ProfilesFor(id)
      BY <1>4, <1>5, <2>0, <2>5 DEF ProfileWrites, ProfilesFor
    <3>2. Count(main', ProfilesFor(id)) = Count(main, ProfilesFor(id)) + 1
      <4>1. main' = Append(main, c) /\ c \in Callbacks
        BY <1>4, <3>1
      <4>2. QED
        BY <1>1, <3>1, <4>1, CountAppend
    <3>3. QED
      BY <2>0, <2>2, <2>3, <2>4, <2>5, <3>2
  <2>6. CASE w \notin ProfileWrites(id)
    <3>1. c \notin ProfilesFor(id)
      BY <1>1, <1>5, <2>6 DEF ProfileWrites, ProfilesFor
    <3>2. Count(main', ProfilesFor(id)) = Count(main, ProfilesFor(id))
      BY <1>8, <3>1
    <3>3. QED
      BY <2>2, <2>3, <2>4, <2>6, <3>2
  <2>7. QED
    BY <2>5, <2>6
<1>11. QED
  BY <1>7, <1>9, <1>10

\* A callback runs: its page waits no longer for it.
LEMMA CallbackCounts ==
  ASSUME StateTyped, RequestsNumbered, main # <<>>, callbackRun
  PROVE  /\ RequestsNumbered'
         /\ UnderWay' = IF Head(main).kind \in Kinds THEN UnderWay - 1 ELSE UnderWay
         /\ \A id :
              /\ Awaited(id)' = IF Head(main).kind \in Kinds /\ Head(main).page = id
                                THEN Awaited(id) - 1 ELSE Awaited(id)
              /\ Count(main', ProfilesFor(id)) =
                   IF Head(main).kind = "profile" /\ Head(main).page = id
                   THEN Count(main, ProfilesFor(id)) - 1 ELSE Count(main, ProfilesFor(id))
<1>1. /\ main \in Seq(Callbacks) /\ main' = Tail(main) /\ requests' = requests /\ sent' = sent
      /\ Head(main) \in Callbacks
  BY QueuesTyped, HeadTailProperties DEF callbackRun
<1>2. RequestsNumbered'
  BY <1>1 DEF RequestsNumbered
<1>3. \A T : Count(main', T) = IF Head(main) \in T THEN Count(main, T) - 1 ELSE Count(main, T)
  BY <1>1, CountTail
<1>4. UnderWay' = IF Head(main).kind \in Kinds THEN UnderWay - 1 ELSE UnderWay
  <2>1. Head(main) \in CallAnswers <=> Head(main).kind \in Kinds
    BY <1>1 DEF CallAnswers
  <2>2. Cardinality(requests) \in Nat /\ Count(main, CallAnswers) \in Nat
    BY CountsTyped
  <2>3. UnderWay' = Cardinality(requests) + Count(main', CallAnswers)
    BY <1>1 DEF UnderWay
  <2>4. QED
    BY <1>3, <2>1, <2>2, <2>3 DEF UnderWay
<1>5. ASSUME NEW id
      PROVE  Awaited(id)' = IF Head(main).kind \in Kinds /\ Head(main).page = id
                            THEN Awaited(id) - 1 ELSE Awaited(id)
  <2>1. Head(main) \in AnswersFor(id) <=> Head(main).kind \in Kinds /\ Head(main).page = id
    BY <1>1 DEF AnswersFor, CallAnswers
  <2>2. Cardinality(RequestsFor(id)) \in Nat /\ Count(main, AnswersFor(id)) \in Nat
    BY CountsTyped
  <2>3. Awaited(id)' = Cardinality(RequestsFor(id)) + Count(main', AnswersFor(id))
    BY <1>1 DEF Awaited, RequestsFor
  <2>4. QED
    BY <1>3, <2>1, <2>2, <2>3 DEF Awaited
<1>6. \A id : Head(main) \in ProfilesFor(id) <=> Head(main).kind = "profile" /\ Head(main).page = id
  BY <1>1 DEF ProfilesFor
<1>7. QED
  BY <1>2, <1>3, <1>4, <1>5, <1>6

\* What a page owes when a callback has run, with the write it added, if any.
LEMMA OwedAfterCallback ==
  ASSUME StateTyped, RequestsNumbered, main # <<>>, callbackRun, NEW id,
         \/ writes' = writes
         \/ \E w \in Writes :
              /\ writes' = Append(writes, w)
              /\ w \in ProfileWrites(id) => Head(main).kind \in Kinds /\ Head(main).page = id
  PROVE  /\ Owed(id)' <= Owed(id)
         /\ writes' = writes /\ Head(main).kind # "save" /\ Head(main).page = id =>
              Owed(id)' = Owed(id) - 1
<1>1. Head(main) \in Callbacks
  BY QueuesTyped, HeadTailProperties
<1>2. Head(main).kind \in Kinds \cup {"profile", "save"} /\ "profile" \notin Kinds /\ "save" \notin Kinds
  BY <1>1 DEF Callbacks, Kinds
<1>3. /\ Awaited(id) \in Nat /\ Count(main, ProfilesFor(id)) \in Nat
      /\ Count(writes, ProfileWrites(id)) \in Nat
  BY CountsTyped
<1>4. /\ Owed(id) = Awaited(id) + Count(main, ProfilesFor(id)) + Count(writes, ProfileWrites(id))
      /\ Owed(id)' = Awaited(id)' + Count(main', ProfilesFor(id)) + Count(writes', ProfileWrites(id))
  BY DEF Owed
<1>5. /\ Awaited(id)' = IF Head(main).kind \in Kinds /\ Head(main).page = id
                        THEN Awaited(id) - 1 ELSE Awaited(id)
      /\ Count(main', ProfilesFor(id)) =
           IF Head(main).kind = "profile" /\ Head(main).page = id
           THEN Count(main, ProfilesFor(id)) - 1 ELSE Count(main, ProfilesFor(id))
  BY CallbackCounts
<1> DEFINE a == Awaited(id)
           b == Count(main, ProfilesFor(id))
           c == Count(writes, ProfileWrites(id))
           a1 == Awaited(id)'
           b1 == Count(main', ProfilesFor(id))
           c1 == Count(writes', ProfileWrites(id))
           mine == Head(main).page = id
           call == Head(main).kind \in Kinds
           profile == Head(main).kind = "profile"
<1>6. /\ a \in Nat /\ b \in Nat /\ c \in Nat /\ ~(call /\ profile)
      /\ Owed(id) = a + b + c /\ Owed(id)' = a1 + b1 + c1
      /\ a1 = (IF call /\ mine THEN a - 1 ELSE a)
      /\ b1 = (IF profile /\ mine THEN b - 1 ELSE b)
  BY <1>2, <1>3, <1>4, <1>5
<1>7. writes' # writes => c1 = c \/ (c1 = c + 1 /\ call /\ mine)
  <2> SUFFICES ASSUME writes' # writes PROVE c1 = c \/ (c1 = c + 1 /\ call /\ mine)
    OBVIOUS
  <2>1. PICK w \in Writes :
          writes' = Append(writes, w) /\ (w \in ProfileWrites(id) => call /\ mine)
    OBVIOUS
  <2>2. writes \in Seq(Writes)
    BY QueuesTyped
  <2>3. Count(Append(writes, w), ProfileWrites(id)) = IF w \in ProfileWrites(id) THEN c + 1 ELSE c
    BY <2>2, CountAppend
  <2>4. QED
    BY <2>1, <2>3
<1>8. writes' = writes => c1 = c
  OBVIOUS
<1>9. Head(main).kind # "save" => call \/ profile
  BY <1>2
<1> HIDE DEF a, b, c, a1, b1, c1, mine, call, profile
<1>10. a1 + b1 + c1 <= a + b + c
  <2>1. a1 <= a /\ b1 <= b /\ a1 \in Int /\ b1 \in Int
    BY <1>6
  <2>2. c1 = c \/ (c1 = c + 1 /\ a1 = a - 1)
    BY <1>6, <1>7, <1>8
  <2>3. QED
    BY <1>6, <2>1, <2>2
<1>11. ASSUME writes' = writes, call \/ profile, mine PROVE a1 + b1 + c1 = a + b + c - 1
  <2>1. c1 = c
    BY <1>8, <1>11
  <2>2. (a1 = a - 1 /\ b1 = b) \/ (a1 = a /\ b1 = b - 1)
    BY <1>6, <1>11
  <2>3. QED
    BY <1>6, <2>1, <2>2
<1>12. QED
  BY <1>6, <1>9, <1>10, <1>11 DEF mine

-----------------------------------------------------------------------------
(***************************************************************************)
(* What a step makes of the pages                                          *)
(***************************************************************************)
Same(j) ==
  /\ pages'[j].id = pages[j].id /\ pages'[j].kind = pages[j].kind
  /\ pages'[j].huds = pages[j].huds /\ pages'[j].homes = pages[j].homes

\* Nothing changes but alerts; one page changes; a page is presented, or
\* dismissed with its Home.
Still ==
  /\ presented' = presented /\ Len(pages') = Len(pages)
  /\ \A j \in 1..Len(pages) : Same(j)
OnePage(i, huds, homes) ==
  /\ presented' = presented /\ Len(pages') = Len(pages)
  /\ \A j \in 1..Len(pages) : j # i => Same(j)
  /\ pages'[i].id = pages[i].id /\ pages'[i].kind = pages[i].kind
  /\ pages'[i].huds = huds /\ pages'[i].homes = homes
Grown ==
  /\ presented' = presented + 1 /\ Len(pages') = Len(pages) + 1
  /\ \A j \in 1..Len(pages) : Same(j)
  /\ pages'[Len(pages) + 1].id = presented + 1
  /\ pages'[Len(pages) + 1].huds = 0 /\ pages'[Len(pages) + 1].homes = 0
Shrunk ==
  /\ presented' = presented /\ Len(pages') = Len(pages) - 1
  /\ \A j \in 1..(Len(pages) - 1) : Same(j)
  /\ pages # <<>> /\ Top.homes > 0

LEMMA HelperFields ==
  ASSUME NEW page \in PageStates, NEW i \in Nat, NEW text \in Alerts
  PROVE  /\ showIndicator(page).huds = page.huds + 1
         /\ hideIndicator(page).huds = (IF page.huds > 0 THEN page.huds - 1 ELSE 0)
         /\ Alerted(i, page, text).huds = page.huds
         /\ AlertedAtHome(page, text).huds = page.huds
         /\ navigateToHome(page).huds = page.huds /\ navigateToHome(page).homes = page.homes + 1
<1> USE DEF PageStates
<1>1. showIndicator(page).huds = page.huds + 1
  BY DEF showIndicator
<1>2. hideIndicator(page).huds = (IF page.huds > 0 THEN page.huds - 1 ELSE 0)
  BY DEF hideIndicator
<1>3. Alerted(i, page, text).huds = page.huds
  BY DEF Alerted
<1>4. AlertedAtHome(page, text).huds = page.huds
  BY DEF AlertedAtHome
<1>5. navigateToHome(page).huds = page.huds /\ navigateToHome(page).homes = page.homes + 1
  BY DEF navigateToHome
<1>6. QED
  BY <1>1, <1>2, <1>3, <1>4, <1>5

LEMMA PagesUnchanged ==
  ASSUME StateTyped, UNCHANGED <<pages, presented>> PROVE Still
<1>1. Len(pages) \in Nat
  BY LenProperties DEF StateTyped, ScreenTyped
<1>2. QED
  BY <1>1 DEF Still, Same

LEMMA PageChanged ==
  ASSUME StateTyped, NEW i \in 1..Len(pages), NEW page \in PageStates,
         page.id = pages[i].id, page.kind = pages[i].kind,
         pages' = [pages EXCEPT ![i] = page], presented' = presented
  PROVE  /\ OnePage(i, page.huds, page.homes)
         /\ page.huds = pages[i].huds /\ page.homes = pages[i].homes => Still
<1>1. /\ pages' \in Seq(PageStates) /\ Len(pages') = Len(pages)
      /\ \A j \in 1..Len(pages) : pages'[j] = IF j = i THEN page ELSE pages[j]
  BY ExceptSeq DEF StateTyped, ScreenTyped
<1>2. QED
  BY <1>1 DEF OnePage, Still, Same

\* The page on top changes.
LEMMA TopChanged ==
  ASSUME StateTyped, pages # <<>>, NEW page, SameBut(page, Top),
         pages' = OnTop(page), presented' = presented
  PROVE  /\ OnePage(Len(pages), page.huds, Top.homes)
         /\ page.huds = Top.huds => Still
<1>1. Len(pages) \in 1..Len(pages) /\ Top = pages[Len(pages)]
  BY TopProperties DEF StateTyped, ScreenTyped
<1>2. /\ page \in PageStates /\ page.id = Top.id /\ page.kind = Top.kind /\ page.homes = Top.homes
      /\ pages' = [pages EXCEPT ![Len(pages)] = page]
  BY DEF SameBut, OnTop
<1>3. QED
  BY <1>1, <1>2, PageChanged

LEMMA PagePresented ==
  ASSUME StateTyped, NEW kind, NEW below \in Seq(PageStates), Len(below) = Len(pages),
         \A j \in 1..Len(pages) :
           /\ below[j].id = pages[j].id /\ below[j].kind = pages[j].kind
           /\ below[j].huds = pages[j].huds /\ below[j].homes = pages[j].homes,
         presentPage(kind, below)
  PROVE  Grown
<1> DEFINE new == NewPage(kind)
<1>1. pages' = Append(below, new) /\ presented' = presented + 1
  BY DEF presentPage
<1>2. new.id = presented + 1 /\ new.huds = 0 /\ new.homes = 0
  BY DEF NewPage
<1> HIDE DEF new
<1>3. /\ Len(pages') = Len(pages) + 1
      /\ \A j \in 1..Len(pages) : pages'[j] = below[j]
      /\ pages'[Len(pages) + 1] = new
  <2>1. below \in Seq(PageStates \cup {new})
    <3>1. below \in [1..Len(below) -> PageStates] /\ Len(below) \in Nat
      BY LenProperties
    <3>2. QED
      BY <3>1
  <2>2. QED
    BY <1>1, <2>1, AppendProperties
<1>4. QED
  BY <1>1, <1>2, <1>3 DEF Grown, Same

\* Taps that only change what is on the screen.
LEMMA ScreenSteps ==
  ASSUME SessionInv, toLoginPage \/ didTapRegister \/ alertClosed
  PROVE  Grown \/ Still
<1>1. StateTyped /\ pages \in Seq(PageStates)
  BY DEF SessionInv, StateTyped, ScreenTyped
<1>2. CASE \E kind \in Kinds : presentPage(kind, pages)
  BY <1>1, <1>2, PagePresented
<1>3. CASE alertClosed
  <2> DEFINE page == [Top EXCEPT !.alert = "none"]
             closed == OnTop(page)
  <2>1. /\ pages # <<>> /\ Len(pages) \in 1..Len(pages) /\ Len(pages) \in Nat
        /\ Top = pages[Len(pages)] /\ Top \in PageStates
    BY <1>1, <1>3, TopProperties DEF alertClosed
  <2>2. SameBut(page, Top) /\ page.huds = Top.huds
    BY <2>1, PageHelpers DEF PageStates, Alerts
  <2> HIDE DEF page
  <2>3. CASE Top.alert = "created"
    <3>1. presentPage("login", closed)
      BY <1>3, <2>3 DEF alertClosed, page
    <3>2. page \in PageStates /\ closed = [pages EXCEPT ![Len(pages)] = page]
      BY <2>2 DEF OnTop, SameBut
    <3>3. /\ closed \in Seq(PageStates) /\ Len(closed) = Len(pages)
          /\ \A j \in 1..Len(pages) : closed[j] = IF j = Len(pages) THEN page ELSE pages[j]
      BY <1>1, <2>1, <3>2, ExceptSeq
    <3> HIDE DEF closed
    <3>4. \A j \in 1..Len(pages) :
            /\ closed[j].id = pages[j].id /\ closed[j].kind = pages[j].kind
            /\ closed[j].huds = pages[j].huds /\ closed[j].homes = pages[j].homes
      BY <2>1, <2>2, <3>3 DEF SameBut
    <3>5. QED
      BY <1>1, <3>1, <3>3, <3>4, PagePresented
  <2>4. CASE Top.alert # "created"
    <3>1. pages' = OnTop(page) /\ presented' = presented
      BY <1>3, <2>4 DEF alertClosed, page
    <3>2. QED
      BY <1>1, <2>1, <2>2, <3>1, TopChanged
  <2>5. QED
    BY <2>3, <2>4
<1>4. QED
  BY <1>2, <1>3 DEF toLoginPage, didTapRegister, Kinds

\* A call to Auth shows one more indicator.
CallTapped ==
  \E kind \in Kinds, account \in Accounts \cup {Blank} :
    /\ Call(kind, account, Top.id) /\ pages # <<>> /\ Top.homes = 0
    /\ OnePage(Len(pages), Top.huds + 1, 0)
    /\ UNCHANGED <<usersVars, presented, trapped, restarts>>

LEMMA CallSteps ==
  ASSUME SessionInv, NEW account \in Accounts \cup {Blank},
         loginButtonTapped(account) \/ getStartedButton(account)
  PROVE  CallTapped
<1>1. pages # <<>> /\ Top.homes = 0 /\ UNCHANGED <<usersVars, presented, trapped, restarts>>
  BY DEF loginButtonTapped, getStartedButton, At
<1>2. PICK kind \in Kinds : Call(kind, account, Top.id)
  BY DEF loginButtonTapped, getStartedButton, Kinds
<1>3. Top \in PageStates /\ Len(pages) \in Nat
  BY <1>1, TopProperties DEF SessionInv, StateTyped, ScreenTyped
<1>4. PICK text \in Alerts \ {"created"} :
        \/ pages' = OnTop(showIndicator(Alerted(Len(pages), Top, text)))
        \/ pages' = OnTop(showIndicator(Top))
  BY DEF loginButtonTapped, getStartedButton, Alerts
<1> DEFINE a == Alerted(Len(pages), Top, text)
<1>5. SameBut(showIndicator(a), Top) /\ SameBut(showIndicator(Top), Top)
  BY <1>1, TopHelpers
<1>6. a.huds = Top.huds /\ showIndicator(Top).huds = Top.huds + 1
  BY <1>3, HelperFields
<1>7. a \in PageStates
  BY <1>3, PageHelpers DEF SameBut
<1> HIDE DEF a
<1>8. showIndicator(a).huds = Top.huds + 1
  BY <1>3, <1>6, <1>7, HelperFields
<1>9. OnePage(Len(pages), Top.huds + 1, Top.homes)
  <2>1. StateTyped
    BY DEF SessionInv
  <2>2. CASE pages' = OnTop(showIndicator(a))
    BY <1>1, <1>5, <1>8, <2>1, <2>2, TopChanged
  <2>3. CASE pages' = OnTop(showIndicator(Top))
    BY <1>1, <1>5, <1>6, <2>1, <2>3, TopChanged
  <2>4. QED
    BY <1>4, <2>2, <2>3 DEF a
<1>10. QED
  BY <1>1, <1>2, <1>9 DEF CallTapped

LEMMA AlertsAtHome ==
  ASSUME SessionInv, pages # <<>>, NEW text \in Alerts \ {"created"},
         pages' = OnTop(AlertedAtHome(Top, text)), presented' = presented
  PROVE  Still
<1>1. Top \in PageStates
  BY TopProperties DEF SessionInv, StateTyped, ScreenTyped
<1>2. AlertedAtHome(Top, text).huds = Top.huds
  <2>1. 0 \in Nat
    OBVIOUS
  <2>2. QED
    BY <1>1, <2>1, HelperFields
<1>3. SameBut(AlertedAtHome(Top, text), Top)
  BY TopHelpers
<1>4. QED
  BY <1>2, <1>3, TopChanged DEF SessionInv

LEMMA LogoutStep ==
  ASSUME SessionInv, didTapLogout
  PROVE  \/ signOut /\ Shrunk
         \/ UNCHANGED authVars /\ Still
<1>1. /\ pages # <<>> /\ Top.homes > 0 /\ presented' = presented
      /\ pages \in Seq(PageStates) /\ Len(pages) \in Nat \ {0}
  BY TopProperties DEF didTapLogout, AtHome, SessionInv, StateTyped, ScreenTyped
<1>2. CASE UNCHANGED authVars /\ pages' = OnTop(AlertedAtHome(Top, "error"))
  BY <1>1, <1>2, AlertsAtHome DEF Alerts
<1>3. CASE signOut /\ pages' = Dismissed
  <2>1. Len(pages') = Len(pages) - 1 /\ \A j \in 1..(Len(pages) - 1) : pages'[j] = pages[j]
    BY <1>1, <1>3, FrontElements DEF Dismissed
  <2>2. QED
    BY <1>1, <1>3, <2>1 DEF Shrunk, Same
<1>4. QED
  BY <1>2, <1>3 DEF didTapLogout

\* A callback to a page hides one of its indicators.
Hidden(i) == IF pages[i].huds > 0 THEN pages[i].huds - 1 ELSE 0

LEMMA LoginPages ==
  ASSUME SessionInv, loginAnswered
  PROVE  \/ \E i \in 1..Len(pages) :
              /\ IsFor(i) /\ trapped' = HomeTraps(i)
              /\ OnePage(i, Hidden(i), pages[i].homes + IF Head(main).ok THEN 1 ELSE 0)
         \/ Gone /\ Still
<1>1. /\ StateTyped /\ pages \in Seq(PageStates) /\ DOMAIN pages = 1..Len(pages)
      /\ presented' = presented
  BY LenProperties DEF SessionInv, StateTyped, ScreenTyped, loginAnswered
<1>2. CASE Gone /\ pages' = pages
  BY <1>1, <1>2, PagesUnchanged
<1>3. CASE \E i \in DOMAIN pages :
             /\ IsFor(i) /\ trapped' = HomeTraps(i)
             /\ pages' = [pages EXCEPT ![i] =
                            IF Head(main).ok THEN navigateToHome(hideIndicator(pages[i]))
                            ELSE Alerted(i, hideIndicator(pages[i]), "rejected")]
  <2>1. PICK i \in 1..Len(pages) :
             /\ IsFor(i) /\ trapped' = HomeTraps(i)
             /\ pages' = [pages EXCEPT ![i] =
                            IF Head(main).ok THEN navigateToHome(hideIndicator(pages[i]))
                            ELSE Alerted(i, hideIndicator(pages[i]), "rejected")]
    BY <1>1, <1>3
  <2>2. pages[i] \in PageStates /\ i \in Nat /\ "rejected" \in Alerts
    BY <1>1, ElementOfSeq DEF Alerts
  <2> DEFINE hidden == hideIndicator(pages[i])
  <2>3. SameBut(hidden, pages[i]) /\ hidden.huds = Hidden(i)
    BY <2>2, PageHelpers, HelperFields DEF Hidden
  <2>4. hidden \in PageStates /\ hidden.kind = pages[i].kind /\ hidden.id = pages[i].id
        /\ hidden.homes = pages[i].homes
    BY <2>3 DEF SameBut
  <2> HIDE DEF hidden
  <2>5. CASE Head(main).ok
    <3> DEFINE page == navigateToHome(hidden)
    <3>1. page \in PageStates /\ page.kind = pages[i].kind /\ page.id = pages[i].id
          /\ page.huds = Hidden(i) /\ page.homes = pages[i].homes + 1
      BY <2>2, <2>3, <2>4, PageHelpers, HelperFields
    <3>2. pages' = [pages EXCEPT ![i] = page]
      BY <2>1, <2>5 DEF hidden
    <3> HIDE DEF page
    <3>3. OnePage(i, Hidden(i), pages[i].homes + 1)
      BY <1>1, <3>1, <3>2, PageChanged
    <3>4. QED
      BY <2>1, <2>5, <3>3
  <2>6. CASE ~Head(main).ok
    <3> DEFINE page == Alerted(i, hidden, "rejected")
    <3>1. SameBut(page, hidden) /\ page.huds = Hidden(i)
      BY <2>2, <2>3, <2>4, PageHelpers, HelperFields
    <3>2. pages' = [pages EXCEPT ![i] = page]
      BY <2>1, <2>6 DEF hidden
    <3> HIDE DEF page
    <3>3. page \in PageStates /\ page.kind = pages[i].kind /\ page.id = pages[i].id
          /\ page.homes = pages[i].homes
      BY <2>4, <3>1 DEF SameBut
    <3>4. OnePage(i, Hidden(i), pages[i].homes)
      BY <1>1, <3>1, <3>2, <3>3, PageChanged
    <3>5. pages[i].homes + 0 = pages[i].homes
      BY <2>2 DEF PageStates
    <3>6. QED
      BY <2>1, <2>6, <3>4, <3>5
  <2>7. QED
    BY <2>5, <2>6
<1>4. QED
  BY <1>2, <1>3 DEF loginAnswered

LEMMA HearsPages ==
  ASSUME SessionInv, presented' = presented, NEW text \in Alerts, createUserHandler(text)
  PROVE  \E i \in 1..Len(pages) : IsFor(i) /\ OnePage(i, Hidden(i), pages[i].homes)
<1>1. StateTyped /\ pages \in Seq(PageStates) /\ DOMAIN pages = 1..Len(pages)
  BY LenProperties DEF SessionInv, StateTyped, ScreenTyped
<1>2. PICK i \in 1..Len(pages) :
        IsFor(i) /\ pages' = [pages EXCEPT ![i] = hideIndicator(Alerted(i, pages[i], text))]
  BY <1>1 DEF createUserHandler
<1>3. pages[i] \in PageStates /\ i \in Nat
  BY <1>1, ElementOfSeq
<1> DEFINE a == Alerted(i, pages[i], text)
           page == hideIndicator(a)
<1>4. SameBut(a, pages[i]) /\ a.huds = pages[i].huds
  BY <1>3, PageHelpers, HelperFields
<1>5. a \in PageStates
  BY <1>4 DEF SameBut
<1> HIDE DEF a
<1>6. SameBut(page, a) /\ page.huds = Hidden(i)
  <2>1. SameBut(page, a)
    BY <1>3, <1>5, PageHelpers
  <2>2. page.huds = IF a.huds > 0 THEN a.huds - 1 ELSE 0
    BY <1>3, <1>5, HelperFields
  <2>3. QED
    BY <1>4, <2>1, <2>2 DEF Hidden
<1>7. pages' = [pages EXCEPT ![i] = page]
  BY <1>2 DEF a
<1> HIDE DEF page
<1>8. page \in PageStates /\ page.kind = pages[i].kind /\ page.id = pages[i].id
      /\ page.homes = pages[i].homes
  BY <1>4, <1>6 DEF SameBut
<1>9. OnePage(i, Hidden(i), pages[i].homes)
  BY <1>1, <1>6, <1>7, <1>8, PageChanged
<1>10. QED
  BY <1>2, <1>9

-----------------------------------------------------------------------------
(***************************************************************************)
(* Indicators                                                              *)
(***************************************************************************)
IdsDiffer == \A i, j \in 1..Len(pages) : i # j => pages[i].id # pages[j].id

\* A sign-up page may keep an indicator that nothing hides; it has one for
\* everything that will hide one.
Indicated ==
  \A i \in 1..Len(pages) :
    /\ pages[i].kind = "login" => pages[i].huds = Awaited(pages[i].id)
    /\ pages[i].kind = "signup" => pages[i].huds >= Owed(pages[i].id)

IndicatorInv == RequestsNumbered /\ IdsDiffer /\ Indicated

\* The same pages are presented.
Kept ==
  /\ presented' = presented /\ Len(pages') = Len(pages)
  /\ \A j \in 1..Len(pages) : pages'[j].id = pages[j].id /\ pages'[j].kind = pages[j].kind

CountsNat == \A id : Awaited(id) \in Nat /\ Owed(id) \in Nat
LEMMA CountsNow == StateTyped /\ RequestsNumbered => CountsNat
BY CountsTyped DEF CountsNat
LEMMA CountsNext == StateTyped' /\ RequestsNumbered' => CountsNat'
BY CountsNow, PTL

LEMMA KeptPages ==
  /\ Still => Kept
  /\ \A i \in 1..Len(pages) : \A huds, homes : OnePage(i, huds, homes) => Kept
BY DEF Still, OnePage, Kept, Same

LEMMA IdsStay ==
  ASSUME StateTyped, PagesNumbered, IdsDiffer, Kept \/ Grown \/ Shrunk
  PROVE  IdsDiffer'
<1>0. Len(pages) \in Nat /\ presented \in Nat
  BY LenProperties, PagesAssumption DEF StateTyped, ScreenTyped
<1>1. CASE Kept
  BY <1>1 DEF Kept, IdsDiffer
<1>2. CASE Grown
  <2>1. \A j \in 1..Len(pages) : pages'[j].id # presented + 1
    <3>1. \A j \in 1..Len(pages) : pages[j].id \in Nat /\ ~(pages[j].id > presented)
      BY NumbersGiven DEF StateTyped
    <3>2. QED
      BY <1>0, <1>2, <3>1 DEF Grown, Same
  <2>2. \A j \in 1..Len(pages') : j \in 1..Len(pages) \/ j = Len(pages) + 1
    BY <1>0, <1>2 DEF Grown
  <2>3. QED
    BY <1>2, <2>1, <2>2 DEF Grown, Same, IdsDiffer
<1>3. CASE Shrunk
  <2>1. \A j \in 1..Len(pages') : j \in 1..Len(pages) /\ pages'[j].id = pages[j].id
    BY <1>0, <1>3 DEF Shrunk, Same
  <2>2. QED
    BY <2>1 DEF IdsDiffer
<1>4. QED
  BY <1>1, <1>2, <1>3

LEMMA PageIds ==
  ASSUME StateTyped, NEW j \in 1..Len(pages)
  PROVE  /\ pages[j].id \in 1..MaxPages /\ pages[j].kind \in Kinds
         /\ pages[j].huds \in Nat /\ pages[j].homes \in Nat
<1>1. pages[j] \in PageStates
  BY ElementOfSeq DEF StateTyped, ScreenTyped
<1>2. QED
  BY <1>1 DEF PageStates, Kinds

\* Every page either shows what it showed, and that is still true, or what is
\* true now.
LEMMA IndicatedKept ==
  ASSUME StateTyped, StateTyped', IndicatorInv, RequestsNumbered', Kept,
         \A j \in 1..Len(pages), id \in 1..MaxPages : pages[j].id = id =>
           \/ /\ Same(j) /\ Owed(id)' <= Owed(id)
              /\ pages[j].kind = "login" => Awaited(id)' = Awaited(id)
           \/ /\ pages[j].kind = "login" => pages'[j].huds = Awaited(id)'
              /\ pages[j].kind = "signup" => pages'[j].huds >= Owed(id)'
  PROVE  Indicated'
<1> SUFFICES ASSUME NEW j \in 1..Len(pages')
             PROVE  /\ pages'[j].kind = "login" => (pages[j].huds = Awaited(pages[j].id))'
                    /\ pages'[j].kind = "signup" => (pages[j].huds >= Owed(pages[j].id))'
  BY DEF Indicated
<1>1. PICK id \in 1..MaxPages : id = pages[j].id
  BY PageIds DEF Kept
<1>2. /\ j \in 1..Len(pages) /\ pages'[j].id = id /\ pages'[j].kind = pages[j].kind
      /\ pages[j].huds \in Nat
  BY <1>1, PageIds DEF Kept
<1>3. Owed(id) \in Nat /\ Owed(id)' \in Nat
  BY CountsNow, CountsNext DEF IndicatorInv, CountsNat
<1>4. /\ pages[j].kind = "login" => pages[j].huds = Awaited(id)
      /\ pages[j].kind = "signup" => pages[j].huds >= Owed(id)
  BY <1>1, <1>2 DEF IndicatorInv, Indicated
<1>5. /\ pages[j].kind = "login" => pages'[j].huds = Awaited(id)'
      /\ pages[j].kind = "signup" => pages'[j].huds >= Owed(id)'
  <2>1. CASE Same(j) /\ Owed(id)' <= Owed(id) /\ (pages[j].kind = "login" => Awaited(id)' = Awaited(id))
    BY <1>2, <1>3, <1>4, <2>1 DEF Same
  <2>2. QED
    BY <1>1, <1>2, <2>1
<1>6. QED
  BY <1>2, <1>5

LEMMA SameQueues ==
  ASSUME RequestsNumbered, UNCHANGED <<requests, sent, main, writes>>
  PROVE  RequestsNumbered' /\ \A id : Awaited(id)' = Awaited(id) /\ Owed(id)' = Owed(id)
BY DEF RequestsNumbered, Awaited, Owed, RequestsFor

LEMMA QuietIndicators ==
  ASSUME SessionInv, StateTyped', IndicatorInv, RequestsNumbered', Still,
         \A id \in 1..MaxPages : Awaited(id)' = Awaited(id) /\ Owed(id)' = Owed(id)
  PROVE  IndicatorInv'
<1>1. StateTyped /\ PagesNumbered /\ IdsDiffer /\ Kept
  BY KeptPages DEF SessionInv, Numbered, IndicatorInv
<1>2. \A id : Owed(id) \in Nat
  BY <1>1, CountsNow DEF IndicatorInv, CountsNat
<1>3. \A id \in 1..MaxPages : Owed(id)' <= Owed(id)
  BY <1>2
<1>4. \A j \in 1..Len(pages) : Same(j)
  BY DEF Still
<1>5. Indicated'
  BY <1>1, <1>3, <1>4, IndicatedKept
<1>6. QED
  BY <1>1, <1>5, IdsStay DEF IndicatorInv

\* A page comes on top that nothing is under way for, or one goes.
LEMMA OtherPages ==
  ASSUME SessionInv, StateTyped', IndicatorInv, Grown \/ Shrunk,
         UNCHANGED <<requests, sent, main, writes>>
  PROVE  IndicatorInv'
<1>1. StateTyped /\ Numbered /\ IdsDiffer /\ Indicated /\ RequestsNumbered
  BY DEF SessionInv, IndicatorInv
<1>2. RequestsNumbered' /\ \A id : Awaited(id)' = Awaited(id) /\ Owed(id)' = Owed(id)
  BY <1>1, SameQueues
<1>3. Len(pages) \in Nat /\ presented \in Nat
  BY <1>1, LenProperties, PagesAssumption DEF StateTyped, ScreenTyped
<1>4. \A j \in 1..Len(pages') :
        \/ j \in 1..Len(pages) /\ Same(j)
        \/ pages'[j].id = presented + 1 /\ pages'[j].huds = 0
  BY <1>3 DEF Grown, Shrunk
<1>5. Awaited(presented + 1) = 0 /\ Owed(presented + 1) = 0
  BY <1>1, <1>3, NothingForNew
<1>6. Indicated'
  <2> SUFFICES ASSUME NEW j \in 1..Len(pages')
               PROVE  /\ pages'[j].kind = "login" => (pages[j].huds = Awaited(pages[j].id))'
                      /\ pages'[j].kind = "signup" => (pages[j].huds >= Owed(pages[j].id))'
    BY DEF Indicated
  <2>1. CASE j \in 1..Len(pages) /\ Same(j)
    <3>1. /\ pages[j].kind = "login" => pages[j].huds = Awaited(pages[j].id)
          /\ pages[j].kind = "signup" => pages[j].huds >= Owed(pages[j].id)
      BY <1>1, <2>1 DEF Indicated
    <3>2. QED
      BY <1>2, <2>1, <3>1 DEF Same
  <2>2. CASE pages'[j].id = presented + 1 /\ pages'[j].huds = 0
    BY <1>2, <1>5, <2>2
  <2>3. QED
    BY <1>4, <2>1, <2>2
<1>7. QED
  BY <1>1, <1>2, <1>6, IdsStay DEF IndicatorInv, Numbered

LEMMA ScreenIndicators ==
  ASSUME SessionInv, StateTyped', IndicatorInv, toLoginPage \/ didTapRegister \/ alertClosed
  PROVE  IndicatorInv'
<1>1. Grown \/ Still
  BY ScreenSteps
<1>2. UNCHANGED <<requests, sent, main, writes>>
  BY DEF toLoginPage, didTapRegister, alertClosed, authVars, usersVars
<1>3. QED
  BY <1>1, <1>2, OtherPages, SameQueues, QuietIndicators DEF IndicatorInv

LEMMA LogoutIndicators ==
  ASSUME SessionInv, StateTyped', IndicatorInv, didTapLogout
  PROVE  IndicatorInv'
<1>1. Shrunk \/ Still
  BY LogoutStep
<1>2. UNCHANGED <<requests, sent, main, writes>>
  BY DEF didTapLogout, signOut, authVars, usersVars
<1>3. QED
  BY <1>1, <1>2, OtherPages, SameQueues, QuietIndicators DEF IndicatorInv

LEMMA CallIndicators ==
  ASSUME SessionInv, StateTyped', IndicatorInv, CallTapped
  PROVE  IndicatorInv'
<1> DEFINE n == Len(pages)
<1>1. PICK kind \in Kinds, account \in Accounts \cup {Blank} :
        /\ Call(kind, account, Top.id) /\ pages # <<>> /\ Top.homes = 0
        /\ OnePage(n, Top.huds + 1, 0) /\ writes' = writes
  BY DEF CallTapped, usersVars
<1>2. StateTyped /\ PagesNumbered /\ RequestsNumbered /\ IdsDiffer /\ Indicated
  BY DEF SessionInv, Numbered, IndicatorInv
<1>3. n \in 1..n /\ Top = pages[n]
  BY <1>1, <1>2, TopProperties DEF StateTyped, ScreenTyped
<1>4. /\ RequestsNumbered'
      /\ \A id : /\ Awaited(id)' = IF id = Top.id THEN Awaited(id) + 1 ELSE Awaited(id)
                 /\ Owed(id)' = IF id = Top.id THEN Owed(id) + 1 ELSE Owed(id)
  BY <1>1, <1>2, CallCounts
<1>5. Kept
  BY <1>1, <1>3, KeptPages
<1>6. \A id : Owed(id) \in Nat /\ Awaited(id) \in Nat
  BY <1>2, CountsNow DEF CountsNat
<1>7. ASSUME NEW j \in 1..n, NEW id \in 1..MaxPages, pages[j].id = id
      PROVE  \/ /\ Same(j) /\ Owed(id)' <= Owed(id)
                /\ pages[j].kind = "login" => Awaited(id)' = Awaited(id)
             \/ /\ pages[j].kind = "login" => pages'[j].huds = Awaited(id)'
                /\ pages[j].kind = "signup" => pages'[j].huds >= Owed(id)'
  <2>1. CASE j = n
    <3>1. /\ pages[j].kind = "login" => pages[j].huds = Awaited(id)
          /\ pages[j].kind = "signup" => pages[j].huds >= Owed(id)
      BY <1>2, <1>7 DEF Indicated
    <3>2. Awaited(id)' = Awaited(id) + 1 /\ Owed(id)' = Owed(id) + 1
      BY <1>3, <1>4, <1>7, <2>1
    <3>3. pages'[j].huds = pages[j].huds + 1 /\ pages[j].huds \in Nat
      BY <1>1, <1>2, <1>3, <2>1, PageIds DEF OnePage
    <3>4. Owed(id) \in Nat
      BY <1>6
    <3>5. QED
      BY <3>1, <3>2, <3>3, <3>4
  <2>2. CASE j # n
    <3>1. Same(j)
      BY <1>1, <2>2 DEF OnePage
    <3>2. id # Top.id
      BY <1>2, <1>3, <1>7, <2>2 DEF IdsDiffer
    <3>3. QED
      BY <1>4, <1>6, <3>1, <3>2
  <2>3. QED
    BY <2>1, <2>2
<1>8. Indicated'
  BY <1>2, <1>4, <1>5, <1>7, IndicatedKept
<1>9. QED
  BY <1>2, <1>4, <1>5, <1>8, IdsStay DEF IndicatorInv

\* A callback of a page: of the one that it is for, or of none any more.
LEMMA CallbackIndicators ==
  ASSUME SessionInv, StateTyped', IndicatorInv, main # <<>>, callbackRun,
         Head(main).kind # "save",
         \/ /\ Still /\ (Gone \/ Head(main).kind # "login")
            /\ \/ writes' = writes
               \/ /\ Head(main).kind = "signup"
                  /\ \E w \in Writes : writes' = Append(writes, w) /\ w.page = Head(main).page
         \/ /\ writes' = writes
            /\ \E i \in 1..Len(pages) : \E homes : IsFor(i) /\ OnePage(i, Hidden(i), homes)
  PROVE  IndicatorInv'
<1>1. StateTyped /\ PagesNumbered /\ RequestsNumbered /\ IdsDiffer /\ Indicated
      /\ DOMAIN pages = 1..Len(pages)
  BY LenProperties DEF SessionInv, StateTyped, ScreenTyped, Numbered, IndicatorInv
<1> DEFINE k == Head(main).kind
<1>2. /\ k \in {"login", "signup", "profile"}
      /\ \A i \in 1..Len(pages) : IsFor(i) => pages[i].kind = PageKind(k)
  BY HeadFits DEF Callbacks
<1>3. /\ RequestsNumbered'
      /\ \A id : Awaited(id)' = IF k \in Kinds /\ Head(main).page = id
                                THEN Awaited(id) - 1 ELSE Awaited(id)
  BY <1>1, CallbackCounts
<1>4. \A id : /\ Owed(id)' <= Owed(id)
              /\ writes' = writes /\ Head(main).page = id => Owed(id)' = Owed(id) - 1
  <2>1. ASSUME NEW id
        PROVE  \/ writes' = writes
               \/ \E w \in Writes :
                    /\ writes' = Append(writes, w)
                    /\ w \in ProfileWrites(id) => k \in Kinds /\ Head(main).page = id
    BY DEF ProfileWrites, Kinds
  <2>2. QED
    BY <1>1, <2>1, OwedAfterCallback
<1>5. \A id : /\ Owed(id) \in Nat /\ Awaited(id) \in Nat
              /\ Owed(id)' \in Nat /\ Awaited(id)' \in Nat
  BY <1>1, <1>3, CountsNow, CountsNext DEF CountsNat
<1>6. Kept
  BY KeptPages
<1>7. ASSUME NEW j \in 1..Len(pages), NEW id \in 1..MaxPages, pages[j].id = id
      PROVE  \/ /\ Same(j) /\ Owed(id)' <= Owed(id)
                /\ pages[j].kind = "login" => Awaited(id)' = Awaited(id)
             \/ /\ pages[j].kind = "login" => pages'[j].huds = Awaited(id)'
                /\ pages[j].kind = "signup" => pages'[j].huds >= Owed(id)'
  <2>1. CASE ~IsFor(j)
    <3>1. Head(main).page # id
      BY <1>7, <2>1 DEF IsFor
    <3>2. Same(j)
      BY <2>1 DEF Still, OnePage
    <3>3. QED
      BY <1>3, <1>4, <3>1, <3>2
  <2>2. CASE IsFor(j) /\ Still /\ (Gone \/ k # "login")
    <3>1. Same(j) /\ k # "login"
      BY <1>1, <2>2 DEF Still, Gone
    <3>2. pages[j].kind # "login"
      BY <1>2, <2>2, <3>1 DEF PageKind
    <3>3. QED
      BY <1>4, <3>1, <3>2
  <2>3. CASE IsFor(j) /\ ~(Still /\ (Gone \/ k # "login"))
    <3>0. PICK i \in 1..Len(pages) : \E homes : IsFor(i) /\ OnePage(i, Hidden(i), homes)
      BY <2>3
    <3>1. PICK homes : IsFor(i) /\ OnePage(i, Hidden(i), homes)
      BY <3>0
    <3>2. i = j /\ Head(main).page = id
      BY <1>1, <1>7, <2>3, <3>1 DEF IsFor, IdsDiffer
    <3>3. writes' = writes
      BY <2>3
    <3>4. Owed(id)' = Owed(id) - 1
      BY <1>4, <3>2, <3>3
    <3>5. /\ pages[j].huds \in Nat /\ pages'[j].huds = Hidden(j)
          /\ pages[j].kind = "login" => pages[j].huds = Awaited(id)
          /\ pages[j].kind = "signup" => pages[j].huds >= Owed(id)
      BY <1>1, <1>7, <3>1, <3>2, PageIds DEF OnePage, Indicated
    <3>6. CASE pages[j].kind = "login"
      <4>1. k \in Kinds
        BY <1>2, <2>3, <3>6 DEF PageKind, Kinds
      <4>2. Awaited(id)' = Awaited(id) - 1
        BY <1>3, <3>2, <4>1
      <4>3. Awaited(id) \in Nat /\ Awaited(id)' \in Nat
        BY <1>5
      <4>4. Hidden(j) = Awaited(id)'
        BY <3>5, <3>6, <4>2, <4>3 DEF Hidden
      <4>5. QED
        BY <3>5, <3>6, <4>4
    <3>7. CASE pages[j].kind # "login"
      <4>1. pages[j].huds >= Owed(id) /\ Owed(id)' = Owed(id) - 1
        BY <1>1, <3>4, <3>5, <3>7, PageIds DEF Kinds
      <4>2. Owed(id) \in Nat /\ Owed(id)' \in Nat
        BY <1>5
      <4>3. Hidden(j) >= Owed(id)'
        BY <3>5, <4>1, <4>2 DEF Hidden
      <4>4. QED
        BY <3>5, <3>7, <4>3
    <3>8. QED
      BY <3>6, <3>7
  <2>4. QED
    BY <2>1, <2>2, <2>3
<1>8. Indicated'
  BY <1>1, <1>3, <1>6, <1>7, IndicatedKept
<1>9. QED
  BY <1>1, <1>3, <1>6, <1>8, IdsStay DEF IndicatorInv

-----------------------------------------------------------------------------
(***************************************************************************)
(* While no call overlaps another                                          *)
(***************************************************************************)
\* That page is presented, and no Home on it or above it.
NoHomeFrom(ps, id) ==
  \E i \in 1..Len(ps) : ps[i].id = id /\ \A j \in i..Len(ps) : ps[j].homes = 0

CallsOnTop ==
  /\ \A r \in requests : NoHomeFrom(pages, r.page)
  /\ \A i \in 1..Len(main) : main[i].kind \in Kinds => NoHomeFrom(pages, main[i].page)

\* Who has logged in or signed up is the current user when the page hears of
\* it, or Auth has signed them out by itself.
AnswersCurrent ==
  \A i \in 1..Len(main) : main[i].kind \in Kinds /\ main[i].ok =>
    (main[i].account = currentUser \/ lapsed) /\ main[i].account \in Accounts

Calm ==
  ~overlapped => UnderWay <= 1 /\ CallsOnTop /\ AnswersCurrent /\ (trapped => lapsed)

NothingCalled == requests = {} /\ \A i \in 1..Len(main) : main[i].kind \notin Kinds
Idle == UnderWay <= 0

LEMMA IdleNow == StateTyped /\ RequestsNumbered /\ Idle => NothingCalled
<1> SUFFICES ASSUME StateTyped, RequestsNumbered, Idle PROVE NothingCalled
  OBVIOUS
<1>1. Cardinality(requests) \in Nat /\ Count(main, CallAnswers) \in Nat
  BY CountsTyped
<1>2. Cardinality(requests) = 0 /\ Count(main, CallAnswers) = 0
  BY <1>1 DEF UnderWay, Idle
<1>3. requests = {}
  BY <1>2, FS_EmptySet DEF RequestsNumbered
<1>4. main \in Seq(Callbacks)
  BY QueuesTyped
<1>5. \A i \in 1..Len(main) : main[i] \in Callbacks /\ main[i] \notin CallAnswers
  BY <1>2, <1>4, CountType, ElementOfSeq
<1>6. QED
  BY <1>3, <1>5 DEF CallAnswers, NothingCalled

LEMMA IdleNext == StateTyped' /\ RequestsNumbered' /\ Idle' => NothingCalled'
BY IdleNow, PTL

LEMMA OneUnderWay ==
  ASSUME StateTyped, RequestsNumbered, UnderWay <= 1, NEW r \in requests
  PROVE  requests = {r} /\ \A i \in 1..Len(main) : main[i].kind \notin Kinds
<1>1. Cardinality(requests) \in Nat /\ Count(main, CallAnswers) \in Nat
  BY CountsTyped
<1>2. /\ Cardinality(requests \ {r}) = Cardinality(requests) - 1
      /\ IsFiniteSet(requests \ {r}) /\ Cardinality(requests \ {r}) \in Nat
  BY FS_RemoveElement, FS_CardinalityType DEF RequestsNumbered
<1>3. Cardinality(requests \ {r}) = 0 /\ Count(main, CallAnswers) = 0
  BY <1>1, <1>2 DEF UnderWay
<1>4. requests \ {r} = {}
  BY <1>2, <1>3, FS_EmptySet
<1>5. main \in Seq(Callbacks)
  BY QueuesTyped
<1>6. \A i \in 1..Len(main) : main[i] \in Callbacks /\ main[i] \notin CallAnswers
  BY <1>3, <1>5, CountType, ElementOfSeq
<1>7. QED
  BY <1>4, <1>6 DEF CallAnswers

\* The pages keep their Homes, and one that comes has none.
HomesKept ==
  /\ \/ Len(pages') = Len(pages)
     \/ Len(pages') = Len(pages) + 1 /\ pages'[Len(pages) + 1].homes = 0
  /\ \A j \in 1..Len(pages) : pages'[j].id = pages[j].id /\ pages'[j].homes = pages[j].homes

LEMMA HomesAre ==
  /\ Still \/ Grown => HomesKept
  /\ \A i \in 1..Len(pages) : \A huds : OnePage(i, huds, pages[i].homes) => HomesKept
BY DEF Still, Grown, OnePage, HomesKept, Same

LEMMA NoHomeStays ==
  ASSUME StateTyped, HomesKept, NEW id, NoHomeFrom(pages, id)
  PROVE  NoHomeFrom(pages', id)
<1>1. Len(pages) \in Nat
  BY LenProperties DEF StateTyped, ScreenTyped
<1>2. PICK i \in 1..Len(pages) : pages[i].id = id /\ \A j \in i..Len(pages) : pages[j].homes = 0
  BY DEF NoHomeFrom
<1>3. ASSUME NEW j \in i..Len(pages') PROVE pages'[j].homes = 0
  <2>1. j \in i..Len(pages) \/ (j = Len(pages) + 1 /\ Len(pages') = Len(pages) + 1)
    BY <1>1, <1>2 DEF HomesKept
  <2>2. CASE j \in i..Len(pages)
    <3>1. j \in 1..Len(pages)
      BY <1>1, <1>2, <2>2
    <3>2. QED
      BY <1>2, <2>2, <3>1 DEF HomesKept
  <2>3. CASE j = Len(pages) + 1 /\ Len(pages') = Len(pages) + 1
    <3>1. Len(pages') # Len(pages)
      BY <1>1, <2>3
    <3>2. QED
      BY <2>3, <3>1 DEF HomesKept
  <2>4. QED
    BY <2>1, <2>2, <2>3
<1>4. i \in 1..Len(pages') /\ pages'[i].id = id
  BY <1>1, <1>2 DEF HomesKept
<1>5. QED
  BY <1>3, <1>4 DEF NoHomeFrom

\* No call is made, none succeeds, nobody logs out.
LEMMA CalmKept ==
  ASSUME StateTyped, StateTyped', RequestsNumbered, RequestsNumbered', Calm, HomesKept,
         UNCHANGED <<currentUser, overlapped, lapsed>>, ~overlapped => (trapped' => lapsed),
         requests' \subseteq requests, UnderWay' = UnderWay \/ UnderWay' = UnderWay - 1,
         \A i \in 1..Len(main') :
           (\E k \in 1..Len(main) : main'[i] = main[k]) \/ main'[i].kind \notin Kinds
  PROVE  Calm'
<1> SUFFICES ASSUME ~overlapped
             PROVE  /\ UnderWay' <= 1 /\ CallsOnTop' /\ AnswersCurrent'
  BY DEF Calm
<1>1. UnderWay <= 1 /\ CallsOnTop /\ AnswersCurrent
  BY DEF Calm
<1>2. UnderWay' <= 1
  <2>1. UnderWay \in Nat
    BY CountsTyped
  <2>2. QED
    BY <1>1, <2>1
<1>3. CallsOnTop'
  <2>1. \A r \in requests' : NoHomeFrom(pages', r.page)
    BY <1>1, NoHomeStays DEF CallsOnTop
  <2>2. ASSUME NEW i \in 1..Len(main'), main'[i].kind \in Kinds PROVE NoHomeFrom(pages', main'[i].page)
    <3>1. PICK k \in 1..Len(main) : main'[i] = main[k]
      BY <2>2
    <3>2. NoHomeFrom(pages, main[k].page)
      BY <1>1, <2>2, <3>1 DEF CallsOnTop
    <3>3. QED
      BY <3>1, <3>2, NoHomeStays
  <2>3. QED
    BY <2>1, <2>2 DEF CallsOnTop
<1>4. AnswersCurrent'
  BY <1>1 DEF AnswersCurrent
<1>5. QED
  BY <1>2, <1>3, <1>4

\* A Home on top leaves nothing under way.
LEMMA HomeIsCalm ==
  ASSUME StateTyped, Calm, ~overlapped, pages # <<>>, Top.homes > 0
  PROVE  NothingCalled
<1>1. /\ Len(pages) \in 1..Len(pages) /\ Top = pages[Len(pages)] /\ Top.homes \in Nat
      /\ Len(pages) \in Nat
  BY TopProperties DEF StateTyped, ScreenTyped, PageStates
<1>2. ASSUME NEW id, NoHomeFrom(pages, id) PROVE FALSE
  <2>1. PICK i \in 1..Len(pages) : \A j \in i..Len(pages) : pages[j].homes = 0
    BY <1>2 DEF NoHomeFrom
  <2>2. Len(pages) \in i..Len(pages)
    BY <1>1, <2>1
  <2>3. QED
    BY <1>1, <2>1, <2>2
<1>3. CallsOnTop
  BY DEF Calm
<1>4. QED
  BY <1>2, <1>3 DEF CallsOnTop, NothingCalled

CallInv == IndicatorInv /\ Calm

LEMMA QuietCalm ==
  ASSUME SessionInv, StateTyped', CallInv, RequestsNumbered', HomesKept,
         UNCHANGED authVars, ~overlapped => (trapped' => lapsed)
  PROVE  Calm'
<1>1. StateTyped /\ RequestsNumbered /\ Calm
  BY DEF SessionInv, CallInv, IndicatorInv
<1>2. UnderWay' = UnderWay /\ main' = main /\ requests' = requests
      /\ UNCHANGED <<currentUser, overlapped, lapsed>>
  BY DEF authVars, UnderWay
<1>3. QED
  BY <1>1, <1>2, CalmKept

LEMMA ScreenCalls ==
  ASSUME SessionInv, StateTyped', CallInv, toLoginPage \/ didTapRegister \/ alertClosed
  PROVE  CallInv'
<1>1. IndicatorInv'
  BY ScreenIndicators DEF CallInv
<1>2. HomesKept
  BY ScreenSteps, HomesAre
<1>3. UNCHANGED authVars /\ trapped' = trapped
  BY DEF toLoginPage, didTapRegister, alertClosed
<1>4. Calm'
  BY <1>1, <1>2, <1>3, QuietCalm DEF IndicatorInv, CallInv, Calm
<1>5. QED
  BY <1>1, <1>4 DEF CallInv

\* When nothing else is under way, a call is the only one, and its page is on top.
LEMMA TappedCalls ==
  ASSUME SessionInv, StateTyped', CallInv, CallTapped
  PROVE  CallInv'
<1> DEFINE n == Len(pages)
<1>1. IndicatorInv'
  BY CallIndicators DEF CallInv
<1>2. PICK kind \in Kinds, account \in Accounts \cup {Blank} :
        /\ Call(kind, account, Top.id) /\ pages # <<>>
        /\ OnePage(n, Top.huds + 1, 0) /\ trapped' = trapped
  BY DEF CallTapped
<1> SUFFICES ASSUME ~overlapped'
             PROVE  UnderWay' <= 1 /\ CallsOnTop' /\ AnswersCurrent' /\ (trapped' => lapsed')
  BY <1>1 DEF CallInv, Calm
<1> DEFINE r == [kind |-> kind, account |-> account, page |-> Top.id, no |-> sent + 1]
<1>3. /\ ~overlapped /\ requests' = {r} /\ main' = <<>> /\ r.page = Top.id
  BY <1>2 DEF Call
<1> HIDE DEF r
<1>4. Len(main') = 0 /\ main' \in Seq(Callbacks)
  BY <1>3, EmptySeq
<1>5. UnderWay' <= 1
  <2>1. Cardinality(requests') = 1
    BY <1>3, FS_Singleton
  <2>2. Count(main', CallAnswers) = 0
    BY <1>3, CountEmpty
  <2>3. QED
    BY <2>1, <2>2 DEF UnderWay
<1>6. n \in 1..n /\ Top = pages[n] /\ n \in Nat
  BY <1>2, TopProperties DEF SessionInv, StateTyped, ScreenTyped
<1>7. NoHomeFrom(pages', Top.id)
  <2>1. n \in 1..Len(pages') /\ pages'[n].id = Top.id /\ pages'[n].homes = 0
    BY <1>2, <1>6 DEF OnePage
  <2>2. \A j \in n..Len(pages') : j = n
    BY <1>2, <1>6 DEF OnePage
  <2>3. QED
    BY <2>1, <2>2 DEF NoHomeFrom
<1>8. CallsOnTop' /\ AnswersCurrent'
  BY <1>3, <1>4, <1>7 DEF CallsOnTop, AnswersCurrent
<1>9. trapped' => lapsed'
  BY <1>2, <1>3 DEF CallInv, Calm, Call
<1>10. QED
  BY <1>5, <1>8, <1>9

LEMMA LogoutCalls ==
  ASSUME SessionInv, StateTyped', CallInv, didTapLogout
  PROVE  CallInv'
<1>1. IndicatorInv'
  BY LogoutIndicators DEF CallInv
<1>2. trapped' = trapped /\ ~trapped /\ pages # <<>> /\ Top.homes > 0
  BY DEF didTapLogout, AtHome
<1>3. CASE UNCHANGED authVars /\ Still
  <2>1. Calm'
    BY <1>1, <1>2, <1>3, HomesAre, QuietCalm DEF IndicatorInv, CallInv, Calm
  <2>2. QED
    BY <1>1, <2>1 DEF CallInv
<1>4. CASE signOut
  <2>1. UNCHANGED <<requests, main, overlapped>> /\ UnderWay' = UnderWay
    BY <1>4 DEF signOut, UnderWay
  <2>2. ~overlapped => NothingCalled /\ UnderWay <= 1
    BY <1>2, HomeIsCalm DEF SessionInv, CallInv, Calm
  <2>3. Calm'
    BY <1>2, <2>1, <2>2 DEF Calm, NothingCalled, CallsOnTop, AnswersCurrent
  <2>4. QED
    BY <1>1, <2>3 DEF CallInv
<1>5. QED
  BY <1>3, <1>4, LogoutStep

\* The answer to the only call: nothing is under way any more.
LEMMA LoginCalls ==
  ASSUME SessionInv, StateTyped', CallInv, loginAnswered
  PROVE  CallInv'
<1>1. /\ main # <<>> /\ Head(main).kind = "login" /\ callbackRun /\ writes' = writes
      /\ ~trapped /\ overlapped' = overlapped
  BY DEF loginAnswered, Runs, usersVars, callbackRun
<1>2. \/ \E i \in 1..Len(pages) :
           /\ IsFor(i) /\ trapped' = HomeTraps(i)
           /\ OnePage(i, Hidden(i), pages[i].homes + IF Head(main).ok THEN 1 ELSE 0)
      \/ Gone /\ Still
  BY LoginPages
<1>3. IndicatorInv'
  BY <1>1, <1>2, CallbackIndicators DEF CallInv
<1>4. UnderWay' = UnderWay - 1 /\ RequestsNumbered'
  BY <1>1, CallbackCounts DEF SessionInv, CallInv, IndicatorInv, Kinds
<1> SUFFICES ASSUME ~overlapped
             PROVE  UnderWay' <= 1 /\ CallsOnTop' /\ AnswersCurrent' /\ (trapped' => lapsed')
  BY <1>1, <1>3 DEF CallInv, Calm
<1>5. UnderWay <= 1 /\ CallsOnTop /\ AnswersCurrent /\ UnderWay \in Nat
  BY CountsTyped DEF SessionInv, CallInv, IndicatorInv, Calm
<1>6. NothingCalled' /\ UnderWay' <= 1
  <2>1. UnderWay' <= 0 /\ UnderWay' <= 1
    BY <1>4, <1>5
  <2>2. Idle'
    BY <2>1 DEF Idle
  <2>3. QED
    BY <1>4, <2>1, <2>2, IdleNext
<1>7. trapped' => lapsed'
  <2>1. NoHomeFrom(pages, Head(main).page)
    BY <1>1, <1>5, HeadFits DEF CallsOnTop, Kinds
  <2>2. DOMAIN pages = 1..Len(pages)
    BY LenProperties DEF SessionInv, StateTyped, ScreenTyped
  <2>3. ~Gone
    BY <2>1, <2>2 DEF NoHomeFrom, Gone, IsFor
  <2>4. PICK i \in 1..Len(pages) : trapped' = HomeTraps(i)
    BY <1>2, <2>3
  <2>5. HomeTraps(i) => lapsed
    <3>1. 1 \in 1..Len(main) /\ Head(main) = main[1]
      BY <1>1, HeadFits
    <3>2. Head(main).ok => (Head(main).account = currentUser \/ lapsed) /\ Head(main).account \in Accounts
      BY <1>1, <1>5, <3>1 DEF AnswersCurrent, Kinds
    <3>3. QED
      BY <3>2, AccountsAssumption DEF HomeTraps
  <2>6. QED
    BY <1>1, <2>4, <2>5 DEF callbackRun
<1>8. CallsOnTop' /\ AnswersCurrent'
  BY <1>6 DEF NothingCalled, CallsOnTop, AnswersCurrent
<1>9. QED
  BY <1>6, <1>7, <1>8

\* A callback that leaves the Homes as they are.
LEMMA CallbackCalm ==
  ASSUME SessionInv, StateTyped', CallInv, RequestsNumbered', main # <<>>, callbackRun, HomesKept,
         ~overlapped => (trapped' => lapsed)
  PROVE  Calm'
<1>1. /\ StateTyped /\ RequestsNumbered /\ Calm /\ main \in Seq(Callbacks) /\ CallbacksFit
      /\ main' = Tail(main)
  BY QueuesTyped DEF SessionInv, Numbered, CallInv, IndicatorInv, callbackRun
<1>2. \A i \in 1..Len(main') : \E k \in 1..Len(main) : main'[i] = main[k]
  BY <1>1, CallbackRuns
<1>3. UnderWay' = UnderWay \/ UnderWay' = UnderWay - 1
  BY <1>1, CallbackCounts
<1>4. requests' \subseteq requests /\ UNCHANGED <<currentUser, overlapped, lapsed>>
  BY DEF callbackRun
<1>5. QED
  BY <1>1, <1>2, <1>3, <1>4, CalmKept

LEMMA SignupCalls ==
  ASSUME SessionInv, StateTyped', CallInv, signupAnswered
  PROVE  CallInv'
<1>1. /\ main # <<>> /\ Head(main).kind = "signup" /\ callbackRun /\ presented' = presented
      /\ ~trapped /\ StateTyped
  BY DEF signupAnswered, Runs, SessionInv
<1>2. RequestsNumbered'
  BY <1>1, CallbackCounts DEF CallInv, IndicatorInv
<1>3. CASE createUserHandler("network") /\ UNCHANGED <<writes, trapped>>
  <2>1. PICK i \in 1..Len(pages) : IsFor(i) /\ OnePage(i, Hidden(i), pages[i].homes)
    BY <1>1, <1>3, HearsPages DEF Alerts
  <2>2. HomesKept
    BY <2>1, HomesAre
  <2>3. IndicatorInv'
    BY <1>1, <1>3, <2>1, CallbackIndicators DEF CallInv
  <2>4. QED
    BY <1>1, <1>2, <1>3, <2>2, <2>3, CallbackCalm DEF CallInv
<1>4. CASE /\ Head(main).ok /\ currentUser = NoUser /\ UNCHANGED <<writes, pages>>
  <2>1. Still /\ HomesKept
    BY <1>1, <1>4, PagesUnchanged, HomesAre
  <2>2. IndicatorInv'
    BY <1>1, <1>4, <2>1, CallbackIndicators DEF CallInv
  <2>3. overlapped \/ lapsed
    <3>1. 1 \in 1..Len(main) /\ Head(main) = main[1]
      BY <1>1, HeadFits
    <3>2. AnswersCurrent => currentUser \in Accounts \/ lapsed
      BY <1>1, <1>4, <3>1 DEF AnswersCurrent, Kinds
    <3>3. QED
      BY <1>4, <3>2, AccountsAssumption DEF CallInv, Calm
  <2>4. QED
    BY <1>1, <1>2, <2>1, <2>2, <2>3, CallbackCalm DEF CallInv
<1>5. CASE /\ currentUser # NoUser /\ UNCHANGED <<pages, trapped>>
           /\ setData(SignedUp(Head(main).account), Head(main).page, "profile")
  <2>1. Still /\ HomesKept
    BY <1>1, <1>5, PagesUnchanged, HomesAre
  <2> DEFINE w == [to |-> currentUser, doc |-> SignedUp(Head(main).account),
                   page |-> Head(main).page, kind |-> "profile"]
  <2>2. writes' = Append(writes, w) /\ w.page = Head(main).page
    BY <1>5 DEF setData
  <2>3. w \in Writes
    <3>1. Head(main) \in Callbacks
      BY <1>1, HeadFits
    <3>2. SignedUp(Head(main).account) \in UserDocs /\ Head(main).page \in 1..MaxPages
      <4>1. Head(main).account \in Accounts \cup {Blank} /\ Head(main).page \in 1..MaxPages
        BY <3>1 DEF Callbacks
      <4>2. QED
        BY <4>1, ContactsAssumption, Zenon DEF SignedUp, UserDoc, UserDocs
    <3>3. currentUser \in Accounts
      BY <1>1, <1>5 DEF StateTyped, AuthTyped
    <3>4. QED
      BY <3>2, <3>3, PagesAssumption DEF Writes
  <2> HIDE DEF w
  <2>4. IndicatorInv'
    BY <1>1, <2>1, <2>2, <2>3, CallbackIndicators DEF CallInv
  <2>5. QED
    BY <1>1, <1>2, <1>5, <2>1, <2>4, CallbackCalm DEF CallInv
<1>6. QED
  BY <1>3, <1>4, <1>5 DEF signupAnswered, Created

LEMMA ProfileCalls ==
  ASSUME SessionInv, StateTyped', CallInv, profileWritten
  PROVE  CallInv'
<1>1. /\ main # <<>> /\ Head(main).kind = "profile" /\ callbackRun /\ presented' = presented
      /\ ~trapped /\ trapped' = trapped /\ writes' = writes /\ StateTyped
  BY DEF profileWritten, Runs, usersVars, SessionInv
<1>2. RequestsNumbered'
  BY <1>1, CallbackCounts DEF CallInv, IndicatorInv
<1>3. CASE createUserHandler("created")
  <2>1. PICK i \in 1..Len(pages) : IsFor(i) /\ OnePage(i, Hidden(i), pages[i].homes)
    BY <1>1, <1>3, HearsPages DEF Alerts
  <2>2. HomesKept
    BY <2>1, HomesAre
  <2>3. IndicatorInv'
    BY <1>1, <2>1, CallbackIndicators DEF CallInv
  <2>4. QED
    BY <1>1, <1>2, <2>2, <2>3, CallbackCalm DEF CallInv
<1>4. CASE pages' = pages
  <2>1. Still /\ HomesKept
    BY <1>1, <1>4, PagesUnchanged, HomesAre
  <2>2. IndicatorInv'
    BY <1>1, <2>1, CallbackIndicators DEF CallInv
  <2>3. QED
    BY <1>1, <1>2, <2>1, <2>2, CallbackCalm DEF CallInv
<1>5. QED
  BY <1>3, <1>4 DEF profileWritten

\* The answer to the only call makes the only callback.
LEMMA AnswerCalls ==
  ASSUME SessionInv, StateTyped', CallInv, AnswerCall
  PROVE  CallInv'
<1>1. StateTyped /\ IndicatorInv /\ RequestsNumbered /\ UNCHANGED <<pages, presented, trapped, writes>>
      /\ main \in Seq(Callbacks)
  BY QueuesTyped DEF SessionInv, CallInv, IndicatorInv, AnswerCall, screenVars, usersVars
<1>2. PICK r \in requests : Succeeds(r) \/ Fails(r)
  BY DEF AnswerCall, Answer
<1>3. PICK ok \in BOOLEAN :
        /\ main' = Post(r.kind, r, ok)
        /\ currentUser' = (IF ok THEN r.account ELSE currentUser)
        /\ ok => r.account \in Accounts
  BY <1>2 DEF Succeeds, Fails, Accepted, BecomesCurrent
<1>4. requests' = requests \ {r} /\ UNCHANGED <<sent, overlapped>>
  BY <1>2 DEF Succeeds, Fails
<1>5. /\ RequestsNumbered' /\ UnderWay' = UnderWay
      /\ \A id : Awaited(id)' = Awaited(id) /\ Owed(id)' = Owed(id)
  BY <1>1, <1>3, <1>4, AnswerCounts
<1>6. IndicatorInv'
  BY <1>1, <1>5, PagesUnchanged, QuietIndicators
<1> SUFFICES ASSUME ~overlapped
             PROVE  UnderWay' <= 1 /\ CallsOnTop' /\ AnswersCurrent' /\ (trapped' => lapsed')
  BY <1>4, <1>6 DEF CallInv, Calm
<1>7. UnderWay <= 1 /\ CallsOnTop /\ ~trapped
  BY DEF CallInv, Calm, AnswerCall
<1>8. requests = {r} /\ \A i \in 1..Len(main) : main[i].kind \notin Kinds
  BY <1>1, <1>7, OneUnderWay
<1> DEFINE c == [kind |-> r.kind, account |-> r.account, page |-> r.page, ok |-> ok]
<1>9. /\ main' = Append(main, c) /\ c \in Callbacks
      /\ c.page = r.page /\ c.account = r.account /\ c.ok = ok
  BY <1>1, <1>3 DEF Post, StateTyped, AuthTyped, Requests, Callbacks
<1> HIDE DEF c
<1>10. \A i \in 1..Len(main') : main'[i].kind \in Kinds => main'[i] = c
  <2>1. /\ Len(main') = Len(main) + 1 /\ Len(main) \in Nat /\ main'[Len(main) + 1] = c
        /\ \A i \in 1..Len(main) : main'[i] = main[i]
    BY <1>1, <1>9, AppendProperties, LenProperties
  <2>2. \A i \in 1..Len(main') : i \in 1..Len(main) \/ i = Len(main) + 1
    BY <2>1
  <2>3. QED
    BY <1>8, <2>1, <2>2
<1>11. CallsOnTop'
  BY <1>1, <1>4, <1>7, <1>8, <1>9, <1>10 DEF CallsOnTop
<1>12. AnswersCurrent'
  BY <1>3, <1>9, <1>10 DEF AnswersCurrent
<1>13. QED
  BY <1>1, <1>5, <1>7, <1>11, <1>12

LEMMA DecideCalls ==
  ASSUME SessionInv, StateTyped', CallInv, DecideWrite
  PROVE  CallInv'
<1>1. /\ StateTyped /\ IndicatorInv /\ RequestsNumbered /\ UNCHANGED <<pages, presented, trapped>>
      /\ main \in Seq(Callbacks) /\ writes \in Seq(Writes) /\ DOMAIN writes = 1..Len(writes)
  BY QueuesTyped, LenProperties DEF SessionInv, CallInv, IndicatorInv, DecideWrite, screenVars
<1>2. PICK i \in DOMAIN writes : Decide(i)
  BY <1>1 DEF DecideWrite, StateTyped, UsersTyped
<1>3. /\ RequestsNumbered' /\ UnderWay' = UnderWay
      /\ \A id \in 1..MaxPages : Awaited(id)' = Awaited(id) /\ Owed(id)' = Owed(id)
  BY <1>1, <1>2, DecideCounts
<1>4. Still /\ HomesKept
  BY <1>1, PagesUnchanged, HomesAre
<1>5. IndicatorInv'
  BY <1>1, <1>3, <1>4, QuietIndicators
<1>6. \A j \in 1..Len(main') :
        (\E k \in 1..Len(main) : main'[j] = main[k]) \/ main'[j].kind \notin Kinds
  <2> DEFINE w == writes[i]
  <2>1. w \in Writes
    BY <1>1, ElementOfSeq
  <2>2. PICK ok \in BOOLEAN :
          main' = IF w.page = 0 THEN main
                  ELSE Append(main, [kind |-> w.kind, account |-> w.to, page |-> w.page, ok |-> ok])
    BY <1>2 DEF Decide
  <2> DEFINE c == [kind |-> w.kind, account |-> w.to, page |-> w.page, ok |-> ok]
  <2>3. c.kind \notin Kinds
    BY <2>1 DEF Writes, Kinds
  <2>4. main' = main \/ (main' = Append(main, c) /\ c \in Callbacks)
    BY <2>1, <2>2, PagesAssumption DEF Writes, Callbacks
  <2> HIDE DEF c
  <2>5. CASE main' = Append(main, c) /\ c \in Callbacks
    <3>1. /\ Len(main') = Len(main) + 1 /\ Len(main) \in Nat /\ main'[Len(main) + 1] = c
          /\ \A j \in 1..Len(main) : main'[j] = main[j]
      BY <1>1, <2>5, AppendProperties, LenProperties
    <3>2. \A j \in 1..Len(main') : j \in 1..Len(main) \/ j = Len(main) + 1
      BY <3>1
    <3>3. QED
      BY <2>3, <3>1, <3>2
  <2>6. QED
    BY <2>4, <2>5
<1>7. UNCHANGED <<requests, currentUser, overlapped, lapsed>>
  BY <1>2 DEF Decide
<1>8. Calm /\ (~overlapped => (trapped' => lapsed))
  BY <1>1 DEF CallInv, Calm
<1>9. Calm'
  BY <1>1, <1>3, <1>4, <1>6, <1>7, <1>8, CalmKept
<1>10. QED
  BY <1>5, <1>9 DEF CallInv

\* Auth signs the user out by itself: who was answered has to be told still.
LEMMA RefusedCalls ==
  ASSUME SessionInv, StateTyped', CallInv, TokenRefused
  PROVE  CallInv'
<1>1. /\ StateTyped /\ RequestsNumbered /\ IndicatorInv /\ ~trapped /\ lapsed' = TRUE
      /\ UNCHANGED <<requests, main, sent, overlapped, writes, pages, presented, trapped>>
  BY DEF SessionInv, CallInv, IndicatorInv, TokenRefused, signOutByForceWithUserID,
         usersVars, screenVars
<1>2. RequestsNumbered' /\ \A id : Awaited(id)' = Awaited(id) /\ Owed(id)' = Owed(id)
  BY <1>1, SameQueues
<1>3. IndicatorInv'
  BY <1>1, <1>2, PagesUnchanged, QuietIndicators
<1>4. UnderWay' = UnderWay
  BY <1>1 DEF UnderWay
<1>5. Calm'
  BY <1>1, <1>4 DEF CallInv, Calm, CallsOnTop, AnswersCurrent
<1>6. QED
  BY <1>3, <1>5 DEF CallInv

LEMMA RestartCalls ==
  ASSUME SessionInv, StateTyped', CallInv, appRestart
  PROVE  CallInv'
<1>1. /\ requests' = {} /\ main' = <<>> /\ pages' = <<>> /\ ~trapped'
      /\ Len(main') = 0 /\ Len(pages') = 0 /\ main' \in Seq(Callbacks)
  BY EmptySeq DEF appRestart, AuthRestart
<1>2. IndicatorInv'
  BY <1>1, FS_EmptySet DEF IndicatorInv, RequestsNumbered, IdsDiffer, Indicated
<1>3. UnderWay' <= 1
  <2>1. Cardinality(requests') = 0
    BY <1>1, FS_EmptySet
  <2>2. Count(main', CallAnswers) = 0
    BY <1>1, CountEmpty
  <2>3. QED
    BY <2>1, <2>2 DEF UnderWay
<1>4. Calm'
  BY <1>1, <1>3 DEF Calm, CallsOnTop, AnswersCurrent
<1>5. QED
  BY <1>2, <1>4 DEF CallInv

\* What the form does disturbs no call.
LEMMA FormCalls ==
  ASSUME IInv, StateTyped', CallInv, viewDidLoad \/ FormStep \/ UNCHANGED vars
  PROVE  CallInv'
<1>1. /\ SessionInv /\ StateTyped /\ RequestsNumbered
      /\ UNCHANGED <<authVars, usersVars, pages, presented>>
  BY DEF IInv, SessionInv, CallInv, IndicatorInv, viewDidLoad, FormStep, profileFetched,
         notificationCompletion, editButton, typeContact, vars, sessionVars, screenVars
<1>2. trapped' = trapped \/ lapsed
  <2>1. viewDidLoad => currentUser # NoUser \/ lapsed
    BY HomeIsUsed DEF viewDidLoad, AtHome, HomeHasUser
  <2>2. QED
    BY <2>1 DEF viewDidLoad, FormStep, profileFetched, notificationCompletion, editButton,
                typeContact, vars, sessionVars, screenVars
<1>3. Still /\ HomesKept
  BY <1>1, PagesUnchanged, HomesAre
<1>4. UNCHANGED <<requests, sent, main, writes>>
  BY <1>1 DEF authVars, usersVars
<1>5. RequestsNumbered' /\ \A id : Awaited(id)' = Awaited(id) /\ Owed(id)' = Owed(id)
  BY <1>1, <1>4, SameQueues
<1>6. IndicatorInv'
  BY <1>1, <1>3, <1>5, QuietIndicators DEF CallInv
<1>7. Calm'
  BY <1>1, <1>2, <1>3, <1>5, QuietCalm DEF CallInv, Calm
<1>8. QED
  BY <1>6, <1>7 DEF CallInv

\* Nor does the worker.
LEMMA WorkerCalls ==
  ASSUME IInv, StateTyped', CallInv, worker
  PROVE  CallInv'
<1>1. /\ SessionInv /\ StateTyped /\ RequestsNumbered
      /\ UNCHANGED <<authVars, writes, pages, presented, trapped>>
  BY DEF IInv, SessionInv, CallInv, IndicatorInv, worker, WriteMutations, screenVars
<1>2. Still /\ HomesKept
  BY <1>1, PagesUnchanged, HomesAre
<1>3. UNCHANGED <<requests, sent, main, writes>>
  BY <1>1 DEF authVars
<1>4. RequestsNumbered' /\ \A id : Awaited(id)' = Awaited(id) /\ Owed(id)' = Owed(id)
  BY <1>1, <1>3, SameQueues
<1>5. IndicatorInv'
  BY <1>1, <1>2, <1>4, QuietIndicators DEF CallInv
<1>6. Calm'
  BY <1>1, <1>2, <1>4, QuietCalm DEF CallInv, Calm
<1>7. QED
  BY <1>5, <1>6 DEF CallInv

LEMMA SaveCalls ==
  ASSUME IInv, StateTyped', CallInv, saveButton
  PROVE  CallInv'
<1>1. /\ SessionInv /\ StateTyped /\ RequestsNumbered
      /\ UNCHANGED <<authVars, pages, presented>> /\ pages # <<>> /\ Top.homes > 0
  BY DEF IInv, SessionInv, CallInv, IndicatorInv, saveButton, AtHome
<1>2. currentUser # NoUser \/ lapsed
  BY <1>1, HomeIsUsed DEF HomeHasUser
<1>3. trapped' = trapped \/ lapsed
  BY <1>2 DEF saveButton
<1>4. Still /\ HomesKept
  BY <1>1, PagesUnchanged, HomesAre
<1>5. \/ writes' = writes
      \/ \E w \in Writes : writes' = Append(writes, w) /\ w.kind = "save"
  <2>1. CASE currentUser # NoUser /\ setData(UserDoc(form.email, form.text), Top.id, "save")
    <3> DEFINE w == [to |-> currentUser, doc |-> UserDoc(form.email, form.text),
                     page |-> Top.id, kind |-> "save"]
    <3>1. Top \in PageStates
      BY <1>1, TopProperties DEF StateTyped, ScreenTyped
    <3>2. UserDoc(form.email, form.text) \in UserDocs
      BY DEF IInv, FormInv, FormTyped, Forms, UserDoc, UserDocs
    <3>3. w \in Writes /\ w.kind = "save"
      BY <1>1, <2>1, <3>1, <3>2, PagesAssumption DEF PageStates, Writes, StateTyped, AuthTyped
    <3>4. writes' = Append(writes, w)
      BY <2>1 DEF setData
    <3> HIDE DEF w
    <3>5. QED
      BY <3>3, <3>4
  <2>2. QED
    BY <2>1 DEF saveButton
<1>6. \A id : Count(writes', ProfileWrites(id)) = Count(writes, ProfileWrites(id))
  <2>1. CASE writes' = writes
    BY <2>1
  <2>2. CASE \E w \in Writes : writes' = Append(writes, w) /\ w.kind = "save"
    <3>1. PICK w \in Writes : writes' = Append(writes, w) /\ w.kind = "save"
      BY <2>2
    <3>2. \A id : w \notin ProfileWrites(id)
      BY <3>1 DEF ProfileWrites
    <3>3. writes \in Seq(Writes)
      BY <1>1, QueuesTyped
    <3>4. QED
      BY <3>1, <3>2, <3>3, CountAppend
  <2>3. QED
    BY <1>5, <2>1, <2>2
<1>7. \A id : Awaited(id)' = Awaited(id) /\ Owed(id)' = Owed(id)
  BY <1>1, <1>6 DEF Awaited, Owed, RequestsFor, authVars
<1>8. RequestsNumbered'
  BY <1>1 DEF RequestsNumbered, authVars
<1>9. IndicatorInv'
  BY <1>1, <1>4, <1>7, <1>8, QuietIndicators DEF CallInv
<1>10. Calm'
  BY <1>1, <1>3, <1>4, <1>8, QuietCalm DEF CallInv, Calm
<1>11. QED
  BY <1>9, <1>10 DEF CallInv

LEMMA UpdatedCalls ==
  ASSUME IInv, StateTyped', CallInv, profileUpdated
  PROVE  CallInv'
<1>1. /\ SessionInv /\ StateTyped /\ RequestsNumbered /\ main # <<>> /\ callbackRun
      /\ Head(main).kind = "save" /\ presented' = presented /\ writes' = writes
      /\ trapped' = trapped /\ ~trapped
  BY DEF IInv, SessionInv, CallInv, IndicatorInv, profileUpdated, Runs, usersVars
<1>2. Still
  <2>1. CASE pages' = pages
    BY <1>1, <2>1, PagesUnchanged
  <2>2. CASE pages' # pages
    <3>1. PICK text \in {"updated", "error"} : pages' = OnTop(AlertedAtHome(Top, text))
      BY <2>2 DEF profileUpdated
    <3>2. text \in Alerts \ {"created"} /\ pages # <<>>
      BY <2>2 DEF Alerts, profileUpdated
    <3>3. QED
      BY <1>1, <3>1, <3>2, AlertsAtHome
  <2>3. QED
    BY <2>1, <2>2
<1>3. "save" \notin Kinds
  BY DEF Kinds
<1>4. /\ RequestsNumbered'
      /\ \A id : Awaited(id)' = Awaited(id) /\ Count(main', ProfilesFor(id)) = Count(main, ProfilesFor(id))
  BY <1>1, <1>3, CallbackCounts
<1>5. \A id : Owed(id)' = Owed(id)
  BY <1>1, <1>4 DEF Owed
<1>6. IndicatorInv'
  BY <1>1, <1>2, <1>4, <1>5, QuietIndicators DEF CallInv
<1>7. Calm'
  BY <1>1, <1>2, <1>4, HomesAre, CallbackCalm
<1>8. QED
  BY <1>6, <1>7 DEF CallInv

LEMMA CallInvNext == IInv /\ IInv' /\ CallInv /\ [Next]_vars => CallInv'
<1> SUFFICES ASSUME IInv, IInv', CallInv, [Next]_vars PROVE CallInv'
  OBVIOUS
<1>1. SessionInv /\ StateTyped'
  BY DEF IInv, SessionInv
<1>2. CASE SessionStep
  <2>1. CASE \E a \in Accounts \cup {Blank} : loginButtonTapped(a) \/ getStartedButton(a)
    BY <1>1, <2>1, CallSteps, TappedCalls
  <2>2. CASE toLoginPage \/ didTapRegister \/ alertClosed \/ didTapLogout
    BY <1>1, <2>2, ScreenCalls, LogoutCalls
  <2>3. CASE loginAnswered \/ signupAnswered \/ profileWritten
    BY <1>1, <2>3, LoginCalls, SignupCalls, ProfileCalls
  <2>4. CASE DecideWrite \/ AnswerCall \/ TokenRefused \/ appRestart
    BY <1>1, <2>4, DecideCalls, AnswerCalls, RefusedCalls, RestartCalls
  <2>5. QED
    BY <1>2, <2>1, <2>2, <2>3, <2>4 DEF SessionStep
<1>3. CASE viewDidLoad \/ FormStep \/ UNCHANGED vars
  BY <1>1, <1>3, FormCalls
<1>4. CASE worker \/ saveButton \/ profileUpdated
  BY <1>1, <1>4, WorkerCalls, SaveCalls, UpdatedCalls
<1>5. QED
  BY <1>2, <1>3, <1>4 DEF Next, FormStep

LEMMA CallInvInit == Init => CallInv
<1> SUFFICES ASSUME Init PROVE CallInv
  OBVIOUS
<1>1. requests = {} /\ main = <<>> /\ pages = <<>> /\ trapped = FALSE
  <2>1. AuthInit /\ pages = <<>> /\ trapped = FALSE
    BY DEF Init, SessionInit
  <2>2. QED
    BY <2>1 DEF AuthInit
<1>2. Len(main) = 0 /\ Len(pages) = 0
  BY <1>1, EmptySeq
<1>3. UnderWay <= 1
  BY <1>1, FS_EmptySet, CountEmpty DEF UnderWay
<1>4. QED
  BY <1>1, <1>2, <1>3, FS_EmptySet
     DEF CallInv, IndicatorInv, RequestsNumbered, IdsDiffer, Indicated, Calm, CallsOnTop, AnswersCurrent

LEMMA CallInductive == Spec => [](IInv /\ CallInv)
<1>1. Init => IInv /\ CallInv
  BY IInvInit, CallInvInit
<1>2. IInv /\ CallInv /\ [Next]_vars => (IInv /\ CallInv)'
  BY IInvNext, CallInvNext
<1>3. QED
  BY <1>1, <1>2, PTL DEF Spec

\* LoginViewController's hideIndicator answers every showIndicator: "Loading..."
\* shows on a login page exactly as long as FIRAuth owes it an answer, whatever
\* is tapped, answered late or written meanwhile; a sign-up page never hides an
\* indicator too early.
THEOREM IndicatorsCorrect == Spec => []IndicatorsTellTheTruth
<1>1. IInv /\ CallInv => IndicatorsTellTheTruth
  <2> SUFFICES ASSUME IInv, CallInv, NEW i \in DOMAIN pages
               PROVE  /\ pages[i].kind = "login" => pages[i].huds = Waiting(pages[i].id)
                      /\ pages[i].huds >= Waiting(pages[i].id)
    BY DEF IndicatorsTellTheTruth
  <2>1. StateTyped /\ RequestsNumbered /\ Indicated /\ i \in 1..Len(pages)
    BY LenProperties DEF IInv, SessionInv, StateTyped, ScreenTyped, CallInv, IndicatorInv
  <2> DEFINE id == pages[i].id
  <2>2. id \in Nat /\ pages[i].kind \in Kinds /\ pages[i].huds \in Nat
    BY <2>1, PageIds
  <2>3. /\ pages[i].kind = "login" => pages[i].huds = Awaited(id)
        /\ pages[i].kind = "signup" => pages[i].huds >= Owed(id)
    BY <2>1 DEF Indicated
  <2>4. Awaited(id) \in Nat /\ Owed(id) \in Nat /\ Owed(id) >= Awaited(id)
    <3>1. /\ Awaited(id) \in Nat /\ Count(main, ProfilesFor(id)) \in Nat
          /\ Count(writes, ProfileWrites(id)) \in Nat
      BY <2>1, CountsTyped
    <3>2. QED
      BY <3>1 DEF Owed
  <2>5. Waiting(id) = Awaited(id)
    BY <2>1, <2>2, WaitingIsAwaited
  <2> HIDE DEF id
  <2>6. pages[i].huds >= Awaited(id)
    BY <2>2, <2>3, <2>4 DEF Kinds
  <2>7. QED
    BY <2>3, <2>5, <2>6 DEF id
<1>2. QED
  BY <1>1, CallInductive, PTL

\* The forced unwrappings of self in LoginViewController's callback, and of the
\* current user in CreateUser's, on Home and in Profile, fail only if a second
\* call to FIRAuth was made before the first had called back, or FIRAuth has
\* signed the user out by itself and nobody has logged in since.
THEOREM TrapCorrect == Spec => []TrapNeedsOverlap
<1>1. IInv /\ CallInv => TrapNeedsOverlap
  BY DEF CallInv, Calm, TrapNeedsOverlap
<1>2. QED
  BY <1>1, CallInductive, PTL

-----------------------------------------------------------------------------
(***************************************************************************)
(* Whose document                                                          *)
(***************************************************************************)
\* A form that is not on the screen is blank, and says nothing before it shows.
FormFresh == form.stage = "none" => form = NoForm
FormLabel == form.stage # "shown" => form.label = Blank

\* While calls do not overlap, it is the form of the current user, if Auth has
\* not signed them out by itself, ...
FormBelongs ==
  ~overlapped /\ form.stage # "none" =>
    pages # <<>> /\ Top.homes > 0 /\ (form.of = currentUser \/ lapsed)

\* ... and the names in it, if it has any, are its owner's.
FormNames ==
  ~overlapped /\ ~nameless => form.email \in {Blank, form.of} /\ form.label \in {Blank, form.email}

OwnerInv == FormFresh /\ FormLabel /\ FormBelongs /\ FormNames /\ DocumentsNameTheirOwner

LEMMA NoFormFields ==
  /\ NoForm.stage = "none" /\ NoForm.email = Blank /\ NoForm.label = Blank
  /\ ~NoForm.editing
<1>1. NoForm.stage = "none" /\ NoForm.email = Blank /\ NoForm.label = Blank
  BY Zenon DEF NoForm
<1>2. NoForm.editing = FALSE
  BY Zenon DEF NoForm
<1>3. QED
  BY <1>1, <1>2

\* Nothing is ahead of a form that is not there.
LEMMA NoFormIsIdle == [NoForm EXCEPT !.ahead = IF @ > 0 THEN @ - 1 ELSE 0] = NoForm
<1>1. NoForm \in Forms
  BY NoFormTyped
<1>2. NoForm.ahead = 0
  BY Zenon DEF NoForm
<1>3. QED
  BY <1>1, <1>2 DEF Forms

LEMMA SignedUpOwner == \A a : SignedUp(a).who = a
BY Zenon DEF SignedUp, UserDoc

LEMMA OverlapStays == SessionStep /\ overlapped => overlapped'
BY DEF SessionStep, toLoginPage, didTapRegister, alertClosed, didTapLogout, signOut, authVars,
       loginButtonTapped, getStartedButton, Call, loginAnswered, signupAnswered, profileWritten,
       callbackRun, DecideWrite, Decide, AnswerCall, Answer, Succeeds, Fails, TokenRefused,
       signOutByForceWithUserID, appRestart, AuthRestart

\* While a Home stays on the screen, so does its user, but for Auth itself.
LEMMA UserStays ==
  ASSUME IInv, CallInv, ~overlapped, SessionStep,
         pages # <<>>, Top.homes > 0, pages' # <<>>, Top'.id = Top.id
  PROVE  UNCHANGED <<currentUser, lapsed>> \/ lapsed'
<1>1. SessionInv /\ StateTyped /\ IdsDiffer /\ Calm
  BY DEF IInv, SessionInv, CallInv, IndicatorInv
<1>2. ~AnswerCall
  BY <1>1, HomeIsCalm DEF NothingCalled, AnswerCall, Answer
<1>3. ~appRestart
  BY DEF appRestart
<1>4. CASE didTapLogout
  <2>1. CASE Shrunk
    <3> DEFINE n == Len(pages)
    <3>1. n \in 1..n /\ Top = pages[n] /\ n \in Nat
      BY <1>1, TopProperties DEF StateTyped, ScreenTyped
    <3>2. Len(pages') = n - 1 /\ \A j \in 1..(n - 1) : pages'[j].id = pages[j].id
      BY <2>1 DEF Shrunk, Same
    <3>3. n - 1 # 0
      <4>1. StateTyped' => (pages' # <<>> => Len(pages') # 0)
        BY EmptySeq DEF StateTyped, ScreenTyped
      <4>2. StateTyped'
        BY <1>1, SessionStays DEF SessionInv
      <4>3. QED
        BY <3>2, <4>1, <4>2
    <3>4. n - 1 \in 1..(n - 1) /\ n - 1 \in 1..n /\ n - 1 # n
      <4> HIDE DEF n
      <4>1. n \in Nat /\ n >= 1 /\ n # 1
        BY <3>1, <3>3
      <4>2. QED
        BY <4>1
    <3>5. Top'.id = pages[n - 1].id
      BY <3>2, <3>4 DEF Top, Last
    <3>6. QED
      BY <1>1, <3>1, <3>4, <3>5 DEF IdsDiffer
  <2>2. CASE UNCHANGED authVars
    BY <2>2 DEF authVars
  <2>3. QED
    BY <1>1, <1>4, <2>1, <2>2, LogoutStep
<1>5. CASE toLoginPage \/ didTapRegister \/ alertClosed
  BY <1>5 DEF toLoginPage, didTapRegister, alertClosed, authVars
<1>6. CASE \E a \in Accounts \cup {Blank} : loginButtonTapped(a) \/ getStartedButton(a)
  BY <1>6 DEF loginButtonTapped, getStartedButton, Call
<1>7. CASE loginAnswered \/ signupAnswered \/ profileWritten \/ DecideWrite
  BY <1>7 DEF loginAnswered, signupAnswered, profileWritten, callbackRun, DecideWrite, Decide
<1>8. CASE TokenRefused
  BY <1>8 DEF TokenRefused, signOutByForceWithUserID
<1>9. QED
  BY <1>2, <1>3, <1>4, <1>5, <1>6, <1>7, <1>8 DEF SessionStep

Named ==
  /\ \A a \in Accounts : NamesItsOwner(users[a], a)
  /\ \A i \in 1..Len(writes) : NamesItsOwner(writes[i].doc, writes[i].to)

LEMMA NamedIs ==
  /\ StateTyped => (DocumentsNameTheirOwner <=> (~overlapped /\ ~nameless => Named))
  /\ StateTyped' => (DocumentsNameTheirOwner' <=> (~overlapped' /\ ~nameless' => Named'))
<1>1. StateTyped => (DocumentsNameTheirOwner <=> (~overlapped /\ ~nameless => Named))
  BY LenProperties DEF DocumentsNameTheirOwner, Named, StateTyped, UsersTyped
<1>2. StateTyped' => (DocumentsNameTheirOwner' <=> (~overlapped' /\ ~nameless' => Named'))
  BY <1>1, PTL
<1>3. QED
  BY <1>1, <1>2

LEMMA WriteNamed ==
  ASSUME StateTyped, Named, NEW w \in Writes, NamesItsOwner(w.doc, w.to),
         writes' = Append(writes, w), users' = users
  PROVE  Named'
<1>1. writes \in Seq(Writes)
  BY QueuesTyped
<1>2. /\ Len(writes') = Len(writes) + 1 /\ Len(writes) \in Nat /\ writes'[Len(writes) + 1] = w
      /\ \A i \in 1..Len(writes) : writes'[i] = writes[i]
  BY <1>1, AppendProperties, LenProperties
<1>3. \A i \in 1..Len(writes') : i \in 1..Len(writes) \/ i = Len(writes) + 1
  BY <1>2
<1>4. \A i \in 1..Len(writes') : NamesItsOwner(writes'[i].doc, writes'[i].to)
  BY <1>2, <1>3 DEF Named
<1>5. QED
  BY <1>4 DEF Named

LEMMA SignupNamed ==
  ASSUME IInv, Calm, ~overlapped, Named, signupAnswered
  PROVE  Named'
<1>1. StateTyped /\ SessionInv /\ main # <<>> /\ users' = users /\ Head(main).kind = "signup"
  BY DEF IInv, SessionInv, signupAnswered, Runs
<1>2. CASE writes' = writes
  BY <1>1, <1>2 DEF Named
<1>3. CASE /\ Head(main).ok /\ currentUser # NoUser
           /\ setData(SignedUp(Head(main).account), Head(main).page, "profile")
  <2> DEFINE doc == SignedUp(Head(main).account)
             w == [to |-> currentUser, doc |-> doc, page |-> Head(main).page, kind |-> "profile"]
  <2>1. Head(main) \in Callbacks /\ Head(main) = main[1] /\ 1 \in 1..Len(main)
    BY <1>1, HeadFits
  <2>2. Head(main).account = currentUser
    <3>1. ~lapsed
      BY <1>1, <1>3 DEF SessionInv, SignedIn
    <3>2. QED
      BY <1>1, <1>3, <2>1, <3>1 DEF Calm, AnswersCurrent, Kinds
  <2>3. doc.who = currentUser
    BY <2>2, SignedUpOwner
  <2>4. doc \in UserDocs
    <3>1. Head(main).account \in Accounts \cup {Blank}
      BY <2>1 DEF Callbacks
    <3>2. QED
      BY <3>1, ContactsAssumption, Zenon DEF SignedUp, UserDoc, UserDocs
  <2> HIDE DEF doc
  <2>5. writes' = Append(writes, w)
    BY <1>3 DEF setData, doc
  <2>6. w \in Writes
    BY <1>1, <1>3, <2>1, <2>4, PagesAssumption DEF Writes, Callbacks, StateTyped, AuthTyped
  <2>7. NamesItsOwner(w.doc, w.to)
    BY <2>3 DEF NamesItsOwner
  <2> HIDE DEF w
  <2>8. QED
    BY <1>1, <2>5, <2>6, <2>7, WriteNamed
<1>4. QED
  BY <1>2, <1>3 DEF signupAnswered, Created

LEMMA WriteTaken ==
  ASSUME writes \in Seq(Writes), NEW i \in 1..Len(writes), writes' = RemoveAt(writes, i)
  PROVE  /\ Len(writes') = Len(writes) - 1 /\ Len(writes) \in Nat
         /\ \A j \in 1..(Len(writes) - 1) : writes'[j] = IF j < i THEN writes[j] ELSE writes[j + 1]
BY RemoveAtProperties, LenProperties

LEMMA DecideNamed ==
  ASSUME StateTyped, Named, NEW i \in 1..Len(writes), Decide(i)
  PROVE  Named'
<1>1. writes \in Seq(Writes)
  BY QueuesTyped
<1>2. writes' = RemoveAt(writes, i)
  BY DEF Decide
<1>3. users' = users \/ users' = [users EXCEPT ![writes[i].to] = writes[i].doc]
  BY DEF Decide
<1>4. /\ Len(writes') = Len(writes) - 1 /\ Len(writes) \in Nat
      /\ \A j \in 1..(Len(writes) - 1) : writes'[j] = IF j < i THEN writes[j] ELSE writes[j + 1]
  BY <1>1, <1>2, WriteTaken
<1>5. ASSUME NEW j \in 1..Len(writes') PROVE NamesItsOwner(writes'[j].doc, writes'[j].to)
  <2>1. j \in 1..Len(writes) /\ j + 1 \in 1..Len(writes) /\ j \in 1..(Len(writes) - 1)
    BY <1>4, <1>5
  <2>2. writes'[j] = writes[j] \/ writes'[j] = writes[j + 1]
    BY <1>4, <2>1
  <2>3. QED
    BY <2>1, <2>2 DEF Named
<1>6. \A a \in Accounts : NamesItsOwner(users'[a], a)
  BY <1>3 DEF Named, StateTyped, UsersTyped
<1>7. QED
  BY <1>5, <1>6 DEF Named

LEMMA DecidesNamed ==
  ASSUME StateTyped, Named, DecideWrite
  PROVE  Named'
<1>1. saved \in 0..Len(writes) /\ Len(writes) \in Nat
  BY QueuesTyped, LenProperties DEF StateTyped, UsersTyped
<1>2. PICK i \in 1..Len(writes) : Decide(i)
  BY <1>1 DEF DecideWrite
<1>3. QED
  BY <1>2, DecideNamed

LEMMA RestartNamed ==
  ASSUME IInv, Named, appRestart
  PROVE  Named'
<1>1. UsersTyped /\ UsersRestart /\ users' = users
  BY DEF IInv, SessionInv, StateTyped, appRestart, UsersRestart
<1>2. Len(writes') = saved
  BY <1>1, WritesOrphaned
<1>3. \A i \in 1..saved :
        /\ i \in 1..Len(writes)
        /\ writes'[i].doc = writes[i].doc /\ writes'[i].to = writes[i].to
  BY <1>1, WritesOrphaned
<1>4. QED
  BY <1>1, <1>2, <1>3 DEF Named

LEMMA SessionStepNamed ==
  ASSUME IInv, Calm, ~overlapped, Named, SessionStep
  PROVE  Named'
<1>1. StateTyped
  BY DEF IInv, SessionInv
<1>2. CASE UNCHANGED usersVars
  BY <1>2 DEF Named, usersVars
<1>3. CASE signupAnswered \/ DecideWrite \/ appRestart
  BY <1>1, <1>3, SignupNamed, DecidesNamed, RestartNamed
<1>4. QED
  BY <1>2, <1>3 DEF SessionStep, toLoginPage, didTapRegister, alertClosed, didTapLogout,
       loginButtonTapped, getStartedButton, loginAnswered, profileWritten, AnswerCall, TokenRefused

\* What the names in a form need of a step that leaves the documents alone.
LEMMA OwnerKept ==
  ASSUME StateTyped, StateTyped', OwnerInv, FormFresh', FormLabel', FormBelongs', FormNames',
         users' = users, writes' = writes, overlapped' = overlapped, nameless' = nameless
  PROVE  OwnerInv'
<1>1. ~overlapped /\ ~nameless => Named
  BY NamedIs DEF OwnerInv
<1>2. ~overlapped' /\ ~nameless' => Named'
  BY <1>1 DEF Named
<1>3. QED
  BY <1>2, NamedIs DEF OwnerInv

LEMMA SessionStepOwner == IInv /\ IInv' /\ CallInv /\ OwnerInv /\ SessionStep => OwnerInv'
<1> SUFFICES ASSUME IInv, IInv', CallInv, OwnerInv, SessionStep PROVE OwnerInv'
  OBVIOUS
<1>1. /\ StateTyped /\ StateTyped' /\ Calm /\ nameless' = nameless
      /\ FormFresh /\ FormLabel /\ FormBelongs /\ FormNames
      /\ (form' = NoForm \/ (form' = form /\ HomeId' = HomeId))
  BY DEF IInv, SessionInv, CallInv, OwnerInv, SessionStep
<1>2. ~overlapped' => ~overlapped
  BY OverlapStays
<1>3. DocumentsNameTheirOwner'
  <2>1. ~overlapped /\ ~nameless => Named
    BY <1>1, NamedIs DEF OwnerInv
  <2>2. ~overlapped' /\ ~nameless' => Named'
    BY <1>1, <1>2, <2>1, SessionStepNamed
  <2>3. QED
    BY <1>1, <2>2, NamedIs
<1>4. CASE form' = NoForm
  BY <1>3, <1>4, NoFormFields DEF OwnerInv, FormFresh, FormLabel, FormBelongs, FormNames
<1>5. CASE form' = form /\ HomeId' = HomeId
  <2>1. FormFresh' /\ FormLabel' /\ FormNames'
    BY <1>1, <1>2, <1>5 DEF FormFresh, FormLabel, FormNames
  <2>2. ASSUME ~overlapped', form'.stage # "none"
        PROVE  pages' # <<>> /\ Top'.homes > 0 /\ (form'.of = currentUser' \/ lapsed')
    <3>1. ~overlapped /\ pages # <<>> /\ Top.homes > 0 /\ (form.of = currentUser \/ lapsed)
      BY <1>1, <1>2, <1>5, <2>2 DEF FormBelongs
    <3>2. HomeId' = <<Top.id, Top.homes>>
      BY <1>5, <3>1 DEF HomeId
    <3>3. pages' # <<>> /\ Top'.id = Top.id /\ Top'.homes = Top.homes
      BY <3>2, Zenon DEF HomeId
    <3>4. UNCHANGED <<currentUser, lapsed>> \/ lapsed'
      BY <3>1, <3>3, UserStays
    <3>5. QED
      BY <1>5, <3>1, <3>3, <3>4
  <2>3. FormBelongs'
    BY <2>2 DEF FormBelongs
  <2>4. QED
    BY <1>3, <2>1, <2>3 DEF OwnerInv
<1>6. QED
  BY <1>1, <1>4, <1>5

\* What the form is given to show names the account it is the form of.
LEMMA SeenNamed ==
  ASSUME StateTyped, Named, NEW a \in Accounts
  PROVE  NamesItsOwner(Seen(a), a)
<1>1. CASE Pending(a) = {}
  BY <1>1 DEF Seen, Named
<1>2. CASE Pending(a) # {}
  <2>1. writes \in Seq(Writes) /\ Len(writes) \in Nat /\ DOMAIN writes = 1..Len(writes)
    BY LenProperties DEF StateTyped, UsersTyped
  <2>2. Pending(a) \in SUBSET (1..Len(writes))
    BY <2>1 DEF Pending, StateTyped, UsersTyped
  <2>3. Max(Pending(a)) \in Pending(a) /\ Max(Pending(a)) \in 1..Len(writes)
    BY <1>2, <2>1, <2>2, MaxIsMember
  <2>4. writes[Max(Pending(a))].to = a
    BY <2>3 DEF Pending
  <2>5. QED
    BY <1>2, <2>3, <2>4 DEF Seen, Named
<1>3. QED
  BY <1>1, <1>2

LEMMA FormStepOwner == IInv /\ IInv' /\ OwnerInv /\ FormStep => OwnerInv'
<1> SUFFICES ASSUME IInv, IInv', OwnerInv, FormStep PROVE OwnerInv'
  OBVIOUS
<1>1. /\ StateTyped /\ StateTyped' /\ form \in Forms /\ (form.stage # "none" => form.of \in Accounts)
      /\ FormFresh /\ FormLabel /\ FormBelongs /\ FormNames
  BY DEF IInv, SessionInv, FormInv, FormTyped, OwnerInv
<1>2. /\ UNCHANGED <<pages, currentUser, overlapped, lapsed>>
      /\ users' = users /\ writes' = writes /\ nameless' = nameless
  BY DEF FormStep, profileFetched, notificationCompletion, editButton, typeContact,
         sessionVars, authVars, usersVars, screenVars
<1>3. Top' = Top
  BY <1>2 DEF Top
<1>4. form.editing => form.stage # "none"
  BY <1>1, NoFormFields DEF FormFresh
<1>5. FormFresh' /\ FormLabel' /\ form'.of = form.of /\ form.stage # "none" /\ FormNames'
  <2>1. CASE profileFetched
    <3>1. form.stage = "fetching" /\ form.label = Blank
      BY <1>1, <2>1 DEF profileFetched, FormLabel
    <3>2. CASE Seen(form.of) # NoDoc /\ form' = DetailsTaken(Seen(form.of))
      <4>1. /\ form'.stage = "posted" /\ form'.email = Seen(form.of).who
            /\ form'.of = form.of /\ form'.label = form.label
        BY <1>1, <3>2 DEF DetailsTaken, Forms
      <4>2. ~overlapped /\ ~nameless => form'.email = form.of
        <5>1. ~overlapped /\ ~nameless => Named
          BY <1>1, NamedIs DEF OwnerInv
        <5>2. QED
          BY <1>1, <3>1, <3>2, <4>1, <5>1, SeenNamed DEF NamesItsOwner
      <4>3. QED
        BY <1>2, <3>1, <4>1, <4>2 DEF FormFresh, FormLabel, FormNames
    <3>3. CASE form' = [form EXCEPT !.stage = "posted"]
      BY <1>1, <1>2, <3>1, <3>3 DEF Forms, FormFresh, FormLabel, FormNames
    <3>4. QED
      BY <2>1, <3>2, <3>3 DEF profileFetched
  <2>2. CASE notificationCompletion
    BY <1>1, <1>2, <2>2 DEF notificationCompletion, Forms, FormFresh, FormLabel, FormNames
  <2>3. CASE editButton
    BY <1>1, <1>2, <2>3 DEF editButton, Forms, FormFresh, FormLabel, FormNames
  <2>4. CASE \E text \in Contacts : typeContact(text)
    BY <1>1, <1>2, <1>4, <2>4 DEF typeContact, Forms, FormFresh, FormLabel, FormNames
  <2>5. QED
    BY <2>1, <2>2, <2>3, <2>4 DEF FormStep
<1>6. FormBelongs'
  BY <1>1, <1>2, <1>3, <1>5 DEF FormBelongs
<1>7. QED
  BY <1>1, <1>2, <1>5, <1>6, OwnerKept

LEMMA ViewDidLoadOwner == IInv /\ IInv' /\ OwnerInv /\ viewDidLoad => OwnerInv'
<1> SUFFICES ASSUME IInv, IInv', OwnerInv, viewDidLoad PROVE OwnerInv'
  OBVIOUS
<1>1. /\ StateTyped /\ StateTyped' /\ form \in Forms
      /\ FormFresh /\ FormLabel /\ FormBelongs /\ FormNames
  BY DEF IInv, SessionInv, FormInv, FormTyped, OwnerInv
<1>2. /\ UNCHANGED <<pages, currentUser, overlapped, lapsed>>
      /\ users' = users /\ writes' = writes /\ nameless' = nameless
      /\ pages # <<>> /\ Top.homes > 0
  BY DEF viewDidLoad, authVars, usersVars, AtHome
<1>3. Top' = Top
  BY <1>2 DEF Top
<1>4. CASE form' = form
  <2>1. FormFresh' /\ FormLabel' /\ FormBelongs' /\ FormNames'
    BY <1>1, <1>2, <1>3, <1>4 DEF FormFresh, FormLabel, FormBelongs, FormNames
  <2>2. QED
    BY <1>1, <1>2, <2>1, OwnerKept
<1>5. CASE currentUser # NoUser
  <2>1. /\ form = NoForm
        /\ form' = [form EXCEPT !.stage = "fetching", !.of = currentUser,
                                !.ahead = Len(writes) - saved]
    BY <1>1, <1>5 DEF viewDidLoad, FormFresh
  <2>2. /\ form'.stage = "fetching" /\ form'.of = currentUser
        /\ form'.email = Blank /\ form'.label = Blank
    BY <1>1, <2>1, NoFormFields DEF Forms
  <2>3. FormFresh' /\ FormLabel' /\ FormBelongs' /\ FormNames'
    BY <1>2, <1>3, <2>2 DEF FormFresh, FormLabel, FormBelongs, FormNames
  <2>4. QED
    BY <1>1, <1>2, <2>3, OwnerKept
<1>6. QED
  BY <1>4, <1>5 DEF viewDidLoad

\* The worker brings the fetch nearer.
LEMMA WorkerOwner == IInv /\ IInv' /\ OwnerInv /\ worker => OwnerInv'
<1> SUFFICES ASSUME IInv, IInv', OwnerInv, worker PROVE OwnerInv'
  OBVIOUS
<1>1. /\ StateTyped /\ StateTyped' /\ form \in Forms
      /\ FormFresh /\ FormLabel /\ FormBelongs /\ FormNames
  BY DEF IInv, SessionInv, FormInv, FormTyped, OwnerInv
<1>2. /\ UNCHANGED <<pages, currentUser, overlapped, lapsed>>
      /\ users' = users /\ writes' = writes /\ nameless' = nameless
      /\ form' = [form EXCEPT !.ahead = IF @ > 0 THEN @ - 1 ELSE 0]
  BY DEF worker, WriteMutations, authVars, screenVars
<1>3. Top' = Top
  BY <1>2 DEF Top
<1>4. /\ form'.stage = form.stage /\ form'.of = form.of
      /\ form'.email = form.email /\ form'.label = form.label
  BY <1>1, <1>2 DEF Forms
<1>5. form = NoForm => form' = NoForm
  BY <1>2, NoFormIsIdle
<1>6. FormFresh' /\ FormLabel' /\ FormBelongs' /\ FormNames'
  BY <1>1, <1>2, <1>3, <1>4, <1>5 DEF FormFresh, FormLabel, FormBelongs, FormNames
<1>7. QED
  BY <1>1, <1>2, <1>6, OwnerKept

\* Done writes the form's name into the current user's document.
LEMMA SaveButtonOwner == IInv /\ IInv' /\ OwnerInv /\ saveButton => OwnerInv'
<1> SUFFICES ASSUME IInv, IInv', OwnerInv, saveButton PROVE OwnerInv'
  OBVIOUS
<1>1. /\ StateTyped /\ StateTyped' /\ form \in Forms
      /\ FormFresh /\ FormLabel /\ FormBelongs /\ FormNames
  BY DEF IInv, SessionInv, FormInv, FormTyped, OwnerInv
<1>2. /\ UNCHANGED <<pages, currentUser, overlapped, lapsed>> /\ users' = users
      /\ pages # <<>> /\ Top.homes > 0 /\ form.stage # "none"
      /\ form' = [form EXCEPT !.editing = FALSE]
  BY <1>1, NoFormFields DEF saveButton, authVars, AtHome, FormFresh
<1>3. Top' = Top
  BY <1>2 DEF Top
<1>4. /\ form'.stage = form.stage /\ form'.of = form.of
      /\ form'.email = form.email /\ form'.label = form.label
  BY <1>1, <1>2 DEF Forms
<1>5. FormFresh' /\ FormLabel' /\ FormBelongs'
  BY <1>1, <1>2, <1>3, <1>4 DEF FormFresh, FormLabel, FormBelongs
<1>6. CASE form.text = form.remembered
  <2>1. writes' = writes /\ nameless' = nameless
    BY <1>6 DEF saveButton
  <2>2. FormNames'
    BY <1>1, <1>2, <1>4, <2>1 DEF FormNames
  <2>3. QED
    BY <1>1, <1>2, <1>5, <2>1, <2>2, OwnerKept
<1>7. CASE form.text # form.remembered /\ currentUser = NoUser
  <2>1. writes' = writes /\ nameless' = (nameless \/ form.label = Blank)
    BY <1>7 DEF saveButton
  <2>2. FormNames'
    BY <1>1, <1>2, <1>4, <2>1 DEF FormNames
  <2>3. ASSUME ~overlapped', ~nameless' PROVE Named'
    <3>1. Named
      BY <1>1, <1>2, <2>1, <2>3, NamedIs DEF OwnerInv
    <3>2. QED
      BY <1>2, <2>1, <3>1 DEF Named
  <2>4. DocumentsNameTheirOwner'
    BY <1>1, <2>3, NamedIs
  <2>5. QED
    BY <1>5, <2>2, <2>4 DEF OwnerInv
<1>8. CASE form.text # form.remembered /\ currentUser # NoUser
  <2> DEFINE w == [to |-> currentUser, doc |-> UserDoc(form.email, form.text),
                   page |-> Top.id, kind |-> "save"]
  <2>1. /\ nameless' = (nameless \/ form.label = Blank)
        /\ writes' = Append(writes, w)
    BY <1>8 DEF saveButton, setData
  <2>2. FormNames'
    BY <1>1, <1>2, <1>4, <2>1 DEF FormNames
  <2>3. ASSUME ~overlapped', ~nameless' PROVE Named'
    <3>1. Named /\ ~overlapped /\ ~nameless /\ form.label # Blank
      BY <1>1, <1>2, <2>1, <2>3, NamedIs DEF OwnerInv
    <3>2. form.email = form.of
      BY <1>1, <3>1 DEF FormNames
    <3>3. form.of = currentUser
      <4>1. ~lapsed
        BY <1>8 DEF IInv, SessionInv, SignedIn
      <4>2. QED
        BY <1>1, <1>2, <3>1, <4>1 DEF FormBelongs
    <3>4. w \in Writes
      <4>1. Top \in PageStates
        BY <1>1, <1>2, TopProperties DEF StateTyped, ScreenTyped
      <4>2. UserDoc(form.email, form.text) \in UserDocs
        BY <1>1 DEF UserDoc, UserDocs, Forms
      <4>3. Top.id \in 0..MaxPages
        BY <4>1, PagesAssumption DEF PageStates
      <4>4. QED
        BY <1>1, <1>8, <4>2, <4>3 DEF Writes, StateTyped, AuthTyped
    <3>5. NamesItsOwner(w.doc, w.to)
      BY <3>2, <3>3 DEF NamesItsOwner, UserDoc
    <3> HIDE DEF w
    <3>6. QED
      BY <1>1, <1>2, <2>1, <3>1, <3>4, <3>5, WriteNamed
  <2>4. DocumentsNameTheirOwner'
    BY <1>1, <2>3, NamedIs
  <2>5. QED
    BY <1>5, <2>2, <2>4 DEF OwnerInv
<1>9. QED
  BY <1>6, <1>7, <1>8

\* An alert over the Home on top leaves it on top.
LEMMA ProfileUpdatedOwner == IInv /\ IInv' /\ OwnerInv /\ profileUpdated => OwnerInv'
<1> SUFFICES ASSUME IInv, IInv', OwnerInv, profileUpdated PROVE OwnerInv'
  OBVIOUS
<1>1. /\ StateTyped /\ StateTyped'
      /\ FormFresh /\ FormLabel /\ FormBelongs /\ FormNames
  BY DEF IInv, SessionInv, OwnerInv
<1>2. /\ UNCHANGED <<currentUser, overlapped, lapsed>> /\ users' = users /\ writes' = writes
      /\ form' = form /\ nameless' = nameless
  BY DEF profileUpdated, callbackRun, formVars, usersVars
<1>3. pages # <<>> => pages' # <<>> /\ Top'.homes = Top.homes
  <2>1. CASE pages' = pages
    BY <2>1 DEF Top
  <2>2. CASE pages' # pages /\ pages # <<>>
    <3> DEFINE n == Len(pages)
    <3>1. n \in 1..n /\ Top = pages[n] /\ Top \in PageStates /\ n \in Nat
      BY <1>1, <2>2, TopProperties DEF StateTyped, ScreenTyped
    <3>2. PICK text \in {"updated", "error"} : pages' = OnTop(AlertedAtHome(Top, text))
      BY <2>2 DEF profileUpdated
    <3>3. AlertedAtHome(Top, text).homes = Top.homes
      BY <3>1 DEF AlertedAtHome, PageStates
    <3>4. pages \in Seq(PageStates) /\ DOMAIN pages = 1..n
      BY <1>1, LenProperties DEF StateTyped, ScreenTyped
    <3>5. pages' # <<>> /\ Len(pages') = n /\ pages'[n] = AlertedAtHome(Top, text)
      BY <3>1, <3>2, <3>4 DEF OnTop
    <3>6. QED
      BY <3>3, <3>5 DEF Top, Last
  <2>3. QED
    BY <2>1, <2>2
<1>4. FormFresh' /\ FormLabel' /\ FormNames'
  BY <1>1, <1>2 DEF FormFresh, FormLabel, FormNames
<1>5. FormBelongs'
  BY <1>1, <1>2, <1>3 DEF FormBelongs
<1>6. QED
  BY <1>1, <1>2, <1>4, <1>5, OwnerKept

LEMMA OwnerInvNext == IInv /\ IInv' /\ CallInv /\ OwnerInv /\ [Next]_vars => OwnerInv'
<1> SUFFICES ASSUME IInv, IInv', CallInv, OwnerInv, [Next]_vars PROVE OwnerInv'
  OBVIOUS
<1>1. CASE SessionStep \/ FormStep
  BY <1>1, SessionStepOwner, FormStepOwner
<1>2. CASE viewDidLoad \/ worker \/ saveButton \/ profileUpdated
  BY <1>2, ViewDidLoadOwner, WorkerOwner, SaveButtonOwner, ProfileUpdatedOwner
<1>3. CASE UNCHANGED vars
  <2>1. /\ StateTyped /\ StateTyped' /\ users' = users /\ writes' = writes
        /\ UNCHANGED <<form, nameless, pages, currentUser, overlapped, lapsed>>
    BY <1>3 DEF IInv, SessionInv, vars, sessionVars, authVars, usersVars, screenVars, formVars
  <2>2. FormFresh' /\ FormLabel' /\ FormBelongs' /\ FormNames'
    BY <2>1 DEF OwnerInv, FormFresh, FormLabel, FormBelongs, FormNames, Top
  <2>3. QED
    BY <2>1, <2>2, OwnerKept
<1>4. QED
  BY <1>1, <1>2, <1>3 DEF Next, FormStep

LEMMA OwnerInvInit == Init => OwnerInv
<1> SUFFICES ASSUME Init PROVE OwnerInv
  OBVIOUS
<1>1. form = NoForm /\ SessionInit
  BY DEF Init
<1>2. FormFresh /\ FormLabel /\ FormBelongs /\ FormNames
  BY <1>1, NoFormFields DEF FormFresh, FormLabel, FormBelongs, FormNames
<1>3. Named
  <2>1. UsersInit
    BY <1>1 DEF SessionInit
  <2>2. PICK contact \in Contacts :
          users = [a \in Accounts |-> IF a \in Registered THEN UserDoc(a, contact) ELSE NoDoc]
    BY <2>1, Zenon DEF UsersInit
  <2>3. writes = <<>>
    BY <2>1, Zenon DEF UsersInit
  <2>4. \A a \in Accounts : NamesItsOwner(users[a], a)
    BY <2>2 DEF UserDoc, NamesItsOwner
  <2>5. QED
    BY <2>3, <2>4, EmptySeq DEF Named
<1>4. StateTyped
  BY IInvInit DEF IInv, SessionInv
<1>5. QED
  BY <1>2, <1>3, <1>4, NamedIs DEF OwnerInv

\* A document in users always says whose it is: the one ProfileViewModel saves,
\* with the details it fetched earlier, and the one CreateUser writes, with what
\* was typed, go to the current user's, and that is still the user they are of.
\* It takes users who wait for FIRAuth's answer, and for their name in the form.
THEOREM OwnerCorrect == Spec => []DocumentsNameTheirOwner
<1>1. Init => IInv /\ CallInv /\ OwnerInv
  BY IInvInit, CallInvInit, OwnerInvInit
<1>2. IInv /\ CallInv /\ OwnerInv /\ [Next]_vars => (IInv /\ CallInv /\ OwnerInv)'
  BY IInvNext, CallInvNext, OwnerInvNext
<1>3. OwnerInv => DocumentsNameTheirOwner
  BY DEF OwnerInv
<1>4. QED
  BY <1>1, <1>2, <1>3, PTL DEF Spec

-----------------------------------------------------------------------------
(***************************************************************************)
(* Every account has its document                                          *)
(***************************************************************************)
\* The accounts that have their document, or of which it is known where it is
\* or why it is not there.
Documented == {a \in Accounts : users[a] # NoDoc}
Written == {writes[i].to : i \in 1..Len(writes)}
Covered == Documented \cup Told(main) \cup Written \cup unheard \cup unkept
AllCovered == overlapped \/ accounts \subseteq Covered

LEMMA ProfileIs ==
  /\ StateTyped => (AccountHasProfile <=> AllCovered)
  /\ StateTyped' => (AccountHasProfile' <=> AllCovered')
<1>1. StateTyped => (AccountHasProfile <=> AllCovered)
  <2> SUFFICES ASSUME StateTyped PROVE AccountHasProfile <=> AllCovered
    OBVIOUS
  <2>1. DOMAIN writes = 1..Len(writes) /\ accounts \subseteq Accounts
    BY QueuesTyped, LenProperties DEF StateTyped, AuthTyped
  <2>2. \A a : (\E i \in DOMAIN writes : writes[i].to = a) <=> a \in Written
    BY <2>1 DEF Written
  <2>3. ASSUME NEW a \in accounts
        PROVE  (users[a] # NoDoc \/ OnItsWay(a) \/ a \in unheard \/ a \in unkept) <=> a \in Covered
    BY <2>1, <2>2 DEF OnItsWay, Covered, Documented
  <2>4. QED
    BY <2>3 DEF AccountHasProfile, AllCovered
<1>2. StateTyped' => (AccountHasProfile' <=> AllCovered')
  BY <1>1, PTL
<1>3. QED
  BY <1>1, <1>2

\* Nothing is lost, and what is new is covered.
LEMMA ProfileStays ==
  ASSUME StateTyped, StateTyped', AccountHasProfile, overlapped => overlapped',
         ~overlapped => Covered \subseteq Covered' /\ accounts' \subseteq accounts \cup Covered'
  PROVE  AccountHasProfile'
<1>1. AllCovered
  BY ProfileIs
<1>2. AllCovered'
  BY <1>1 DEF AllCovered
<1>3. QED
  BY <1>2, ProfileIs

LEMMA ToldIs ==
  ASSUME NEW callbacks \in Seq(Callbacks)
  PROVE  \A a : a \in Told(callbacks) <=>
           \E k \in 1..Len(callbacks) :
             callbacks[k].kind = "signup" /\ callbacks[k].ok /\ callbacks[k].account = a
BY LenProperties DEF Told

LEMMA ToldAppend ==
  ASSUME NEW callbacks \in Seq(Callbacks), NEW c \in Callbacks
  PROVE  /\ Told(callbacks) \subseteq Told(Append(callbacks, c))
         /\ c.kind = "signup" /\ c.ok => c.account \in Told(Append(callbacks, c))
<1> DEFINE new == Append(callbacks, c)
<1>1. /\ new \in Seq(Callbacks) /\ Len(new) = Len(callbacks) + 1 /\ Len(callbacks) \in Nat
      /\ \A i \in 1..Len(callbacks) : new[i] = callbacks[i]
      /\ new[Len(callbacks) + 1] = c
  BY AppendProperties, LenProperties
<1> HIDE DEF new
<1>2. 1..Len(callbacks) \subseteq 1..Len(new) /\ Len(callbacks) + 1 \in 1..Len(new)
  BY <1>1
<1>3. Told(callbacks) \subseteq Told(new)
  BY <1>1, <1>2, ToldIs
<1>4. c.kind = "signup" /\ c.ok => c.account \in Told(new)
  BY <1>1, <1>2, ToldIs
<1>5. QED
  BY <1>3, <1>4 DEF new

LEMMA ToldTail ==
  ASSUME NEW callbacks \in Seq(Callbacks), callbacks # <<>>, NEW a \in Told(callbacks)
  PROVE  \/ a \in Told(Tail(callbacks))
         \/ Head(callbacks).kind = "signup" /\ Head(callbacks).ok /\ Head(callbacks).account = a
<1> DEFINE rest == Tail(callbacks)
<1>1. /\ rest \in Seq(Callbacks) /\ Len(rest) = Len(callbacks) - 1
      /\ \A i \in 1..Len(rest) : rest[i] = callbacks[i + 1]
  BY HeadTailProperties
<1>2. Len(callbacks) \in Nat \ {0} /\ Head(callbacks) = callbacks[1]
  BY EmptySeq
<1> HIDE DEF rest
<1>3. PICK k \in 1..Len(callbacks) :
        callbacks[k].kind = "signup" /\ callbacks[k].ok /\ callbacks[k].account = a
  BY ToldIs
<1>4. CASE k = 1
  BY <1>2, <1>3, <1>4
<1>5. CASE k # 1
  <2>1. k - 1 \in 1..Len(rest) /\ (k - 1) + 1 = k
    BY <1>1, <1>2, <1>5
  <2>2. rest[k - 1] = callbacks[k]
    BY <1>1, <2>1
  <2>3. a \in Told(rest)
    BY <1>1, <1>3, <2>1, <2>2, ToldIs
  <2>4. QED
    BY <2>3 DEF rest
<1>6. QED
  BY <1>4, <1>5

\* Steps that neither make an account nor touch what covers one.
LEMMA ProfileQuiet ==
  ASSUME StateTyped, StateTyped', AccountHasProfile,
         UNCHANGED <<accounts, users, main, writes, unheard, unkept>>, overlapped => overlapped'
  PROVE  AccountHasProfile'
<1>1. Covered' = Covered /\ accounts' = accounts
  BY DEF Covered, Documented, Written
<1>2. QED
  BY <1>1, ProfileStays

\* A callback runs that tells of no new account.
LEMMA ProfileCallback ==
  ASSUME StateTyped, StateTyped', AccountHasProfile, main # <<>>, callbackRun,
         ~(Head(main).kind = "signup" /\ Head(main).ok), UNCHANGED usersVars
  PROVE  AccountHasProfile'
<1>1. /\ main \in Seq(Callbacks) /\ main' = Tail(main)
      /\ UNCHANGED <<accounts, unheard, overlapped, users, writes, unkept>>
  BY QueuesTyped DEF callbackRun, usersVars
<1>2. Told(main) \subseteq Told(main')
  BY <1>1, ToldTail
<1>3. Covered \subseteq Covered'
  BY <1>1, <1>2 DEF Covered, Documented, Written
<1>4. QED
  BY <1>1, <1>3, ProfileStays

\* CreateUser writes the document, or finds no user and ends the app.
LEMMA ProfileSignup ==
  ASSUME IInv, IInv', CallInv, AccountHasProfile, signupAnswered
  PROVE  AccountHasProfile'
<1>1. /\ StateTyped /\ StateTyped' /\ SessionInv /\ main # <<>> /\ callbackRun
      /\ users' = users /\ Head(main).kind = "signup"
  BY DEF IInv, SessionInv, signupAnswered, Runs
<1>2. /\ main \in Seq(Callbacks) /\ main' = Tail(main) /\ UNCHANGED <<accounts, unheard, overlapped>>
      /\ Head(main) = main[1] /\ 1 \in 1..Len(main)
  BY <1>1, QueuesTyped, HeadFits DEF callbackRun
<1>3. Told(main) \subseteq Told(main') \cup {Head(main).account}
  BY <1>1, <1>2, ToldTail
<1>4. CASE ~Head(main).ok /\ UNCHANGED <<writes, saved, unkept>>
  BY <1>1, <1>4, ProfileCallback DEF usersVars
<1>5. CASE UNCHANGED writes /\ unkept' = unkept \cup {Head(main).account}
  <2>1. Covered \subseteq Covered'
    BY <1>1, <1>2, <1>3, <1>5 DEF Covered, Documented, Written
  <2>2. QED
    BY <1>1, <1>2, <2>1, ProfileStays
<1>6. CASE /\ Head(main).ok /\ currentUser # NoUser
           /\ setData(SignedUp(Head(main).account), Head(main).page, "profile")
  <2> DEFINE w == [to |-> currentUser, doc |-> SignedUp(Head(main).account),
                   page |-> Head(main).page, kind |-> "profile"]
  <2>1. writes' = Append(writes, w) /\ unkept' = unkept /\ w.to = currentUser
    BY <1>6 DEF setData
  <2> HIDE DEF w
  <2>2. /\ Len(writes') = Len(writes) + 1 /\ Len(writes) \in Nat /\ writes'[Len(writes) + 1] = w
        /\ \A i \in 1..Len(writes) : writes'[i] = writes[i]
    <3>1. writes \in Seq(Writes) /\ writes' \in Seq(Writes)
      BY <1>1 DEF StateTyped, UsersTyped
    <3>2. QED
      BY <2>1, <3>1, LenProperties
  <2>3. 1..Len(writes) \subseteq 1..Len(writes') /\ Len(writes) + 1 \in 1..Len(writes')
    BY <2>2
  <2>4. Written \subseteq Written' /\ currentUser \in Written'
    BY <2>1, <2>2, <2>3 DEF Written
  <2>5. ~overlapped => Head(main).account = currentUser
    <3>1. ~lapsed
      BY <1>1, <1>6 DEF SessionInv, SignedIn
    <3>2. QED
      BY <1>1, <1>2, <1>6, <3>1 DEF CallInv, Calm, AnswersCurrent, Kinds
  <2>6. ~overlapped => Covered \subseteq Covered'
    BY <1>1, <1>2, <1>3, <2>1, <2>4, <2>5 DEF Covered, Documented
  <2>7. QED
    BY <1>1, <1>2, <2>6, ProfileStays
<1>7. QED
  BY <1>4, <1>5, <1>6 DEF signupAnswered, Created

\* An account is created, and its callback waits, or nobody is told.
LEMMA ProfileAnswer ==
  ASSUME IInv, IInv', AccountHasProfile, AnswerCall
  PROVE  AccountHasProfile'
<1>1. /\ StateTyped /\ StateTyped' /\ main \in Seq(Callbacks)
      /\ UNCHANGED <<users, writes, unkept>>
  BY QueuesTyped DEF IInv, SessionInv, AnswerCall, usersVars
<1>2. PICK r \in requests : Succeeds(r) \/ Fails(r)
  BY DEF AnswerCall, Answer
<1>3. r \in Requests
  BY <1>1 DEF StateTyped, AuthTyped
<1>4. PICK ok \in BOOLEAN :
        /\ main' = Post(r.kind, r, ok)
        /\ ok => accounts' = accounts \cup {r.account} /\ unheard' = unheard /\ Accepted(r)
        /\ ~ok => /\ accounts' \subseteq accounts \cup unheard' /\ unheard \subseteq unheard'
  BY <1>2 DEF Succeeds, Fails
<1> DEFINE c == [kind |-> r.kind, account |-> r.account, page |-> r.page, ok |-> ok]
<1>5. /\ main' = Append(main, c) /\ c \in Callbacks
      /\ c.kind = r.kind /\ c.account = r.account /\ c.ok = ok
  BY <1>3, <1>4 DEF Post, Requests, Callbacks
<1> HIDE DEF c
<1>6. Told(main) \subseteq Told(main') /\ (r.kind = "signup" /\ ok => r.account \in Told(main'))
  BY <1>1, <1>5, ToldAppend
<1>7. accounts' \subseteq accounts \cup Told(main') \cup unheard'
  BY <1>3, <1>4, <1>6 DEF Accepted, Requests
<1>8. Covered \subseteq Covered' /\ accounts' \subseteq accounts \cup Covered'
  BY <1>1, <1>4, <1>6, <1>7 DEF Covered, Documented, Written
<1>9. overlapped' = overlapped
  BY <1>2 DEF Succeeds, Fails
<1>10. QED
  BY <1>1, <1>8, <1>9, ProfileStays

\* The write that is decided is stored or refused.
LEMMA ProfileDecide ==
  ASSUME IInv, IInv', AccountHasProfile, DecideWrite
  PROVE  AccountHasProfile'
<1>1. /\ StateTyped /\ StateTyped' /\ main \in Seq(Callbacks) /\ writes \in Seq(Writes)
      /\ saved \in 0..Len(writes) /\ Len(writes) \in Nat
  BY QueuesTyped, LenProperties DEF IInv, SessionInv, StateTyped, UsersTyped
<1>2. PICK i \in 1..Len(writes) : Decide(i)
  BY <1>1 DEF DecideWrite
<1> DEFINE w == writes[i]
<1>3. w \in Writes
  BY <1>1, ElementOfSeq
<1>4. PICK ok \in BOOLEAN :
        /\ users' = IF ok THEN [users EXCEPT ![w.to] = w.doc] ELSE users
        /\ unkept' = IF ok THEN unkept ELSE unkept \cup {w.to}
        /\ main' = IF w.page = 0 THEN main
                   ELSE Append(main, [kind |-> w.kind, account |-> w.to, page |-> w.page, ok |-> ok])
  BY <1>2 DEF Decide
<1>5. /\ writes' = RemoveAt(writes, i) /\ UNCHANGED <<accounts, overlapped, unheard>>
  BY <1>2 DEF Decide
<1>6. Written \subseteq Written' \cup {w.to}
  <2>1. /\ Len(writes') = Len(writes) - 1
        /\ \A j \in 1..(Len(writes) - 1) : writes'[j] = IF j < i THEN writes[j] ELSE writes[j + 1]
    BY <1>1, <1>5, WriteTaken
  <2>2. ASSUME NEW k \in 1..Len(writes), k # i PROVE writes[k].to \in Written'
    <3>1. CASE k < i
      <4>1. k \in 1..Len(writes') /\ writes'[k] = writes[k]
        BY <1>1, <2>1, <3>1
      <4>2. QED
        BY <4>1 DEF Written
    <3>2. CASE ~(k < i)
      <4>1. k - 1 \in 1..Len(writes') /\ ~(k - 1 < i) /\ (k - 1) + 1 = k
        BY <1>1, <2>1, <2>2, <3>2
      <4>2. writes'[k - 1] = writes[k]
        BY <2>1, <4>1
      <4>3. QED
        BY <4>1, <4>2 DEF Written
    <3>3. QED
      BY <3>1, <3>2
  <2>3. QED
    BY <2>2 DEF Written
<1>7. Told(main) \subseteq Told(main')
  <2>1. CASE w.page = 0
    BY <1>4, <2>1
  <2>2. CASE w.page # 0
    <3> DEFINE c == [kind |-> w.kind, account |-> w.to, page |-> w.page, ok |-> ok]
    <3>1. main' = Append(main, c) /\ c \in Callbacks
      BY <1>3, <1>4, <2>2, PagesAssumption DEF Writes, Callbacks
    <3> HIDE DEF c
    <3>2. QED
      BY <1>1, <3>1, ToldAppend
  <2>3. QED
    BY <2>1, <2>2
<1>8. w.to \in Accounts /\ w.doc # NoDoc
  BY <1>3, NoDocAssumption DEF Writes
<1> HIDE DEF w
<1>9. Documented \subseteq Documented' /\ unkept \subseteq unkept' /\ w.to \in Documented' \cup unkept'
  <2>1. users \in [Accounts -> UserDocs \cup {NoDoc}]
    BY <1>1 DEF StateTyped, UsersTyped
  <2>2. CASE ok
    BY <1>4, <1>8, <2>1, <2>2 DEF Documented
  <2>3. CASE ~ok
    BY <1>4, <2>3 DEF Documented
  <2>4. QED
    BY <2>2, <2>3
<1>10. Covered \subseteq Covered' /\ accounts' = accounts
  BY <1>5, <1>6, <1>7, <1>9 DEF Covered
<1>11. QED
  BY <1>1, <1>5, <1>10, ProfileStays

\* What a restart loses is on record.
LEMMA ProfileRestart ==
  ASSUME IInv, IInv', AccountHasProfile, appRestart
  PROVE  AccountHasProfile'
<1>1. /\ StateTyped /\ StateTyped' /\ UsersTyped /\ UsersRestart /\ users' = users
      /\ saved \in 0..Len(writes) /\ Len(writes) \in Nat
  BY QueuesTyped, LenProperties
     DEF IInv, SessionInv, StateTyped, UsersTyped, appRestart, UsersRestart
<1>2. PICK done \in SUBSET {r \in requests : Accepted(r)} :
        /\ accounts' = accounts \cup {r.account : r \in done}
        /\ unheard' = unheard \cup {r.account : r \in {q \in done : q.kind = "signup"}} \cup Told(main)
  BY DEF appRestart, AuthRestart
<1>3. accounts' \subseteq accounts \cup unheard'
  <2>1. ASSUME NEW r \in done PROVE r.account \in accounts \cup unheard'
    <3>1. r \in Requests /\ Accepted(r)
      BY <1>1 DEF StateTyped, AuthTyped
    <3>2. CASE r.kind = "login"
      BY <3>1, <3>2 DEF Accepted
    <3>3. CASE r.kind = "signup"
      BY <1>2, <3>3
    <3>4. QED
      BY <3>1, <3>2, <3>3 DEF Requests
  <2>2. QED
    BY <1>2, <2>1
<1>4. Written \subseteq Written' \cup unkept'
  <2>1. /\ Len(writes') = saved
        /\ \A i \in 1..saved : writes'[i].to = writes[i].to
    BY <1>1, WritesOrphaned
  <2>2. ASSUME NEW k \in 1..Len(writes) PROVE writes[k].to \in Written' \cup unkept'
    <3>1. CASE k <= saved
      <4>1. k \in 1..Len(writes') /\ writes'[k].to = writes[k].to
        BY <1>1, <2>1, <3>1
      <4>2. QED
        BY <4>1 DEF Written
    <3>2. CASE ~(k <= saved)
      <4>1. k \in (saved + 1)..Len(writes)
        BY <1>1, <3>2
      <4>2. QED
        BY <1>1, <4>1 DEF UsersRestart
    <3>3. QED
      BY <3>1, <3>2
  <2>3. QED
    BY <2>2 DEF Written
<1>5. unkept \subseteq unkept'
  BY <1>1 DEF UsersRestart
<1>6. Covered \subseteq Covered' /\ accounts' \subseteq accounts \cup Covered'
  BY <1>1, <1>2, <1>3, <1>4, <1>5 DEF Covered, Documented
<1>7. overlapped' = overlapped
  BY DEF appRestart, AuthRestart
<1>8. QED
  BY <1>1, <1>6, <1>7, ProfileStays

LEMMA ProfileNext == IInv /\ IInv' /\ CallInv /\ AccountHasProfile /\ [Next]_vars => AccountHasProfile'
<1> SUFFICES ASSUME IInv, IInv', CallInv, AccountHasProfile, [Next]_vars PROVE AccountHasProfile'
  OBVIOUS
<1>1. StateTyped /\ StateTyped'
  BY DEF IInv, SessionInv
<1>2. CASE SessionStep
  <2>1. CASE toLoginPage \/ didTapRegister \/ alertClosed \/ didTapLogout \/ TokenRefused
    <3>1. UNCHANGED <<accounts, users, main, writes, unheard, unkept, overlapped>>
      BY <2>1 DEF toLoginPage, didTapRegister, alertClosed, didTapLogout, signOut, TokenRefused,
                  signOutByForceWithUserID, authVars, usersVars
    <3>2. QED
      BY <1>1, <3>1, ProfileQuiet
  <2>2. CASE \E a \in Accounts \cup {Blank} : loginButtonTapped(a) \/ getStartedButton(a)
    <3>1. /\ UNCHANGED <<accounts, users, main, writes, unheard, unkept>>
          /\ overlapped => overlapped'
      BY <2>2 DEF loginButtonTapped, getStartedButton, Call, usersVars
    <3>2. QED
      BY <1>1, <3>1, ProfileQuiet
  <2>3. CASE loginAnswered \/ profileWritten
    BY <1>1, <2>3, ProfileCallback DEF loginAnswered, profileWritten, Runs
  <2>4. CASE signupAnswered \/ DecideWrite \/ AnswerCall \/ appRestart
    BY <2>4, ProfileSignup, ProfileDecide, ProfileAnswer, ProfileRestart
  <2>5. QED
    BY <1>2, <2>1, <2>2, <2>3, <2>4 DEF SessionStep
<1>3. CASE viewDidLoad \/ worker \/ FormStep \/ UNCHANGED vars
  <2>1. UNCHANGED <<accounts, users, main, writes, unheard, unkept, overlapped>>
    BY <1>3 DEF viewDidLoad, worker, WriteMutations, FormStep, profileFetched,
         notificationCompletion, editButton, typeContact, vars, sessionVars, authVars, usersVars
  <2>2. QED
    BY <1>1, <2>1, ProfileQuiet
<1>4. CASE saveButton
  <2>1. /\ UNCHANGED <<accounts, users, main, unheard, unkept, overlapped>>
        /\ writes' = writes \/ \E w : writes' = Append(writes, w)
    BY <1>4 DEF saveButton, setData, authVars
  <2>2. Written \subseteq Written'
    <3>1. CASE writes' = writes
      BY <3>1 DEF Written
    <3>2. CASE \E w : writes' = Append(writes, w)
      <4>1. PICK w : writes' = Append(writes, w)
        BY <3>2
      <4>2. writes \in Seq(Writes) /\ writes' \in Seq(Writes) /\ Len(writes) \in Nat
        BY <1>1, LenProperties DEF StateTyped, UsersTyped
      <4>3. Len(writes') = Len(writes) + 1 /\ \A i \in 1..Len(writes) : writes'[i] = writes[i]
        BY <4>1, <4>2
      <4>4. 1..Len(writes) \subseteq 1..Len(writes')
        BY <4>2, <4>3
      <4>5. QED
        BY <4>3, <4>4 DEF Written
    <3>3. QED
      BY <2>1, <3>1, <3>2
  <2>3. Covered \subseteq Covered'
    BY <2>1, <2>2 DEF Covered, Documented
  <2>4. QED
    BY <1>1, <2>1, <2>3, ProfileStays
<1>5. CASE profileUpdated
  BY <1>1, <1>5, ProfileCallback DEF profileUpdated, Runs
<1>6. QED
  BY <1>2, <1>3, <1>4, <1>5 DEF Next, FormStep

LEMMA ProfileInit == Init => AccountHasProfile
<1> SUFFICES ASSUME Init PROVE AccountHasProfile
  OBVIOUS
<1>1. StateTyped
  BY IInvInit DEF IInv, SessionInv
<1>2. accounts = Registered /\ UsersInit
  BY DEF Init, SessionInit, AuthInit
<1>3. PICK contact \in Contacts :
        users = [a \in Accounts |-> IF a \in Registered THEN UserDoc(a, contact) ELSE NoDoc]
  BY <1>2, Zenon DEF UsersInit
<1>4. ASSUME NEW a \in Registered PROVE a \in Documented
  <2>1. a \in Accounts /\ users[a] = UserDoc(a, contact)
    BY <1>3, AccountsAssumption
  <2>2. UserDoc(a, contact) \in UserDocs
    BY <2>1 DEF UserDoc, UserDocs
  <2>3. QED
    BY <2>1, <2>2, NoDocAssumption DEF Documented
<1>5. accounts \subseteq Covered
  BY <1>2, <1>4 DEF Covered
<1>6. QED
  BY <1>1, <1>5, ProfileIs DEF AllCovered

\* An account that createUser has made has its document in users, or the
\* callback of its creation or a setData still waits, or one of the causes is on
\* record: an answer or a write lost with the connection or the process, a write
\* refused, no user when the callback ran, or calls that overlapped.
THEOREM ProfilesCorrect == Spec => []AccountHasProfile
<1>1. Init => IInv /\ CallInv /\ AccountHasProfile
  BY IInvInit, CallInvInit, ProfileInit
<1>2. IInv /\ CallInv /\ AccountHasProfile /\ [Next]_vars => (IInv /\ CallInv /\ AccountHasProfile)'
  BY IInvNext, CallInvNext, ProfileNext
<1>3. QED
  BY <1>1, <1>2, PTL DEF Spec
=============================================================================
