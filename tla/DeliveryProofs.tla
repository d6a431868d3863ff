---------------------------- MODULE DeliveryProofs --------------------------
(***************************************************************************)
(* The delivery person, for every set of documents and every number of     *)
(* snapshots and waiting blocks.                                           *)
(***************************************************************************)
EXTENDS Delivery, ArrayLemmas, TLAPS

\* What a snapshot leaves in a field is a complete document or what was there.
LEMMA TakenType ==
  ASSUME NEW D \in SUBSET Persons, model \in [Fields -> Complete \cup {0}]
  PROVE  Taken(D) \in [Fields -> Complete \cup {0}]
<1> SUFFICES ASSUME NEW f \in Fields
             PROVE  (IF With(D, f) = {} THEN model[f] ELSE Max(With(D, f))) \in Complete \cup {0}
  BY DEF Taken
<1>1. CASE With(D, f) = {}
  BY <1>1
<1>2. CASE With(D, f) # {}
  <2>1. With(D, f) \subseteq Complete /\ With(D, f) \in SUBSET Persons
    BY DEF With
  <2>2. Max(With(D, f)) \in With(D, f)
    BY <1>2, <2>1, PersonsAssumption, MaxIsMember DEF Persons
  <2>3. QED
    BY <1>2, <2>1, <2>2
<1>3. QED
  BY <1>1, <1>2

LEMMA TypeNext == TypeOK /\ [Next]_vars => TypeOK'
<1> SUFFICES ASSUME TypeOK, [Next]_vars PROVE TypeOK'
  OBVIOUS
<1> USE DEF TypeOK
<1>1. ASSUME NEW D \in SUBSET Persons, snapshotArrives(D) PROVE TypeOK'
  <2>1. model' \in [Fields -> Complete \cup {0}]
    BY <1>1, TakenType DEF snapshotArrives
  <2>2. NewNumber \in Complete \cup {0}
    BY <2>1 DEF NewNumber, Fields
  <2>3. phoneNumber' \in Complete \cup {0}
    BY <1>1, <2>2 DEF snapshotArrives
  <2>4. snapshots' \in 0..MaxSnapshots
    BY <1>1, BoundsAssumption DEF snapshotArrives
  <2>5. blocks' \in 0..MaxBlocks
    BY <1>1, BoundsAssumption DEF snapshotArrives
  <2>6. labels' \in [Labels -> Complete \cup {0}] /\ screen' \in {"pushed", "appeared", "gone"}
    BY <1>1 DEF snapshotArrives
  <2>7. heard' \in BOOLEAN
    BY <1>1 DEF snapshotArrives
  <2>8. mixed' \in BOOLEAN
    BY <1>1 DEF snapshotArrives
  <2>9. QED
    BY <2>1, <2>3, <2>4, <2>5, <2>6, <2>7, <2>8
<1>2. CASE showDetails
  <2>1. labels' \in [Labels -> Complete \cup {0}]
    BY <1>2 DEF showDetails, Filled, Fields
  <2>2. blocks' \in 0..MaxBlocks
    BY <1>2, BoundsAssumption DEF showDetails
  <2>3. QED
    BY <1>2, <2>1, <2>2 DEF showDetails
<1>3. CASE viewDidAppear \/ doneButtonPressed
  BY <1>3 DEF viewDidAppear, doneButtonPressed
<1>4. CASE UNCHANGED vars
  BY <1>4 DEF vars
<1>5. QED
  BY <1>1, <1>2, <1>3, <1>4 DEF Next

LEMMA TypeInit == Init => TypeOK
<1> SUFFICES ASSUME Init PROVE TypeOK
  OBVIOUS
<1>1. model \in [Fields -> Complete \cup {0}] /\ labels \in [Labels -> Complete \cup {0}]
  BY DEF Init
<1>2. 0 \in 0..MaxSnapshots /\ 0 \in 0..MaxBlocks
  BY BoundsAssumption
<1>3. QED
  BY <1>1, <1>2 DEF Init, TypeOK

\* Type correctness of DeliveryViewModel and ConfirmationViewController: what
\* is shown or called is always of a complete document, or the initial text.
THEOREM TypeCorrect == Spec => []TypeOK
  BY TypeInit, TypeNext, PTL DEF Spec

-----------------------------------------------------------------------------
\* Once the screen has been told, which it is not before it has appeared, the
\* number is at every moment the view model's; the labels are whenever no
\* block waits.
Told ==
  /\ screen = "pushed" => ~heard
  /\ heard /\ screen = "appeared" =>
       /\ phoneNumber = model["phone"]
       /\ blocks = 0 => \A f \in Labels : labels[f] = model[f]

IInv == TypeOK /\ OnePerson /\ Told

\* If all strings are strings, the last complete document sets every field.
LEMMA OnePersonTaken ==
  ASSUME OnePerson, NEW D \in SUBSET Persons, snapshotArrives(D)
  PROVE  OnePerson'
<1> SUFFICES ASSUME ~mixed', NEW f \in Fields PROVE model'[f] = model'["phone"]
  BY DEF OnePerson
<1>1. ~mixed /\ \A d \in D \cap Complete : Textual[d] = Fields
  BY DEF snapshotArrives
<1>2. "phone" \in Fields
  BY DEF Fields
<1>3. With(D, f) = With(D, "phone")
  BY <1>1, <1>2 DEF With
<1>4. model' = Taken(D)
  BY DEF snapshotArrives
<1>5. model[f] = model["phone"]
  BY <1>1 DEF OnePerson
<1>6. QED
  BY <1>2, <1>3, <1>4, <1>5 DEF Taken

LEMMA IInvNext == IInv /\ [Next]_vars => IInv'
<1> SUFFICES ASSUME IInv, [Next]_vars PROVE IInv'
  OBVIOUS
<1>0. TypeOK /\ OnePerson /\ Told /\ TypeOK'
  BY TypeNext DEF IInv
<1>1. ASSUME NEW D \in SUBSET Persons, snapshotArrives(D) PROVE OnePerson' /\ Told'
  <2>1. OnePerson'
    BY <1>0, <1>1, OnePersonTaken
  <2>2. CASE screen = "appeared"
    <3>1. phoneNumber' = model'["phone"] /\ screen' = screen
      BY <1>1, <2>2 DEF snapshotArrives, NewNumber
    <3>2. blocks' # 0
      BY <1>0, <1>1, <2>2, BoundsAssumption DEF snapshotArrives, TypeOK
    <3>3. QED
      BY <2>1, <2>2, <3>1, <3>2 DEF Told
  <2>3. CASE screen # "appeared"
    BY <1>0, <1>1, <2>1, <2>3 DEF snapshotArrives, Told
  <2>4. QED
    BY <2>2, <2>3
<1>2. ASSUME showDetails PROVE OnePerson' /\ Told'
  <2>1. \A f \in Labels : labels'[f] = model'[f]
    BY <1>2 DEF showDetails, Filled
  <2>2. QED
    BY <1>0, <1>2, <2>1 DEF showDetails, Told, OnePerson
<1>3. ASSUME viewDidAppear PROVE OnePerson' /\ Told'
  BY <1>0, <1>3 DEF viewDidAppear, Told, OnePerson
<1>4. ASSUME doneButtonPressed PROVE OnePerson' /\ Told'
  BY <1>0, <1>4 DEF doneButtonPressed, Told, OnePerson
<1>5. ASSUME UNCHANGED vars PROVE OnePerson' /\ Told'
  BY <1>0, <1>5 DEF vars, Told, OnePerson
<1>6. QED
  BY <1>0, <1>1, <1>2, <1>3, <1>4, <1>5 DEF Next, IInv

\* The call button calls the person who is shown, once the screen was told of
\* a snapshot and when no block waits; all of one document, as long as every
\* document had strings only.
THEOREM CallsCorrect == Spec => []CallsWhoIsShown
<1>1. Init => IInv
  BY TypeInit DEF Init, IInv, OnePerson, Told, Fields, Labels
<1>2. IInv => CallsWhoIsShown
  BY DEF IInv, Told, CallsWhoIsShown
<1>3. QED
  BY <1>1, <1>2, IInvNext, PTL DEF Spec
=============================================================================
