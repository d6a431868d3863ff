------------------------------ MODULE Delivery ------------------------------
(***************************************************************************)
(* The delivery person on the Confirmation screen: DeliveryViewModel       *)
(* listens to the collection from its init on, ConfirmationViewController  *)
(* registers for the news only when it has appeared.  News set the number  *)
(* to call at once and the labels one block of the main queue later.       *)
(*                                                                         *)
(* A text is the document it comes from; 0 is what the view model starts   *)
(* with, and the storyboard's text on a label.                             *)
(***************************************************************************)
EXTENDS Naturals, FiniteSetsExt

CONSTANTS
  NPersons,      \* documents the collection may have, numbered in their order
  Complete,      \* those that have all four fields
  Textual,       \* document -> which of its fields are strings
  MaxSnapshots,  \* bound: snapshots delivered
  MaxBlocks      \* bound: blocks waiting on the main queue

Labels == {"name", "time", "imageName"}
Fields == Labels \cup {"phone"}
Persons == 1..NPersons

ASSUME PersonsAssumption ==
  /\ NPersons \in Nat
  /\ Complete \subseteq Persons /\ Textual \in [Persons -> SUBSET Fields]
ASSUME BoundsAssumption == MaxSnapshots \in Nat /\ MaxBlocks \in Nat

VARIABLES
  model,        \* DeliveryViewModel's fields
  snapshots,
  screen,       \* "pushed", "appeared" (and registered), or "gone"
  labels,       \* nameLabel, timeLabel, deliveryPersonImage
  phoneNumber,  \* what the call button calls
  blocks,       \* blocks waiting on the main queue
  heard,        \* history variable: the screen was told of a snapshot
  mixed         \* history variable: a document had a field that is no string

vars == <<model, snapshots, screen, labels, phoneNumber, blocks, heard, mixed>>

Init ==
  /\ model = [f \in Fields |-> 0] /\ snapshots = 0 /\ screen = "pushed"
  /\ labels = [f \in Labels |-> 0] /\ phoneNumber = 0 /\ blocks = 0
  /\ heard = FALSE /\ mixed = FALSE

\* Of the complete documents each sets those fields that are strings, so that
\* the last one to have a field as a string determines it.
\* a slip: documents without the field are not left out
WithUnchecked(D, f) == D
With(D, f) == {d \in D \cap Complete : f \in Textual[d]}
Taken(D) == [f \in Fields |-> IF With(D, f) = {} THEN model[f] ELSE Max(With(D, f))]

\* a slip: the number is that of the first person heard of
KeptNumber == IF phoneNumber = 0 THEN model'["phone"] ELSE phoneNumber
NewNumber == model'["phone"]

\* The snapshot's callback ends with the registered closure, which does
\* nothing once the screen has gone.
snapshotArrives(D) ==
  /\ snapshots < MaxSnapshots /\ snapshots' = snapshots + 1
  /\ model' = Taken(D)
  /\ mixed' = (mixed \/ \E d \in D \cap Complete : Textual[d] # Fields)
  /\ IF screen = "appeared"
     THEN /\ blocks < MaxBlocks /\ blocks' = blocks + 1
          /\ phoneNumber' = NewNumber /\ heard' = TRUE
     ELSE UNCHANGED <<phoneNumber, blocks, heard>>
  /\ UNCHANGED <<screen, labels>>

\* a slip: only the first block fills the labels
FilledOnce == IF labels["name"] = 0 THEN [f \in Labels |-> model[f]] ELSE labels
\* The block shows what the view model holds when it runs.
Filled == [f \in Labels |-> model[f]]

showDetails ==
  /\ blocks > 0 /\ blocks' = blocks - 1
  /\ labels' = Filled
  /\ UNCHANGED <<model, snapshots, screen, phoneNumber, heard, mixed>>

viewDidAppear ==
  /\ screen = "pushed" /\ screen' = "appeared"
  /\ UNCHANGED <<model, snapshots, labels, phoneNumber, blocks, heard, mixed>>

doneButtonPressed ==
  /\ screen = "appeared" /\ screen' = "gone"
  /\ UNCHANGED <<model, snapshots, labels, phoneNumber, blocks, heard, mixed>>

Next ==
  \/ \E D \in SUBSET Persons : snapshotArrives(D)
  \/ showDetails
  \/ viewDidAppear
  \/ doneButtonPressed

Spec == Init /\ [][Next]_vars
\* The main queue runs its blocks; snapshots and the user owe nothing.
FairSpec == Spec /\ WF_vars(showDetails)

-----------------------------------------------------------------------------
(***************************************************************************)
(* Properties                                                              *)
(***************************************************************************)
\* Type invariant.
TypeOK ==
  /\ model \in [Fields -> Complete \cup {0}] /\ labels \in [Labels -> Complete \cup {0}]
  /\ phoneNumber \in Complete \cup {0}
  /\ snapshots \in 0..MaxSnapshots /\ blocks \in 0..MaxBlocks
  /\ screen \in {"pushed", "appeared", "gone"} /\ heard \in BOOLEAN
  /\ mixed \in BOOLEAN

\* The call button calls the person who is shown: when no block waits, name,
\* time, image and number come from one document, as long as all that came had
\* strings only, and in any case from what the view model holds; it needs a
\* snapshot that came while the screen was there to be told.
OnePerson == ~mixed => \A f \in Fields : model[f] = model["phone"]
CallsWhoIsShown ==
  /\ OnePerson
  /\ heard /\ screen = "appeared" /\ blocks = 0 =>
       phoneNumber = model["phone"] /\ \A f \in Labels : labels[f] = model[f]

\* A person the screen is told of is shown in the end, unless another comes.
\* (Of one who comes before the screen has appeared it is never told.)
PersonIsShown ==
  \A d \in Persons :
    heard /\ screen = "appeared" /\ model["name"] = d
      ~> labels["name"] = d \/ model["name"] # d \/ screen = "gone"
=============================================================================
