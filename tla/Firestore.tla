------------------------------ MODULE Firestore ------------------------------
(***************************************************************************)
(* The part of the Firestore client (and of its backend) that the app's    *)
(* Router relies on, for one collection: addDocument, one snapshot         *)
(* listener, the persisted queue of local writes, and the main queue on    *)
(* which the client runs the app's callbacks.                              *)
(*                                                                         *)
(* A write shows in the listener's view at once, is sent in order, and is  *)
(* either acknowledged or refused; a broken stream only means it is sent   *)
(* again.  The document id is chosen by the client, so sending twice       *)
(* stores one document.  The queue of writes and their completions belong  *)
(* to one account: while another user, or none, is the client's, the queue *)
(* is neither sent nor shown.                                              *)
(***************************************************************************)
EXTENDS Integers, FiniteSets, SequencesExt

CONSTANTS
  Docs,         \* document ids, in the order in which a query lists them
  Own,          \* those of the documents that this app writes
  Refused,      \* own documents that the backend's rules refuse
  Deletable,    \* documents another client of the account may delete
  MaxForeign,   \* bound: steps of other clients
  MaxLosses,    \* bound: broken write streams
  MaxRestarts   \* bound: the app is killed and started again

ASSUME DocsAssumption ==
  /\ Docs \subseteq Nat /\ IsFiniteSet(Docs)
  /\ Refused \subseteq Own /\ Own \subseteq Docs /\ Deletable \subseteq Docs \ Own
ASSUME BoundsAssumption == MaxForeign \in Nat /\ MaxLosses \in Nat /\ MaxRestarts \in Nat

VARIABLES
  worker,     \* tasks waiting on the client's worker queue
  current,    \* the account is the client's user (SyncEngine::current_user_)
  pending,    \* the persisted queue of local writes (mutation queue)
  answers,    \* answers on the write stream to the first writes of pending
  server,     \* documents stored by the backend
  cache,      \* the client's persisted copy of the backend's documents
  callbacks,  \* pending writes whose completion is still to be called
  listening,  \* the snapshot listener of the screen is registered
  lingering,  \* so is one whose screen has gone: nothing ever removes it
  snaps,      \* the documents of each snapshot raised since the app started
  main,       \* blocks waiting on the main queue
  foreign, losses, restarts   \* counters of the bounded steps

storeVars == <<pending, answers, server, cache, callbacks>>
counters == <<foreign, losses, restarts>>
listeners == <<listening, lingering, snaps>>
storeAll == <<worker, current, storeVars, listeners, main, counters>>

\* A set of numbers in ascending order: the documents of a query by their ids
Ascending(D) == [i \in 1..Cardinality(D) |-> CHOOSE d \in D : Cardinality({e \in D : e < d}) = i - 1]

\* The elements of a queue that are of these kinds, in their order
OfKinds(q, kinds) ==
  LET at == Ascending({i \in DOMAIN q : q[i].kind \in kinds})
  IN [j \in DOMAIN at |-> q[at[j]]]

\* What a query of the collection shows: latency compensation puts the
\* pending writes of the client's user on top of the cached documents.
View(isCurrent, queue, cached) == cached \cup IF isCurrent THEN ToSet(queue) ELSE {}

\* The documents of the last snapshot that was raised
Raised == IF snaps = <<>> THEN {} ELSE Last(snaps)

Completion(d, result) == <<[kind |-> "completion", doc |-> d, result |-> result]>>
Event == <<[kind |-> "event", snap |-> Len(snaps) + 1]>>

\* a slip: documents that have gone are not reported
EmitAdditions(blocks, isListening, view) ==
  IF isListening /\ ~(view \subseteq Raised)
  THEN snaps' = Append(snaps, view) /\ main' = main \o blocks \o Event
  ELSE main' = main \o blocks /\ UNCHANGED snaps

\* The callbacks of a step go to the main queue first and a snapshot after
\* them; a snapshot is raised only if the documents have changed (metadata
\* alone, such as "no longer pending", raises none).
Emit(blocks, isListening, view) ==
  IF isListening /\ view # Raised
  THEN snaps' = Append(snaps, view) /\ main' = main \o blocks \o Event
  ELSE main' = main \o blocks /\ UNCHANGED snaps

StoreInit ==
  /\ worker = <<>> /\ current = FALSE /\ pending = <<>> /\ answers = <<>>
  /\ server = {} /\ cache = {} /\ callbacks = {}
  /\ listening = FALSE /\ lingering = FALSE /\ snaps = <<>> /\ main = <<>>
  /\ foreign = 0 /\ losses = 0 /\ restarts = 0

-----------------------------------------------------------------------------
(***************************************************************************)
(* The app's calls, which return at once and leave the rest to the worker  *)
(***************************************************************************)
addDocument(d) == worker' = Append(worker, [kind |-> "write", doc |-> d])
addSnapshotListener == worker' = Append(worker, [kind |-> "listen"])

\* Auth's notification of a new user, which the client's credentials
\* provider passes on to the worker
credentialChanged(tasks, isUser) == worker' = Append(tasks, [kind |-> "user", isUser |-> isUser])

\* SyncEngine::WriteMutations: into the persisted queue and on the screen
WriteMutations ==
  /\ worker # <<>> /\ Head(worker).kind = "write"
  /\ worker' = Tail(worker)
  /\ pending' = Append(pending, Head(worker).doc)
  /\ callbacks' = callbacks \cup {Head(worker).doc}
  /\ Emit(<<>>, listening, View(current, pending', cache))
  /\ UNCHANGED <<current, answers, server, cache, listening, lingering, counters>>

\* SyncEngine::Listen: the first snapshot comes from the cache if there is
\* anything in it, otherwise from the backend
Listen ==
  /\ worker # <<>> /\ Head(worker).kind = "listen"
  /\ worker' = Tail(worker)
  /\ listening' = TRUE
  /\ Emit(<<>>, TRUE, View(current, pending, cache))
  /\ UNCHANGED <<current, storeVars, lingering, counters>>

\* SyncEngine::HandleCredentialChange (and, after a start, Initialize): the
\* queue of writes is swapped for the new user's, and the streams restart
HandleCredentialChange ==
  /\ worker # <<>> /\ Head(worker).kind = "user"
  /\ worker' = Tail(worker)
  /\ current' = Head(worker).isUser
  /\ answers' = <<>>
  /\ Emit(<<>>, listening, View(current', pending, cache))
  /\ UNCHANGED <<pending, server, cache, callbacks, listening, lingering, counters>>

(***************************************************************************)
(* The write stream                                                        *)
(***************************************************************************)
\* The backend takes the writes in order; a refusal ends the stream.
BackendTakesWrite ==
  /\ current /\ Len(answers) < Len(pending)
  /\ ~Contains(answers, "refused")
  /\ LET d == pending[Len(answers) + 1]
     IN \/ d \in Refused /\ answers' = Append(answers, "refused") /\ UNCHANGED server
        \/ d \notin Refused /\ answers' = Append(answers, "ok") /\ server' = server \cup {d}
  /\ UNCHANGED <<worker, current, pending, cache, callbacks, listeners, main, counters>>

\* a slip: a refusal is not reported
NotifySuccess(d, result) ==
  IF d \in callbacks /\ result = "ok" THEN Completion(d, result) ELSE <<>>
\* The completion of a write, unless the app was restarted since it was made.
\* (Completions are kept per user: those of the account are found only while
\* it is current, and wait for it meanwhile.)
NotifyUser(d, result) == IF current /\ d \in callbacks THEN Completion(d, result) ELSE <<>>

HandleSuccessfulWrite ==
  /\ answers # <<>> /\ Head(answers) = "ok"
  /\ LET d == Head(pending)
     IN /\ cache' = cache \cup {d}
        /\ callbacks' = callbacks \ {d}
        /\ Emit(NotifyUser(d, "ok"), listening, View(current, Tail(pending), cache \cup {d}))
  /\ answers' = Tail(answers) /\ pending' = Tail(pending)
  /\ UNCHANGED <<worker, current, server, listening, lingering, counters>>

HandleRejectedWrite ==
  /\ answers # <<>> /\ Head(answers) = "refused"
  /\ LET d == Head(pending)
     IN /\ callbacks' = callbacks \ {d}
        /\ Emit(NotifyUser(d, "refused"), listening, View(current, Tail(pending), cache))
  /\ answers' = <<>> /\ pending' = Tail(pending)
  /\ UNCHANGED <<worker, current, server, cache, listening, lingering, counters>>

\* The stream breaks with a transient error: answers not yet received are
\* lost, and the whole queue is sent again.
WriteStreamBreaks ==
  /\ current /\ pending # <<>> /\ losses < MaxLosses
  /\ losses' = losses + 1
  /\ answers' = <<>>
  /\ UNCHANGED <<worker, current, pending, server, cache, callbacks, listeners, main,
                 foreign, restarts>>

(***************************************************************************)
(* The watch stream, other clients, and the app's process                  *)
(***************************************************************************)
ApplyRemoteEvent ==
  /\ listening \/ lingering
  /\ cache # server /\ cache' = server
  /\ Emit(<<>>, listening, View(current, pending, server))
  /\ UNCHANGED <<worker, current, pending, answers, server, callbacks, listening, lingering,
                 counters>>

\* The backend refuses the query, for instance to a user who is no longer
\* signed in: the listeners are told, which they print, and hear no more.
HandleRejectedListen ==
  /\ listening \/ lingering
  /\ listening' = FALSE /\ lingering' = FALSE
  /\ UNCHANGED <<worker, current, storeVars, snaps, main, counters>>

OtherClient ==
  /\ foreign < MaxForeign
  /\ \/ \E d \in Docs \ (Own \cup server) : server' = server \cup {d}
     \/ \E d \in Deletable \cap server : server' = server \ {d}
  /\ foreign' = foreign + 1
  /\ UNCHANGED <<worker, current, pending, answers, cache, callbacks, listeners, main,
                 losses, restarts>>

\* a slip: the write queue is not persisted
NothingKept == <<>>
PersistedQueue == pending

\* The process ends and starts again: the write queue and the cache are on
\* disk, tasks, callbacks, listeners and main queue are gone.  The client is
\* not used, and has no user, until somebody logs in.
Restart ==
  /\ restarts < MaxRestarts
  /\ restarts' = restarts + 1
  /\ worker' = <<>> /\ current' = FALSE /\ answers' = <<>> /\ callbacks' = {}
  /\ listening' = FALSE /\ lingering' = FALSE /\ snaps' = <<>> /\ main' = <<>>
  /\ pending' = PersistedQueue
  /\ UNCHANGED <<server, cache, foreign, losses>>

\* steps of the client's worker and of the network, which no one waits for
ClientStep ==
  \/ WriteMutations \/ Listen \/ HandleCredentialChange
  \/ BackendTakesWrite \/ HandleSuccessfulWrite \/ HandleRejectedWrite
  \/ WriteStreamBreaks \/ ApplyRemoteEvent \/ HandleRejectedListen \/ OtherClient
=============================================================================
