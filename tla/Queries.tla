------------------------------ MODULE Queries ------------------------------
(***************************************************************************)
(* A Firestore query without an order of its own lists its documents by    *)
(* their ids.                                                              *)
(***************************************************************************)
EXTENDS Integers, FiniteSets

\* The one sequence that lists the documents D in that order (as a set)
InIdOrder(D) ==
  {q \in [1..Cardinality(D) -> D] : \A i, j \in DOMAIN q : i < j => q[i] < q[j]}
=============================================================================
