------------------------------ MODULE MCOrders ------------------------------
(***************************************************************************)
(* Small instances of Orders.  1 and 3 are orders of this app; 2 and 4 are *)
(* documents of other clients, before and after them in the list.          *)
(***************************************************************************)
EXTENDS Orders

MCDocs == 1..4
MCOwn == {1, 3}
MCRefused == {3}
MCDeletable == {2}
MCMalformed == {4}
=============================================================================
