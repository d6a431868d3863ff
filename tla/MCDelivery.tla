----------------------------- MODULE MCDelivery -----------------------------
(***************************************************************************)
(* Small instances of Delivery.  Document 3 has a number for its phone, 2  *)
(* lacks a field.                                                          *)
(***************************************************************************)
EXTENDS Delivery

MCComplete == {1, 3, 4}
MCTextual == [d \in Persons |-> IF d = 3 THEN Labels ELSE Fields]
=============================================================================
