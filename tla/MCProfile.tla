------------------------------ MODULE MCProfile -----------------------------
(***************************************************************************)
(* Small instances of Profile: one account that exists, one that does not. *)
(***************************************************************************)
EXTENDS Profile

MCAccounts == {"ann", "bob"}
MCRegistered == {"ann"}
MCContacts == {"", "new"}
=============================================================================
