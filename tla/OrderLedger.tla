----------------------------- MODULE OrderLedger -----------------------------
(***************************************************************************)
(* What becomes of an order once the client has written it: it is accepted *)
(* or, if the backend's rules say so, refused; one of the two, once, only  *)
(* while its account is signed in, and in the end always if it stays so.   *)
(***************************************************************************)
CONSTANTS Own, Refused

VARIABLES status, active

vars == <<status, active>>

Init == status = [d \in Own |-> "none"] /\ active = FALSE

Write(d) ==
  /\ status[d] = "none" /\ status' = [status EXCEPT ![d] = "written"]
  /\ UNCHANGED active
Decide(d) ==
  /\ active /\ status[d] = "written"
  /\ status' = [status EXCEPT ![d] = IF d \in Refused THEN "refused" ELSE "accepted"]
  /\ UNCHANGED active
\* the account becomes, or ceases to be, the one that is signed in
Switch == active' = ~active /\ UNCHANGED status

Next == Switch \/ \E d \in Own : Write(d) \/ Decide(d)

Spec == Init /\ [][Next]_vars /\ \A d \in Own : WF_vars(Decide(d))
=============================================================================
