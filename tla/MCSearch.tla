------------------------------ MODULE MCSearch ------------------------------
(***************************************************************************)
(* Small instances of Search.  The second text is a longer form of the     *)
(* first, and 3 does not parse.                                            *)
(***************************************************************************)
EXTENDS Search

MCRestaurants == 1..3
MCParsable == {1, 2}
MCCategory == [d \in MCRestaurants |-> "any"]
MCTexts == {"p", "pizza", "soup"}
MCFound == [t \in MCTexts |-> IF t = "soup" THEN {2} ELSE IF t = "p" THEN {1, 2} ELSE {1}]
=============================================================================
