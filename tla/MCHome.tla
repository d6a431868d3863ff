------------------------------- MODULE MCHome -------------------------------
(***************************************************************************)
(* Small instances of Home.  Category 10 is the one listed first; 11 is    *)
(* the only one with restaurants of its own, 1 and 3.  4 does not parse.   *)
(***************************************************************************)
EXTENDS Home

MCRestaurants == 1..4
MCParsable == 1..3
MCCategories == {10, 11}
MCCategory == [d \in MCRestaurants |-> IF d \in {1, 3} THEN 11 ELSE 12]
AllBundled == MCRestaurants
SomeBundled == {1, 2, 4}
=============================================================================
