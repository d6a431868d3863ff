------------------------------- MODULE Basket -------------------------------
(***************************************************************************)
(* What the Cart promises about its lines: each step changes the quantity  *)
(* of one line by one, a line leaves exactly when its quantity would reach *)
(* zero, and no line ever changes its title or price or its place among    *)
(* the others.                                                             *)
(***************************************************************************)
EXTENDS Integers, SequencesExt

CONSTANTS
  Titles,    \* titles of the lines
  Prices     \* their unit prices, in cents

VARIABLE lines

Line == [title : Titles, price : Prices, number : Nat \ {0}]

Init == lines \in Seq(Line) /\ \A i \in DOMAIN lines : lines[i].number = 1

More(i) == lines' = [lines EXCEPT ![i].number = @ + 1]

Less(i) ==
  IF lines[i].number = 1 THEN lines' = RemoveAt(lines, i)
  ELSE lines' = [lines EXCEPT ![i].number = @ - 1]

Next == \E i \in 1..Len(lines) : More(i) \/ Less(i)

Spec == Init /\ [][Next]_lines
=============================================================================
