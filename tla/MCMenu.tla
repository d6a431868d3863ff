------------------------------- MODULE MCMenu -------------------------------
(***************************************************************************)
(* Small instances of Menu.  Two meals share price and image, as those of  *)
(* the app's sample data do.  The image of document 3 is not an asset of   *)
(* the app, unless the cfg says so; document 4 does not parse (a field is  *)
(* missing or its price is not a number).                                  *)
(***************************************************************************)
EXTENDS Menu

MCDocs == 1..4
MCParsable == 1..3
MCBundled == {1, 2, 4}
MCRecipe == <<"spicy", "mild", "sweet", "sweet">>
MCPrice == <<850, 850, 400, 400>>
MCImage == <<"pizza", "pizza", "cake", "cake">>

CellSymmetry == Permutations(Cells)
=============================================================================
