------------------------------- MODULE MCCart -------------------------------
(***************************************************************************)
(* Small instances of Cart.  The prices keep the tax off a half cent,      *)
(* where the binary rounding of Float would decide.                        *)
(***************************************************************************)
EXTENDS Cart

MCPrices == {500, 1240}
\* two words of a served value with a blank at its end
MCCodes == {"SAVE", "EAT", ""}
MCTexts == {"", "SAVE", "FREE"}
=============================================================================
