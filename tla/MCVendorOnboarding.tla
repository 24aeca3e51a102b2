------------------------- MODULE MCVendorOnboarding -------------------------
(***************************************************************************)
(* A generic, a contentless and a telling statement; one broken turn.      *)
(***************************************************************************)
EXTENDS VendorOnboarding

MCStatement == {"sell", "things", "cement"}
=============================================================================
