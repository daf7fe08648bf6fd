--------------------------- MODULE MCBrowserBridge ---------------------------
(***************************************************************************)
(* Model values for BrowserBridge.                                         *)
(***************************************************************************)
EXTENDS BrowserBridge, TLC

CONSTANTS k1, k2, c1, c2

TwoLinks == {k1, k2}
TwoCalls == {c1, c2}
=============================================================================
