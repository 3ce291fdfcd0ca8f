----------------------------- MODULE MCBridgeHistory -----------------------------
(***************************************************************************)
(* An instance of BridgeHistory for TLC.                                   *)
(***************************************************************************)
EXTENDS BridgeHistory

CONSTANTS a, b   \* the admin, and the minter; either may be the bridge

\* Amounts with the edges the checks of the code turn on.
EdgeAmounts == -1 .. 2
================================================================================
