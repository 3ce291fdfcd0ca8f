-------------------------- MODULE MCCreditMarketplace --------------------------
(***************************************************************************)
(* An instance of CreditMarketplace for TLC.                               *)
(***************************************************************************)
EXTENDS CreditMarketplace

CONSTANTS a, b, cr, pay   \* traders and tokens
================================================================================
