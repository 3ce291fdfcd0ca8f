------------------------------ MODULE MCCreditToken ------------------------------
(***************************************************************************)
(* Instances of CreditToken for TLC.                                       *)
(***************************************************************************)
EXTENDS CreditToken

CONSTANTS a, b   \* the admin, and a contract with the other roles

AdminApprovesOther == {[holder |-> a, spender |-> b]}
================================================================================
