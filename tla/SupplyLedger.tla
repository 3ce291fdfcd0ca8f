------------------------------ MODULE SupplyLedger ------------------------------
(***************************************************************************)
(* What a credit token promises about its supply, whatever happens to      *)
(* individual balances: credits are issued, and leave circulation for good *)
(* when they are retired, which leaves one claim that is never altered, or *)
(* burned, which leaves none.                                              *)
(***************************************************************************)
EXTENDS Integers, Sequences

VARIABLES live, retired, burned, issued, claims

supply == <<live, retired, burned, issued, claims>>

Init ==
  /\ live = 0
  /\ retired = 0
  /\ burned = 0
  /\ issued = 0
  /\ claims = <<>>

Issue ==
  /\ issued' > issued
  /\ live' = live + (issued' - issued)
  /\ UNCHANGED <<retired, burned, claims>>

Retire ==
  /\ retired' > retired
  /\ live' = live - (retired' - retired)
  /\ claims' = Append(claims, retired' - retired)
  /\ UNCHANGED <<burned, issued>>

Burn ==
  /\ burned' > burned
  /\ live' = live - (burned' - burned)
  /\ UNCHANGED <<retired, issued, claims>>

Next == Issue \/ Retire \/ Burn

Spec == Init /\ [][Next]_supply
================================================================================
