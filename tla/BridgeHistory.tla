------------------------------ MODULE BridgeHistory ------------------------------
(***************************************************************************)
(* CreditToken with a memory of what its bridges did: how many credits they*)
(* burned to send them away and how many their mints brought home, whatever*)
(* address was the bridge at the time.  The contract keeps the difference  *)
(* alone, in BridgedToEvm.                                                 *)
(***************************************************************************)
EXTENDS CreditToken

VARIABLES
  sent,     \* credits burned by the bridge of the time
  brought   \* credits minted by the bridge of the time with mint_to

historyVars == <<vars, sent, brought>>

HistoryInit ==
  /\ Init
  /\ sent = 0
  /\ brought = 0

BurnRemembered(caller, from, amount) ==
  /\ Burn(caller, from, amount)
  /\ sent' = IF caller = bridge THEN sent + amount ELSE sent
  /\ UNCHANGED brought

MintRemembered(caller, to, amount) ==
  /\ MintTo(caller, to, amount)
  /\ brought' = IF caller = bridge THEN brought + amount ELSE brought
  /\ UNCHANGED sent

\* The steps BridgedToEvm has no part in, among them batch_mint_to, which brings
\* nothing home whoever calls it.
Unremembered ==
  /\ UNCHANGED <<sent, brought>>
  /\ \/ \E caller \in Address :
          \/ Administer(caller)
          \/ Move(caller)
          \/ \E batch \in Batches : BatchMintTo(caller, batch)
          \/ \E from \in Address, n \in Amounts : BurnWithReason(caller, from, n)
          \/ \E n \in Amounts, r \in RecordIds \cup {NoRecord} : Retire(caller, n, r)
     \/ CloseLedger

HistoryNext ==
  \/ \E caller, from \in Address, n \in Amounts : BurnRemembered(caller, from, n)
  \/ \E caller, to \in Address, n \in Amounts : MintRemembered(caller, to, n)
  \/ Unremembered

HistorySpec == HistoryInit /\ [][HistoryNext]_historyVars

--------------------------------------------------------------------------------
\* What bridges send comes home at most once, even if the bridge is replaced while
\* credits are away: all bridges the token ever had together mint no more with
\* mint_to than they burned before, and BridgedToEvm is what has not come home.
\* One of them alone may mint more than it burned, out of what another sent.
BridgesBringBackWhatTheySent ==
  /\ brought <= sent
  /\ bridgedToEvm = sent - brought
================================================================================
