------------------------------- MODULE TwoChains -------------------------------
(***************************************************************************)
(* The bridge's two contracts and the relayers that carry transfers between*)
(* them.  The relayers are outside the repository: an honest relayer signs *)
(* what it saw deposited on one chain, for the other, and what it saw on   *)
(* chains and contracts it also serves; a faulty one signs anything.       *)
(* Anyone may submit a transfer that was signed, at any time, in any order *)
(* and again.                                                              *)
(***************************************************************************)
EXTENDS CreditBridge, BridgeERC20

CONSTANTS
  Faulty,   \* relayers whose keys sign anything
  Foreign,  \* transfers honest relayers sign for other contracts
  Forged    \* transfers only faulty relayers sign

\* The token's admin names no other bridge, whose burns would count as bridged.
\* The 32 bytes of a recipient of a valid type are an address, if not zero.
ASSUME ChainsAssumption ==
  /\ Bridges \subseteq {BridgeAddress}
  /\ EvmToken = EvmContract
  /\ EvmRecipients \subseteq EvmAddress
  /\ \A t \in StellarTargets : t.type \in {0, 1} => t.recipient \in Address \cup {NoTarget}
  /\ \A r \in RelayerLists \cup {FirstRelayers} :
       ValidRelayers(r) => Cardinality(Range(r.list) \cap Faulty) < r.threshold
  /\ Cardinality(EvmRelayers \cap Faulty) < EvmThreshold
  /\ \A m \in Foreign : m.token # EvmToken

chainsVars == <<vars, bridgeVars, evmVars>>

\* The transfer relayers make of a deposit event of either chain.
ToEvm(d) == [ destination |-> Evm, token |-> EvmContract, sender |-> d.from,
              recipient |-> d.recipient, amount |-> d.amount, nonce |-> d.nonce ]
ToStellar(d) == [ destination |-> Stellar, token |-> EvmToken, sender |-> d.sender,
                  recipient |-> d.recipient, amount |-> d.amount, nonce |-> d.nonce ]

Outbound == {ToEvm(d) : d \in Range(bridgeDeposits)}
Inbound == {ToStellar(d) : d \in Range(evmDeposits)}

Attested(signers) ==
  Outbound \cup Inbound \cup Foreign \cup (IF signers \subseteq Faulty THEN Forged ELSE {})

Transfers == Outbound \cup Inbound \cup Foreign \cup Forged

\* The bridge contract calls the token in deposits and withdrawals only.
TokenCalls ==
  \/ \E caller \in Address \ {BridgeAddress} :
       Administer(caller) \/ Issue(caller) \/ Destroy(caller) \/ Move(caller)
  \/ CloseLedger

ChainsInit == BridgeInit /\ EvmInit

ChainsNext ==
  \/ TokenCalls /\ UNCHANGED <<bridgeVars, evmVars>>
  \/ \E caller \in {BridgeAdmin, BridgeGovernance} :
       BridgeAdministration(caller) /\ UNCHANGED evmVars
  \/ \E from \in Address \ {BridgeAddress}, n \in Amounts, to \in EvmRecipients :
       Deposit(from, n, to) /\ UNCHANGED evmVars
  \/ \E t \in Transfers, signers \in SUBSET Range(relayers.list) :
       Withdraw(t, signers, Attested(signers)) /\ UNCHANGED evmVars
  \/ \E sender \in EvmAddress \ {ZeroAddress} :
       EvmCalls(sender) /\ UNCHANGED <<vars, bridgeVars>>
  \/ \E t \in Transfers, signers \in SUBSET EvmRelayers :
       EvmWithdraw(t, signers, Attested(signers)) /\ UNCHANGED <<vars, bridgeVars>>

ChainsSpec == ChainsInit /\ [][ChainsNext]_chainsVars

\* The relayers deliver what they may deliver again and again, and whoever may
\* unpause the EVM contract does so in the end.
Deliver(i) ==
  /\ i \in DOMAIN bridgeDeposits
  /\ EvmWithdraw(ToEvm(bridgeDeposits[i]), EvmRelayers, Attested(EvmRelayers))
  /\ UNCHANGED <<vars, bridgeVars>>
EvmUnpause == SetEvmPaused(EvmAdmin, FALSE) /\ UNCHANGED <<vars, bridgeVars>>

ChainsFairness ==
  /\ \A i \in 1 .. MaxDeposits : SF_chainsVars(Deliver(i))
  /\ WF_chainsVars(evmPaused /\ EvmUnpause)

FairChainsSpec == ChainsSpec /\ ChainsFairness

--------------------------------------------------------------------------------
Arrived == {i \in DOMAIN bridgeDeposits : ToEvm(bridgeDeposits[i]) \in evmProcessed}
Returned == {i \in DOMAIN evmDeposits : ToStellar(evmDeposits[i]) \in processed}

UnderWay(deposits, delivered) ==
  Total([i \in DOMAIN deposits \ delivered |-> deposits[i].amount])

\* The credits the token counts as bridged are those held on the EVM chain and
\* those under way in either direction: no order of deposits, deliveries,
\* repeated deliveries and relayer changes creates a credit or loses one.
BridgedCreditsAreSomewhere ==
  /\ bridgedToEvm = Total(evmBalance) + UnderWay(bridgeDeposits, Arrived)
                                      + UnderWay(evmDeposits, Returned)
  /\ evmSupply = Total(evmBalance)

\* A transfer arrives at most once, on the chain it was sent to, in full and
\* only if it was sent: whatever faulty relayers below the threshold sign and
\* whatever transfers of other contracts are submitted.
Bridged == INSTANCE CreditsAcross
  WITH home <- totalSupply, away <- evmSupply,
       out <- [i \in DOMAIN bridgeDeposits |-> bridgeDeposits[i].amount], arrived <- Arrived,
       back <- [i \in DOMAIN evmDeposits |-> evmDeposits[i].amount], returned <- Returned
ImplementsCreditsAcross == Bridged!Across

\* What is sent to an address the EVM contract accepts arrives, if relayers keep
\* trying: no pause, no order of deliveries and no earlier transfer blocks it
\* for good.  (What is sent to address(0) never does.)
SentCreditsArrive ==
  \A i \in 1 .. MaxDeposits :
    (i \in DOMAIN bridgeDeposits /\ bridgeDeposits[i].recipient # ZeroAddress)
      ~> (i \in Arrived)
================================================================================
