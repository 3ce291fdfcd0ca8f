------------------------------ MODULE CreditBridge ------------------------------
(***************************************************************************)
(* contracts/credit_bridge: the Stellar side of the bridge, beside the     *)
(* token it burns and mints on.  deposit makes two calls to the token and  *)
(* withdraw one, each in the bridge's own transaction.                     *)
(*                                                                         *)
(* Mapping between addresses and bytes is one to one and left out.  A list *)
(* of signers that is strictly sorted is the set of its members; whose     *)
(* signatures verify is up to the relayers, who are outside the contract.  *)
(***************************************************************************)
EXTENDS CreditToken

CONSTANTS
  Token,             \* the modelled token's address
  BridgeAddress,     \* the bridge contract's address
  BridgeAdmin,       \* the admin named to initialize
  BridgeGovernance,  \* the governance address named to initialize
  BridgeTokens,      \* addresses passed to set_token
  EvmToken,          \* the EVM contract named to initialize
  EvmRecipients,     \* addresses named to deposit as evm_recipient
  FirstRelayers,     \* the list and threshold named to initialize
  RelayerLists,      \* lists and thresholds passed to update_relayers
  MaxDeposits        \* most deposits on either chain (a bound of the model)

\* The id of the chain the bridge runs on.
Stellar == 1

ValidRelayers(r) == 0 < r.threshold /\ r.threshold <= Len(r.list)

ASSUME BridgeAssumption ==
  /\ BridgeAddress \in Address \ (Admins \cup {Deployer})
  /\ ValidRelayers(FirstRelayers)
  /\ \A r \in RelayerLists \cup {FirstRelayers} :
       r.threshold \in Nat /\ IsFiniteSet(Range(r.list))
  /\ MaxDeposits \in Nat

VARIABLES
  bridgeToken,     \* DataKey::Token
  bridgePaused,    \* DataKey::Paused
  relayers,        \* DataKey::Relayers and Threshold
  processed,       \* the transfers whose DataKey::ProcessedMessages is set
  bridgeDeposits   \* the deposit events; DataKey::Nonce is their number

bridgeVars == <<bridgeToken, bridgePaused, relayers, processed, bridgeDeposits>>

\* A relayer may be listed twice, which counts for the threshold's bound.
UpdateRelayers(caller, new) ==
  /\ caller = BridgeAdmin
  /\ ValidRelayers(new)
  /\ relayers' = new
  /\ UNCHANGED <<vars, bridgeToken, bridgePaused, processed, bridgeDeposits>>

SetToken(caller, token) ==
  /\ caller = BridgeAdmin
  /\ bridgeToken' = token
  /\ UNCHANGED <<vars, bridgePaused, relayers, processed, bridgeDeposits>>

SetBridgePaused(caller, value) ==
  /\ caller \in {BridgeAdmin, BridgeGovernance}
  /\ bridgePaused' = value
  /\ UNCHANGED <<vars, bridgeToken, relayers, processed, bridgeDeposits>>

\* The token's transfer to the bridge and burn by the bridge, in one.
TransferAndBurn(from, amount) ==
  LET moved == Moved(balance, from, BridgeAddress, amount)
  IN  /\ amount > 0
      /\ ~paused
      /\ balance[from] >= amount
      /\ balance[BridgeAddress] + amount <= MaxAmount
      /\ bridge = BridgeAddress
      /\ bridgedToEvm + amount <= MaxAmount
      /\ totalBurned + amount <= MaxAmount
      /\ balance' = [moved EXCEPT ![BridgeAddress] = @ - amount]
      /\ totalSupply' = totalSupply - amount
      /\ totalBurned' = totalBurned + amount
      /\ bridgedToEvm' = bridgedToEvm + amount
      /\ UNCHANGED <<roles, maxSupply, paused, allowance, expiration,
                     totalRetired, everMinted, certs, ledger>>

\* Any evm_recipient is accepted, one the EVM contract refuses too.
Deposit(from, amount, evmRecipient) ==
  /\ Len(bridgeDeposits) < MaxDeposits
  /\ ~bridgePaused
  /\ bridgeToken = Token
  /\ TransferAndBurn(from, amount)
  /\ bridgeDeposits' = Append(bridgeDeposits,
       [from |-> from, recipient |-> evmRecipient, amount |-> amount,
        nonce |-> Len(bridgeDeposits)])
  /\ UNCHANGED <<bridgeToken, bridgePaused, relayers, processed>>

\* `attested' holds the transfers whose signatures by all of `signers' verify.
Authorized(transfer, signers, attested) ==
  /\ Cardinality(signers) >= relayers.threshold
  /\ signers \subseteq Range(relayers.list)
  /\ transfer \in attested

\* Mutant: a transfer is not remembered as processed.
WithdrawAgain(transfer, signers, attested) ==
  /\ ~bridgePaused
  /\ bridgeToken = Token
  /\ transfer.destination = Stellar
  /\ transfer.token = EvmToken
  /\ transfer \notin processed
  /\ Authorized(transfer, signers, attested)
  /\ MintTo(BridgeAddress, transfer.recipient, transfer.amount)
  /\ UNCHANGED bridgeVars

Withdraw(transfer, signers, attested) ==
  /\ ~bridgePaused
  /\ bridgeToken = Token
  /\ transfer.destination = Stellar
  /\ transfer.token = EvmToken
  /\ transfer \notin processed
  /\ Authorized(transfer, signers, attested)
  /\ MintTo(BridgeAddress, transfer.recipient, transfer.amount)
  /\ processed' = processed \cup {transfer}
  /\ UNCHANGED <<bridgeToken, bridgePaused, relayers, bridgeDeposits>>

BridgeInit ==
  /\ Init
  /\ bridgeToken = Token
  /\ bridgePaused = FALSE
  /\ relayers = FirstRelayers
  /\ processed = {}
  /\ bridgeDeposits = <<>>

BridgeAdministration(caller) ==
  \/ \E r \in RelayerLists : UpdateRelayers(caller, r)
  \/ \E t \in BridgeTokens : SetToken(caller, t)
  \/ \E value \in BOOLEAN : SetBridgePaused(caller, value)
================================================================================
