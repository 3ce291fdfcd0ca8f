------------------------------ MODULE BridgeERC20 ------------------------------
(***************************************************************************)
(* contracts/evm/contracts/BridgeERC20.sol: the token on the EVM chain,    *)
(* which mints what relayers bring and burns what is sent back.  Its admin,*)
(* governance, relayers and threshold are set by the constructor and never *)
(* change.  A call reverts as a whole.                                     *)
(***************************************************************************)
EXTENDS Integers, Sequences, FiniteSets, Functions

CONSTANTS
  EvmAddress,     \* addresses of the EVM chain
  ZeroAddress,    \* address(0)
  EvmContract,    \* address(this)
  EvmAdmin,       \* admin
  EvmGovernance,  \* governance
  EvmRelayers,    \* the addresses isRelayer is true of
  EvmThreshold,   \* threshold
  EvmAmounts,     \* amounts callers pass
  EvmGrants,      \* the pairs [holder, spender] that approve is called for
  StellarTargets, \* the pairs of recipient type and recipient named to deposit
  NoTarget,       \* bytes32(0)
  MaxEvmDeposits  \* most deposits (a bound of the model)

\* The id of the EVM chain.
Evm == 2

ASSUME EvmAssumption ==
  /\ IsFiniteSet(EvmAddress)
  /\ ZeroAddress \in EvmAddress
  /\ IsFiniteSet(EvmRelayers)
  /\ EvmThreshold \in Nat \ {0} /\ EvmThreshold <= Cardinality(EvmRelayers)
  /\ EvmAmounts \subseteq Nat
  /\ EvmGrants \subseteq [holder : EvmAddress, spender : EvmAddress]
  /\ MaxEvmDeposits \in Nat

VARIABLES
  evmPaused,     \* paused
  evmBalance,    \* balanceOf
  evmAllowance,  \* allowance
  evmSupply,     \* totalSupply
  evmProcessed,  \* the messages processedMessages is set for
  evmDeposits    \* the Deposit events; depositNonce is their number

evmVars == <<evmPaused, evmBalance, evmAllowance, evmSupply, evmProcessed, evmDeposits>>

\* Solidity reads each balance again: a transfer to oneself changes nothing.
EvmMoved(from, to, amount) ==
  [[evmBalance EXCEPT ![from] = @ - amount] EXCEPT ![to] = @ + amount]

EvmTransfer(sender, to, amount) ==
  /\ ~evmPaused
  /\ to # ZeroAddress
  /\ evmBalance[sender] >= amount
  /\ evmBalance' = EvmMoved(sender, to, amount)
  /\ UNCHANGED <<evmPaused, evmAllowance, evmSupply, evmProcessed, evmDeposits>>

EvmApprove(sender, spender, amount) ==
  /\ ~evmPaused
  /\ evmAllowance' = [evmAllowance EXCEPT ![sender][spender] = amount]
  /\ UNCHANGED <<evmPaused, evmBalance, evmSupply, evmProcessed, evmDeposits>>

EvmTransferFrom(sender, from, to, amount) ==
  /\ ~evmPaused
  /\ to # ZeroAddress
  /\ evmBalance[from] >= amount
  /\ evmAllowance[from][sender] >= amount
  /\ evmAllowance' = [evmAllowance EXCEPT ![from][sender] = @ - amount]
  /\ evmBalance' = EvmMoved(from, to, amount)
  /\ UNCHANGED <<evmPaused, evmSupply, evmProcessed, evmDeposits>>

SetEvmPaused(sender, value) ==
  /\ sender \in {EvmAdmin, EvmGovernance}
  /\ evmPaused' = value
  /\ UNCHANGED <<evmBalance, evmAllowance, evmSupply, evmProcessed, evmDeposits>>

EvmDeposit(sender, amount, target) ==
  /\ Len(evmDeposits) < MaxEvmDeposits
  /\ ~evmPaused
  /\ amount > 0
  /\ evmBalance[sender] >= amount
  /\ target.type \in {0, 1}
  /\ target.recipient # NoTarget
  /\ evmBalance' = [evmBalance EXCEPT ![sender] = @ - amount]
  /\ evmSupply' = evmSupply - amount
  /\ evmDeposits' = Append(evmDeposits,
       [sender |-> sender, type |-> target.type, recipient |-> target.recipient,
        amount |-> amount, nonce |-> Len(evmDeposits)])
  /\ UNCHANGED <<evmPaused, evmAllowance, evmProcessed>>

\* Mutant: signatures are counted and not signers, so that one may sign twice.
EvmAuthorizedByAny(message, signers, attested) ==
  /\ signers # {}
  /\ signers \subseteq EvmRelayers
  /\ message \in attested

\* `attested' holds the messages whose signatures by all of `signers' recover
\* to them; signers have to be sorted, and so are distinct.
EvmAuthorized(message, signers, attested) ==
  /\ Cardinality(signers) >= EvmThreshold
  /\ signers \subseteq EvmRelayers
  /\ message \in attested

\* Mutant: messages are processed in the order of their nonces only.
EvmWithdrawInOrder(message, signers, attested) ==
  /\ ~evmPaused
  /\ message.destination = Evm
  /\ message.amount > 0
  /\ message.recipient # ZeroAddress
  /\ message.token = EvmContract
  /\ message.nonce = Cardinality(evmProcessed)
  /\ EvmAuthorized(message, signers, attested)
  /\ evmProcessed' = evmProcessed \cup {message}
  /\ evmBalance' = [evmBalance EXCEPT ![message.recipient] = @ + message.amount]
  /\ evmSupply' = evmSupply + message.amount
  /\ UNCHANGED <<evmPaused, evmAllowance, evmDeposits>>

EvmWithdraw(message, signers, attested) ==
  /\ ~evmPaused
  /\ message.destination = Evm
  /\ message.amount > 0
  /\ message.recipient # ZeroAddress
  /\ message.token = EvmContract
  /\ message \notin evmProcessed
  /\ EvmAuthorized(message, signers, attested)
  /\ evmProcessed' = evmProcessed \cup {message}
  /\ evmBalance' = [evmBalance EXCEPT ![message.recipient] = @ + message.amount]
  /\ evmSupply' = evmSupply + message.amount
  /\ UNCHANGED <<evmPaused, evmAllowance, evmDeposits>>

EvmInit ==
  /\ evmPaused = FALSE
  /\ evmBalance = [x \in EvmAddress |-> 0]
  /\ evmAllowance = [x \in EvmAddress |-> [y \in EvmAddress |-> 0]]
  /\ evmSupply = 0
  /\ evmProcessed = {}
  /\ evmDeposits = <<>>

EvmCalls(sender) ==
  \/ \E to \in EvmAddress, n \in EvmAmounts : EvmTransfer(sender, to, n)
  \/ \E g \in EvmGrants, n \in EvmAmounts : sender = g.holder /\ EvmApprove(sender, g.spender, n)
  \/ \E from, to \in EvmAddress, n \in EvmAmounts : EvmTransferFrom(sender, from, to, n)
  \/ \E value \in BOOLEAN : SetEvmPaused(sender, value)
  \/ \E n \in EvmAmounts, t \in StellarTargets : EvmDeposit(sender, n, t)
================================================================================
