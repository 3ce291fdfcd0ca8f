------------------------------ MODULE CreditToken ------------------------------
(***************************************************************************)
(* contracts/credit_token: one fungible ledger per water project.          *)
(*                                                                         *)
(* A contract call is atomic: it either commits all of its writes or       *)
(* panics and commits none, so every entry point is one action whose guard *)
(* is the conjunction of the checks the call survives.  The caller named   *)
(* in an action is the address whose require_auth() succeeds.              *)
(*                                                                         *)
(* The ledger sequence and the ledger timestamp advance together; one      *)
(* clock, `ledger', stands for both.                                       *)
(***************************************************************************)
EXTENDS Integers, Sequences, FiniteSets, Functions

CONSTANTS
  Address,      \* accounts and contracts
  NoAddress,    \* an Option<Address> that is None
  NoRecord,     \* a registry_record_id that is None
  MaxAmount,    \* i128::MAX, what checked_add can still represent
  Amounts,      \* amounts callers pass
  Caps,         \* values passed to set_max_supply
  Delays,       \* delays passed to propose_admin
  Expirations,  \* expiration ledgers passed to approve
  RecordIds,    \* ids a retirement registry may answer
  Deployer,     \* the admin named to initialize
  Admins,       \* addresses proposed as admin
  Minters,      \* addresses designated as minter
  Guardians,    \* addresses designated as pause guardian
  Bridges,      \* addresses designated as bridge
  Registries,   \* addresses linked as retirement registry
  Grants,       \* the pairs [holder, spender] that approve is called for
  MaxBatch,     \* longest batch
  MaxLedger     \* last ledger (a bound of the model)

ASSUME AddressAssumption ==
  /\ IsFiniteSet(Address)
  /\ NoAddress \notin Address
  /\ Deployer \in Address
  /\ Admins \subseteq Address
  /\ Minters \subseteq Address
  /\ Guardians \subseteq Address
  /\ Bridges \subseteq Address
  /\ Registries \subseteq Address
  /\ Grants \subseteq [holder : Address, spender : Address]

ASSUME NumberAssumption ==
  /\ MaxAmount \in Nat
  /\ Amounts \subseteq Int
  /\ Caps \subseteq Int
  /\ Delays \subseteq Nat
  /\ Expirations \subseteq Nat
  /\ RecordIds \subseteq Nat
  /\ NoRecord \notin Nat
  /\ MaxBatch \in Nat
  /\ MaxLedger \in Nat

VARIABLES
  admin,            \* DataKey::Admin
  pendingAdmin,     \* the pair PendingAdmin, PendingAdminActiveAfter
  minter,           \* DataKey::Minter
  guardian,         \* DataKey::PauseGuardian
  bridge,           \* DataKey::Bridge
  registry,         \* DataKey::RetirementRegistry
  requireRegistry,  \* DataKey::RequireRegistry
  maxSupply,        \* DataKey::MaxSupply, 0 when there is no cap
  paused,           \* DataKey::Paused
  balance,          \* DataKey::Balance
  allowance,        \* DataKey::Allowance, by holder and spender
  expiration,       \* DataKey::AllowanceExpiration
  totalSupply,      \* DataKey::TotalSupply
  totalRetired,     \* DataKey::TotalRetired
  totalBurned,      \* DataKey::TotalBurned
  everMinted,       \* DataKey::EverMinted
  bridgedToEvm,     \* DataKey::BridgedToEvm
  certs,            \* DataKey::Cert(0), Cert(1), ...
  ledger            \* the ledger the next call runs in

roles == <<admin, pendingAdmin, minter, guardian, bridge, registry, requireRegistry>>
holdings == <<balance, allowance, expiration>>
totals == <<totalSupply, totalRetired, totalBurned, everMinted, bridgedToEvm, certs>>
vars == <<roles, maxSupply, paused, holdings, totals, ledger>>

NoProposal == [to |-> NoAddress, activeAfter |-> 0]

Total(f) == SumFunction(f)

(***************************************************************************)
(* The admin's powers.                                                     *)
(***************************************************************************)
ProposeAdmin(caller, newAdmin, delay) ==
  /\ caller = admin
  /\ pendingAdmin' = [to |-> newAdmin, activeAfter |-> ledger + delay]
  /\ UNCHANGED <<admin, minter, guardian, bridge, registry, requireRegistry,
                 maxSupply, paused, holdings, totals, ledger>>

\* The legacy alias: a proposal with no delay.
SetAdmin(caller, newAdmin) == ProposeAdmin(caller, newAdmin, 0)

\* Mutant: the accepted proposal is kept.
AcceptAdminKeepingProposal(caller) ==
  /\ pendingAdmin # NoProposal
  /\ caller = pendingAdmin.to
  /\ ledger >= pendingAdmin.activeAfter
  /\ admin' = caller
  /\ UNCHANGED <<pendingAdmin, minter, guardian, bridge, registry, requireRegistry,
                 maxSupply, paused, holdings, totals, ledger>>

AcceptAdmin(caller) ==
  /\ pendingAdmin # NoProposal
  /\ caller = pendingAdmin.to
  /\ ledger >= pendingAdmin.activeAfter
  /\ admin' = caller
  /\ pendingAdmin' = NoProposal
  /\ UNCHANGED <<minter, guardian, bridge, registry, requireRegistry,
                 maxSupply, paused, holdings, totals, ledger>>

CancelAdminProposal(caller) ==
  /\ caller = admin
  /\ pendingAdmin' = NoProposal
  /\ UNCHANGED <<admin, minter, guardian, bridge, registry, requireRegistry,
                 maxSupply, paused, holdings, totals, ledger>>

SetMinter(caller, newMinter) ==
  /\ caller = admin
  /\ minter' = newMinter
  /\ UNCHANGED <<admin, pendingAdmin, guardian, bridge, registry, requireRegistry,
                 maxSupply, paused, holdings, totals, ledger>>

SetPauseGuardian(caller, newGuardian) ==
  /\ caller = admin
  /\ guardian' = newGuardian
  /\ UNCHANGED <<admin, pendingAdmin, minter, bridge, registry, requireRegistry,
                 maxSupply, paused, holdings, totals, ledger>>

SetBridge(caller, newBridge) ==
  /\ caller = admin
  /\ bridge' = newBridge
  /\ UNCHANGED <<admin, pendingAdmin, minter, guardian, registry, requireRegistry,
                 maxSupply, paused, holdings, totals, ledger>>

SetRetirementRegistry(caller, newRegistry) ==
  /\ caller = admin
  /\ registry' = newRegistry
  /\ UNCHANGED <<admin, pendingAdmin, minter, guardian, bridge, requireRegistry,
                 maxSupply, paused, holdings, totals, ledger>>

SetRequireRegistry(caller, require) ==
  /\ caller = admin
  /\ requireRegistry' = require
  /\ UNCHANGED <<admin, pendingAdmin, minter, guardian, bridge, registry,
                 maxSupply, paused, holdings, totals, ledger>>

\* The cap is not compared with the supply already in circulation.
SetMaxSupply(caller, max) ==
  /\ caller = admin
  /\ max >= 0
  /\ maxSupply' = max
  /\ UNCHANGED <<roles, paused, holdings, totals, ledger>>

SetPaused(caller, value) ==
  /\ caller \in {admin, guardian}
  /\ paused' = value
  /\ UNCHANGED <<roles, maxSupply, holdings, totals, ledger>>

Pause(caller) == SetPaused(caller, TRUE)
Unpause(caller) == SetPaused(caller, FALSE)

(***************************************************************************)
(* Minting.  A mint by the bridge brings credits back from the EVM chain.  *)
(***************************************************************************)
MayMint(caller) ==
  \/ caller = admin
  \/ caller = minter

UnderCap(supply) == maxSupply > 0 => supply <= maxSupply

\* Mutant: BridgedToEvm is checked but not lowered.
MintToKeepingBridged(caller, to, amount) ==
  /\ amount > 0
  /\ ~paused
  /\ MayMint(caller)
  /\ UnderCap(totalSupply + bridgedToEvm + amount)
  /\ caller = bridge => bridgedToEvm >= amount
  /\ balance[to] + amount <= MaxAmount
  /\ totalSupply + amount <= MaxAmount
  /\ everMinted + amount <= MaxAmount
  /\ balance' = [balance EXCEPT ![to] = @ + amount]
  /\ totalSupply' = totalSupply + amount
  /\ everMinted' = everMinted + amount
  /\ UNCHANGED <<roles, maxSupply, paused, allowance, expiration,
                 totalRetired, totalBurned, bridgedToEvm, certs, ledger>>

\* mint_to weighs the cap with the bridged credits still counted, even when
\* this very call brings them back.
MintTo(caller, to, amount) ==
  /\ amount > 0
  /\ ~paused
  /\ MayMint(caller)
  /\ UnderCap(totalSupply + bridgedToEvm + amount)
  /\ caller = bridge => bridgedToEvm >= amount
  /\ balance[to] + amount <= MaxAmount
  /\ totalSupply + amount <= MaxAmount
  /\ everMinted + amount <= MaxAmount
  /\ bridgedToEvm' = IF caller = bridge THEN bridgedToEvm - amount ELSE bridgedToEvm
  /\ balance' = [balance EXCEPT ![to] = @ + amount]
  /\ totalSupply' = totalSupply + amount
  /\ everMinted' = everMinted + amount
  /\ UNCHANGED <<roles, maxSupply, paused, allowance, expiration,
                 totalRetired, totalBurned, certs, ledger>>

\* A batch is a sequence of payments [to, amount].
Payments == [to : Address, amount : Amounts]
Batches == UNION {[1 .. n -> Payments] : n \in 1 .. MaxBatch}

BatchTotal(batch) == Total([i \in DOMAIN batch |-> batch[i].amount])
PaidTo(batch, a) ==
  Total([i \in DOMAIN batch |-> IF batch[i].to = a THEN batch[i].amount ELSE 0])
Credited(b, batch) == [a \in Address |-> b[a] + PaidTo(batch, a)]

\* Mutant: the last payment alone is added to EverMinted.
BatchMintToCountingLast(caller, batch) ==
  /\ \A i \in DOMAIN batch : batch[i].amount > 0
  /\ ~paused
  /\ MayMint(caller)
  /\ UnderCap(totalSupply + BatchTotal(batch))
  /\ \A a \in Address : Credited(balance, batch)[a] <= MaxAmount
  /\ totalSupply + BatchTotal(batch) <= MaxAmount
  /\ balance' = Credited(balance, batch)
  /\ totalSupply' = totalSupply + BatchTotal(batch)
  /\ everMinted' = everMinted + batch[Len(batch)].amount
  /\ UNCHANGED <<roles, maxSupply, paused, allowance, expiration,
                 totalRetired, totalBurned, bridgedToEvm, certs, ledger>>

\* Mutant: the cap is compared with the batch and not with the running total.
BatchMintToIgnoringSupply(caller, batch) ==
  /\ \A i \in DOMAIN batch : batch[i].amount > 0
  /\ ~paused
  /\ MayMint(caller)
  /\ UnderCap(BatchTotal(batch))
  /\ \A a \in Address : Credited(balance, batch)[a] <= MaxAmount
  /\ totalSupply + BatchTotal(batch) <= MaxAmount
  /\ everMinted + BatchTotal(batch) <= MaxAmount
  /\ balance' = Credited(balance, batch)
  /\ totalSupply' = totalSupply + BatchTotal(batch)
  /\ everMinted' = everMinted + BatchTotal(batch)
  /\ UNCHANGED <<roles, maxSupply, paused, allowance, expiration,
                 totalRetired, totalBurned, bridgedToEvm, certs, ledger>>

\* batch_mint_to leaves the bridged credits out of the cap and never takes
\* them back, whoever calls it.
BatchMintTo(caller, batch) ==
  /\ \A i \in DOMAIN batch : batch[i].amount > 0
  /\ ~paused
  /\ MayMint(caller)
  /\ UnderCap(totalSupply + BatchTotal(batch))
  /\ \A a \in Address : Credited(balance, batch)[a] <= MaxAmount
  /\ totalSupply + BatchTotal(batch) <= MaxAmount
  /\ everMinted + BatchTotal(batch) <= MaxAmount
  /\ balance' = Credited(balance, batch)
  /\ totalSupply' = totalSupply + BatchTotal(batch)
  /\ everMinted' = everMinted + BatchTotal(batch)
  /\ UNCHANGED <<roles, maxSupply, paused, allowance, expiration,
                 totalRetired, totalBurned, bridgedToEvm, certs, ledger>>

(***************************************************************************)
(* Destroying credits.  Burning stays possible while the token is paused.  *)
(***************************************************************************)
\* Mutant: the holder's balance is not checked.
DestroyUnchecked(from, amount) ==
  /\ amount > 0
  /\ totalBurned + amount <= MaxAmount
  /\ balance' = [balance EXCEPT ![from] = @ - amount]
  /\ totalSupply' = totalSupply - amount
  /\ totalBurned' = totalBurned + amount
  /\ UNCHANGED <<roles, maxSupply, paused, allowance, expiration,
                 totalRetired, everMinted, certs, ledger>>

DestroyBurned(from, amount) ==
  /\ amount > 0
  /\ balance[from] >= amount
  /\ totalBurned + amount <= MaxAmount
  /\ balance' = [balance EXCEPT ![from] = @ - amount]
  /\ totalSupply' = totalSupply - amount
  /\ totalBurned' = totalBurned + amount
  /\ UNCHANGED <<roles, maxSupply, paused, allowance, expiration,
                 totalRetired, everMinted, certs, ledger>>

\* The bridge burns only what it holds itself, and the burn is the record
\* that the credits now live on the EVM chain.
BurnByBridge(caller, from, amount) ==
  /\ caller = bridge
  /\ from = bridge
  /\ bridgedToEvm + amount <= MaxAmount
  /\ DestroyBurned(from, amount)
  /\ bridgedToEvm' = bridgedToEvm + amount

BurnByAdmin(caller, from, amount) ==
  /\ caller # bridge
  /\ caller = admin
  /\ DestroyBurned(from, amount)
  /\ UNCHANGED bridgedToEvm

Burn(caller, from, amount) ==
  \/ BurnByBridge(caller, from, amount)
  \/ BurnByAdmin(caller, from, amount)

BurnWithReason(caller, from, amount) ==
  /\ caller = admin
  /\ DestroyBurned(from, amount)
  /\ UNCHANGED bridgedToEvm

(***************************************************************************)
(* Moving credits.  transfer and transfer_from read both balances before   *)
(* they write either, so a transfer to oneself keeps the credited balance. *)
(***************************************************************************)
\* Mutant: the credit is written before the debit.
MovedCreditFirst(b, from, to, amount) == [b EXCEPT ![to] = b[to] + amount,
                                                   ![from] = b[from] - amount]

Moved(b, from, to, amount) == [b EXCEPT ![from] = b[from] - amount,
                                        ![to] = b[to] + amount]

Transfer(from, to, amount) ==
  /\ amount > 0
  /\ ~paused
  /\ balance[from] >= amount
  /\ balance[to] + amount <= MaxAmount
  /\ balance' = Moved(balance, from, to, amount)
  /\ UNCHANGED <<roles, maxSupply, paused, allowance, expiration, totals, ledger>>

\* Mutant: the debit, from the balance read at the start, is written last.
BatchTransferDebitingLast(from, batch) ==
  /\ \A i \in DOMAIN batch : batch[i].amount > 0
  /\ ~paused
  /\ balance[from] >= BatchTotal(batch)
  /\ \A a \in Address : Credited(balance, batch)[a] <= MaxAmount
  /\ balance' = [Credited(balance, batch) EXCEPT ![from] = balance[from] - BatchTotal(batch)]
  /\ UNCHANGED <<roles, maxSupply, paused, allowance, expiration, totals, ledger>>

\* batch_transfer debits the sender first and reads each recipient afterwards.
BatchTransfer(from, batch) ==
  LET debited == [balance EXCEPT ![from] = @ - BatchTotal(batch)]
  IN  /\ \A i \in DOMAIN batch : batch[i].amount > 0
      /\ ~paused
      /\ balance[from] >= BatchTotal(batch)
      /\ \A a \in Address : Credited(debited, batch)[a] <= MaxAmount
      /\ balance' = Credited(debited, batch)
      /\ UNCHANGED <<roles, maxSupply, paused, allowance, expiration, totals, ledger>>

Expired(holder, spender) ==
  /\ expiration[holder][spender] > 0
  /\ ledger >= expiration[holder][spender]

\* Mutant: spenders may move credits while the token is paused.
TransferFromWhilePaused(spender, from, to, amount) ==
  /\ amount > 0
  /\ allowance[from][spender] >= amount
  /\ ~Expired(from, spender)
  /\ balance[from] >= amount
  /\ balance[to] + amount <= MaxAmount
  /\ allowance' = [allowance EXCEPT ![from][spender] = @ - amount]
  /\ balance' = Moved(balance, from, to, amount)
  /\ UNCHANGED <<roles, maxSupply, paused, expiration, totals, ledger>>

TransferFrom(spender, from, to, amount) ==
  /\ amount > 0
  /\ ~paused
  /\ allowance[from][spender] >= amount
  /\ ~Expired(from, spender)
  /\ balance[from] >= amount
  /\ balance[to] + amount <= MaxAmount
  /\ allowance' = [allowance EXCEPT ![from][spender] = @ - amount]
  /\ balance' = Moved(balance, from, to, amount)
  /\ UNCHANGED <<roles, maxSupply, paused, expiration, totals, ledger>>

\* Approving stays possible while the token is paused, and an expiration equal
\* to the current ledger is accepted although it is already over.
Approve(from, spender, amount, expires) ==
  /\ amount >= 0
  /\ expires > 0 => expires >= ledger
  /\ allowance' = [allowance EXCEPT ![from][spender] = amount]
  /\ expiration' = [expiration EXCEPT ![from][spender] = expires]
  /\ UNCHANGED <<roles, maxSupply, paused, balance, totals, ledger>>

(***************************************************************************)
(* Retiring credits.  `record' is what the retirement registry answers; a  *)
(* registry that panics rolls the whole call back, which is no step.       *)
(***************************************************************************)
\* Mutant: the certificate shows the holder's balance.
CertificateOfBalance(holder, amount, record) ==
  [retiree |-> holder, amount |-> balance[holder], record |-> record]

Certificate(holder, amount, record) ==
  [retiree |-> holder, amount |-> amount, record |-> record]

\* Mutant: CertCount is not incremented, and every certificate overwrites the last.
RetireOverwriting(holder, amount, record) ==
  /\ amount > 0
  /\ ~paused
  /\ balance[holder] >= amount
  /\ registry = NoAddress => ~requireRegistry
  /\ (record = NoRecord) <=> (registry = NoAddress)
  /\ totalRetired + amount <= MaxAmount
  /\ balance' = [balance EXCEPT ![holder] = @ - amount]
  /\ totalSupply' = totalSupply - amount
  /\ totalRetired' = totalRetired + amount
  /\ certs' = <<Certificate(holder, amount, record)>>
  /\ UNCHANGED <<roles, maxSupply, paused, allowance, expiration,
                 totalBurned, everMinted, bridgedToEvm, ledger>>

Retire(holder, amount, record) ==
  /\ amount > 0
  /\ ~paused
  /\ balance[holder] >= amount
  /\ registry = NoAddress => ~requireRegistry
  /\ (record = NoRecord) <=> (registry = NoAddress)
  /\ totalRetired + amount <= MaxAmount
  /\ balance' = [balance EXCEPT ![holder] = @ - amount]
  /\ totalSupply' = totalSupply - amount
  /\ totalRetired' = totalRetired + amount
  /\ certs' = Append(certs, Certificate(holder, amount, record))
  /\ UNCHANGED <<roles, maxSupply, paused, allowance, expiration,
                 totalBurned, everMinted, bridgedToEvm, ledger>>

CloseLedger ==
  /\ ledger < MaxLedger
  /\ ledger' = ledger + 1
  /\ UNCHANGED <<roles, maxSupply, paused, holdings, totals>>

--------------------------------------------------------------------------------
\* The state initialize leaves behind.
Init ==
  /\ admin = Deployer
  /\ pendingAdmin = NoProposal
  /\ minter = NoAddress
  /\ guardian = NoAddress
  /\ bridge = NoAddress
  /\ registry = NoAddress
  /\ requireRegistry = FALSE
  /\ maxSupply = 0
  /\ paused = FALSE
  /\ balance = [a \in Address |-> 0]
  /\ allowance = [a \in Address |-> [s \in Address |-> 0]]
  /\ expiration = [a \in Address |-> [s \in Address |-> 0]]
  /\ totalSupply = 0
  /\ totalRetired = 0
  /\ totalBurned = 0
  /\ everMinted = 0
  /\ bridgedToEvm = 0
  /\ certs = <<>>
  /\ ledger = 1

Administer(caller) ==
  \/ \E a \in Admins : \/ \E d \in Delays : ProposeAdmin(caller, a, d)
                       \/ SetAdmin(caller, a)
  \/ \E m \in Minters : SetMinter(caller, m)
  \/ \E g \in Guardians : SetPauseGuardian(caller, g)
  \/ \E b \in Bridges : SetBridge(caller, b)
  \/ AcceptAdmin(caller)
  \/ CancelAdminProposal(caller)
  \/ \E r \in Registries : SetRetirementRegistry(caller, r)
  \/ \E require \in BOOLEAN : SetRequireRegistry(caller, require)
  \/ \E max \in Caps : SetMaxSupply(caller, max)
  \/ Pause(caller)
  \/ Unpause(caller)

Issue(caller) ==
  \/ \E to \in Address, n \in Amounts : MintTo(caller, to, n)
  \/ \E batch \in Batches : BatchMintTo(caller, batch)

Destroy(caller) ==
  \/ \E from \in Address, n \in Amounts : \/ Burn(caller, from, n)
                                          \/ BurnWithReason(caller, from, n)
  \/ \E n \in Amounts, r \in RecordIds \cup {NoRecord} : Retire(caller, n, r)

Move(caller) ==
  \/ \E to \in Address, n \in Amounts : Transfer(caller, to, n)
  \/ \E batch \in Batches : BatchTransfer(caller, batch)
  \/ \E from, to \in Address, n \in Amounts : TransferFrom(caller, from, to, n)
  \/ \E g \in Grants, n \in Amounts, e \in Expirations :
        /\ caller = g.holder
        /\ Approve(caller, g.spender, n, e)

Next ==
  \/ \E caller \in Address : \/ Administer(caller)
                             \/ Issue(caller)
                             \/ Destroy(caller)
                             \/ Move(caller)
  \/ CloseLedger

Spec == Init /\ [][Next]_vars

--------------------------------------------------------------------------------
RolesOK ==
  /\ admin \in Address
  /\ pendingAdmin \in [to : Address \cup {NoAddress}, activeAfter : Nat]
  /\ minter \in Address \cup {NoAddress}
  /\ guardian \in Address \cup {NoAddress}
  /\ bridge \in Address \cup {NoAddress}
  /\ registry \in Address \cup {NoAddress}
  /\ requireRegistry \in BOOLEAN
  /\ maxSupply \in Nat
  /\ paused \in BOOLEAN
  /\ ledger \in Nat

HoldingsOK ==
  /\ balance \in [Address -> Nat]
  /\ allowance \in [Address -> [Address -> Nat]]
  /\ expiration \in [Address -> [Address -> Nat]]

Certificates == [retiree : Address, amount : Nat, record : Nat \cup {NoRecord}]

\* The supply is no natural number: holders who paid themselves can retire more
\* than circulates.
TotalsOK ==
  /\ totalSupply \in Int
  /\ totalRetired \in Nat
  /\ totalBurned \in Nat
  /\ everMinted \in Nat
  /\ bridgedToEvm \in Nat
  /\ certs \in Seq(Certificates)

\* Balances, allowances and every counter but the supply never go below zero.
TypeOK == RolesOK /\ HoldingsOK /\ TotalsOK

\* SPEC section 5, invariant 1: every credit ever minted is in circulation,
\* retired or burned, over all the entry points that touch a counter.
SupplyConservation == totalSupply + totalRetired + totalBurned = everMinted

\* Every credit counted in circulation is held by somebody: no order of mints,
\* burns, retirements and transfers strands supply that nobody can retire.
HeldCoversSupply == totalSupply <= Total(balance)

\* Every retired credit is on a certificate, and certificates claim no other.
CertificatesAccountForRetired ==
  Total([i \in DOMAIN certs |-> certs[i].amount]) = totalRetired

\* A mint, single or batched, never leaves more credits in circulation than the
\* cap in force allows.
MintsRespectCap ==
  [][everMinted' > everMinted => UnderCap(totalSupply')]_vars

\* The gap between what holders hold and what is in circulation changes only
\* when an address pays itself.
GapOnlyFromPayingOneself ==
  [][ Total(balance') - totalSupply' # Total(balance) - totalSupply
      => /\ UNCHANGED totals
         /\ \E a \in Address : /\ balance'[a] > balance[a]
                               /\ balance' = [balance EXCEPT ![a] = balance'[a]] ]_vars

\* While the token is paused holdings only shrink, through burns: nothing is
\* minted, retired or moved and no allowance is used up by a spender.
PauseFreezes ==
  [][ paused => /\ \A a \in Address : balance'[a] <= balance[a]
                /\ Total(balance) - Total(balance') = totalBurned' - totalBurned
                /\ UNCHANGED <<everMinted, totalRetired, certs>> ]_vars

\* A handover is the acceptance, by the proposed address and no earlier than the
\* delay allows, of a proposal that is then used up.
HandoverUsesUpProposal ==
  [][ admin' # admin => /\ admin' = pendingAdmin.to
                        /\ ledger >= pendingAdmin.activeAfter
                        /\ pendingAdmin' = NoProposal ]_vars

\* tests/tests/supply_conservation.rs:167: "total_supply must equal the sum of
\* live balances".  An address that pays itself breaks it.
HoldersHoldSupply == Total(balance) = totalSupply

\* What the token promises about its supply: only issuing, retiring and burning
\* move the counters, each in one direction, and every retirement leaves one
\* certificate that no later call alters.
Supply == INSTANCE SupplyLedger
  WITH live <- totalSupply, retired <- totalRetired, burned <- totalBurned,
       issued <- everMinted, claims <- [i \in DOMAIN certs |-> certs[i].amount]
ImplementsSupplyLedger == Supply!Spec
================================================================================
