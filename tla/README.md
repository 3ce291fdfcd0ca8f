# Formal models of the Water Credits contracts

TLA+ models of the Soroban contracts of the Water Quality & Replenishment
Credits protocol, the TLC configurations that check them on small instances, and
theorems about them that TLAPS proves for every value of their constants. Every
definition is translated from the Rust source; `PROJECT.json` maps each one to
the lines it models.

## How the contracts execute, and what that means for the models

A Soroban invocation is atomic. It commits all of its writes, or panics and
commits none, and a contract cannot be re-entered while it runs. So every public
entry point that changes state is **one action**: the guard is the conjunction
of all checks the call survives, in whatever contract they are made, and a call
that panics is no step. Concurrency is the order in which calls of different
parties reach the ledger. `require_auth` is modelled by the action's parameter
`caller` (or `holder`, `o`, ...), the address that authorized the call.

The EVM contract is the same in this respect: a call reverts as a whole.

One clock stands for both the ledger sequence and the ledger timestamp, which
advance together. `i128::MAX` is a constant (`MaxAmount`, `MaxTotal`), so that
`checked_add` fails in the small instances too. Entries of persistent storage
are archived and restored, never lost, so their time to live is left out.

## Inventory

| Part | State | Operations | Hard behaviour | Correct when |
|---|---|---|---|---|
| `credit_token` | roles, cap, pause, balances, allowances, five counters, certificates | mint, batch mint, burn, transfer, approve, retire, admin calls | overlapping counters over any order of calls, moving cap and bridge, failure of the registry inside `retire` | counters conserve supply, holders hold it, certificates match what was retired |
| `retirement_registry` | records, two indexes, total, authorized callers | record, authorize, paged reads | indexes kept beside the records | records are append-only and the pages find exactly them |
| `verification_oracle`, staking | oracles, configuration, stakes, pending unstakes | add, remove, configure, stake, unstake, claim, slash | configuration changes under live stakes | stakes are backed, a reached quorum is kept |
| `verification_oracle`, windows | window per project, nonces, commitments, markers, index of open windows, results | open, commit, reveal phase, reveal, finalize, direct submission, reset, pause | two submission paths, deadlines, markers outliving windows, repeated finalization | a nonce is spent once, in a reading or a penalty |
| `verification_oracle`, formula and minting | configuration, project configuration, results | medians, penalty, credits, clamp to the cap, fee split, `mint_to` twice | rounding in several places, wrong readings among the right ones, token panics that roll back the finalization | a majority of the readings bounds every median, cleaner water earns no less, results report what was issued |
| `credit_bridge`, `BridgeERC20.sol` | processed transfers, relayers, nonces, pauses, EVM balances | deposit, withdraw, relayer and token updates; transfer, approve | transfers repeated, reordered, late or meant for another contract, relayers that change or sign anything | a credit is at home, away or under way, and arrives |
| `governance` | members, configuration, proposals, votes, registered contracts, voting token | propose, vote, execute, cancel, expire, pause, admin calls | expiry against late votes, live weights against snapshots, partial execution | slots are right, what passes has support, an execution reports what it did, a proposal executes once |
| `credit_marketplace` | orders, lists of open orders, escrow, fees | create, fill, batch fill, cancel, admin calls | rounding of partial fills, batches that name an order twice | the escrow covers every open order |
| `credit_factory`, `project_registry`, `shared` | projects in two places, counts, statuses, authorized callers | register, update status and owner, link the registry | ids derived twice, two contracts that may refuse | the two directories agree |

Calls between them: the factory deploys tokens and registers projects; the
oracle mints on a token; a token's `retire` records in the registry; the bridge
burns and mints on a token, and relayers carry its transfers to the EVM contract
and back; the marketplace moves tokens it was allowed to; governance is admin
or pause guardian of tokens and oracles.

Interactions are the hard part wherever one contract reads another's state and
relies on it (the oracle's clamp on the token's cap, the token's certificate on
the registry's id, the factory's project id on the registry's). `PROJECT.json`
lists each hazard at its line.

## Modules

| Module | Models | Depends on |
|---|---|---|
| `SupplyLedger` | what a token promises about its supply: issue, retire, burn | |
| `CreditToken` | `credit_token`, all entry points | `SupplyLedger` (instance) |
| `BridgeHistory` | a token with a memory of what all its bridges burned and minted | `CreditToken` |
| `Selections` | the members of a sequence that are in a set, in order | |
| `RetirementRegistry` | `retirement_registry` | `Selections` |
| `RetirementTrail` | a token and its registry in one transaction | `CreditToken`, `RetirementRegistry` |
| `OracleStaking` | membership, configuration and stakes of `verification_oracle` | |
| `OracleWindow` | its submission windows | `OracleStaking` |
| `CreditFormula` | its validation, medians and credit formula, as operators | |
| `OracleMinting` | its finalizations, minting on a credit token | `CreditToken`, `CreditFormula` |
| `CreditBridge` | `credit_bridge` beside the token it burns and mints on | `CreditToken` |
| `BridgeERC20` | the EVM contract | |
| `TwoChains` | both ends of the bridge and the relayers between them | `CreditBridge`, `BridgeERC20`, `CreditsAcross` (instance) |
| `CreditsAcross` | what the bridge promises: leave, arrive, leave for home, return | |
| `Governance` | `governance`, all entry points | `Selections`, `ProposalLife` (instance) |
| `ProposalLife` | what governance promises of a proposal: vote, pass, carry out, drop | |
| `CreditMarketplace` | `credit_marketplace` | `Selections` |
| `ProjectDirectory` | `credit_factory`, `project_registry` and `shared` | |
| `CollectionTheorems` | lemmas about sums of functions and sequences, and about selections | `Selections` |
| `CreditTokenProofs` | theorems of `CreditToken` | `CreditToken`, `CollectionTheorems` |
| `TokenClientsProofs` | theorems of `BridgeHistory`, `RetirementRegistry`, `RetirementTrail` and `OracleMinting` | `BridgeHistory`, `RetirementTrail`, `OracleMinting`, `CreditTokenProofs` |
| `OracleWindowProofs` | theorems of `OracleStaking` and `OracleWindow` | `OracleWindow`, `CollectionTheorems` |
| `TwoChainsProofs` | theorems of both ends of the bridge | `TwoChains`, `CreditTokenProofs` |
| `GovernanceProofs` | theorems of `Governance` | `Governance`, `CollectionTheorems` |
| `CreditMarketplaceProofs` | theorems of `CreditMarketplace` | `CreditMarketplace`, `CollectionTheorems` |
| `ProjectDirectoryProofs` | theorems of `ProjectDirectory` | `ProjectDirectory` |
| `MC...` | constants of the instances | |

Names follow the source: `mint_to` is `MintTo`, `DataKey::EverMinted` is
`everMinted`, and a `None` is a model value or an empty set. Where two contracts
use one name, the model of one adds its own (`SetFee`, `EvmTransfer`). Operators
whose comment begins with "Mutant" are plausible mistakes in the code; each is
substituted for the definition it mutates to see that the property named in
`PROJECT.json` notices. They are part of no specification.

**CreditToken.** The state is the token's storage. `Transfer` and `TransferFrom`
keep the order of reads and writes in the code through `Moved`, and
`BatchTransfer` through `debited`, because they differ when an address pays
itself. A batch is a sequence of payments; its loop is the sum per recipient,
and since every amount is positive the checks on the running totals are the
check on the last. `MintTo` counts bridged credits under the cap and
`BatchMintTo` does not, as the code has it. What a registry answers to `Retire`
is a parameter here and the registry itself in `RetirementTrail`. The supply
is typed as an integer: holders who paid themselves can retire more than
circulates. The wrap of that counter below `-i128::MAX` is out of reach of the
counters that bound it.

**BridgeHistory.** The contract keeps one number, `BridgedToEvm`, for all the
bridges it has had. The module adds what they sent and brought home, told by who
called `burn` and `mint_to` and not by that number, so that the two can be
compared. `batch_mint_to` brings nothing home, whoever calls it.

**OracleWindow.** A reading is its oracle and nonce. Sensor values, salts and
hashes are left out: a reveal that does not match its commitment is a panic.
`RecordResult` is what both finalizing paths write; `FinalizeReveals` adds the
clean-up that only commit-reveal does. `HasOpenSubmissions` is what
`remove_oracle` consults. The two counters per oracle, `OracleFinalizedCount`
and `OracleSubmitCount`, are written together and are one variable. A project
without a window and one in a window differ as in storage (`NoWindow`).

**OracleStaking.** The staking token is another contract, used through
`transfer`: it moves tokens or panics. Slashed tokens go to the treasury, which
is outside the model. `OracleActive`, `OracleList` and `OracleCount` always
change together and are the set `active`. Configuration fields that the formula reads (the window length, thresholds,
the fee) are in `OracleMinting`.

**CreditFormula, OracleMinting.** `Median` picks the middle by rank instead of
sorting in the code's buffer; `Half` rounds towards zero, as Rust divides.
`Removed`, `Penalty`, `Volumetric` and `Gross` are the parts of
`compute_finalization`; `FinalizationFits` says that no `checked_mul` of it
panics. `Finalize` is the end of both finalizing paths for one project: medians,
credits, clamp, split, both `mint_to` calls on the real token model, and the
record of the result. The readings are any that `validate_sensor_reading` lets
in; which of them a window holds is `OracleWindow`'s matter.

**CreditBridge, BridgeERC20, TwoChains.** `Deposit` is the bridge's call and the
token's `transfer` and `burn` in one; `Withdraw` is its checks and the token's
`mint_to`. A list of signers is their set, since both contracts demand sorted
signers. The relayers are not in the repository: honest ones sign what was
deposited on either chain for the other, and also transfers of other chains and
contracts (`Foreign`); faulty ones sign anything (`Forged`), and are fewer than
the threshold of any relayer list in use. Recipients of a valid type named to
the EVM contract are addresses of the other chain, or zero. The token's admin names no other
bridge: the burns of a second one would count as bridged too. Whoever holds a signed transfer may
submit it at any time, in any order and again. Solidity's `transfer` reads
balances again, so that paying oneself changes nothing there.

**Selections.** What the code filters out of a vector in a loop is `Chosen`, a
recursive function, because the provers can reason about it by induction on its
length, which they cannot about a test passed as an operator (`SelectSeq`).

**Governance.** `Dispatch` runs the actions of a proposal one by one
(`DispatchUpTo` is the state after the first of them): a built-in
action reaches every registered contract, a generic one its target; a contract
obeys if governance is its admin or guardian (`obeying`), and `ProtocolPaused`
follows only if all did. The voting token moves balances and keeps its supply.
The attempt to mark a proposal as expired in a late vote is undone by the panic
that follows it, so that `Vote` has no such outcome. Calls of the admin and of
outside parties share one bound, `MaxCalls`.

**CreditMarketplace.** Orders are numbered and never deleted: a sequence.
`Settlement` lists the transfers of a fill in the code's order and `Filled` makes
them or refuses. `Outcomes` is the book after each fill of a batch, of which
`BatchFillOrders` takes the last if no fill was refused. Tokens
are modelled by what the marketplace relies on, a transfer of a positive amount
its owner has; owners approve the marketplace for what they trade.

**ProjectDirectory.** An id is the pair of the hashed details and the count they
are hashed with. Every call of the factory that reaches the registry is one
action of both (`Passed`); whoever the registry authorizes may also call it
directly.

## Runs

Deadlock checking is off in all runs: the bounds stop the model, and the
contracts may stay idle for ever.

| Run | Question | Bounds |
|---|---|---|
| `token_ledger` | do counters and balances agree under every way to mint, move and destroy, and do bridges that replace each other bring home only what was sent? | 2 addresses, either of which may be the bridge, amounts -1..2, `i128::MAX` = 3, batches of 2 |
| `token_controls` | do cap, pause, expiring allowances and timelocked handovers hold, and is the abstract ledger implemented? | 2 addresses, one of which may be the bridge, amount 1, `i128::MAX` = 2, 2 ledgers |
| `trail` | do token and registry agree record by record, and do pages and totals show exactly the records? | one token, one other caller, two retirees, total up to 3 |
| `window_quorum` | are nonces spent once and paths to a window taken once, under a changing quorum and a pause guardian, and is a reached quorum kept? | 2 oracles, 1 project, 2 nonces, 3 ticks |
| `window_penalties` | do penalties, slashes and claims leave stakes backed, and is the index of open windows right? | 2 oracles with 2 tokens each, stakes and unstakes of 1 or 2, 2 projects, 1 slot, minimum stake 1, 3 ticks |
| `minting` | do results report only what was issued, do majorities of the readings bound medians, is the formula monotonic? | 1 to 3 readings of 4 samples around each threshold, 4 configurations of which 2 are accepted, own and default baselines, cap 5, 2 results |
| `chains` | is every credit at home, away or under way, and does it arrive? | 1 user on each chain, 2 relayers and 1 replacement, one faulty, 2 deposits each way |
| `governance` | slots, support, reported executions, the abstract life, the end of every vote | 2 people, 2 proposals of two actions, by head and by weight, 2 admin or outside calls, 3 ticks |
| `marketplace` | does the escrow cover all open orders, are the lists right, do closed orders stay? | 2 traders, 2 tokens, 2 orders of 1 or 2 credits, prices that divide and do not, batches of 2 |
| `directory` | does the registry list every project, does the factory keep agreement? | 2 owners, 2 projects in each directory, equal and invalid details |

These bounds are enough for the cases that matter: an address paying itself and
another in one batch, a counter at its maximum, a cap below and above the
supply, a bridge replaced with credits abroad, a commitment left over from an
earlier window, a second reading in the same window, a reset in each phase, a
finalization repeated after the deadline, a removal in an open window, a stake
partly unstaked and slashed before the rest is claimed; a second
transfer that overtakes the first, a repeated one, a relayer replaced between
signing and delivery; a vote whose weight moved, a quorum lowered under way, an
execution of which one contract refuses; an order filled in two roundings and
cancelled, a batch naming an order twice, a buy order paid in the credits it
buys; a direct registration that makes the counts of the directories differ.
Two of each kind of actor allow each of them; a third adds no new case.

`window_penalties` takes its two oracles as alike, and its two projects
(`SYMMETRY`). That is sound there: both of its properties are invariants, and
neither the specification nor they name one oracle or project.

Two runs refute a sentence of the repository:

| Run | The sentence | What happens |
|---|---|---|
| `token_holders` | `tests/tests/supply_conservation.rs:167` "total_supply must equal the sum of live balances" | a transfer to oneself adds to the balance |
| `staking_claim` | `doc/SPEC.md:289` a claim pays the unstaked tokens | it pays the stake that was left; the unstaked tokens stay behind |

Five more configurations refute one sentence each, and can be run the same way:

| Configuration | The sentence | What happens |
|---|---|---|
| `MCOracleWindow_twice.cfg` (`MCOracleWindow`) | `doc/SPEC.md:612` one submission per oracle and window | one direct, one revealed |
| `MCOracleWindow_once.cfg` (`MCOracleWindow`) | `doc/SPEC.md:147` a finalized result increments the counts "once for each oracle whose reveal contributed to the result" | each reading counts, direct ones too, and an oracle with two counts twice |
| `MCOracleMinting_clamp.cfg` (`MCOracleMinting`) | `verification_oracle/src/lib.rs:587` the clamped mint cannot breach the cap | bridged credits count against the cap too |
| `MCCreditMarketplace_cancel.cfg` (`MCCreditMarketplace`) | `credit_marketplace/src/lib.rs:617` "Cancel an open order and return any remaining escrowed tokens to the maker" | the remainder of a buy order that costs less than one unit can neither be filled nor cancelled; `calculate_cost` panics, and its escrow stays |
| `MCProjectDirectory_ghosts.cfg` (`MCProjectDirectory`) | `credit_factory/src/lib.rs:206` "preventing ghost projects (token deployed but no registry entry)" | after a direct registration the registry's count is ahead, and a project of the factory has no entry under its id |

Their instances are the smallest in which the sentence makes sense.

**Other differences from the documents.** The models follow the code where it
departs from what is written about it. These departures have no run of their own:

- `set_max_supply` accepts a cap below the supply, against `doc/SPEC.md:606`.
- `batch_mint_to` leaves bridged credits out of the cap that `mint_to` counts
  them under (`tests/tests/credit_bridge.rs:370`).
- A slash, a claim or a new minimum leaves an active oracle below the minimum
  stake, against `doc/SPEC.md:617`.
- `reset_window` discards a finalized window, against `doc/SPEC.md:608`, and does
  not index the new one, so `remove_oracle` no longer sees its commitments. A
  comment in it speaks of the reveal phase; it starts the commit phase.
- `submit_reading` is public and needs no commitment, against `doc/SPEC.md:84`,
  and heeds no pause.
- The direct path removes no marker on finalization, and `finalize_reveals`
  leaves `OracleSubmitted`, against the comment at `verification_oracle`
  line 297.
- `remove_oracle` does not see direct submissions, against the comment at
  line 450.
- The comment on `compute_finalization` has the commit-reveal path use global
  baselines; both paths resolve them per project. Its penalty never reaches the
  ceiling of 8000. Credits per kilogram and baselines are not validated.
- The bridge's `deposit` accepts a zero `evm_recipient`, which the EVM contract
  refuses for good; `update_relayers` accepts a relayer listed twice, which
  counts for the bound on the threshold; neither side looks at the source chain.
- A vote's weight is read when it is cast, so that tokens that move between two
  members are counted twice, against the comment on `total_eligible_weight`
  ("to prevent last-block balance manipulation"); the quorum uses the smaller of
  the members then and now and the current configuration, against the comment
  on `eligible_voters`. Setting a governance token changes proposals under way.
  `min_proposal_deposit` is never charged. A proposer may cancel too.
- `credit_marketplace.initialize` asks for no authorization and resets the count
  of orders. Costs and fees are rounded down per fill, so the same credits cost
  less in small fills; the difference stays in escrow or with the taker.
- `project_registry.register` does not check coordinates, which the factory
  does. A project completed in one directory and suspended in the other can no
  longer be updated through the factory.

**Fairness.** None is assumed of the token, the oracle, the marketplace and the
directories: every step there is a call some outside party may or may not make.
A window short of its quorum, for instance, really waits until the admin resets
it.

- `Governance`: weak fairness of `TimePasses` (ledgers close) and of
  `ExpireProposal` for each proposal, which asks for no authorization and is
  documented as "Callable by anyone after the voting period ends". Nobody is
  assumed to vote, execute or cancel.
- `TwoChains`: strong fairness of the delivery of each deposit to the EVM chain
  (relayers exist for it and retry; a pause may come between any two attempts,
  so weak fairness would say nothing), and weak fairness of unpausing the EVM
  contract while it is paused. Deliveries home are left without fairness: the
  token's cap and pause may refuse them for as long as its admin likes.

## What is proved

Every theorem is about a whole specification, without fairness, and for every
value of the constants that satisfies the named `ASSUME`s of its modules
(`AddressAssumption`, `StakingAssumption` and so on: finitely many addresses,
amounts that are numbers, first settings that the constructors accept). TLC
evaluates each of them in the runs. In particular the theorems hold without the
bounds of the instances: any number of oracles, projects, members, relayers,
orders and deposits, any amounts, batches of any length.

**Token** (`CreditTokenProofs`, of `Spec`).

- `TypeCorrect`, `[]TypeOK`, is inductive. Its content is that balances,
  allowances and `bridgedToEvm` never go negative and that all counters stay
  numbers after sums over whole batches.
- `SupplySafe` is the inductive invariant of the rest: conservation, holders
  cover the supply, no more is counted as bridged than was burned. From it
  `Conservation` and `HeldCovers`; `CertificatesAccount` is inductive by itself.
- `GapTheorem`, `MintsCapped`, `PauseHolds` and `HandoverOnlyByAcceptance` are
  action properties that hold step by step.
- `Refinement`: the token implements `SupplyLedger`.

Each action changes the balances at one point (mint, burn, retire), at two
(transfer) or by the sums of a batch. `CollectionTheorems` proves what such a change
does to the total, by induction over finite sets, so that each step compares two
differences of integers. The invariant says that holders cover the supply, not
that they equal it, because `Moved` may credit without debiting; the supply is an
integer and not a natural number for the same reason.

What a step does to the supply is one of five effects (`Effect`: nothing, an
issue, a burn, a retirement, a transfer), and the lemmas behind these theorems
(`SupplyKept`, `CapHoldsEffect`, `PauseHoldsEffect`, `LedgerStep`) speak of the
effect and not of the call. The modules in which other contracts call the token
show that each of their steps has such an effect, and so inherit them.

**Bridges of a token** (`TokenClientsProofs`, of `HistorySpec`).
`BridgesBringBack` is the equation between the counter and what all bridges sent
and brought home. Only `burn` and `mint_to` move it (`OtherCallsKeepBridged`), and
since the counter is a natural number (`TypeCorrect`, carried over by
`HistoryRunsToken`), no more came home than was sent.

**Registry and trail** (`TokenClientsProofs`, of `RegistrySpec` and `TrailSpec`).

- `RegistryTypes`; `TotalIsOfTheRecords`, the total is the sum of the records;
  `RecordsOnlyGrow`. Only `RecordRetirement` writes any of these, and appending
  to a sequence adds its amount to the sum.
- `PagesComplete` rests on `IndexesAreScans`: each index is what a scan of all
  the records for its key finds. A page cut out of the one is then the same page
  of the other.
- `TrailRunsRegistry` and `TrailRunsToken`: seen from either contract, the two of
  them take steps it takes alone, so that the theorems of both hold together.
  For the token that needs the ids a registry may answer to include every
  positive number, which is the hypothesis of `TrailRunsToken`.
- `EveryCertificateIsRecorded`: the certificates that name a record and the
  records of the token are two selections, each of which grows by its last
  member in the same step, or neither grows. `NothingOffTheRecord` is the case
  where the registry refuses.

**Minting** (`TokenClientsProofs`, of `MintingSpec`). The invariant is
`MintingIInv`: every result was *earned*, that is, it is `Finalization` of the
medians of a window of valid readings under a configuration that `update_config`
accepts, with shares within its total (`Earned`); what the results claim together
is at most `everMinted`; and the token's own invariants hold.

- `OnlyMintedIsClaimed` and `SharesWithinEarnings` follow from it: the clamp takes
  no more than was earned, the fee is rounded down, and both `mint_to` calls raise
  `everMinted` by what the result claims.
- `MedianFollowsMajority`. The k-th smallest of any number of readings exists and
  is one value (`RankedIs`), ranks ascend, and two sets that are together larger
  than the window overlap (`Overlap`): the readings up to the median and any
  majority do, and the readings from the median on and any majority do. For an
  even number of readings the half sum lies between its two terms, also where it
  is negative and rounds towards zero. The theorem is about readings. One oracle may
  stand behind two of them, and `ResultsSpreadOut` below says never behind more.
- `CleanerNoLess`. Each part of the formula is monotonic through its own division:
  what is removed of a nutrient, the volume, the penalty; then so is their product
  divided by 10000. It needs rates that are not negative, which `update_config`
  does not check and the property states.
- `SupplySafeUnderOracle`, `RefinementUnderOracle` and `CapAndPauseUnderOracle`:
  what the token promises it keeps with the oracle as its minter.

**Oracle** (`OracleWindowProofs`, of `OracleSpec`). Windows touch stakes in one
place, the penalties of `FinalizeWindow`; `StakingSteps` sorts the steps by it.

- `StakingTypes` and `StakesBacked`: the vaults of all staking tokens together
  cover the stakes on record, since each call and each penalty takes from a vault
  no more than from the stakes, and no stake below nothing.
- `QuorumStays` and `WindowTypes`.
- `BufferFits` needs a strengthening: a window that waits has *room for one more*
  reading (`RoomForOneMore`), for which every configuration is one that
  `update_config` accepts.
- `IndexedAreOpen`, inductive.
- `NoncesOnce` is an inequality between counters and sums over results and
  windows. What one step moves between the terms (a commitment to a
  reading, a reading to a result, a commitment to a penalty) is compared oracle
  by oracle; all other oracles keep their terms.
- `PathsTakenOnce`: a reading and its marker come together (`SubmitMarks`,
  `RevealMarks`), and a marker goes only from a window that is emptied or decided.
  From it `ResultsSpreadOut`: a result holds at most two readings of one oracle.

**Bridge** (`TwoChainsProofs`, of `ChainsSpec`). `CreditsSomewhere` and
`CrossingRefined`, the implementation of `CreditsAcross`. Each direction is a
lane of numbered deposits, of which some were delivered. The invariant adds to
the equation that what was processed was sent, and that nothing is across before
the token names the bridge (`NothingAcross`): a withdrawal before that would mint
without being counted. As many signers as the threshold are not all faulty
(`NotAllFaulty`), an honest signer signs for a chain only what was deposited for
it, and the nonces tell deposits apart, so that each delivery takes exactly one
deposit off its lane.

`TokenIInv` adds the token's own invariants, so that its promises hold under the
bridge as well: a deposit, a transfer and a burn in one, has the effect of a burn
by the depositor, and a withdrawal that of an issue (`SupplySafeUnderBridge`,
`RefinementUnderBridge`, `CapAndPauseUnderBridge`). The equation between the
chains and the token's backing together give `AwayIsBacked`: the EVM supply and
all transfers under way are never more than was burned at home.

**Governance** (`GovernanceProofs`, of `GovernanceSpec`). `PassedWasSupported`
rests on `Backed`: the counts of each proposal are the members remembered as
voters, and weight comes only with votes. `LeadsOneLife` shows the
implementation of `ProposalLife`: a step submits one proposal, casts one ballot
or ends one proposal, and leaves all others as they are. `GovernanceTypes` is
inductive. `SlotsAreThoseOpen`: the slots are a selection of all proposals by
their status, which a submission extends at its end and a decision thins out by
one, in order. `ExecutionsReport` is an induction over the actions of a proposal:
after the first n of them, each reported as done holds on the contracts no later
one reaches, and the rest are as they were.

**Marketplace** (`CreditMarketplaceProofs`, of `MarketSpec`). `EscrowCovers`: for
every token, what the marketplace holds covers the sum of the claims of the open
orders. `FloorsAdd` is the heart of it: the sum of two costs rounded down is no
more than the cost of the sum, so that what a fill pays out is at most what the
order's claim shrinks by. This is carried through the three transfers of a fill
and, by induction over `Outcomes`, through a batch that may name one order
several times. `OrdersAreFinal` follows from what every call keeps of the orders.
`MarketTypes` and `OpenOrdersIndexed` are carried through a batch in the same
way; taking an order off its maker's list is a selection, which keeps the others
and their order.

**Directories** (`ProjectDirectoryProofs`, of `DirectorySpec`). `ListedOnce` rests
on `ListedInOrder`: the n-th id of the list was hashed with the number n, so no
two are the same. `AgreementKept` is about each call of the factory.

Only model-checked:

- liveness (`EveryVoteEnds`, `SentCreditsArrive`), out of the prover's reach, as
  are fairness and `ENABLED`;
- the refuted sentences.

Every safety property of a passing run is also a theorem. Recursive definitions
the theorems speak of (`ChosenUpTo`, `DispatchUpTo`, `Outcomes`) are recursive
functions, about which facts are proved by induction over their length for the
one property at hand; no theorem here says what a recursion computes in general.

## Not modelled

Token metadata, titles, descriptions, events, time to live and the scripts:
no property is about them. Overflow of counters outside `checked_add` (numbers
of results, nonces in 64 bits) is out of reach of any history. A second
`initialize`, and calls before the first, are left out: deployments initialize
first. Hashes, signatures and address conversions are taken as one to one. The
vendored crates under `.patches` (procedural macros of the SDK and 256-bit
integers of its host) hold no logic of the protocol.

What a further development would add: a second registry behind one token; per
project markets of several windows that share a token's cap; the relayers'
software, which is outside this repository.
