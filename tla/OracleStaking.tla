------------------------------ MODULE OracleStaking ------------------------------
(***************************************************************************)
(* contracts/verification_oracle: who the oracles are, what they have at   *)
(* stake, and the configuration that governs both.  The windows in which   *)
(* oracles report are in OracleWindow.                                     *)
(*                                                                         *)
(* OracleActive, OracleList and OracleCount are written together and only  *)
(* together; the set `active' stands for all three.  The staking token is  *)
(* another contract: what is used of it is that transfer moves tokens and  *)
(* panics when the payer has too few.                                      *)
(***************************************************************************)
EXTENDS Integers, FiniteSets, Functions

CONSTANTS
  Oracle,         \* addresses that stake and report
  OracleAdmins,   \* addresses that are or become admin
  FirstAdmin,     \* the admin named to initialize
  StakingToken,   \* tokens a configuration may name as staking token
  InitialConfig,  \* the configuration initialize writes
  Configs,        \* the configurations passed to update_config
  HardLimit,      \* MAX_ORACLES_HARD_LIMIT, and the capacity of median_i64's buffer
  StakeAmounts,   \* amounts passed to stake, unstake and slash
  Purse,          \* staking tokens an oracle owns at first, of each token
  MaxClock        \* last timestamp (a bound of the model)

Configuration ==
  [ minOracles : Nat, maxOracles : Nat, minStake : Int, cooldown : Nat,
    commitSecs : Nat, minReveal : Nat, maxReveal : Nat,
    slashBps : Nat, minSlash : Int, maxSlash : Int,
    maxOpen : Nat, stakingToken : StakingToken ]

\* The configurations update_config accepts but for the number of oracles.
Consistent(c) ==
  /\ c.slashBps <= 5000
  /\ c.minSlash >= 0
  /\ c.maxSlash >= c.minSlash
  /\ c.minOracles >= 1
  /\ c.minOracles <= c.maxOracles
  /\ c.maxOracles <= HardLimit
  /\ c.maxOpen >= 1

ASSUME StakingAssumption ==
  /\ IsFiniteSet(Oracle)
  /\ IsFiniteSet(StakingToken)
  /\ FirstAdmin \in OracleAdmins
  /\ InitialConfig \in Configuration
  /\ Consistent(InitialConfig)
  /\ Configs \subseteq Configuration
  /\ HardLimit \in Nat
  /\ StakeAmounts \subseteq Int
  /\ Purse \in Nat
  /\ MaxClock \in Nat

VARIABLES
  oracleAdmin,  \* DataKey::Admin
  active,       \* DataKey::OracleActive, OracleList and OracleCount
  config,       \* DataKey::Config
  stake,        \* OracleStake(o).amount
  unstakeAt,    \* OracleStake(o).unstake_request, 0 when there is none
  slashed,      \* the oracles with an OracleSlashed record
  wallet,       \* the staking tokens each oracle owns
  vault,        \* the staking tokens the contract owns
  clock         \* the timestamp and ledger sequence of the next call

stakingVars == <<oracleAdmin, active, config, stake, unstakeAt, slashed, wallet, vault, clock>>

TransferAdmin(caller, newAdmin) ==
  /\ caller = oracleAdmin
  /\ oracleAdmin' = newAdmin
  /\ UNCHANGED <<active, config, stake, unstakeAt, slashed, wallet, vault, clock>>

\* A minimum stake of zero or less holds nobody off.
HasStake(o) == config.minStake > 0 => stake[o] >= config.minStake

AddOracle(caller, o) ==
  /\ caller = oracleAdmin
  /\ o \notin active
  /\ Cardinality(active) < config.maxOracles
  /\ HasStake(o)
  /\ active' = active \cup {o}
  /\ UNCHANGED <<oracleAdmin, config, stake, unstakeAt, slashed, wallet, vault, clock>>

\* `reporting' is what oracle_has_open_submissions finds.
RemoveOracle(caller, o, reporting) ==
  /\ caller = oracleAdmin
  /\ o \in active
  /\ stake[o] > 0 => ~HasStake(o)
  /\ Cardinality(active) > config.minOracles
  /\ ~reporting
  /\ active' = active \ {o}
  /\ UNCHANGED <<oracleAdmin, config, stake, unstakeAt, slashed, wallet, vault, clock>>

\* Mutant: the number of registered oracles is not looked at.
UpdateConfigIgnoringCount(caller, c) ==
  /\ caller = oracleAdmin
  /\ Consistent(c)
  /\ config' = c
  /\ UNCHANGED <<oracleAdmin, active, stake, unstakeAt, slashed, wallet, vault, clock>>

\* The stakes already deposited are not looked at.
UpdateConfig(caller, c) ==
  /\ caller = oracleAdmin
  /\ Consistent(c)
  /\ c.minOracles <= Cardinality(active)
  /\ config' = c
  /\ UNCHANGED <<oracleAdmin, active, stake, unstakeAt, slashed, wallet, vault, clock>>

--------------------------------------------------------------------------------
Stake(o, amount) ==
  LET token == config.stakingToken
  IN  /\ amount > 0
      /\ wallet[o][token] >= amount
      /\ wallet' = [wallet EXCEPT ![o][token] = @ - amount]
      /\ vault' = [vault EXCEPT ![token] = @ + amount]
      /\ stake' = [stake EXCEPT ![o] = @ + amount]
      /\ unstakeAt' = [unstakeAt EXCEPT ![o] = 0]
      /\ UNCHANGED <<oracleAdmin, active, config, slashed, clock>>

\* The amount leaves the stake at once and is written down nowhere else.
Unstake(o, amount) ==
  /\ amount > 0
  /\ stake[o] >= amount
  /\ o \in active => stake[o] - amount >= config.minStake
  /\ stake' = [stake EXCEPT ![o] = @ - amount]
  /\ unstakeAt' = [unstakeAt EXCEPT ![o] = clock + config.cooldown]
  /\ UNCHANGED <<oracleAdmin, active, config, slashed, wallet, vault, clock>>

\* What is paid out is the stake that was left, and none of it is kept.
ClaimUnstake(o) ==
  LET token == config.stakingToken
  IN  /\ unstakeAt[o] # 0
      /\ clock >= unstakeAt[o]
      /\ vault[token] >= stake[o]
      /\ vault' = [vault EXCEPT ![token] = @ - stake[o]]
      /\ wallet' = [wallet EXCEPT ![o][token] = @ + stake[o]]
      /\ stake' = [stake EXCEPT ![o] = 0]
      /\ unstakeAt' = [unstakeAt EXCEPT ![o] = 0]
      /\ UNCHANGED <<oracleAdmin, active, config, slashed, clock>>

\* The slashed tokens go to the treasury, which is outside the model.
Slash(caller, o, amount) ==
  LET token == config.stakingToken
  IN  /\ caller = oracleAdmin
      /\ amount > 0
      /\ stake[o] >= amount
      /\ vault[token] >= amount
      /\ vault' = [vault EXCEPT ![token] = @ - amount]
      /\ stake' = [stake EXCEPT ![o] = @ - amount]
      /\ slashed' = slashed \cup {o}
      /\ UNCHANGED <<oracleAdmin, active, config, unstakeAt, wallet, clock>>

Smaller(x, y) == IF x < y THEN x ELSE y
Larger(x, y) == IF x > y THEN x ELSE y

\* compute_slash_amount: a share of the stake between a floor and a ceiling,
\* and never more than the stake.
SlashAmount(amount) ==
  LET share == (amount * config.slashBps) \div 10000
  IN  IF amount <= 0 THEN 0
      ELSE Smaller(Smaller(Larger(share, config.minSlash), config.maxSlash), amount)

Tick ==
  /\ clock < MaxClock
  /\ clock' = clock + 1
  /\ UNCHANGED <<oracleAdmin, active, config, stake, unstakeAt, slashed, wallet, vault>>

--------------------------------------------------------------------------------
StakingInit ==
  /\ oracleAdmin = FirstAdmin
  /\ active = {}
  /\ config = InitialConfig
  /\ stake = [o \in Oracle |-> 0]
  /\ unstakeAt = [o \in Oracle |-> 0]
  /\ slashed = {}
  /\ wallet = [o \in Oracle |-> [t \in StakingToken |-> Purse]]
  /\ vault = [t \in StakingToken |-> 0]
  /\ clock = 1

\* The calls that neither read nor write a window.
StakingCalls ==
  \/ \E caller \in OracleAdmins :
       \/ \E a \in OracleAdmins : TransferAdmin(caller, a)
       \/ \E o \in Oracle : AddOracle(caller, o)
       \/ \E c \in Configs : UpdateConfig(caller, c)
       \/ \E o \in Oracle, n \in StakeAmounts : Slash(caller, o, n)
  \/ \E o \in Oracle : \/ \E n \in StakeAmounts : Stake(o, n) \/ Unstake(o, n)
                       \/ ClaimUnstake(o)
  \/ Tick

\* Without windows an oracle may be reporting in one or not.
StakingNext ==
  \/ StakingCalls
  \/ \E caller \in OracleAdmins, o \in Oracle, reporting \in BOOLEAN :
       RemoveOracle(caller, o, reporting)

StakingSpec == StakingInit /\ [][StakingNext]_stakingVars

--------------------------------------------------------------------------------
StakingTypeOK ==
  /\ oracleAdmin \in OracleAdmins
  /\ active \subseteq Oracle
  /\ config \in Configuration
  /\ Consistent(config)
  /\ stake \in [Oracle -> Nat]
  /\ unstakeAt \in [Oracle -> Nat]
  /\ slashed \subseteq Oracle
  /\ wallet \in [Oracle -> [StakingToken -> Nat]]
  /\ vault \in [StakingToken -> Nat]
  /\ clock \in Nat

\* The contract owns at least as many tokens as it has on record as staked,
\* counted over all staking tokens it ever had: no order of staking, unstaking,
\* claiming and slashing pays out more than the payee's own stake.
StakesAreBacked == SumFunction(stake) <= SumFunction(vault)

\* Once enough oracles are registered for a window to finalize, neither a
\* removal nor a new configuration leaves too few (Issue #104).
QuorumIsKept ==
  [][ Cardinality(active) >= config.minOracles
      => Cardinality(active') >= config'.minOracles ]_stakingVars

\* doc/SPEC.md:289: after the cooldown an oracle calls claim_unstake "to receive
\* the unstaked tokens back".  What it receives is the stake it did not unstake,
\* and an oracle that was never slashed is short of the tokens it did unstake.
ClaimPaysUnstaked ==
  [][ \A o \in Oracle \ slashed :
        /\ unstakeAt[o] # 0 /\ unstakeAt'[o] = 0
        /\ stake[o] > 0 /\ stake'[o] = 0
        => SumFunction(wallet'[o]) = Purse * Cardinality(StakingToken) ]_stakingVars
================================================================================
