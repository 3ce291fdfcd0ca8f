--------------------------- MODULE OracleWindowProofs ---------------------------
(***************************************************************************)
(* Proofs about OracleStaking and OracleWindow, for every set of oracles,  *)
(* projects, tokens and configurations and every hard limit.               *)
(*                                                                         *)
(* The windows touch membership, stakes and configuration in one place     *)
(* only, the penalties of FinalizeWindow: lemma StakingSteps sorts the     *)
(* steps of the whole contract by what they do to that part of the state.  *)
(***************************************************************************)
EXTENDS OracleWindow, CollectionTheorems, SequenceTheorems

\* A step is a call on stakes, members or configuration, or penalizes the oracles
\* that missed a reveal, or leaves all that alone.
LEMMA StakingSteps ==
  ASSUME [OracleNext]_oracleVars
  PROVE  \/ StakingCalls
         \/ \E caller \in OracleAdmins, o \in Oracle :
              RemoveOracle(caller, o, HasOpenSubmissions(o))
         \/ \E p \in Project : Penalize(p)
         \/ UNCHANGED stakingVars
<1>1. CASE UNCHANGED oracleVars
  BY <1>1 DEF oracleVars
<1>2. ASSUME NEW p \in Project, BeginRevealPhase(p) \/ FinalizeWindow(p)
      PROVE  Penalize(p) \/ UNCHANGED stakingVars
  BY <1>2 DEF BeginRevealPhase, FinalizeWindow
<1>3. ASSUME NEW o \in Oracle, NEW p \in Project,
             SubmitReading(o, p) \/ CommitReading(o, p) \/ RevealReading(o, p)
      PROVE  UNCHANGED stakingVars
  BY <1>3 DEF SubmitReading, CommitReading, RevealReading
<1>4. ASSUME NEW caller,
             \/ \E value \in BOOLEAN : SetOraclePaused(caller, value)
             \/ \E guardian \in WindowAdmins : SetOracleGuardian(caller, guardian)
             \/ \E p \in Project : OpenWindow(caller, p) \/ ResetWindow(caller, p)
      PROVE  UNCHANGED stakingVars
  BY <1>4 DEF SetOraclePaused, SetOracleGuardian, OpenWindow, ResetWindow
<1> QED
  BY <1>1, <1>2, <1>3, <1>4 DEF OracleNext

\* A penalty takes no more than the stake there is.
LEMMA PenaltyWithinStake ==
  ASSUME config \in Configuration, Consistent(config), NEW n \in Nat
  PROVE  SlashAmount(n) \in 0 .. n
<1> DEFINE share == (n * config.slashBps) \div 10000
<1>1. config.slashBps \in Nat /\ config.minSlash \in Int /\ config.maxSlash \in Int
  BY DEF Configuration
<1>2. 0 <= config.minSlash /\ config.minSlash <= config.maxSlash
  BY <1>1 DEF Consistent
<1>3. share \in Int
  <2>1. n * config.slashBps \in Int
    BY <1>1
  <2> QED
    BY <2>1
<1> HIDE DEF share
<1>4. Larger(share, config.minSlash) \in Nat
  BY <1>1, <1>2, <1>3 DEF Larger
<1>5. Smaller(Larger(share, config.minSlash), config.maxSlash) \in Nat
  BY <1>1, <1>2, <1>4 DEF Smaller
<1> QED
  BY <1>5 DEF SlashAmount, Smaller, share

\* What each oracle is penalized.
Cut(p) == [o \in Oracle |-> IF o \in Missing(p) THEN SlashAmount(stake[o]) ELSE 0]

LEMMA CutTypes ==
  ASSUME StakingTypeOK, NEW p
  PROVE  Cut(p) \in [Oracle -> Nat] /\ \A o \in Oracle : Cut(p)[o] <= stake[o]
<1>1. \A o \in Oracle : stake[o] \in Nat /\ SlashAmount(stake[o]) \in 0 .. stake[o]
  BY PenaltyWithinStake DEF StakingTypeOK
<1> QED
  BY <1>1 DEF Cut

--------------------------------------------------------------------------------
(***************************************************************************)
(* Type correctness of members, stakes and configuration.                  *)
(***************************************************************************)

LEMMA StakingCallTypes ==
  ASSUME StakingTypeOK, StakingCalls
  PROVE  StakingTypeOK'
<1> USE DEF StakingTypeOK
<1>1. config.stakingToken \in StakingToken /\ config.cooldown \in Nat
  BY DEF Configuration
<1>2. StakeAmounts \subseteq Int /\ Configs \subseteq Configuration
  BY StakingAssumption
<1>3. ASSUME NEW caller \in OracleAdmins, NEW a \in OracleAdmins, TransferAdmin(caller, a)
      PROVE  StakingTypeOK'
  BY <1>3 DEF TransferAdmin
<1>4. ASSUME NEW caller \in OracleAdmins, NEW o \in Oracle, AddOracle(caller, o)
      PROVE  StakingTypeOK'
  BY <1>4 DEF AddOracle
<1>5. ASSUME NEW caller \in OracleAdmins, NEW c \in Configs, UpdateConfig(caller, c)
      PROVE  StakingTypeOK'
  BY <1>2, <1>5 DEF UpdateConfig, Consistent
<1>6. ASSUME NEW caller \in OracleAdmins, NEW o \in Oracle, NEW n \in StakeAmounts,
             Slash(caller, o, n)
      PROVE  StakingTypeOK'
  BY <1>1, <1>2, <1>6 DEF Slash
<1>7. ASSUME NEW o \in Oracle, NEW n \in StakeAmounts, Stake(o, n)
      PROVE  StakingTypeOK'
  BY <1>1, <1>2, <1>7 DEF Stake
<1>8. ASSUME NEW o \in Oracle, NEW n \in StakeAmounts, Unstake(o, n)
      PROVE  StakingTypeOK'
  BY <1>1, <1>2, <1>8 DEF Unstake
<1>9. ASSUME NEW o \in Oracle, ClaimUnstake(o)
      PROVE  StakingTypeOK'
  BY <1>1, <1>9 DEF ClaimUnstake
<1>10. CASE Tick
  BY <1>10 DEF Tick
<1> QED
  BY <1>3, <1>4, <1>5, <1>6, <1>7, <1>8, <1>9, <1>10 DEF StakingCalls

LEMMA PenaltyTypes ==
  ASSUME StakingTypeOK, NEW p \in Project, Penalize(p)
  PROVE  StakingTypeOK'
<1> DEFINE cut == Cut(p)
           token == config.stakingToken
<1>1. cut \in [Oracle -> Nat] /\ \A o \in Oracle : cut[o] <= stake[o]
  BY CutTypes
<1>2. /\ stake' = [o \in Oracle |-> stake[o] - cut[o]]
      /\ slashed' = slashed \cup {o \in Oracle : cut[o] > 0}
      /\ vault[token] >= SumFunction(cut)
      /\ vault' = [vault EXCEPT ![token] = @ - SumFunction(cut)]
      /\ UNCHANGED <<oracleAdmin, active, config, unstakeAt, wallet, clock>>
  BY DEF Penalize, Cut
<1> HIDE DEF cut
<1>3. SumFunction(cut) \in Nat
  <2>1. DOMAIN cut = Oracle /\ \A o \in Oracle : cut[o] \in Nat
    BY <1>1
  <2> QED
    BY <2>1, SumBoundsTerms, StakingAssumption DEF SumFunction
<1>4. stake' \in [Oracle -> Nat]
  BY <1>1, <1>2 DEF StakingTypeOK
<1>5. vault' \in [StakingToken -> Nat]
  BY <1>2, <1>3 DEF StakingTypeOK, Configuration
<1> QED
  BY <1>2, <1>4, <1>5 DEF StakingTypeOK

LEMMA StakingTypesInductive ==
  ASSUME StakingTypeOK, [OracleNext]_oracleVars
  PROVE  StakingTypeOK'
<1>1. CASE \E caller \in OracleAdmins, o \in Oracle :
             RemoveOracle(caller, o, HasOpenSubmissions(o))
  BY <1>1 DEF RemoveOracle, StakingTypeOK
<1>2. CASE UNCHANGED stakingVars
  BY <1>2 DEF stakingVars, StakingTypeOK
<1> QED
  BY <1>1, <1>2, StakingCallTypes, PenaltyTypes, StakingSteps

\* Whatever the windows and the calls on stakes do, every stake, purse and vault is
\* a natural number and the configuration one update_config accepts.
THEOREM StakingTypes == OracleSpec => []StakingTypeOK
<1>1. OracleInit => StakingTypeOK
  BY StakingAssumption DEF OracleInit, StakingInit, StakingTypeOK
<1> QED
  BY <1>1, StakingTypesInductive, PTL DEF OracleSpec

--------------------------------------------------------------------------------
(***************************************************************************)
(* The stakes and the tokens behind them.                                  *)
(***************************************************************************)

\* The sums of the stakes and of the tokens owned are integers, and change with
\* one entry by what that entry changes.
LEMMA StakeSum ==
  ASSUME StakingTypeOK, NEW o \in Oracle, NEW n \in Int
  PROVE  /\ SumFunction(stake) \in Int
         /\ SumFunction([stake EXCEPT ![o] = n]) = SumFunction(stake) + n - stake[o]
<1>1. stake \in [Oracle -> Int] /\ DOMAIN stake = Oracle
  BY DEF StakingTypeOK
<1>2. SumFunctionOnSet(stake, Oracle) \in Int
  BY <1>1, SumProperties, StakingAssumption
<1> QED
  BY <1>1, <1>2, SumUpdate, StakingAssumption DEF SumFunction

LEMMA VaultSum ==
  ASSUME StakingTypeOK
  PROVE  /\ SumFunction(vault) \in Int
         /\ \A n \in Int :
              SumFunction([vault EXCEPT ![config.stakingToken] = n])
              = SumFunction(vault) + n - vault[config.stakingToken]
<1>1. vault \in [StakingToken -> Int] /\ DOMAIN vault = StakingToken
  BY DEF StakingTypeOK
<1>2. SumFunctionOnSet(vault, StakingToken) \in Int
  BY <1>1, SumProperties, StakingAssumption
<1>3. config.stakingToken \in StakingToken
  BY DEF StakingTypeOK, Configuration
<1> QED
  BY <1>1, <1>2, <1>3, SumUpdate, StakingAssumption DEF SumFunction

\* An oracle's stake and the vault change by the same amount, or the stake by more.
LEMMA BackingKept ==
  ASSUME StakingTypeOK, StakesAreBacked,
         NEW o \in Oracle, NEW n \in Int, NEW v \in Int,
         stake' = [stake EXCEPT ![o] = n],
         vault' = [vault EXCEPT ![config.stakingToken] = v],
         n + vault[config.stakingToken] <= v + stake[o]
  PROVE  StakesAreBacked'
<1>1. /\ stake[o] \in Int
      /\ vault[config.stakingToken] \in Int
  BY DEF StakingTypeOK, Configuration
<1>2. SumFunction(stake') = SumFunction(stake) + n - stake[o] /\ SumFunction(stake) \in Int
  BY StakeSum
<1>3. /\ SumFunction(vault') = SumFunction(vault) + v - vault[config.stakingToken]
      /\ SumFunction(vault) \in Int
  BY VaultSum
<1> QED
  BY <1>1, <1>2, <1>3 DEF StakesAreBacked

LEMMA CallsKeepBacking ==
  ASSUME StakingTypeOK, StakesAreBacked, StakingCalls
  PROVE  StakesAreBacked'
<1> DEFINE token == config.stakingToken
<1>1. /\ StakeAmounts \subseteq Int
      /\ \A o \in Oracle : stake[o] \in Int
      /\ vault[token] \in Int
  BY StakingAssumption DEF StakingTypeOK, Configuration
<1>2. ASSUME NEW caller \in OracleAdmins, NEW o \in Oracle, NEW n \in StakeAmounts,
             Slash(caller, o, n)
      PROVE  StakesAreBacked'
  <2>1. /\ stake' = [stake EXCEPT ![o] = stake[o] - n]
        /\ vault' = [vault EXCEPT ![token] = vault[token] - n]
    BY <1>2 DEF Slash
  <2>2. n \in Int /\ stake[o] - n \in Int /\ vault[token] - n \in Int
    BY <1>1
  <2>3. (stake[o] - n) + vault[token] <= (vault[token] - n) + stake[o]
    BY <1>1, <2>2
  <2> QED
    BY <2>1, <2>2, <2>3, BackingKept
<1>3. ASSUME NEW o \in Oracle, NEW n \in StakeAmounts, Stake(o, n)
      PROVE  StakesAreBacked'
  <2>1. /\ stake' = [stake EXCEPT ![o] = stake[o] + n]
        /\ vault' = [vault EXCEPT ![token] = vault[token] + n]
    BY <1>3 DEF Stake
  <2>2. n \in Int /\ stake[o] + n \in Int /\ vault[token] + n \in Int
    BY <1>1
  <2>3. (stake[o] + n) + vault[token] <= (vault[token] + n) + stake[o]
    BY <1>1, <2>2
  <2> QED
    BY <2>1, <2>2, <2>3, BackingKept
<1>4. ASSUME NEW o \in Oracle, NEW n \in StakeAmounts, Unstake(o, n)
      PROVE  StakesAreBacked'
  <2>1. n \in Int /\ n > 0 /\ stake' = [stake EXCEPT ![o] = stake[o] - n] /\ vault' = vault
    BY <1>1, <1>4 DEF Unstake
  <2>2. SumFunction(stake') = SumFunction(stake) - n /\ SumFunction(stake) \in Int
    <3>1. stake[o] \in Int /\ stake[o] - n \in Int
      BY <1>1, <2>1
    <3>2. /\ SumFunction(stake') = SumFunction(stake) + (stake[o] - n) - stake[o]
          /\ SumFunction(stake) \in Int
      BY <2>1, <3>1, StakeSum
    <3> QED
      BY <2>1, <3>1, <3>2
  <2>3. SumFunction(vault) \in Int
    BY VaultSum
  <2> QED
    BY <2>1, <2>2, <2>3 DEF StakesAreBacked
<1>5. ASSUME NEW o \in Oracle, ClaimUnstake(o)
      PROVE  StakesAreBacked'
  <2>0. PICK n \in Int : n = 0
    OBVIOUS
  <2>1. /\ stake' = [stake EXCEPT ![o] = n]
        /\ vault' = [vault EXCEPT ![token] = vault[token] - stake[o]]
    BY <1>5, <2>0 DEF ClaimUnstake
  <2>2. vault[token] - stake[o] \in Int
    BY <1>1
  <2>3. n + vault[token] <= (vault[token] - stake[o]) + stake[o]
    BY <1>1, <2>0
  <2> QED
    BY <2>1, <2>2, <2>3, BackingKept
<1>6. ASSUME UNCHANGED <<stake, vault>>
      PROVE  StakesAreBacked'
  BY <1>6 DEF StakesAreBacked
<1>7. ASSUME NEW caller \in OracleAdmins,
             \/ \E a \in OracleAdmins : TransferAdmin(caller, a)
             \/ \E o \in Oracle : AddOracle(caller, o)
             \/ \E c \in Configs : UpdateConfig(caller, c)
      PROVE  UNCHANGED <<stake, vault>>
  BY <1>7 DEF TransferAdmin, AddOracle, UpdateConfig
<1>8. Tick => UNCHANGED <<stake, vault>>
  BY DEF Tick
<1> QED
  BY <1>2, <1>3, <1>4, <1>5, <1>6, <1>7, <1>8 DEF StakingCalls

\* The vault pays out what the penalties take from all the stakes together.
LEMMA PenaltiesKeepBacking ==
  ASSUME StakingTypeOK, StakesAreBacked, NEW p \in Project, Penalize(p)
  PROVE  StakesAreBacked'
<1> DEFINE cut == Cut(p)
           token == config.stakingToken
           total == SumFunctionOnSet(cut, Oracle)
<1>1. cut \in [Oracle -> Nat]
  BY CutTypes
<1>2. DOMAIN cut = Oracle /\ DOMAIN stake = Oracle /\ stake \in [Oracle -> Nat]
  BY <1>1 DEF StakingTypeOK
<1>3. /\ stake' = [o \in Oracle |-> stake[o] - cut[o]]
      /\ vault' = [vault EXCEPT ![token] = vault[token] - SumFunction(cut)]
  BY DEF Penalize, Cut
<1> HIDE DEF cut
<1>4. total \in Int
  BY <1>1, SumProperties, StakingAssumption
<1>5. DOMAIN stake' = Oracle /\ stake' \in [Oracle -> Int]
  BY <1>1, <1>2, <1>3
<1>6. \A o \in Oracle : /\ stake'[o] \in Int /\ cut[o] \in Int
                        /\ stake[o] = stake'[o] + cut[o]
  BY <1>1, <1>2, <1>3
<1>7. SumFunctionOnSet(stake, Oracle) = SumFunctionOnSet(stake', Oracle) + total
  <2> DEFINE after == stake'
  <2>1. \A o \in Oracle : after[o] \in Int /\ cut[o] \in Int /\ stake[o] = after[o] + cut[o]
    BY <1>6
  <2> HIDE DEF after
  <2>2. SumFunctionOnSet(stake, Oracle) = SumFunctionOnSet(after, Oracle) + total
    BY <2>1, SumAdds, StakingAssumption
  <2> QED
    BY <2>2 DEF after
<1>8. SumFunctionOnSet(stake', Oracle) \in Int
  <2> DEFINE after == stake'
  <2>1. \A o \in Oracle : after[o] \in Int
    BY <1>6
  <2> HIDE DEF after
  <2>2. SumFunctionOnSet(after, Oracle) \in Int
    BY <2>1, SumProperties, StakingAssumption
  <2> QED
    BY <2>2 DEF after
<1>9. SumFunction(cut) = total
  BY <1>2 DEF SumFunction
<1>10. SumFunction(stake) = SumFunction(stake') + total /\ SumFunction(stake') \in Int
  BY <1>2, <1>5, <1>7, <1>8 DEF SumFunction
<1> HIDE DEF total
<1>11. vault[token] \in Int
  BY DEF StakingTypeOK, Configuration
<1>12. SumFunction(vault') = SumFunction(vault) - total /\ SumFunction(vault) \in Int
  <2>1. vault[token] - total \in Int
    BY <1>4, <1>11
  <2>2. /\ SumFunction(vault') = SumFunction(vault) + (vault[token] - total) - vault[token]
        /\ SumFunction(vault) \in Int
    BY <1>3, <1>9, <2>1, VaultSum
  <2> QED
    BY <1>4, <1>11, <2>2
<1> QED
  BY <1>4, <1>10, <1>12 DEF StakesAreBacked

\* The contract owns at least the sum of the stakes on record, over all staking
\* tokens it ever had, whatever stakes, claims, slashes and penalties there were.
THEOREM StakesBacked == OracleSpec => []StakesAreBacked
<1>1. OracleInit => StakesAreBacked
  <2> SUFFICES ASSUME OracleInit PROVE StakesAreBacked
    OBVIOUS
  <2>1. StakingTypeOK
    BY StakingAssumption DEF OracleInit, StakingInit, StakingTypeOK
  <2>2. stake = [o \in Oracle |-> 0] /\ DOMAIN stake = Oracle
    BY DEF OracleInit, StakingInit
  <2>3. SumFunctionOnSet(stake, Oracle) = 0
    <3>1. \A o \in Oracle : stake[o] = IF o = 0 THEN 0 ELSE 0
      BY <2>2
    <3>2. SumFunctionOnSet(stake, Oracle) = IF 0 \in Oracle THEN 0 ELSE 0
      BY <3>1, SumOfPoint, StakingAssumption
    <3> QED
      BY <3>2
  <2>4. SumFunction(vault) \in Nat
    <3>1. DOMAIN vault = StakingToken /\ \A t \in StakingToken : vault[t] \in Nat
      BY <2>1 DEF StakingTypeOK
    <3> QED
      BY <3>1, SumBoundsTerms, StakingAssumption DEF SumFunction
  <2> QED
    BY <2>2, <2>3, <2>4 DEF StakesAreBacked, SumFunction
<1>2. StakingTypeOK /\ StakesAreBacked /\ [OracleNext]_oracleVars => StakesAreBacked'
  <2> SUFFICES ASSUME StakingTypeOK, StakesAreBacked, [OracleNext]_oracleVars
               PROVE  StakesAreBacked'
    OBVIOUS
  <2>1. CASE \E caller \in OracleAdmins, o \in Oracle :
               RemoveOracle(caller, o, HasOpenSubmissions(o))
    BY <2>1 DEF RemoveOracle, StakesAreBacked
  <2>2. CASE UNCHANGED stakingVars
    BY <2>2 DEF stakingVars, StakesAreBacked
  <2> QED
    BY <2>1, <2>2, CallsKeepBacking, PenaltiesKeepBacking, StakingSteps
<1> QED
  BY <1>1, <1>2, StakingTypes, PTL DEF OracleSpec

--------------------------------------------------------------------------------
(***************************************************************************)
(* The quorum.                                                             *)
(***************************************************************************)

\* Once there are as many oracles as a window needs readings, remove_oracle and
\* update_config keep it so, and nothing else touches either number.
THEOREM QuorumStays == OracleSpec => QuorumIsKept
<1> DEFINE Kept == Cardinality(active) >= config.minOracles
                   => Cardinality(active') >= config'.minOracles
<1>1. StakingTypeOK /\ [OracleNext]_oracleVars => [Kept]_stakingVars
  <2> SUFFICES ASSUME StakingTypeOK, [OracleNext]_oracleVars,
                      Cardinality(active) >= config.minOracles
               PROVE  Cardinality(active') >= config'.minOracles
    OBVIOUS
  <2>1. /\ IsFiniteSet(active)
        /\ Cardinality(active) \in Nat
        /\ config.minOracles \in Nat
    BY StakingAssumption, FS_Subset, FS_CardinalityType DEF StakingTypeOK, Configuration
  <2>2. CASE \E caller \in OracleAdmins, o \in Oracle :
               RemoveOracle(caller, o, HasOpenSubmissions(o))
    <3>1. PICK o \in active :
            /\ active' = active \ {o}
            /\ Cardinality(active) > config.minOracles
            /\ config' = config
      BY <2>2 DEF RemoveOracle
    <3>2. Cardinality(active') = Cardinality(active) - 1
      BY <2>1, <3>1, FS_RemoveElement
    <3> QED
      BY <2>1, <3>1, <3>2
  <2>3. ASSUME NEW caller, NEW o, AddOracle(caller, o)
        PROVE  Cardinality(active') >= config'.minOracles
    <3>1. active' = active \cup {o} /\ o \notin active /\ config' = config
      BY <2>3 DEF AddOracle
    <3>2. Cardinality(active') = Cardinality(active) + 1
      BY <2>1, <3>1, FS_AddElement
    <3> QED
      BY <2>1, <3>1, <3>2
  <2>4. ASSUME NEW caller, NEW c \in Configs, UpdateConfig(caller, c)
        PROVE  Cardinality(active') >= config'.minOracles
    <3>1. c.minOracles \in Nat /\ c.minOracles <= Cardinality(active)
          /\ active' = active /\ config' = c
      BY <2>4, StakingAssumption DEF UpdateConfig, Configuration
    <3> QED
      BY <2>1, <3>1
  <2>5. ASSUME NEW caller,
               \/ \E a \in OracleAdmins : TransferAdmin(caller, a)
               \/ \E o \in Oracle, n \in StakeAmounts : Slash(caller, o, n)
        PROVE  UNCHANGED <<active, config>>
    BY <2>5 DEF TransferAdmin, Slash
  <2>6. ASSUME NEW o \in Oracle,
               \/ \E n \in StakeAmounts : Stake(o, n) \/ Unstake(o, n)
               \/ ClaimUnstake(o)
        PROVE  UNCHANGED <<active, config>>
    BY <2>6 DEF Stake, Unstake, ClaimUnstake
  <2>7. Tick => UNCHANGED <<active, config>>
    BY DEF Tick
  <2>8. ASSUME NEW p, Penalize(p) PROVE UNCHANGED <<active, config>>
    BY <2>8 DEF Penalize
  <2>9. UNCHANGED stakingVars => UNCHANGED <<active, config>>
    BY DEF stakingVars
  <2>10. CASE UNCHANGED <<active, config>>
    BY <2>10
  <2> QED
    BY <2>2, <2>3, <2>4, <2>5, <2>6, <2>7, <2>8, <2>9, <2>10, StakingSteps DEF StakingCalls
<1> QED
  BY <1>1, StakingTypes, PTL DEF OracleSpec, QuorumIsKept

--------------------------------------------------------------------------------
(***************************************************************************)
(* Type correctness of the windows.                                        *)
(***************************************************************************)

WindowPartTypes ==
  /\ oraclePaused \in BOOLEAN
  /\ pauseGuardian \in SUBSET WindowAdmins
  /\ window \in [Project -> Windows]
  /\ nonce \in [Project -> [Oracle -> Nat]]
  /\ commitment \in [Project -> [Oracle -> Nat]]
  /\ revealed \in [Project -> SUBSET Oracle]
  /\ submitted \in [Project -> SUBSET Oracle]
  /\ openProjects \subseteq Project
  /\ results \in [Project -> Seq(Seq(Readings))]
  /\ finalizedCount \in [Oracle -> Nat]
  /\ missedReveals \in [Oracle -> Nat]
  /\ accepted \in Nat

LEMMA ContributionTypes ==
  ASSUME NEW readings \in Seq(Readings), NEW o
  PROVE  Contributions(readings, o) \in Nat
<1>1. IsFiniteSet(DOMAIN readings)
  BY LenProperties, FS_Interval
<1>2. IsFiniteSet({i \in DOMAIN readings : readings[i].oracle = o})
  BY <1>1, FS_Subset
<1> QED
  BY <1>2, FS_CardinalityType DEF Contributions

\* Windows that calls write.
LEMMA FreshWindows ==
  ASSUME clock \in Nat
  PROVE  /\ Window("Commit", clock, 0, <<>>, FALSE) \in Windows
         /\ Window("Reveal", clock, 0, <<>>, FALSE) \in Windows
         /\ NoWindow \in Windows
<1>1. <<>> \in Seq(Readings)
  BY EmptySeq
<1> QED
  BY <1>1 DEF Window, NoWindow, Windows

LEMMA BegunWindows ==
  ASSUME NEW w \in Windows, NEW t \in Nat
  PROVE  [w EXCEPT !.phase = "Reveal", !.revealOpened = t] \in Windows
BY DEF Windows

LEMMA ChangedWindows ==
  ASSUME NEW w \in Windows, NEW readings \in Seq(Readings), NEW done \in BOOLEAN
  PROVE  /\ [w EXCEPT !.submissions = readings] \in Windows
         /\ [w EXCEPT !.submissions = readings, !.finalized = done] \in Windows
         /\ [w EXCEPT !.submissions = readings, !.phase = "Finalized", !.finalized = TRUE]
              \in Windows
BY DEF Windows

\* Appending a reading.
LEMMA OneMoreReading ==
  ASSUME NEW readings \in Seq(Readings), NEW o \in Oracle, NEW n \in Nat \ {0}
  PROVE  Append(readings, Reading(o, n)) \in Seq(Readings)
<1>1. Reading(o, n) \in Readings
  BY DEF Reading, Readings
<1> QED
  BY <1>1, AppendProperties

LEMMA RecordTypes ==
  ASSUME WindowPartTypes, NEW p \in Project, NEW readings \in Seq(Readings),
         RecordResult(p, readings)
  PROVE  /\ results' \in [Project -> Seq(Seq(Readings))]
         /\ finalizedCount' \in [Oracle -> Nat]
         /\ openProjects' \subseteq Project
<1>1. results' \in [Project -> Seq(Seq(Readings))]
  <2>1. Append(results[p], readings) \in Seq(Seq(Readings))
    BY AppendProperties DEF WindowPartTypes
  <2> QED
    BY <2>1 DEF RecordResult, WindowPartTypes
<1>2. finalizedCount' \in [Oracle -> Nat]
  <2>1. \A o \in Oracle : Contributions(readings, o) \in Nat
    BY ContributionTypes
  <2> QED
    BY <2>1 DEF RecordResult, WindowPartTypes
<1> QED
  BY <1>1, <1>2 DEF RecordResult, WindowPartTypes

LEMMA SubmitTypes ==
  ASSUME StakingTypeOK, WindowPartTypes, NEW o \in Oracle, NEW p \in Project,
         SubmitReading(o, p)
  PROVE  WindowPartTypes'
<1> DEFINE current == IF window[p] = NoWindow THEN Window("Reveal", clock, 0, <<>>, FALSE)
                                              ELSE window[p]
           readings == Append(current.submissions, Reading(o, nonce[p][o] + 1))
           done == Enough(readings)
<1>1. current \in Windows
  BY FreshWindows DEF StakingTypeOK, WindowPartTypes
<1>2. readings \in Seq(Readings)
  <2>1. current.submissions \in Seq(Readings)
    BY <1>1 DEF Windows
  <2>2. nonce[p][o] + 1 \in Nat \ {0}
    BY DEF WindowPartTypes
  <2> HIDE DEF current
  <2> QED
    BY <2>1, <2>2, OneMoreReading
<1>3. done \in BOOLEAN
  BY DEF Enough
<1>4. /\ window' = [window EXCEPT ![p] = [current EXCEPT !.submissions = readings,
                                                         !.finalized = done]]
      /\ nonce' = [nonce EXCEPT ![p][o] = @ + 1]
      /\ accepted' = accepted + 1
      /\ submitted' = [submitted EXCEPT ![p] = @ \cup {o}]
      /\ UNCHANGED <<pauseVars, commitment, revealed, missedReveals>>
      /\ \/ openProjects' = openProjects \cup {p} /\ UNCHANGED outcomes
         \/ RecordResult(p, readings)
  BY DEF SubmitReading
<1> HIDE DEF current, readings, done
<1>5. window' \in [Project -> Windows]
  <2>1. [current EXCEPT !.submissions = readings, !.finalized = done] \in Windows
    BY <1>1, <1>2, <1>3, ChangedWindows
  <2> QED
    BY <1>4, <2>1 DEF WindowPartTypes
<1>6. nonce' \in [Project -> [Oracle -> Nat]] /\ accepted' \in Nat
  BY <1>4 DEF WindowPartTypes
<1>7. submitted' \in [Project -> SUBSET Oracle]
  BY <1>4 DEF WindowPartTypes
<1>8. /\ results' \in [Project -> Seq(Seq(Readings))]
      /\ finalizedCount' \in [Oracle -> Nat]
      /\ openProjects' \subseteq Project
  <2>1. CASE openProjects' = openProjects \cup {p} /\ UNCHANGED outcomes
    BY <2>1 DEF outcomes, WindowPartTypes
  <2>2. CASE RecordResult(p, readings)
    BY <1>2, <2>2, RecordTypes
  <2> QED
    BY <1>4, <2>1, <2>2
<1> QED
  BY <1>4, <1>5, <1>6, <1>7, <1>8 DEF WindowPartTypes, pauseVars

LEMMA FinalizeTypes ==
  ASSUME WindowPartTypes, NEW p \in Project, NEW readings \in Seq(Readings),
         NEW commitments \in [Oracle -> Nat],
         FinalizeReveals(p, readings, commitments)
  PROVE  /\ window' \in [Project -> Windows]
         /\ commitment' \in [Project -> [Oracle -> Nat]]
         /\ revealed' \in [Project -> SUBSET Oracle]
         /\ results' \in [Project -> Seq(Seq(Readings))]
         /\ finalizedCount' \in [Oracle -> Nat]
         /\ openProjects' \subseteq Project
<1>1. window' \in [Project -> Windows]
  <2>1. [window[p] EXCEPT !.submissions = readings, !.phase = "Finalized", !.finalized = TRUE]
          \in Windows
    BY ChangedWindows DEF WindowPartTypes
  <2> QED
    BY <2>1 DEF FinalizeReveals, WindowPartTypes
<1>2. commitment' \in [Project -> [Oracle -> Nat]]
  BY DEF FinalizeReveals, WindowPartTypes
<1>3. revealed' \in [Project -> SUBSET Oracle]
  BY DEF FinalizeReveals, WindowPartTypes
<1> QED
  BY <1>1, <1>2, <1>3, RecordTypes DEF FinalizeReveals

LEMMA RevealTypes ==
  ASSUME WindowPartTypes, NEW o \in Oracle, NEW p \in Project, RevealReading(o, p)
  PROVE  WindowPartTypes'
<1> DEFINE readings == Append(window[p].submissions, Reading(o, commitment[p][o]))
<1>1. window[p] \in Windows /\ commitment[p] \in [Oracle -> Nat] /\ commitment[p][o] # 0
  BY DEF WindowPartTypes, RevealReading
<1>2. readings \in Seq(Readings)
  <2>1. window[p].submissions \in Seq(Readings)
    BY <1>1 DEF Windows
  <2> QED
    BY <1>1, <2>1, OneMoreReading
<1>3. /\ accepted' = accepted + 1
      /\ UNCHANGED <<pauseVars, nonce, submitted, missedReveals>>
      /\ \/ /\ window' = [window EXCEPT ![p].submissions = readings]
            /\ revealed' = [revealed EXCEPT ![p] = @ \cup {o}]
            /\ UNCHANGED <<commitment, openProjects, outcomes>>
         \/ FinalizeReveals(p, readings, commitment[p])
  BY DEF RevealReading
<1> HIDE DEF readings
<1>4. CASE /\ window' = [window EXCEPT ![p].submissions = readings]
           /\ revealed' = [revealed EXCEPT ![p] = @ \cup {o}]
           /\ UNCHANGED <<commitment, openProjects, outcomes>>
  <2>1. [window[p] EXCEPT !.submissions = readings] \in Windows
    BY <1>1, <1>2, ChangedWindows
  <2>2. window' = [window EXCEPT ![p] = [window[p] EXCEPT !.submissions = readings]]
    BY <1>4
  <2>3. window' \in [Project -> Windows]
    BY <2>1, <2>2 DEF WindowPartTypes
  <2>4. revealed' \in [Project -> SUBSET Oracle]
    BY <1>4 DEF WindowPartTypes
  <2> QED
    BY <1>3, <1>4, <2>3, <2>4 DEF WindowPartTypes, pauseVars, outcomes
<1>5. CASE FinalizeReveals(p, readings, commitment[p])
  <2>1. /\ window' \in [Project -> Windows]
        /\ commitment' \in [Project -> [Oracle -> Nat]]
        /\ revealed' \in [Project -> SUBSET Oracle]
        /\ results' \in [Project -> Seq(Seq(Readings))]
        /\ finalizedCount' \in [Oracle -> Nat]
        /\ openProjects' \subseteq Project
    BY <1>1, <1>2, <1>5, FinalizeTypes
  <2>2. accepted' \in Nat
    BY <1>3 DEF WindowPartTypes
  <2> QED
    BY <1>3, <2>1, <2>2 DEF WindowPartTypes, pauseVars
<1> QED
  BY <1>3, <1>4, <1>5

LEMMA FinalizeWindowTypes ==
  ASSUME WindowPartTypes, NEW p \in Project, FinalizeWindow(p)
  PROVE  WindowPartTypes'
<1> DEFINE kept == [o \in Oracle |-> IF o \in Missing(p) THEN 0 ELSE commitment[p][o]]
<1>1. window[p] \in Windows /\ window[p].submissions \in Seq(Readings)
  BY DEF WindowPartTypes, Windows
<1>2. kept \in [Oracle -> Nat]
  BY DEF WindowPartTypes
<1>3. missedReveals' \in [Oracle -> Nat]
  BY DEF FinalizeWindow, Penalize, WindowPartTypes
<1>4. /\ UNCHANGED <<pauseVars, nonce, submitted, accepted>>
      /\ \/ /\ commitment' = [commitment EXCEPT ![p] = kept]
            /\ UNCHANGED <<window, revealed, openProjects, outcomes>>
         \/ FinalizeReveals(p, window[p].submissions, kept)
  BY DEF FinalizeWindow
<1> HIDE DEF kept
<1>5. CASE /\ commitment' = [commitment EXCEPT ![p] = kept]
           /\ UNCHANGED <<window, revealed, openProjects, outcomes>>
  BY <1>2, <1>3, <1>4, <1>5 DEF WindowPartTypes, pauseVars, outcomes
<1>6. CASE FinalizeReveals(p, window[p].submissions, kept)
  BY <1>1, <1>2, <1>3, <1>4, <1>6, FinalizeTypes DEF WindowPartTypes, pauseVars
<1> QED
  BY <1>4, <1>5, <1>6

LEMMA OpenTypes ==
  ASSUME StakingTypeOK, WindowPartTypes, NEW caller, NEW p \in Project,
         OpenWindow(caller, p) \/ ResetWindow(caller, p)
  PROVE  WindowPartTypes'
<1>1. window' \in [Project -> Windows]
  <2>1. window' = [window EXCEPT ![p] = Window("Commit", clock, 0, <<>>, FALSE)]
    BY DEF OpenWindow, ResetWindow
  <2> QED
    BY <2>1, FreshWindows DEF StakingTypeOK, WindowPartTypes
<1>2. CASE OpenWindow(caller, p)
  BY <1>1, <1>2 DEF OpenWindow, WindowPartTypes, pauseVars, markers, outcomes
<1>3. CASE ResetWindow(caller, p)
  <2>1. commitment' \in [Project -> [Oracle -> Nat]]
    BY <1>3 DEF ResetWindow, WindowPartTypes
  <2>2. revealed' \in [Project -> SUBSET Oracle] /\ submitted' \in [Project -> SUBSET Oracle]
    BY <1>3 DEF ResetWindow, WindowPartTypes
  <2> QED
    BY <1>1, <1>3, <2>1, <2>2 DEF ResetWindow, WindowPartTypes, pauseVars, outcomes
<1> QED
  BY <1>2, <1>3

LEMMA CommitTypes ==
  ASSUME StakingTypeOK, WindowPartTypes, NEW o \in Oracle, NEW p \in Project,
         CommitReading(o, p)
  PROVE  WindowPartTypes'
<1>1. nonce' \in [Project -> [Oracle -> Nat]]
  BY DEF CommitReading, WindowPartTypes
<1>2. commitment' \in [Project -> [Oracle -> Nat]]
  BY DEF CommitReading, WindowPartTypes
<1>3. UNCHANGED <<oraclePaused, pauseGuardian, window, revealed, submitted, openProjects,
                  results, finalizedCount, missedReveals, accepted>>
  BY DEF CommitReading, pauseVars, outcomes
<1> QED
  BY <1>1, <1>2, <1>3 DEF WindowPartTypes

LEMMA BeginRevealTypes ==
  ASSUME StakingTypeOK, WindowPartTypes, NEW p \in Project, BeginRevealPhase(p)
  PROVE  WindowPartTypes'
<1> DEFINE begun == [window[p] EXCEPT !.phase = "Reveal", !.revealOpened = clock]
<1>1. window' \in [Project -> Windows]
  <2>1. begun \in Windows
    BY BegunWindows DEF StakingTypeOK, WindowPartTypes
  <2>2. window' = [window EXCEPT ![p] = begun]
    BY DEF BeginRevealPhase
  <2> QED
    BY <2>1, <2>2 DEF WindowPartTypes
<1> QED
  BY <1>1 DEF BeginRevealPhase, WindowPartTypes, pauseVars, markers, outcomes

\* A call that touches no window, commitment, reveal, result or count.
LEMMA PauseTypes ==
  ASSUME WindowPartTypes, NEW caller,
         \/ \E value \in BOOLEAN : SetOraclePaused(caller, value)
         \/ \E guardian \in WindowAdmins : SetOracleGuardian(caller, guardian)
  PROVE  WindowPartTypes'
<1>1. /\ oraclePaused' \in BOOLEAN
      /\ pauseGuardian' \in SUBSET WindowAdmins
      /\ UNCHANGED <<window, nonce, markers, openProjects, outcomes, missedReveals, accepted>>
  BY DEF WindowPartTypes, SetOraclePaused, SetOracleGuardian
<1> QED
  BY <1>1 DEF WindowPartTypes, markers, outcomes

LEMMA WindowTypesInductive ==
  ASSUME StakingTypeOK, WindowPartTypes, [OracleNext]_oracleVars
  PROVE  WindowPartTypes'
<1>1. CASE UNCHANGED windowVars
  BY <1>1 DEF windowVars, pauseVars, markers, outcomes, WindowPartTypes
<1> QED
  BY <1>1, SubmitTypes, RevealTypes, FinalizeWindowTypes, OpenTypes, CommitTypes,
     BeginRevealTypes, PauseTypes
     DEF OracleNext, oracleVars

\* Windows hold readings with a nonce, results hold sequences of them, commitments
\* and counts are natural numbers: whatever the order of direct submissions,
\* commitments, reveals, resets, finalizations and changes of configuration.
THEOREM WindowTypes == OracleSpec => []WindowTypeOK
<1>1. OracleInit => WindowPartTypes
  <2> SUFFICES ASSUME OracleInit PROVE WindowPartTypes
    OBVIOUS
  <2>1. NoWindow \in Windows
    BY FreshWindows, StakingAssumption DEF OracleInit, StakingInit
  <2>2. <<>> \in Seq(Seq(Readings))
    BY EmptySeq
  <2>3. /\ nonce \in [Project -> [Oracle -> Nat]]
        /\ commitment \in [Project -> [Oracle -> Nat]]
        /\ finalizedCount \in [Oracle -> Nat]
        /\ missedReveals \in [Oracle -> Nat]
        /\ accepted \in Nat
    BY DEF OracleInit
  <2>4. window \in [Project -> Windows] /\ results \in [Project -> Seq(Seq(Readings))]
    BY <2>1, <2>2 DEF OracleInit
  <2>5. /\ oraclePaused \in BOOLEAN
        /\ pauseGuardian \in SUBSET WindowAdmins
        /\ revealed \in [Project -> SUBSET Oracle]
        /\ submitted \in [Project -> SUBSET Oracle]
        /\ openProjects \subseteq Project
    BY DEF OracleInit
  <2> QED
    BY <2>3, <2>4, <2>5 DEF WindowPartTypes
<1>2. StakingTypeOK /\ WindowPartTypes /\ [OracleNext]_oracleVars => WindowPartTypes'
  BY WindowTypesInductive
<1>3. StakingTypeOK /\ WindowPartTypes => WindowTypeOK
  BY DEF WindowPartTypes, WindowTypeOK
<1> QED
  BY <1>1, <1>2, <1>3, StakingTypes, PTL DEF OracleSpec

--------------------------------------------------------------------------------
(***************************************************************************)
(* How a step changes the window of a project.                             *)
(***************************************************************************)

\* A step opens or resets the window, adds one reading to one that was not
\* finalized, finalizes the readings there are, or changes the phase alone.
WindowChange(p, old, new) ==
  \/ new = old
  \/ new = Window("Commit", clock, 0, <<>>, FALSE)
  \/ /\ new.submissions = old.submissions
     /\ new.finalized = old.finalized
     /\ new.phase = "Reveal"
  \/ /\ ~old.finalized
     /\ new.submissions = old.submissions
     /\ new.finalized
     /\ p \notin openProjects'
  \/ \E reading \in Readings :
       LET readings == Append(old.submissions, reading)
       IN  /\ ~old.finalized
           /\ new.submissions = readings
           /\ new # NoWindow
           /\ \/ Enough(readings) /\ new.finalized /\ p \notin openProjects'
              \/ ~Enough(readings) /\ ~new.finalized

\* The windows of the other projects stay as they are, and only the project whose
\* window changes enters the index of open windows.
LEMMA WindowSteps ==
  ASSUME StakingTypeOK, WindowPartTypes, [OracleNext]_oracleVars
  PROVE  \/ UNCHANGED <<window, openProjects>>
         \/ \E p \in Project :
              /\ window' = [window EXCEPT ![p] = window'[p]]
              /\ WindowChange(p, window[p], window'[p])
              /\ openProjects' \subseteq openProjects \cup {p}
              /\ p \in openProjects' /\ p \notin openProjects
                 => window'[p] # NoWindow /\ ~window'[p].finalized
<1> DEFINE Goal(p) ==
             /\ window' = [window EXCEPT ![p] = window'[p]]
             /\ WindowChange(p, window[p], window'[p])
             /\ openProjects' \subseteq openProjects \cup {p}
             /\ p \in openProjects' /\ p \notin openProjects
                => window'[p] # NoWindow /\ ~window'[p].finalized
<1>0. /\ window \in [Project -> Windows]
      /\ commitment \in [Project -> [Oracle -> Nat]]
      /\ nonce \in [Project -> [Oracle -> Nat]]
  BY DEF WindowPartTypes
<1>1. ASSUME NEW caller, NEW p \in Project, OpenWindow(caller, p) \/ ResetWindow(caller, p)
      PROVE  Goal(p)
  <2>1. /\ window' = [window EXCEPT ![p] = Window("Commit", clock, 0, <<>>, FALSE)]
        /\ openProjects' \in {openProjects, openProjects \cup {p}}
    BY <1>1 DEF OpenWindow, ResetWindow
  <2>2. window'[p] = Window("Commit", clock, 0, <<>>, FALSE)
    BY <1>0, <2>1
  <2>3. window'[p] # NoWindow /\ ~window'[p].finalized
    BY <2>2 DEF Window, NoWindow
  <2> QED
    BY <2>1, <2>2, <2>3 DEF WindowChange
<1>2. ASSUME NEW p \in Project, BeginRevealPhase(p)
      PROVE  Goal(p)
  <2>1. /\ window' = [window EXCEPT ![p] = [window[p] EXCEPT !.phase = "Reveal",
                                                             !.revealOpened = clock]]
        /\ openProjects' = openProjects
    BY <1>2 DEF BeginRevealPhase
  <2>2. window'[p] = [window[p] EXCEPT !.phase = "Reveal", !.revealOpened = clock]
    BY <1>0, <2>1
  <2>3. /\ window'[p].submissions = window[p].submissions
        /\ window'[p].finalized = window[p].finalized
        /\ window'[p].phase = "Reveal"
    BY <1>0, <2>2 DEF Windows
  <2> QED
    BY <2>1, <2>2, <2>3 DEF WindowChange
<1>3. ASSUME NEW p \in Project, NEW readings, NEW commitments,
             FinalizeReveals(p, readings, commitments)
      PROVE  /\ window' = [window EXCEPT ![p] = window'[p]]
             /\ window'[p].submissions = readings
             /\ window'[p].finalized
             /\ window'[p] # NoWindow
             /\ openProjects' = openProjects \ {p}
  <2>1. window' = [window EXCEPT ![p] = [window[p] EXCEPT !.submissions = readings,
                                                          !.phase = "Finalized",
                                                          !.finalized = TRUE]]
    BY <1>3 DEF FinalizeReveals
  <2>2. window'[p] = [window[p] EXCEPT !.submissions = readings, !.phase = "Finalized",
                                       !.finalized = TRUE]
    BY <1>0, <2>1
  <2>3. /\ window'[p].submissions = readings
        /\ window'[p].finalized
        /\ window'[p].phase = "Finalized"
    BY <1>0, <2>2 DEF Windows
  <2>4. openProjects' = openProjects \ {p}
    BY <1>3 DEF FinalizeReveals, RecordResult
  <2>5. window'[p] # NoWindow
    BY <2>3 DEF NoWindow, Window
  <2>6. window' = [window EXCEPT ![p] = window'[p]]
    BY <2>1, <2>2
  <2> QED
    BY <2>3, <2>4, <2>5, <2>6
<1>4. ASSUME NEW p \in Project, FinalizeWindow(p)
      PROVE  Goal(p) \/ UNCHANGED <<window, openProjects>>
  <2>1. CASE UNCHANGED <<window, openProjects>>
    BY <2>1
  <2>2. ASSUME NEW kept, FinalizeReveals(p, window[p].submissions, kept)
        PROVE  Goal(p)
    <3>1. ~window[p].finalized
      BY <1>4 DEF FinalizeWindow
    <3> QED
      BY <1>3, <2>2, <3>1 DEF WindowChange
  <2> QED
    BY <1>4, <2>1, <2>2 DEF FinalizeWindow
<1>5. ASSUME NEW o \in Oracle, NEW p \in Project, RevealReading(o, p)
      PROVE  Goal(p)
  <2> DEFINE reading == Reading(o, commitment[p][o])
             readings == Append(window[p].submissions, reading)
  <2>1. /\ ~window[p].finalized
        /\ window[p].phase = "Reveal"
        /\ commitment[p][o] # 0
    BY <1>5 DEF RevealReading
  <2>2. reading \in Readings
    BY <1>0, <2>1 DEF Reading, Readings
  <2>3. \/ /\ ~Enough(readings)
           /\ window' = [window EXCEPT ![p].submissions = readings]
           /\ openProjects' = openProjects
        \/ /\ Enough(readings)
           /\ FinalizeReveals(p, readings, commitment[p])
    BY <1>5 DEF RevealReading
  <2> HIDE DEF reading
  <2>4. CASE /\ ~Enough(readings)
             /\ window' = [window EXCEPT ![p].submissions = readings]
             /\ openProjects' = openProjects
    <3>1. window'[p] = [window[p] EXCEPT !.submissions = readings]
          /\ window' = [window EXCEPT ![p] = window'[p]]
      BY <1>0, <2>4
    <3>2. /\ window'[p].submissions = readings
          /\ ~window'[p].finalized
          /\ window'[p] # NoWindow
      BY <1>0, <2>1, <3>1 DEF Windows, NoWindow, Window
    <3> QED
      BY <2>1, <2>2, <2>4, <3>1, <3>2 DEF WindowChange
  <2>5. CASE Enough(readings) /\ FinalizeReveals(p, readings, commitment[p])
    BY <1>3, <2>1, <2>2, <2>5 DEF WindowChange
  <2> QED
    BY <2>3, <2>4, <2>5
<1>6. ASSUME NEW o \in Oracle, NEW p \in Project, SubmitReading(o, p)
      PROVE  Goal(p)
  <2> DEFINE current == IF window[p] = NoWindow THEN Window("Reveal", clock, 0, <<>>, FALSE)
                                                ELSE window[p]
             reading == Reading(o, nonce[p][o] + 1)
             readings == Append(current.submissions, reading)
             done == Enough(readings)
  <2>1. /\ ~current.finalized
        /\ window' = [window EXCEPT ![p] = [current EXCEPT !.submissions = readings,
                                                           !.finalized = done]]
        /\ \/ ~done /\ openProjects' = openProjects \cup {p}
           \/ done /\ openProjects' = openProjects \ {p}
    BY <1>6 DEF SubmitReading, RecordResult
  <2>2. reading \in Readings
    BY <1>0 DEF Reading, Readings
  <2>3. current \in Windows
    BY <1>0, FreshWindows DEF StakingTypeOK
  <2>4. /\ current.submissions = window[p].submissions
        /\ current.finalized = window[p].finalized
    <3>1. CASE window[p] = NoWindow
      BY <3>1 DEF Window, NoWindow
    <3>2. CASE window[p] # NoWindow
      BY <3>2
    <3> QED
      BY <3>1, <3>2
  <2>5. window'[p] = [current EXCEPT !.submissions = readings, !.finalized = done]
        /\ window' = [window EXCEPT ![p] = window'[p]]
    BY <1>0, <2>1
  <2>6. window'[p].submissions = readings /\ window'[p].finalized = done
    <3> HIDE DEF current, readings, done
    <3> QED
      BY <2>3, <2>5 DEF Windows
  <2>7. readings # <<>>
    <3>1. current.submissions \in Seq(Readings)
      BY <2>3 DEF Windows
    <3> HIDE DEF current, reading
    <3> QED
      BY <2>2, <3>1, AppendProperties
  <2>8. window'[p] # NoWindow
    BY <2>6, <2>7 DEF NoWindow, Window
  <2>9. ~window[p].finalized
    BY <2>1, <2>4
  <2> HIDE DEF current, reading
  <2> QED
    BY <2>1, <2>2, <2>4, <2>5, <2>6, <2>8, <2>9 DEF WindowChange
<1>7. ASSUME NEW caller,
             \/ \E value \in BOOLEAN : SetOraclePaused(caller, value)
             \/ \E guardian \in WindowAdmins : SetOracleGuardian(caller, guardian)
      PROVE  UNCHANGED <<window, openProjects>>
  BY <1>7 DEF SetOraclePaused, SetOracleGuardian
<1>8. ASSUME NEW o \in Oracle, NEW p \in Project, CommitReading(o, p)
      PROVE  UNCHANGED <<window, openProjects>>
  BY <1>8 DEF CommitReading
<1>9. UNCHANGED windowVars => UNCHANGED <<window, openProjects>>
  BY DEF windowVars
<1>10. UNCHANGED oracleVars => UNCHANGED windowVars
  BY DEF oracleVars
<1> HIDE DEF Goal
<1>11. UNCHANGED <<window, openProjects>> \/ \E p \in Project : Goal(p)
  BY <1>1, <1>2, <1>4, <1>5, <1>6, <1>7, <1>8, <1>9, <1>10 DEF OracleNext
<1> QED
  BY <1>11 DEF Goal

--------------------------------------------------------------------------------
(***************************************************************************)
(* The buffer of the median and the index of open windows.                 *)
(***************************************************************************)

\* A window that is not finalized has room for one reading more.
RoomForOneMore ==
  \A p \in Project :
    /\ Len(window[p].submissions) <= HardLimit
    /\ ~window[p].finalized => Len(window[p].submissions) < HardLimit

\* Through any sequence of configurations, and with readings arriving by both paths,
\* median_i64 gets no more readings than its fixed buffer holds: a window that
\* waits has fewer readings than some quorum that was once configured.
THEOREM BufferFits == OracleSpec => []MedianBufferFits
<1>1. OracleInit => RoomForOneMore
  <2>1. HardLimit \in Nat /\ InitialConfig \in Configuration /\ Consistent(InitialConfig)
    BY StakingAssumption
  <2>2. 0 < HardLimit
    BY <2>1 DEF Consistent, Configuration
  <2>3. Len(<<>>) = 0
    BY EmptySeq
  <2> QED
    BY <2>1, <2>2, <2>3 DEF OracleInit, RoomForOneMore, NoWindow, Window
<1>2. StakingTypeOK /\ WindowTypeOK /\ RoomForOneMore /\ [OracleNext]_oracleVars
      => RoomForOneMore'
  <2> SUFFICES ASSUME StakingTypeOK, WindowTypeOK, RoomForOneMore, [OracleNext]_oracleVars
               PROVE  RoomForOneMore'
    OBVIOUS
  <2>1. WindowPartTypes
    BY DEF WindowTypeOK, WindowPartTypes
  <2>2. CASE UNCHANGED <<window, openProjects>>
    BY <2>2 DEF RoomForOneMore
  <2>3. ASSUME NEW p \in Project,
               window' = [window EXCEPT ![p] = window'[p]],
               WindowChange(p, window[p], window'[p])
        PROVE  RoomForOneMore'
    <3> DEFINE old == window[p]
               new == window'[p]
    <3>1. window \in [Project -> Windows] /\ old \in Windows
      BY <2>1 DEF WindowPartTypes
    <3>2. /\ old.submissions \in Seq(Readings)
          /\ Len(old.submissions) \in Nat
          /\ Len(old.submissions) <= HardLimit
          /\ ~old.finalized => Len(old.submissions) < HardLimit
      BY <3>1, LenProperties DEF Windows, RoomForOneMore
    <3>3. /\ HardLimit \in Nat
          /\ config.minOracles \in Nat
          /\ 0 < HardLimit
          /\ config.minOracles <= HardLimit
      BY StakingAssumption DEF StakingTypeOK, Configuration, Consistent
    <3> DEFINE Fits == /\ Len(new.submissions) <= HardLimit
                       /\ ~new.finalized => Len(new.submissions) < HardLimit
    <3>4. ASSUME new = old PROVE Fits
      BY <3>2, <3>4
    <3>5. ASSUME new = Window("Commit", clock, 0, <<>>, FALSE) PROVE Fits
      <4>1. new.submissions = <<>> /\ Len(<<>>) = 0
        BY <3>5, EmptySeq DEF Window
      <4> QED
        BY <3>3, <4>1
    <3>6. ASSUME new.submissions = old.submissions, new.finalized = old.finalized \/ new.finalized
          PROVE  Fits
      BY <3>2, <3>6
    <3>7. ASSUME NEW reading \in Readings,
                 ~old.finalized,
                 new.submissions = Append(old.submissions, reading),
                 Enough(Append(old.submissions, reading)) \/ ~new.finalized,
                 ~Enough(Append(old.submissions, reading)) \/ new.finalized
          PROVE  Fits
      <4>1. Len(new.submissions) = Len(old.submissions) + 1
        BY <3>2, <3>7, AppendProperties
      <4>2. Len(new.submissions) <= HardLimit
        BY <3>2, <3>3, <3>7, <4>1
      <4>3. ~new.finalized => Len(new.submissions) < config.minOracles
        BY <3>2, <3>3, <3>7, <4>1 DEF Enough
      <4> QED
        BY <3>2, <3>3, <4>1, <4>2, <4>3
    <3> HIDE DEF old, new
    <3>8. Fits
      BY <2>3, <3>4, <3>5, <3>6, <3>7 DEF WindowChange, old, new
    <3>9. \A q \in Project : q # p => window'[q] = window[q]
      BY <2>3, <3>1
    <3> QED
      BY <3>8, <3>9 DEF RoomForOneMore, new
  <2> QED
    BY <2>1, <2>2, <2>3, WindowSteps
<1>3. RoomForOneMore => MedianBufferFits
  BY DEF RoomForOneMore, MedianBufferFits
<1> QED
  BY <1>1, <1>2, <1>3, StakingTypes, WindowTypes, PTL DEF OracleSpec

\* The index that max_open_windows is compared with holds no finalized window and no
\* project without one, by whichever path a window was opened, reset and finalized.
THEOREM IndexedAreOpen == OracleSpec => []IndexedProjectsAreOpen
<1>1. OracleInit => IndexedProjectsAreOpen
  BY DEF OracleInit, IndexedProjectsAreOpen
<1>2. StakingTypeOK /\ WindowTypeOK /\ IndexedProjectsAreOpen /\ [OracleNext]_oracleVars
      => IndexedProjectsAreOpen'
  <2> SUFFICES ASSUME StakingTypeOK, WindowTypeOK, IndexedProjectsAreOpen,
                      [OracleNext]_oracleVars
               PROVE  IndexedProjectsAreOpen'
    OBVIOUS
  <2>1. WindowPartTypes
    BY DEF WindowTypeOK, WindowPartTypes
  <2>2. CASE UNCHANGED <<window, openProjects>>
    BY <2>2 DEF IndexedProjectsAreOpen
  <2>3. ASSUME NEW p \in Project,
               window' = [window EXCEPT ![p] = window'[p]],
               WindowChange(p, window[p], window'[p]),
               openProjects' \subseteq openProjects \cup {p},
               p \in openProjects' /\ p \notin openProjects
                 => window'[p] # NoWindow /\ ~window'[p].finalized
        PROVE  IndexedProjectsAreOpen'
    <3> DEFINE old == window[p]
               new == window'[p]
    <3>1. window \in [Project -> Windows] /\ openProjects \subseteq Project
      BY <2>1 DEF WindowPartTypes
    <3>2. \A q \in openProjects : window[q] # NoWindow /\ ~window[q].finalized
      BY DEF IndexedProjectsAreOpen
    <3>3. ASSUME p \in openProjects, p \in openProjects'
          PROVE  new # NoWindow /\ ~new.finalized
      <4>1. old # NoWindow /\ ~old.finalized
        BY <3>2, <3>3
      <4>2. CASE new = Window("Commit", clock, 0, <<>>, FALSE)
        BY <4>2 DEF Window, NoWindow
      <4>3. new.phase = "Reveal" => new # NoWindow
        BY DEF Window, NoWindow
      <4> HIDE DEF old, new
      <4> QED
        BY <2>3, <3>3, <4>1, <4>2, <4>3 DEF WindowChange, old, new
    <3>4. \A q \in Project : q # p => window'[q] = window[q]
      BY <2>3, <3>1
    <3> QED
      BY <2>3, <3>1, <3>2, <3>3, <3>4 DEF IndexedProjectsAreOpen
  <2> QED
    BY <2>1, <2>2, <2>3, WindowSteps
<1> QED
  BY <1>1, <1>2, StakingTypes, WindowTypes, PTL DEF OracleSpec

--------------------------------------------------------------------------------
(***************************************************************************)
(* Counts and nonces.  A step touches the windows, commitments, reveals    *)
(* and nonces of one project only, so each sum over the projects changes   *)
(* with one term.                                                          *)
(***************************************************************************)

\* Sums of functions that differ at one point.
LEMMA SumDiffersAt ==
  ASSUME NEW S, IsFiniteSet(S), NEW f \in [S -> Int], NEW h \in [S -> Int], NEW a \in S,
         \A x \in S \ {a} : h[x] = f[x]
  PROVE  /\ SumFunction(f) \in Int
         /\ SumFunction(h) = SumFunction(f) + h[a] - f[a]
<1>1. h = [f EXCEPT ![a] = h[a]]
  OBVIOUS
<1>2. h[a] \in Int
  OBVIOUS
<1>3. SumFunction([f EXCEPT ![a] = h[a]]) = SumFunction(f) + h[a] - f[a]
  BY <1>2, SumUpdate
<1>4. SumFunctionOnSet(f, S) \in Int
  <2>1. \A x \in S : f[x] \in Int
    OBVIOUS
  <2> QED
    BY <2>1, SumProperties
<1>5. DOMAIN f = S
  OBVIOUS
<1> QED
  BY <1>1, <1>3, <1>4, <1>5 DEF SumFunction

\* A reading more counts for its oracle.
LEMMA AppendedContribution ==
  ASSUME NEW s \in Seq(Readings), NEW r \in Readings, NEW o
  PROVE  Contributions(Append(s, r), o)
         = Contributions(s, o) + (IF r.oracle = o THEN 1 ELSE 0)
<1> DEFINE n == Len(s)
           t == Append(s, r)
           Of(q) == {i \in DOMAIN q : q[i].oracle = o}
<1>1. n \in Nat /\ DOMAIN s = 1 .. n
  BY LenProperties
<1>2. /\ t \in Seq(Readings)
      /\ Len(t) = n + 1
      /\ \A i \in 1 .. n : t[i] = s[i]
      /\ t[n + 1] = r
  BY AppendProperties
<1>3. DOMAIN t = 1 .. n + 1
  BY <1>1, <1>2, LenProperties
<1>4. IsFiniteSet(Of(s)) /\ (n + 1) \notin Of(s)
  <2>1. IsFiniteSet(DOMAIN s)
    BY <1>1, FS_Interval
  <2> QED
    BY <1>1, <2>1, FS_Subset
<1>5. Of(t) = IF r.oracle = o THEN Of(s) \cup {n + 1} ELSE Of(s)
  <2> HIDE DEF t, n
  <2>1. \A i : i \in 1 .. n + 1 <=> i \in 1 .. n \/ i = n + 1
    BY <1>1
  <2> QED
    BY <1>1, <1>2, <1>3, <2>1
<1>6. Cardinality(Of(s)) \in Nat
  BY <1>4, FS_CardinalityType
<1>7. Cardinality(Of(s) \cup {n + 1}) = Cardinality(Of(s)) + 1
  BY <1>4, FS_AddElement
<1>8. Cardinality(Of(t)) = Cardinality(Of(s)) + (IF r.oracle = o THEN 1 ELSE 0)
  <2> HIDE DEF Of, t, n
  <2> QED
    BY <1>5, <1>6, <1>7
<1> QED
  BY <1>8 DEF Contributions

LEMMA NoContribution ==
  ASSUME NEW o
  PROVE  Contributions(<<>>, o) = 0
<1>1. {i \in DOMAIN <<>> : <<>>[i].oracle = o} = {}
  OBVIOUS
<1> QED
  BY <1>1, FS_EmptySet DEF Contributions

--------------------------------------------------------------------------------
(***************************************************************************)
(* Nonces.                                                                 *)
(***************************************************************************)

\* What an oracle's nonces of one project wait for, and how many it used there.
Pending(o) == [p \in Project |-> Counting(p, o) + Awaited(p, o)]
Used(o) == [p \in Project |-> nonce[p][o]]

\* What is settled for an oracle.
Settled(o) == finalizedCount[o] + missedReveals[o]

SpentOnce(o) == Settled(o) + SumFunction(Pending(o)) <= SumFunction(Used(o))

LEMMA PendingTypes ==
  ASSUME WindowPartTypes, NEW o \in Oracle
  PROVE  /\ \A p \in Project : /\ Counting(p, o) \in Nat
                               /\ Awaited(p, o) \in {0, 1}
                               /\ nonce[p][o] \in Nat
         /\ Pending(o) \in [Project -> Int]
         /\ Used(o) \in [Project -> Int]
         /\ Settled(o) \in Nat
<1>1. ASSUME NEW p \in Project PROVE Counting(p, o) \in Nat
  <2>1. window[p].submissions \in Seq(Readings)
    BY DEF WindowPartTypes, Windows
  <2> QED
    BY <2>1, ContributionTypes DEF Counting
<1>2. \A p \in Project : Awaited(p, o) \in {0, 1}
  BY DEF Awaited
<1>3. \A p \in Project : nonce[p][o] \in Nat
  BY DEF WindowPartTypes
<1>4. Settled(o) \in Nat
  BY DEF WindowPartTypes, Settled
<1>5. \A p \in Project : Counting(p, o) + Awaited(p, o) \in Int
  BY <1>1, <1>2
<1>6. Pending(o) \in [Project -> Int]
  BY <1>5 DEF Pending
<1>7. Used(o) \in [Project -> Int]
  BY <1>3 DEF Used
<1> QED
  BY <1>1, <1>2, <1>3, <1>4, <1>6, <1>7

LEMMA SpentOnceIs ==
  NoncesSpentOnce <=> \A o \in Oracle : SpentOnce(o)
BY DEF NoncesSpentOnce, OverProjects, SpentOnce, Pending, Used, Settled

\* The project a step is about.
OthersKept(p) ==
  \A q \in Project \ {p} : /\ window'[q] = window[q]
                           /\ commitment'[q] = commitment[q]
                           /\ revealed'[q] = revealed[q]
                           /\ nonce'[q] = nonce[q]

\* What one project's nonces gain is no less than what is settled and pending.
Covered(p, o) ==
  Settled(o)' + (Counting(p, o)' + Awaited(p, o)') + nonce[p][o]
  <= Settled(o) + (Counting(p, o) + Awaited(p, o)) + nonce'[p][o]

LEMMA CoveredKeeps ==
  ASSUME WindowPartTypes, WindowPartTypes', NEW o \in Oracle, SpentOnce(o),
         NEW p \in Project, OthersKept(p), Covered(p, o)
  PROVE  SpentOnce(o)'
<1> DEFINE f == Pending(o)
           h == Pending(o)'
           u == Used(o)
           v == Used(o)'
<1>1. /\ f \in [Project -> Int] /\ u \in [Project -> Int] /\ Settled(o) \in Int
      /\ \A q \in Project : Counting(q, o) \in Int /\ Awaited(q, o) \in Int
      /\ nonce[p][o] \in Int
  BY PendingTypes
<1>2. /\ h \in [Project -> Int] /\ v \in [Project -> Int] /\ Settled(o)' \in Int
      /\ \A q \in Project : Counting(q, o)' \in Int /\ Awaited(q, o)' \in Int
      /\ nonce'[p][o] \in Int
  <2>1. ASSUME NEW q \in Project PROVE Counting(q, o)' \in Int
    <3>1. window'[q].submissions \in Seq(Readings)
      BY DEF WindowPartTypes, Windows
    <3> QED
      BY <3>1, ContributionTypes DEF Counting
  <2>2. \A q \in Project : Awaited(q, o)' \in Int
    BY DEF Awaited
  <2>3. \A q \in Project : nonce'[q][o] \in Int
    BY DEF WindowPartTypes
  <2>4. Settled(o)' \in Int
    BY DEF WindowPartTypes, Settled
  <2>5. h \in [Project -> Int]
    <3>1. \A q \in Project : Counting(q, o)' + Awaited(q, o)' \in Int
      BY <2>1, <2>2
    <3> QED
      BY <3>1 DEF Pending
  <2>6. v \in [Project -> Int]
    BY <2>3 DEF Used
  <2> QED
    BY <2>1, <2>2, <2>3, <2>4, <2>5, <2>6
<1>3. ASSUME NEW q \in Project \ {p}
      PROVE  h[q] = f[q] /\ v[q] = u[q]
  <2>1. Counting(q, o)' = Counting(q, o) /\ Awaited(q, o)' = Awaited(q, o)
    BY DEF OthersKept, Counting, Awaited
  <2> QED
    BY <2>1 DEF OthersKept, Pending, Used
<1>4. /\ f[p] = Counting(p, o) + Awaited(p, o)
      /\ h[p] = Counting(p, o)' + Awaited(p, o)'
      /\ u[p] = nonce[p][o]
      /\ v[p] = nonce'[p][o]
  BY DEF Pending, Used
<1>5. /\ SumFunction(f) \in Int
      /\ SumFunction(h) = SumFunction(f) + h[p] - f[p]
  <2> HIDE DEF f, h
  <2> QED
    BY <1>1, <1>2, <1>3, SumDiffersAt, WindowAssumption
<1>6. /\ SumFunction(u) \in Int
      /\ SumFunction(v) = SumFunction(u) + v[p] - u[p]
  <2> HIDE DEF u, v
  <2> QED
    BY <1>1, <1>2, <1>3, SumDiffersAt, WindowAssumption
<1>7. Settled(o) + SumFunction(f) <= SumFunction(u)
  BY DEF SpentOnce
<1>8. Settled(o)' + h[p] + u[p] <= Settled(o) + f[p] + v[p]
  BY <1>4 DEF Covered
<1>9. h[p] \in Int /\ f[p] \in Int /\ u[p] \in Int /\ v[p] \in Int
  BY <1>1, <1>2
<1> HIDE DEF f, h, u, v
<1>10. Settled(o)' + SumFunction(h) <= SumFunction(v)
  BY <1>1, <1>2, <1>5, <1>6, <1>7, <1>8, <1>9
<1> QED
  BY <1>10 DEF SpentOnce, h, v

\* What finalizing settles is what the result holds, and it leaves nothing pending
\* for an active oracle.
LEMMA FinalizeCovered ==
  ASSUME WindowPartTypes, NEW p \in Project, NEW readings \in Seq(Readings),
         NEW kept \in [Oracle -> Nat], FinalizeReveals(p, readings, kept),
         NEW o \in Oracle
  PROVE  /\ finalizedCount'[o] = finalizedCount[o] + Contributions(readings, o)
         /\ Contributions(readings, o) \in Nat
         /\ Counting(p, o)' = 0
         /\ o \in active => Awaited(p, o)' = 0
         /\ o \notin active => /\ commitment'[p][o] = kept[o]
                               /\ o \in revealed'[p] <=> o \in revealed[p]
         /\ \A q \in Project \ {p} : /\ window'[q] = window[q]
                                     /\ commitment'[q] = commitment[q]
                                     /\ revealed'[q] = revealed[q]
<1>0. /\ window \in [Project -> Windows]
      /\ commitment \in [Project -> [Oracle -> Nat]]
      /\ revealed \in [Project -> SUBSET Oracle]
  BY DEF WindowPartTypes
<1>1. finalizedCount'[o] = finalizedCount[o] + Contributions(readings, o)
  BY DEF FinalizeReveals, RecordResult
<1>2. Contributions(readings, o) \in Nat
  BY ContributionTypes
<1>3. window' = [window EXCEPT ![p] = [window[p] EXCEPT !.submissions = readings,
                                                        !.phase = "Finalized",
                                                        !.finalized = TRUE]]
  BY DEF FinalizeReveals
<1>4. window'[p].finalized
  BY <1>0, <1>3 DEF Windows
<1>5. commitment'[p] = [x \in Oracle |-> IF x \in active THEN 0 ELSE kept[x]]
  BY <1>0 DEF FinalizeReveals
<1>6. revealed'[p] = revealed[p] \ active
  BY <1>0 DEF FinalizeReveals
<1>7. \A q \in Project \ {p} : /\ window'[q] = window[q]
                               /\ commitment'[q] = commitment[q]
                               /\ revealed'[q] = revealed[q]
  BY <1>0, <1>3 DEF FinalizeReveals
<1>8. Counting(p, o)' = 0
  BY <1>4 DEF Counting
<1>9. o \in active => Awaited(p, o)' = 0
  BY <1>5 DEF Awaited
<1> QED
  BY <1>1, <1>2, <1>5, <1>6, <1>7, <1>8, <1>9

LEMMA RevealCovered ==
  ASSUME WindowPartTypes, NEW a \in Oracle, NEW p \in Project, RevealReading(a, p),
         NEW o \in Oracle
  PROVE  OthersKept(p) /\ Covered(p, o)
<1> DEFINE reading == Reading(a, commitment[p][a])
           readings == Append(window[p].submissions, reading)
<1>0. /\ window \in [Project -> Windows]
      /\ commitment \in [Project -> [Oracle -> Nat]]
      /\ revealed \in [Project -> SUBSET Oracle]
      /\ window[p].submissions \in Seq(Readings)
      /\ nonce[p][o] \in Nat /\ finalizedCount[o] \in Nat /\ missedReveals[o] \in Nat
  BY DEF WindowPartTypes, Windows
<1>1. /\ ~window[p].finalized /\ a \in active /\ commitment[p][a] # 0 /\ a \notin revealed[p]
      /\ UNCHANGED <<nonce, missedReveals>>
  BY DEF RevealReading, MayReport
<1>2. reading \in Readings /\ reading.oracle = a
  BY <1>0, <1>1 DEF Reading, Readings
<1> HIDE DEF reading
<1>3. /\ Contributions(readings, o)
         = Contributions(window[p].submissions, o) + (IF a = o THEN 1 ELSE 0)
      /\ Contributions(window[p].submissions, o) \in Nat
      /\ readings \in Seq(Readings)
  BY <1>0, <1>2, AppendedContribution, ContributionTypes, AppendProperties
<1>4. \/ /\ window' = [window EXCEPT ![p].submissions = readings]
         /\ revealed' = [revealed EXCEPT ![p] = @ \cup {a}]
         /\ UNCHANGED <<commitment, openProjects, outcomes>>
      \/ FinalizeReveals(p, readings, commitment[p])
  BY DEF RevealReading, reading
<1>5. Counting(p, o) = Contributions(window[p].submissions, o)
  BY <1>1 DEF Counting
<1>6. Awaited(p, o) \in {0, 1} /\ (a = o => Awaited(p, o) = 1)
  BY <1>1 DEF Awaited
<1> HIDE DEF readings
<1>7. CASE /\ window' = [window EXCEPT ![p].submissions = readings]
           /\ revealed' = [revealed EXCEPT ![p] = @ \cup {a}]
           /\ UNCHANGED <<commitment, openProjects, outcomes>>
  <2>1. window'[p].submissions = readings /\ ~window'[p].finalized
    BY <1>0, <1>1, <1>7 DEF Windows
  <2>2. Counting(p, o)' = Contributions(readings, o)
    BY <2>1 DEF Counting
  <2>3. Awaited(p, o)' = IF a = o THEN 0 ELSE Awaited(p, o)
    BY <1>0, <1>7 DEF Awaited
  <2>4. Settled(o)' = Settled(o)
    BY <1>1, <1>7 DEF Settled, outcomes
  <2>5. Settled(o) \in Nat
    BY <1>0 DEF Settled
  <2>6. Covered(p, o)
    BY <1>0, <1>1, <1>3, <1>5, <1>6, <2>2, <2>3, <2>4, <2>5 DEF Covered
  <2>7. OthersKept(p)
    BY <1>0, <1>1, <1>7 DEF OthersKept
  <2> QED
    BY <2>6, <2>7
<1>8. CASE FinalizeReveals(p, readings, commitment[p])
  <2>1. commitment[p] \in [Oracle -> Nat]
    BY <1>0
  <2>2. /\ finalizedCount'[o] = finalizedCount[o] + Contributions(readings, o)
        /\ Counting(p, o)' = 0
        /\ o \in active => Awaited(p, o)' = 0
        /\ o \notin active => /\ commitment'[p][o] = commitment[p][o]
                              /\ o \in revealed'[p] <=> o \in revealed[p]
        /\ \A q \in Project \ {p} : /\ window'[q] = window[q]
                                    /\ commitment'[q] = commitment[q]
                                    /\ revealed'[q] = revealed[q]
    BY <1>3, <1>8, <2>1, FinalizeCovered
  <2>3. Awaited(p, o)' = Awaited(p, o) \/ Awaited(p, o)' = 0
    BY <2>2 DEF Awaited
  <2>4. a = o => Awaited(p, o)' = 0
    BY <1>1, <2>2
  <2>5. Covered(p, o)
    BY <1>0, <1>1, <1>3, <1>5, <1>6, <2>2, <2>3, <2>4, SMTT(20) DEF Covered, Settled
  <2>6. OthersKept(p)
    BY <1>1, <2>2 DEF OthersKept
  <2> QED
    BY <2>5, <2>6
<1> QED
  BY <1>4, <1>7, <1>8

LEMMA FinalizeWindowCovered ==
  ASSUME WindowPartTypes, NEW p \in Project, FinalizeWindow(p), NEW o \in Oracle
  PROVE  OthersKept(p) /\ Covered(p, o)
<1> DEFINE kept == [x \in Oracle |-> IF x \in Missing(p) THEN 0 ELSE commitment[p][x]]
           readings == window[p].submissions
<1>0. /\ window \in [Project -> Windows]
      /\ commitment \in [Project -> [Oracle -> Nat]]
      /\ revealed \in [Project -> SUBSET Oracle]
      /\ readings \in Seq(Readings)
      /\ kept \in [Oracle -> Nat]
      /\ nonce[p][o] \in Nat /\ finalizedCount[o] \in Nat /\ missedReveals[o] \in Nat
  BY DEF WindowPartTypes, Windows
<1>1. /\ ~window[p].finalized
      /\ UNCHANGED nonce
      /\ missedReveals'[o] = IF o \in Missing(p) THEN missedReveals[o] + 1 ELSE missedReveals[o]
  BY DEF FinalizeWindow, Penalize
<1>2. \/ /\ commitment' = [commitment EXCEPT ![p] = kept]
         /\ UNCHANGED <<window, revealed, openProjects, outcomes>>
      \/ FinalizeReveals(p, readings, kept)
  BY DEF FinalizeWindow
<1>3. /\ kept[o] = IF o \in Missing(p) THEN 0 ELSE commitment[p][o]
      /\ Awaited(p, o) \in {0, 1}
      /\ o \in Missing(p) => Awaited(p, o) = 1 /\ o \in active
  BY DEF Awaited, Missing
<1>4. Counting(p, o) = Contributions(readings, o) /\ Contributions(readings, o) \in Nat
  BY <1>0, <1>1, ContributionTypes DEF Counting
<1> HIDE DEF kept, readings
<1>5. CASE /\ commitment' = [commitment EXCEPT ![p] = kept]
           /\ UNCHANGED <<window, revealed, openProjects, outcomes>>
  <2>1. Counting(p, o)' = Counting(p, o)
    BY <1>5 DEF Counting
  <2>2. Awaited(p, o)' = IF o \in Missing(p) THEN 0 ELSE Awaited(p, o)
    BY <1>0, <1>3, <1>5 DEF Awaited
  <2>3. Covered(p, o)
    BY <1>0, <1>1, <1>3, <1>4, <1>5, <2>1, <2>2 DEF Covered, Settled, outcomes
  <2>4. OthersKept(p)
    BY <1>0, <1>1, <1>5 DEF OthersKept
  <2> QED
    BY <2>3, <2>4
<1>6. CASE FinalizeReveals(p, readings, kept)
  <2>1. /\ finalizedCount'[o] = finalizedCount[o] + Contributions(readings, o)
        /\ Counting(p, o)' = 0
        /\ o \in active => Awaited(p, o)' = 0
        /\ o \notin active => /\ commitment'[p][o] = kept[o]
                              /\ o \in revealed'[p] <=> o \in revealed[p]
        /\ \A q \in Project \ {p} : /\ window'[q] = window[q]
                                    /\ commitment'[q] = commitment[q]
                                    /\ revealed'[q] = revealed[q]
    BY <1>0, <1>6, FinalizeCovered
  <2>2. Awaited(p, o)' = Awaited(p, o) \/ Awaited(p, o)' = 0
    BY <1>3, <2>1 DEF Awaited
  <2>3. o \in Missing(p) => Awaited(p, o)' = 0
    BY <1>3, <2>1
  <2>4. Covered(p, o)
    <3>1. nonce'[p][o] = nonce[p][o]
      BY <1>1
    <3>2. CASE o \in Missing(p)
      <4>1. missedReveals'[o] = missedReveals[o] + 1
        BY <1>1, <3>2
      <4>2. Settled(o)' = Settled(o) + Contributions(readings, o) + 1 /\ Settled(o) \in Nat
        <5>1. finalizedCount'[o] = finalizedCount[o] + Contributions(readings, o)
          BY <2>1
        <5>2. Settled(o) = finalizedCount[o] + missedReveals[o]
          BY DEF Settled
        <5>3. Settled(o)' = finalizedCount'[o] + missedReveals'[o]
          BY DEF Settled
        <5>4. /\ finalizedCount[o] \in Nat /\ missedReveals[o] \in Nat
              /\ Contributions(readings, o) \in Nat
          BY <1>0, <1>4
        <5> QED
          BY <4>1, <5>1, <5>2, <5>3, <5>4
      <4>3. Awaited(p, o)' = 0 /\ Awaited(p, o) = 1
        BY <1>3, <2>3, <3>2
      <4> QED
        BY <1>0, <1>4, <2>1, <3>1, <4>2, <4>3 DEF Covered
    <3>3. CASE o \notin Missing(p)
      BY <1>0, <1>1, <1>3, <1>4, <2>1, <2>2, <3>1, <3>3, SMTT(20) DEF Covered, Settled
    <3> QED
      BY <3>2, <3>3
  <2>5. OthersKept(p)
    BY <1>1, <2>1 DEF OthersKept
  <2> QED
    BY <2>4, <2>5
<1> QED
  BY <1>2, <1>5, <1>6

LEMMA SubmitCovered ==
  ASSUME StakingTypeOK, WindowPartTypes, NEW a \in Oracle, NEW p \in Project,
         SubmitReading(a, p), NEW o \in Oracle
  PROVE  OthersKept(p) /\ Covered(p, o)
<1> DEFINE current == IF window[p] = NoWindow THEN Window("Reveal", clock, 0, <<>>, FALSE)
                                              ELSE window[p]
           reading == Reading(a, nonce[p][a] + 1)
           readings == Append(current.submissions, reading)
           done == Enough(readings)
<1>0. /\ window \in [Project -> Windows]
      /\ nonce \in [Project -> [Oracle -> Nat]]
      /\ finalizedCount[o] \in Nat /\ missedReveals[o] \in Nat
  BY DEF WindowPartTypes
<1>1. /\ ~current.finalized
      /\ nonce' = [nonce EXCEPT ![p][a] = @ + 1]
      /\ window' = [window EXCEPT ![p] = [current EXCEPT !.submissions = readings,
                                                         !.finalized = done]]
      /\ \/ ~done /\ UNCHANGED outcomes
         \/ done /\ RecordResult(p, readings)
      /\ UNCHANGED <<commitment, revealed, missedReveals>>
  BY DEF SubmitReading
<1>2. reading \in Readings /\ reading.oracle = a
  BY <1>0 DEF Reading, Readings
<1>3. /\ current.submissions = window[p].submissions
      /\ current.finalized = window[p].finalized
      /\ current \in Windows
  <2>1. CASE window[p] = NoWindow
    BY <1>0, <2>1, FreshWindows DEF Window, NoWindow, StakingTypeOK
  <2>2. CASE window[p] # NoWindow
    BY <1>0, <2>2
  <2> QED
    BY <2>1, <2>2
<1> HIDE DEF current, reading
<1>4. /\ Contributions(readings, o)
         = Contributions(current.submissions, o) + (IF a = o THEN 1 ELSE 0)
      /\ Contributions(current.submissions, o) \in Nat
  <2>1. current.submissions \in Seq(Readings)
    BY <1>3 DEF Windows
  <2> QED
    BY <1>2, <2>1, AppendedContribution, ContributionTypes
<1>5. Counting(p, o) = Contributions(current.submissions, o)
  BY <1>1, <1>3 DEF Counting
<1>6. done \in BOOLEAN
  BY DEF Enough
<1>7. finalizedCount'[o] = IF done THEN finalizedCount[o] + Contributions(readings, o)
                                   ELSE finalizedCount[o]
  BY <1>1 DEF RecordResult, outcomes
<1> HIDE DEF readings, done
<1>8. window'[p].submissions = readings /\ window'[p].finalized = done
  BY <1>0, <1>1, <1>3 DEF Windows
<1>9. Counting(p, o)' = IF done THEN 0 ELSE Contributions(readings, o)
  BY <1>8 DEF Counting
<1>10. Awaited(p, o)' = Awaited(p, o) /\ Awaited(p, o) \in {0, 1}
  BY <1>1 DEF Awaited
<1>11. nonce'[p][o] = nonce[p][o] + (IF a = o THEN 1 ELSE 0) /\ nonce[p][o] \in Nat
  BY <1>0, <1>1
<1>12. missedReveals'[o] = missedReveals[o]
  BY <1>1
<1>13. Covered(p, o)
  <2>1. CASE done
    BY <1>0, <1>4, <1>5, <1>7, <1>9, <1>10, <1>11, <1>12, <2>1 DEF Covered, Settled
  <2>2. CASE ~done
    BY <1>0, <1>4, <1>5, <1>7, <1>9, <1>10, <1>11, <1>12, <2>2 DEF Covered, Settled
  <2> QED
    BY <2>1, <2>2
<1>14. OthersKept(p)
  BY <1>0, <1>1 DEF OthersKept
<1> QED
  BY <1>13, <1>14

LEMMA CommitCovered ==
  ASSUME WindowPartTypes, NEW a \in Oracle, NEW p \in Project, CommitReading(a, p),
         NEW o \in Oracle
  PROVE  OthersKept(p) /\ Covered(p, o)
<1>0. /\ nonce \in [Project -> [Oracle -> Nat]]
      /\ commitment \in [Project -> [Oracle -> Nat]]
      /\ finalizedCount[o] \in Nat /\ missedReveals[o] \in Nat
  BY DEF WindowPartTypes
<1>1. /\ commitment[p][a] = 0
      /\ nonce' = [nonce EXCEPT ![p][a] = @ + 1]
      /\ commitment' = [commitment EXCEPT ![p][a] = nonce[p][a] + 1]
      /\ UNCHANGED <<window, revealed, finalizedCount, missedReveals>>
  BY DEF CommitReading, outcomes
<1>2. nonce'[p][o] = nonce[p][o] + (IF a = o THEN 1 ELSE 0) /\ nonce[p][o] \in Nat
  BY <1>0, <1>1
<1>3. Counting(p, o)' = Counting(p, o) /\ Counting(p, o) \in Nat
  BY <1>1, PendingTypes DEF Counting
<1>4. /\ Awaited(p, o)' \in {0, 1} /\ Awaited(p, o) \in {0, 1}
      /\ a # o => Awaited(p, o)' = Awaited(p, o)
      /\ a = o => Awaited(p, o) = 0
  BY <1>0, <1>1 DEF Awaited
<1>5. Settled(o)' = Settled(o) /\ Settled(o) \in Nat
  BY <1>0, <1>1 DEF Settled
<1>6. Covered(p, o)
  BY <1>2, <1>3, <1>4, <1>5 DEF Covered
<1>7. OthersKept(p)
  BY <1>0, <1>1 DEF OthersKept
<1> QED
  BY <1>6, <1>7

\* A window opened or reset loses what waited in it.
LEMMA OpenCovered ==
  ASSUME WindowPartTypes, NEW caller, NEW p \in Project,
         OpenWindow(caller, p) \/ ResetWindow(caller, p), NEW o \in Oracle
  PROVE  OthersKept(p) /\ Covered(p, o)
<1>0. /\ window \in [Project -> Windows]
      /\ commitment \in [Project -> [Oracle -> Nat]]
      /\ revealed \in [Project -> SUBSET Oracle]
      /\ Settled(o) \in Nat
      /\ nonce[p][o] \in Nat
      /\ Counting(p, o) \in Nat /\ Awaited(p, o) \in {0, 1}
  BY PendingTypes DEF WindowPartTypes
<1>1. /\ window' = [window EXCEPT ![p] = Window("Commit", clock, 0, <<>>, FALSE)]
      /\ UNCHANGED <<nonce, finalizedCount, missedReveals>>
  BY DEF OpenWindow, ResetWindow, outcomes
<1>2. Counting(p, o)' = 0
  <2>1. window'[p].submissions = <<>>
    BY <1>0, <1>1 DEF Window
  <2> QED
    BY <2>1, NoContribution DEF Counting
<1>3. Awaited(p, o)' = Awaited(p, o) \/ Awaited(p, o)' = 0
  <2>1. CASE OpenWindow(caller, p)
    BY <2>1 DEF OpenWindow, Awaited, markers
  <2>2. CASE ResetWindow(caller, p)
    <3> DEFINE freed == active \cup OraclesOf(window[p].submissions)
    <3>1. /\ commitment'[p][o] = IF o \in freed THEN 0 ELSE commitment[p][o]
          /\ revealed'[p] = revealed[p] \ freed
      BY <1>0, <2>2 DEF ResetWindow
    <3> HIDE DEF freed
    <3> QED
      BY <3>1 DEF Awaited
  <2> QED
    BY <2>1, <2>2
<1>4. \A q \in Project \ {p} : commitment'[q] = commitment[q] /\ revealed'[q] = revealed[q]
  BY <1>0 DEF OpenWindow, ResetWindow, markers
<1>5. Covered(p, o)
  BY <1>0, <1>1, <1>2, <1>3 DEF Covered, Settled
<1>6. OthersKept(p)
  BY <1>0, <1>1, <1>4 DEF OthersKept
<1> QED
  BY <1>5, <1>6

LEMMA BeginRevealCovered ==
  ASSUME WindowPartTypes, NEW p \in Project, BeginRevealPhase(p), NEW o \in Oracle
  PROVE  OthersKept(p) /\ Covered(p, o)
<1>0. /\ window \in [Project -> Windows]
      /\ Settled(o) \in Nat
      /\ nonce[p][o] \in Nat
      /\ Counting(p, o) \in Nat /\ Awaited(p, o) \in {0, 1}
  BY PendingTypes DEF WindowPartTypes
<1>1. /\ window' = [window EXCEPT ![p] = [window[p] EXCEPT !.phase = "Reveal",
                                                           !.revealOpened = clock]]
      /\ UNCHANGED <<commitment, revealed, nonce, finalizedCount, missedReveals>>
  BY DEF BeginRevealPhase, markers, outcomes
<1>2. window'[p] = [window[p] EXCEPT !.phase = "Reveal", !.revealOpened = clock]
  BY <1>0, <1>1
<1>3. /\ window'[p].submissions = window[p].submissions
      /\ window'[p].finalized = window[p].finalized
  BY <1>0, <1>2 DEF Windows
<1>4. Counting(p, o)' = Counting(p, o)
  BY <1>3 DEF Counting
<1>5. Awaited(p, o)' = Awaited(p, o) /\ Settled(o)' = Settled(o)
  BY <1>1 DEF Awaited, Settled
<1>6. Covered(p, o)
  BY <1>0, <1>1, <1>4, <1>5 DEF Covered
<1>7. OthersKept(p)
  BY <1>0, <1>1 DEF OthersKept
<1> QED
  BY <1>6, <1>7

\* No nonce of an oracle is spent twice, be it on a reading in a result, a reading in
\* a window that waits, a commitment still to be revealed or a missed reveal: the
\* markers OracleSubmitted, OracleRevealed and Commitment together see to it, under
\* any order of direct submissions, commitments, reveals, resets and finalizations.
THEOREM NoncesOnce == OracleSpec => []NoncesSpentOnce
<1>1. OracleInit /\ WindowPartTypes => NoncesSpentOnce
  <2> SUFFICES ASSUME OracleInit, WindowPartTypes, NEW o \in Oracle PROVE SpentOnce(o)
    BY SpentOnceIs
  <2>1. \A p \in Project : Counting(p, o) = 0 /\ Awaited(p, o) = 0
    BY NoContribution DEF OracleInit, Counting, Awaited, NoWindow, Window
  <2>2. Settled(o) = 0
    BY DEF OracleInit, Settled
  <2> DEFINE zero == [p \in Project |-> 0]
  <2>3. Pending(o) = zero /\ Used(o) = zero
    BY <2>1 DEF OracleInit, Pending, Used
  <2>4. SumFunction(zero) \in Int
    <3>1. DOMAIN zero = Project /\ \A p \in Project : zero[p] \in Int
      OBVIOUS
    <3> HIDE DEF zero
    <3> QED
      BY <3>1, SumProperties, WindowAssumption DEF SumFunction
  <2> HIDE DEF zero
  <2> QED
    BY <2>2, <2>3, <2>4 DEF SpentOnce
<1>2. StakingTypeOK /\ WindowTypeOK /\ WindowTypeOK' /\ NoncesSpentOnce /\ [OracleNext]_oracleVars
      => NoncesSpentOnce'
  <2> SUFFICES ASSUME StakingTypeOK, WindowTypeOK, WindowTypeOK', NoncesSpentOnce,
                      [OracleNext]_oracleVars
               PROVE  \A o \in Oracle : SpentOnce(o)'
    BY DEF NoncesSpentOnce, OverProjects, SpentOnce, Pending, Used, Settled
  <2>1. WindowPartTypes /\ WindowPartTypes'
    BY DEF WindowTypeOK, WindowPartTypes
  <2>2. \A o \in Oracle : SpentOnce(o)
    BY SpentOnceIs
  <2>3. ASSUME UNCHANGED windowVars
        PROVE  \A o \in Oracle : SpentOnce(o)'
    BY <2>2, <2>3
       DEF windowVars, markers, outcomes, SpentOnce, Settled, Pending, Used, Counting, Awaited
  <2>4. ASSUME NEW p \in Project, \A o \in Oracle : OthersKept(p) /\ Covered(p, o)
        PROVE  \A o \in Oracle : SpentOnce(o)'
    BY <2>1, <2>2, <2>4, CoveredKeeps
  <2>5. ASSUME NEW caller,
               \/ \E value \in BOOLEAN : SetOraclePaused(caller, value)
               \/ \E guardian \in WindowAdmins : SetOracleGuardian(caller, guardian)
        PROVE  \A o \in Oracle : SpentOnce(o)'
    <3>1. UNCHANGED <<window, nonce, markers, outcomes, missedReveals>>
      BY <2>5 DEF SetOraclePaused, SetOracleGuardian
    <3> QED
      BY <2>2, <3>1
         DEF markers, outcomes, SpentOnce, Settled, Pending, Used, Counting, Awaited
  <2>6. UNCHANGED oracleVars => UNCHANGED windowVars
    BY DEF oracleVars
  <2> QED
    BY <2>1, <2>3, <2>4, <2>5, <2>6, SubmitCovered, CommitCovered, RevealCovered,
       FinalizeWindowCovered, OpenCovered, BeginRevealCovered
       DEF OracleNext
<1>3. WindowTypeOK => WindowPartTypes
  BY DEF WindowTypeOK, WindowPartTypes
<1> QED
  BY <1>1, <1>2, <1>3, StakingTypes, WindowTypes, PTL DEF OracleSpec

--------------------------------------------------------------------------------
(***************************************************************************)
(* Markers.                                                                *)
(***************************************************************************)

\* The markers an oracle has in a project, and that they cover its readings.
Markers(p, o) == (IF o \in revealed[p] THEN 1 ELSE 0) + (IF o \in submitted[p] THEN 1 ELSE 0)
Marked(p, o) == Counting(p, o) <= Markers(p, o)

LEMMA MarkersBounded ==
  ASSUME NEW p, NEW o
  PROVE  /\ Markers(p, o) \in {0, 1, 2}
         /\ o \notin revealed[p] \/ o \notin submitted[p] => Markers(p, o) <= 1
BY DEF Markers

LEMMA UnchangedMarks ==
  ASSUME NEW p, NEW o, Marked(p, o), window'[p].submissions = window[p].submissions,
         window'[p].finalized = window[p].finalized,
         revealed'[p] = revealed[p], submitted'[p] = submitted[p]
  PROVE  Marked(p, o)'
<1>1. Counting(p, o)' = Counting(p, o) /\ Markers(p, o)' = Markers(p, o)
  BY DEF Counting, Markers
<1> QED
  BY <1>1 DEF Marked

\* A window in which nothing waits needs no marker.
LEMMA NothingWaits ==
  ASSUME NEW p, NEW o, Counting(p, o)' = 0
  PROVE  Marked(p, o)'
<1>1. Markers(p, o)' \in {0, 1, 2}
  BY DEF Markers
<1> QED
  BY <1>1 DEF Marked

\* Either way of reporting adds a reading and its marker, which was not there; so
\* that what it finalizes holds no more than two readings of an oracle.
LEMMA SubmitMarks ==
  ASSUME StakingTypeOK, WindowPartTypes, NEW a \in Oracle, NEW p \in Project,
         SubmitReading(a, p), NEW o \in Oracle, Marked(p, o)
  PROVE  /\ Marked(p, o)'
         /\ \A q \in Project \ {p} : /\ window'[q] = window[q]
                                     /\ revealed'[q] = revealed[q]
                                     /\ submitted'[q] = submitted[q]
         /\ \/ UNCHANGED results
            \/ \E readings \in Seq(Readings) :
                 /\ results' = [results EXCEPT ![p] = Append(@, readings)]
                 /\ Contributions(readings, o) <= 2
<1> DEFINE current == IF window[p] = NoWindow THEN Window("Reveal", clock, 0, <<>>, FALSE)
                                              ELSE window[p]
           reading == Reading(a, nonce[p][a] + 1)
           readings == Append(current.submissions, reading)
           done == Enough(readings)
<1>0. /\ window \in [Project -> Windows]
      /\ nonce \in [Project -> [Oracle -> Nat]]
      /\ submitted \in [Project -> SUBSET Oracle]
  BY DEF WindowPartTypes
<1>1. /\ ~current.finalized /\ a \notin submitted[p]
      /\ submitted' = [submitted EXCEPT ![p] = @ \cup {a}]
      /\ window' = [window EXCEPT ![p] = [current EXCEPT !.submissions = readings,
                                                         !.finalized = done]]
      /\ \/ ~done /\ UNCHANGED outcomes
         \/ done /\ RecordResult(p, readings)
      /\ UNCHANGED revealed
  BY DEF SubmitReading
<1>2. reading \in Readings /\ reading.oracle = a
  BY <1>0 DEF Reading, Readings
<1>3. /\ current.submissions = window[p].submissions
      /\ current.finalized = window[p].finalized
      /\ current \in Windows
  <2>1. CASE window[p] = NoWindow
    BY <1>0, <2>1, FreshWindows DEF Window, NoWindow, StakingTypeOK
  <2>2. CASE window[p] # NoWindow
    BY <1>0, <2>2
  <2> QED
    BY <2>1, <2>2
<1> HIDE DEF current, reading
<1>4. current.submissions \in Seq(Readings)
  BY <1>3 DEF Windows
<1>5. /\ Contributions(readings, o)
         = Contributions(current.submissions, o) + (IF a = o THEN 1 ELSE 0)
      /\ Contributions(current.submissions, o) \in Nat
      /\ readings \in Seq(Readings)
  BY <1>2, <1>4, AppendedContribution, ContributionTypes, AppendProperties
<1>6. Counting(p, o) = Contributions(current.submissions, o)
  BY <1>1, <1>3 DEF Counting
<1>7. done \in BOOLEAN
  BY DEF Enough
<1> HIDE DEF readings, done
<1>8. window'[p].submissions = readings /\ window'[p].finalized = done
  BY <1>0, <1>1, <1>3, <1>7 DEF Windows
<1>9. submitted'[p] = submitted[p] \cup {a}
  BY <1>0, <1>1
<1>10. Markers(p, o)' = Markers(p, o) + (IF a = o THEN 1 ELSE 0)
  BY <1>1, <1>9 DEF Markers
<1>11. /\ Markers(p, o) \in {0, 1, 2}
       /\ a = o => Markers(p, o) <= 1
  BY <1>1, MarkersBounded
<1>12. Contributions(readings, o) <= Markers(p, o)' /\ Contributions(readings, o) <= 2
  BY <1>5, <1>6, <1>10, <1>11 DEF Marked
<1>13. Marked(p, o)'
  <2>1. CASE done
    BY <1>8, <2>1, NothingWaits DEF Counting
  <2>2. CASE ~done
    <3>1. Counting(p, o)' = Contributions(readings, o)
      BY <1>8, <2>2 DEF Counting
    <3> QED
      BY <1>12, <3>1 DEF Marked
  <2> QED
    BY <2>1, <2>2
<1>14. \A q \in Project \ {p} : /\ window'[q] = window[q]
                                /\ revealed'[q] = revealed[q]
                                /\ submitted'[q] = submitted[q]
  BY <1>0, <1>1
<1>15. UNCHANGED results \/ results' = [results EXCEPT ![p] = Append(@, readings)]
  BY <1>1 DEF outcomes, RecordResult
<1> QED
  BY <1>5, <1>12, <1>13, <1>14, <1>15

LEMMA RevealMarks ==
  ASSUME WindowPartTypes, NEW a \in Oracle, NEW p \in Project, RevealReading(a, p),
         NEW o \in Oracle, Marked(p, o)
  PROVE  /\ Marked(p, o)'
         /\ \A q \in Project \ {p} : /\ window'[q] = window[q]
                                     /\ revealed'[q] = revealed[q]
                                     /\ submitted'[q] = submitted[q]
         /\ \/ UNCHANGED results
            \/ \E readings \in Seq(Readings) :
                 /\ results' = [results EXCEPT ![p] = Append(@, readings)]
                 /\ Contributions(readings, o) <= 2
<1> DEFINE reading == Reading(a, commitment[p][a])
           readings == Append(window[p].submissions, reading)
<1>0. /\ window \in [Project -> Windows]
      /\ commitment \in [Project -> [Oracle -> Nat]]
      /\ revealed \in [Project -> SUBSET Oracle]
      /\ window[p].submissions \in Seq(Readings)
  BY DEF WindowPartTypes, Windows
<1>1. /\ ~window[p].finalized /\ commitment[p][a] # 0 /\ a \notin revealed[p]
      /\ UNCHANGED submitted
  BY DEF RevealReading
<1>2. reading \in Readings /\ reading.oracle = a
  BY <1>0, <1>1 DEF Reading, Readings
<1> HIDE DEF reading
<1>3. /\ Contributions(readings, o)
         = Contributions(window[p].submissions, o) + (IF a = o THEN 1 ELSE 0)
      /\ Contributions(window[p].submissions, o) \in Nat
      /\ readings \in Seq(Readings)
  BY <1>0, <1>2, AppendedContribution, ContributionTypes, AppendProperties
<1>4. \/ /\ window' = [window EXCEPT ![p].submissions = readings]
         /\ revealed' = [revealed EXCEPT ![p] = @ \cup {a}]
         /\ UNCHANGED <<commitment, openProjects, outcomes>>
      \/ FinalizeReveals(p, readings, commitment[p])
  BY DEF RevealReading, reading
<1>5. Counting(p, o) = Contributions(window[p].submissions, o)
  BY <1>1 DEF Counting
<1>6. /\ Markers(p, o) \in {0, 1, 2}
      /\ a = o => Markers(p, o) <= 1
  BY <1>1, MarkersBounded
<1>7. Contributions(readings, o) <= 2
  BY <1>3, <1>5, <1>6 DEF Marked
<1> HIDE DEF readings
<1>8. CASE /\ window' = [window EXCEPT ![p].submissions = readings]
           /\ revealed' = [revealed EXCEPT ![p] = @ \cup {a}]
           /\ UNCHANGED <<commitment, openProjects, outcomes>>
  <2>1. window'[p].submissions = readings /\ ~window'[p].finalized
    BY <1>0, <1>1, <1>8 DEF Windows
  <2>2. Counting(p, o)' = Contributions(readings, o)
    BY <2>1 DEF Counting
  <2>3. revealed'[p] = revealed[p] \cup {a}
    BY <1>0, <1>8
  <2>4. Markers(p, o)' = Markers(p, o) + (IF a = o THEN 1 ELSE 0)
    BY <1>1, <2>3 DEF Markers
  <2>5. Marked(p, o)'
    BY <1>3, <1>5, <1>6, <2>2, <2>4 DEF Marked
  <2>6. \A q \in Project \ {p} : /\ window'[q] = window[q]
                                 /\ revealed'[q] = revealed[q]
                                 /\ submitted'[q] = submitted[q]
    BY <1>0, <1>1, <1>8
  <2> QED
    BY <1>8, <2>5, <2>6 DEF outcomes
<1>9. CASE FinalizeReveals(p, readings, commitment[p])
  <2>1. commitment[p] \in [Oracle -> Nat]
    BY <1>0
  <2>2. /\ Counting(p, o)' = 0
        /\ \A q \in Project \ {p} : /\ window'[q] = window[q]
                                    /\ revealed'[q] = revealed[q]
    BY <1>3, <1>9, <2>1, FinalizeCovered
  <2>3. Marked(p, o)'
    BY <2>2, NothingWaits
  <2>4. results' = [results EXCEPT ![p] = Append(@, readings)]
    BY <1>9 DEF FinalizeReveals, RecordResult
  <2> QED
    BY <1>1, <1>3, <1>7, <2>2, <2>3, <2>4
<1> QED
  BY <1>4, <1>8, <1>9

\* A finalized window holds nothing that waits, and what it recorded is what waited.
LEMMA FinalizeMarks ==
  ASSUME WindowPartTypes, NEW p \in Project, FinalizeWindow(p), NEW o \in Oracle, Marked(p, o)
  PROVE  /\ Marked(p, o)'
         /\ \A q \in Project \ {p} : /\ window'[q] = window[q]
                                     /\ revealed'[q] = revealed[q]
                                     /\ submitted'[q] = submitted[q]
         /\ \/ UNCHANGED results
            \/ \E readings \in Seq(Readings) :
                 /\ results' = [results EXCEPT ![p] = Append(@, readings)]
                 /\ Contributions(readings, o) <= 2
<1> DEFINE kept == [x \in Oracle |-> IF x \in Missing(p) THEN 0 ELSE commitment[p][x]]
           readings == window[p].submissions
<1>0. /\ readings \in Seq(Readings)
      /\ kept \in [Oracle -> Nat]
  BY DEF WindowPartTypes, Windows
<1>1. /\ ~window[p].finalized /\ UNCHANGED submitted
      /\ \/ UNCHANGED <<window, revealed, openProjects, outcomes>>
         \/ FinalizeReveals(p, readings, kept)
  BY DEF FinalizeWindow
<1>2. Contributions(readings, o) <= 2
  <2>1. Counting(p, o) = Contributions(readings, o) /\ Contributions(readings, o) \in Nat
    BY <1>0, <1>1, ContributionTypes DEF Counting
  <2>2. Markers(p, o) \in {0, 1, 2}
    BY MarkersBounded
  <2> QED
    BY <2>1, <2>2 DEF Marked
<1> HIDE DEF kept, readings
<1>3. CASE UNCHANGED <<window, revealed, openProjects, outcomes>>
  BY <1>1, <1>3, UnchangedMarks DEF outcomes
<1>4. CASE FinalizeReveals(p, readings, kept)
  <2>1. /\ Counting(p, o)' = 0
        /\ \A q \in Project \ {p} : /\ window'[q] = window[q]
                                    /\ revealed'[q] = revealed[q]
    BY <1>0, <1>4, FinalizeCovered
  <2>2. Marked(p, o)'
    BY <2>1, NothingWaits
  <2>3. results' = [results EXCEPT ![p] = Append(@, readings)]
    BY <1>4 DEF FinalizeReveals, RecordResult
  <2> QED
    BY <1>0, <1>1, <1>2, <2>1, <2>2, <2>3
<1> QED
  BY <1>1, <1>3, <1>4

\* A window opened or reset has no readings, whatever markers are left of it.
LEMMA OpenMarks ==
  ASSUME WindowPartTypes, NEW caller, NEW p \in Project,
         OpenWindow(caller, p) \/ ResetWindow(caller, p), NEW o \in Oracle
  PROVE  /\ Marked(p, o)'
         /\ \A q \in Project \ {p} : /\ window'[q] = window[q]
                                     /\ revealed'[q] = revealed[q]
                                     /\ submitted'[q] = submitted[q]
         /\ UNCHANGED results
<1>0. /\ window \in [Project -> Windows]
      /\ revealed \in [Project -> SUBSET Oracle]
      /\ submitted \in [Project -> SUBSET Oracle]
  BY DEF WindowPartTypes
<1>1. window' = [window EXCEPT ![p] = Window("Commit", clock, 0, <<>>, FALSE)]
  BY DEF OpenWindow, ResetWindow
<1>2. window'[p].submissions = <<>>
  BY <1>0, <1>1 DEF Window
<1>3. Counting(p, o)' = 0
  BY <1>2, NoContribution DEF Counting
<1>4. \A q \in Project \ {p} : /\ window'[q] = window[q]
                               /\ revealed'[q] = revealed[q]
                               /\ submitted'[q] = submitted[q]
  BY <1>0, <1>1 DEF OpenWindow, ResetWindow, markers
<1> QED
  BY <1>3, <1>4, NothingWaits DEF OpenWindow, ResetWindow, outcomes

\* Every step keeps each oracle's readings in each project covered, and what it
\* records holds no more than two readings of an oracle.
LEMMA MarkedKept ==
  ASSUME StakingTypeOK, WindowPartTypes, [OracleNext]_oracleVars,
         NEW o \in Oracle, \A p \in Project : Marked(p, o)
  PROVE  /\ \A p \in Project : Marked(p, o)'
         /\ \/ UNCHANGED results
            \/ \E p \in Project, readings \in Seq(Readings) :
                 /\ results' = [results EXCEPT ![p] = Append(@, readings)]
                 /\ Contributions(readings, o) <= 2
<1> DEFINE Goal == /\ \A p \in Project : Marked(p, o)'
                   /\ \/ UNCHANGED results
                      \/ \E p \in Project, readings \in Seq(Readings) :
                           /\ results' = [results EXCEPT ![p] = Append(@, readings)]
                           /\ Contributions(readings, o) <= 2
<1>0. window \in [Project -> Windows]
  BY DEF WindowPartTypes
<1>1. ASSUME NEW p \in Project, Marked(p, o)',
             \A q \in Project \ {p} : /\ window'[q] = window[q]
                                      /\ revealed'[q] = revealed[q]
                                      /\ submitted'[q] = submitted[q]
      PROVE  \A q \in Project : Marked(q, o)'
  <2> SUFFICES ASSUME NEW q \in Project, q # p PROVE Marked(q, o)'
    BY <1>1
  <2>1. /\ window'[q] = window[q]
        /\ revealed'[q] = revealed[q]
        /\ submitted'[q] = submitted[q]
    BY <1>1
  <2> QED
    BY <2>1, UnchangedMarks
<1>2. ASSUME UNCHANGED <<window, revealed, submitted, results>> PROVE Goal
  BY <1>2, UnchangedMarks
<1>3. ASSUME NEW a \in Oracle, NEW p \in Project, SubmitReading(a, p) PROVE Goal
  BY <1>1, <1>3, SubmitMarks
<1>4. ASSUME NEW a \in Oracle, NEW p \in Project, RevealReading(a, p) PROVE Goal
  BY <1>1, <1>4, RevealMarks
<1>5. ASSUME NEW p \in Project, FinalizeWindow(p) PROVE Goal
  BY <1>1, <1>5, FinalizeMarks
<1>6. ASSUME NEW caller, NEW p \in Project, OpenWindow(caller, p) \/ ResetWindow(caller, p)
      PROVE  Goal
  BY <1>1, <1>6, OpenMarks
<1>7. ASSUME NEW a, NEW p \in Project, CommitReading(a, p) PROVE Goal
  BY <1>2, <1>7 DEF CommitReading, outcomes
<1>8. ASSUME NEW p \in Project, BeginRevealPhase(p) PROVE Goal
  <2>1. /\ window' = [window EXCEPT ![p] = [window[p] EXCEPT !.phase = "Reveal",
                                                             !.revealOpened = clock]]
        /\ UNCHANGED <<revealed, submitted, results>>
    BY <1>8 DEF BeginRevealPhase, markers, outcomes
  <2>2. /\ window'[p] = [window[p] EXCEPT !.phase = "Reveal", !.revealOpened = clock]
        /\ \A q \in Project \ {p} : window'[q] = window[q]
    BY <1>0, <2>1
  <2>3. /\ window'[p].submissions = window[p].submissions
        /\ window'[p].finalized = window[p].finalized
    BY <1>0, <2>2 DEF Windows
  <2>4. Marked(p, o)'
    BY <2>1, <2>3, UnchangedMarks
  <2> QED
    BY <1>1, <2>1, <2>2, <2>4
<1>9. ASSUME NEW caller,
             \/ \E value \in BOOLEAN : SetOraclePaused(caller, value)
             \/ \E guardian \in WindowAdmins : SetOracleGuardian(caller, guardian)
      PROVE  Goal
  BY <1>2, <1>9 DEF SetOraclePaused, SetOracleGuardian, markers, outcomes
<1>10. ASSUME UNCHANGED windowVars PROVE Goal
  BY <1>2, <1>10 DEF windowVars, markers, outcomes
<1>11. UNCHANGED oracleVars => UNCHANGED windowVars
  BY DEF oracleVars
<1> HIDE DEF Goal
<1>12. Goal
  BY <1>3, <1>4, <1>5, <1>6, <1>7, <1>8, <1>9, <1>10, <1>11 DEF OracleNext
<1> QED
  BY <1>12 DEF Goal

LEMMA MarkedInit ==
  ASSUME OracleInit, NEW p \in Project, NEW o \in Oracle
  PROVE  Marked(p, o)
<1>1. Counting(p, o) = 0
  BY NoContribution DEF OracleInit, Counting, NoWindow, Window
<1>2. Markers(p, o) \in {0, 1, 2}
  BY MarkersBounded
<1> QED
  BY <1>1, <1>2 DEF Marked

LEMMA MarkedIs == OneReadingPerPath <=> \A p \in Project, o \in Oracle : Marked(p, o)
BY DEF OneReadingPerPath, Marked, Markers

\* No oracle takes one path to a waiting window twice, through any sequence of
\* removals, returns, resets and windows: each of its readings there has a marker.
THEOREM PathsTakenOnce == OracleSpec => []OneReadingPerPath
<1>1. OracleInit => OneReadingPerPath
  BY MarkedInit, MarkedIs
<1>2. StakingTypeOK /\ WindowTypeOK /\ OneReadingPerPath /\ [OracleNext]_oracleVars
      => OneReadingPerPath'
  <2> SUFFICES ASSUME StakingTypeOK, WindowTypeOK, OneReadingPerPath, [OracleNext]_oracleVars
               PROVE  \A p \in Project, o \in Oracle : Marked(p, o)'
    BY DEF OneReadingPerPath, Marked, Markers
  <2>1. WindowPartTypes
    BY DEF WindowTypeOK, WindowPartTypes
  <2>2. \A p \in Project, o \in Oracle : Marked(p, o)
    BY MarkedIs
  <2> QED
    BY <2>1, <2>2, MarkedKept
<1> QED
  BY <1>1, <1>2, StakingTypes, WindowTypes, PTL DEF OracleSpec

\* No result rests on more than two readings of one oracle, a direct and a revealed
\* one: n readings speak for at least half as many oracles, and a quorum of readings
\* is no quorum of oracles.
TwoReadingsAtMost ==
  \A p \in Project, o \in Oracle :
    \A k \in DOMAIN results[p] : Contributions(results[p][k], o) <= 2

THEOREM ResultsSpreadOut == OracleSpec => []TwoReadingsAtMost
<1>1. OracleInit => TwoReadingsAtMost
  BY DEF OracleInit, TwoReadingsAtMost
<1>2. StakingTypeOK /\ WindowTypeOK /\ OneReadingPerPath /\ TwoReadingsAtMost
      /\ [OracleNext]_oracleVars => TwoReadingsAtMost'
  <2> SUFFICES ASSUME StakingTypeOK, WindowTypeOK, OneReadingPerPath, TwoReadingsAtMost,
                      [OracleNext]_oracleVars,
                      NEW p \in Project, NEW o \in Oracle
               PROVE  \A k \in DOMAIN results'[p] : Contributions(results'[p][k], o) <= 2
    BY DEF TwoReadingsAtMost
  <2>1. WindowPartTypes
    BY DEF WindowTypeOK, WindowPartTypes
  <2>2. \A k \in DOMAIN results[p] : Contributions(results[p][k], o) <= 2
    BY DEF TwoReadingsAtMost
  <2>3. CASE UNCHANGED results
    BY <2>2, <2>3
  <2>4. ASSUME NEW q \in Project, NEW readings \in Seq(Readings),
               results' = [results EXCEPT ![q] = Append(@, readings)],
               Contributions(readings, o) <= 2
        PROVE  \A k \in DOMAIN results'[p] : Contributions(results'[p][k], o) <= 2
    <3>1. results \in [Project -> Seq(Seq(Readings))]
      BY <2>1 DEF WindowPartTypes
    <3>2. CASE p # q
      BY <2>2, <2>4, <3>1, <3>2
    <3>3. CASE p = q
      <4> DEFINE s == results[p]
                 t == Append(s, readings)
      <4>1. results'[p] = t
        BY <2>4, <3>1, <3>3
      <4>2. s \in Seq(Seq(Readings))
        BY <3>1
      <4>3. /\ t \in Seq(Seq(Readings))
            /\ Len(t) = Len(s) + 1
            /\ \A k \in 1 .. Len(s) : t[k] = s[k]
            /\ t[Len(s) + 1] = readings
        BY <4>2, AppendProperties
      <4>4. DOMAIN s = 1 .. Len(s) /\ DOMAIN t = 1 .. Len(s) + 1 /\ Len(s) \in Nat
        BY <4>2, <4>3, LenProperties
      <4>5. \A k \in 1 .. Len(s) : Contributions(s[k], o) <= 2
        BY <2>2, <4>4
      <4> HIDE DEF s, t
      <4>6. \A k \in 1 .. Len(s) + 1 : Contributions(t[k], o) <= 2
        <5> SUFFICES ASSUME NEW k \in 1 .. Len(s) + 1 PROVE Contributions(t[k], o) <= 2
          OBVIOUS
        <5>1. CASE k \in 1 .. Len(s)
          BY <4>3, <4>5, <5>1
        <5>2. CASE k = Len(s) + 1
          BY <2>4, <4>3, <5>2
        <5> QED
          BY <4>4, <5>1, <5>2
      <4> QED
        BY <4>1, <4>4, <4>6
    <3> QED
      BY <3>2, <3>3
  <2>5. \A q \in Project : Marked(q, o)
    BY MarkedIs
  <2> QED
    BY <2>1, <2>3, <2>4, <2>5, MarkedKept
<1> QED
  BY <1>1, <1>2, StakingTypes, WindowTypes, PathsTakenOnce, PTL DEF OracleSpec
================================================================================
