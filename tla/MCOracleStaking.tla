---------------------------- MODULE MCOracleStaking ----------------------------
(***************************************************************************)
(* Instances of OracleStaking for TLC.                                     *)
(***************************************************************************)
EXTENDS OracleStaking

CONSTANTS gold, silver  \* staking tokens

Config(min, minStake, token) ==
  [ minOracles |-> min, maxOracles |-> 2, minStake |-> minStake, cooldown |-> 1,
    commitSecs |-> 1, minReveal |-> 0, maxReveal |-> 1,
    slashBps |-> 5000, minSlash |-> 1, maxSlash |-> 2,
    maxOpen |-> 1, stakingToken |-> token ]

Small == Config(1, 0, gold)
Changes == {Config(1, 1, gold), Config(2, 0, gold), Config(1, 0, silver)}
EdgeAmounts == 0 .. 2
================================================================================
