---------------------------- MODULE MCOracleWindow ----------------------------
(***************************************************************************)
(* Instances of OracleWindow for TLC.                                      *)
(***************************************************************************)
EXTENDS OracleWindow, TLC

CONSTANTS gold  \* the staking token

Config(min, minStake, reveal) ==
  [ minOracles |-> min, maxOracles |-> 2, minStake |-> minStake, cooldown |-> 1,
    commitSecs |-> 1, minReveal |-> reveal, maxReveal |-> reveal,
    slashBps |-> 5000, minSlash |-> 1, maxSlash |-> 2,
    maxOpen |-> 1, stakingToken |-> gold ]

Single == Config(1, 0, 0)
Double == Config(2, 0, 0)
Quorums == {Single, Double}
Quick == Config(2, 1, 0)

\* Oracles and projects differ by name alone.
Alike == Permutations(Oracle) \cup Permutations(Project)
================================================================================
