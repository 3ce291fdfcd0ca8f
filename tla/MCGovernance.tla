------------------------------ MODULE MCGovernance ------------------------------
(***************************************************************************)
(* An instance of Governance for TLC.                                      *)
(***************************************************************************)
EXTENDS Governance

CONSTANTS mia, ned, shares, tok, orc  \* two people, a voting token, two contracts

Config(timelock, approval, quorum, active) ==
  [ votingPeriod |-> 1, timelock |-> timelock, approvalBps |-> approval,
    quorumBps |-> quorum, maxActive |-> active ]

\* Everybody has to vote at first; the next configurations are looser, and one
\* is not valid.
Strict == Config(1, 6000, 10000, 2)
Changes == {Config(0, 5000, 5000, 1), Config(0, 0, 0, 1)}

Pause == [builtIn |-> TRUE, pauses |-> TRUE]
Release(c) == [builtIn |-> FALSE, pauses |-> FALSE, target |-> c]
Plans == {<<Pause, Release(tok)>>}

Shares == [t \in {shares} |-> [p \in {mia, ned} |-> IF p = mia THEN 1 ELSE 0]]
================================================================================
