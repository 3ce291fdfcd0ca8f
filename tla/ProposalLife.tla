------------------------------ MODULE ProposalLife ------------------------------
(***************************************************************************)
(* What the governance contract promises about a proposal: a one-way life. *)
(* It collects ballots, one per voter, until its deadline.  It is passed   *)
(* by a ballot or dropped; once passed it is carried out at most once, no  *)
(* sooner than its timelock; what was carried out or dropped stays so.     *)
(* What is proposed, and by whom, never changes.                           *)
(***************************************************************************)
EXTENDS Integers, Sequences

VARIABLES
  plan,      \* what is proposed, by proposal
  deadline,  \* last moment for a ballot
  voters,    \* who has cast a ballot
  stage,     \* "Voting", "Passed", "CarriedOut" or "Dropped"
  ready,     \* end of the timelock of a passed proposal
  time

lifeVars == <<plan, deadline, voters, stage, ready, time>>

Start ==
  /\ plan = <<>>
  /\ deadline = <<>>
  /\ voters = <<>>
  /\ stage = <<>>
  /\ ready = <<>>
  /\ time \in Nat

Submit ==
  /\ Len(plan') = Len(plan) + 1
  /\ Len(deadline') = Len(plan) + 1
  /\ plan' = Append(plan, plan'[Len(plan) + 1])
  /\ deadline' = Append(deadline, deadline'[Len(plan) + 1])
  /\ voters' = Append(voters, {})
  /\ stage' = Append(stage, "Voting")
  /\ ready' = Append(ready, 0)
  /\ UNCHANGED time

\* A ballot may decide the proposal one way or the other.
CastBallot(i) ==
  /\ stage[i] = "Voting"
  /\ time <= deadline[i]
  /\ DOMAIN voters' = DOMAIN voters
  /\ \E v \in voters'[i] \ voters[i] : voters' = [voters EXCEPT ![i] = @ \cup {v}]
  /\ \/ UNCHANGED <<stage, ready>>
     \/ /\ stage' = [stage EXCEPT ![i] = "Passed"]
        /\ DOMAIN ready' = DOMAIN ready
        /\ ready'[i] >= time
        /\ ready' = [ready EXCEPT ![i] = ready'[i]]
     \/ /\ stage' = [stage EXCEPT ![i] = "Dropped"]
        /\ UNCHANGED ready
  /\ UNCHANGED <<plan, deadline, time>>

CarryOut(i) ==
  /\ stage[i] = "Passed"
  /\ time >= ready[i]
  /\ stage' = [stage EXCEPT ![i] = "CarriedOut"]
  /\ UNCHANGED <<plan, deadline, voters, ready, time>>

Drop(i) ==
  /\ stage[i] \in {"Voting", "Passed"}
  /\ stage' = [stage EXCEPT ![i] = "Dropped"]
  /\ UNCHANGED <<plan, deadline, voters, ready, time>>

Wait ==
  /\ time' > time
  /\ UNCHANGED <<plan, deadline, voters, stage, ready>>

Step ==
  \/ Submit
  \/ \E i \in DOMAIN stage : CastBallot(i) \/ CarryOut(i) \/ Drop(i)
  \/ Wait

Life == Start /\ [][Step]_lifeVars
================================================================================
