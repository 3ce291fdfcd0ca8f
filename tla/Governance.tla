------------------------------- MODULE Governance -------------------------------
(***************************************************************************)
(* contracts/governance: members propose, vote and execute; the admin      *)
(* keeps the membership, the configuration and the list of contracts that  *)
(* an emergency pauses.                                                    *)
(*                                                                         *)
(* Titles, descriptions and the deposit of the configuration, which no     *)
(* call charges, are left out.  Other contracts appear by what governance  *)
(* sees of them: a pausable contract obeys it or panics, and a governance  *)
(* token answers balances and a supply.                                    *)
(***************************************************************************)
EXTENDS Integers, FiniteSets, Functions, Selections

CONSTANTS
  Person,          \* addresses that are or become members or admin
  FirstMembers,    \* the members named to initialize
  FirstAdmin,      \* the admin named to initialize
  Admins,          \* addresses admin rights are transferred to
  CreditTokens,    \* pausable contracts registered as tokens
  Oracles,         \* pausable contracts registered as oracles
  FirstObeying,    \* the contracts whose admin or guardian is governance at first
  VotingTokens,    \* tokens that may be named as governance token
  NoToken,         \* an Option<Address> that is None
  FirstHoldings,   \* the balances of each voting token at first
  TransferAmounts, \* amounts holders transfer
  MaxWeight,       \* i128::MAX of the voting tokens
  FirstConfig,     \* the configuration initialize writes
  Configs,         \* the configurations passed to update_config
  ShortestVote,    \* MIN_VOTING_PERIOD
  LongestVote,     \* MAX_VOTING_PERIOD
  LongestTimelock, \* MAX_TIMELOCK_DURATION
  MostActive,      \* MAX_ACTIVE_PROPOSALS
  ActionLists,     \* lists of actions proposed
  MaxProposals,    \* most proposals (a bound of the model)
  MaxCalls,        \* most calls of the admin and of outside parties (a bound of the model)
  MaxTime          \* last timestamp (a bound of the model)

Contract == CreditTokens \cup Oracles

\* A generic call names its target, and pauses or unpauses it; the built-in
\* actions pause or unpause every registered contract.
GovernanceAction ==
  [builtIn : {TRUE}, pauses : BOOLEAN] \cup [builtIn : {FALSE}, pauses : BOOLEAN, target : Contract]

GovernanceConfig == [votingPeriod : Nat, timelock : Nat, approvalBps : Nat,
                     quorumBps : Nat, maxActive : Nat]

\* Basis points that a proposal may need.
ApprovalShares == 1 .. 10000

Validated(c) ==
  /\ c.votingPeriod \in ShortestVote .. LongestVote
  /\ c.timelock <= LongestTimelock
  /\ c.approvalBps \in ApprovalShares
  /\ c.quorumBps <= 10000
  /\ c.maxActive \in 1 .. MostActive

ASSUME GovernanceAssumption ==
  /\ IsFiniteSet(Person)
  /\ FirstMembers \subseteq Person
  /\ Admins \subseteq Person
  /\ FirstAdmin \in Person
  /\ FirstObeying \subseteq Contract
  /\ NoToken \notin VotingTokens
  /\ FirstHoldings \in [VotingTokens -> [Person -> Nat]]
  /\ TransferAmounts \subseteq Nat
  /\ MaxWeight \in Nat
  /\ FirstConfig \in GovernanceConfig
  /\ Configs \subseteq GovernanceConfig
  /\ FirstConfig.approvalBps \in ApprovalShares
  /\ ShortestVote \in Nat
  /\ ActionLists \subseteq Seq(GovernanceAction)
  /\ MaxProposals \in Nat
  /\ MaxCalls \in Nat
  /\ MaxTime \in Nat

VARIABLES
  govAdmin,          \* DataKey::Admin
  members,           \* DataKey::Member and MemberCount
  govConfig,         \* DataKey::Config
  proposals,         \* DataKey::Proposal(1), Proposal(2), ...; ProposalCount is the length
  activeProposals,   \* DataKey::ActiveProposals
  voted,             \* DataKey::HasVoted, by proposal
  protocolPaused,    \* DataKey::ProtocolPaused
  registeredTokens,  \* DataKey::RegisteredTokens
  registeredOracles, \* DataKey::RegisteredOracles
  govToken,          \* DataKey::GovernanceToken
  holdings,          \* the balances of the voting tokens
  obeying,           \* the contracts whose admin or pause guardian is governance
  pausedContracts,   \* the contracts that are paused
  time,              \* the timestamp of the next call
  calls              \* calls of the admin and of outside parties so far (bound of the model)

ballotVars == <<proposals, activeProposals, voted>>
adminVars == <<govAdmin, members, govConfig, registeredTokens, registeredOracles, govToken>>
outsideVars == <<holdings, obeying>>
pauseVars == <<protocolPaused, pausedContracts>>
governanceVars == <<ballotVars, adminVars, outsideVars, pauseVars, time, calls>>

Supply(token) == SumFunction(FirstHoldings[token])
Weighted == govToken # NoToken
Weight(voter) == IF Weighted THEN holdings[govToken][voter] ELSE 0

\* The token's supply, which transfers leave alone, or the number of members.
TotalEligibleWeight == IF Weighted THEN Supply(govToken) ELSE Cardinality(members)

Without(list, id) == Chosen(list, Range(list) \ {id})

--------------------------------------------------------------------------------
Propose(proposer, actions, partial) ==
  /\ Len(proposals) < MaxProposals
  /\ time + govConfig.votingPeriod < MaxTime
  /\ proposer \in members
  /\ Len(activeProposals) < govConfig.maxActive
  /\ proposals' = Append(proposals,
       [ proposer |-> proposer, actions |-> actions, partial |-> partial, results |-> <<>>,
         yes |-> 0, no |-> 0, eligible |-> Cardinality(members),
         totalWeight |-> TotalEligibleWeight, yesWeight |-> 0, noWeight |-> 0,
         status |-> "Pending", endsAt |-> time + govConfig.votingPeriod, readyAt |-> 0 ])
  /\ activeProposals' = Append(activeProposals, Len(proposals) + 1)
  /\ voted' = Append(voted, {})
  /\ UNCHANGED <<adminVars, outsideVars, pauseVars, time, calls>>

ShareOf(n) == (n * govConfig.quorumBps + 9999) \div 10000

\* Votes are counted against the smaller of the members at the proposal and
\* those of today, weights against the supply at the proposal; the
\* configuration and the kind of voting are those of today.
QuorumReached(p) ==
  IF Weighted
  THEN p.yesWeight + p.noWeight >= ShareOf(p.totalWeight)
  ELSE LET voters == IF p.eligible < Cardinality(members) THEN p.eligible
                                                          ELSE Cardinality(members)
       IN  p.yes + p.no >= ShareOf(voters)

ThresholdReached(yes, no) ==
  /\ yes + no > 0
  /\ (yes * 10000) \div (yes + no) >= govConfig.approvalBps

Supported(p) == IF Weighted THEN ThresholdReached(p.yesWeight, p.noWeight)
                            ELSE ThresholdReached(p.yes, p.no)

Counted(p, voter, approve) ==
  IF approve THEN [p EXCEPT !.status = "Active", !.yes = @ + 1, !.yesWeight = @ + Weight(voter)]
             ELSE [p EXCEPT !.status = "Active", !.no = @ + 1, !.noWeight = @ + Weight(voter)]

\* Mutant: the voter is not remembered.
VoteForgotten(voter, id, approve) ==
  LET p == Counted(proposals[id], voter, approve)
  IN  /\ voter \in members
      /\ proposals[id].status \in {"Pending", "Active"}
      /\ voter \notin voted[id]
      /\ time <= proposals[id].endsAt
      /\ \/ /\ ~QuorumReached(p)
            /\ proposals' = [proposals EXCEPT ![id] = p]
            /\ UNCHANGED activeProposals
         \/ /\ QuorumReached(p)
            /\ Supported(p)
            /\ proposals' = [proposals EXCEPT
                 ![id] = [p EXCEPT !.status = "Approved", !.readyAt = time + govConfig.timelock]]
            /\ UNCHANGED activeProposals
         \/ /\ QuorumReached(p)
            /\ ~Supported(p)
            /\ proposals' = [proposals EXCEPT ![id] = [p EXCEPT !.status = "Rejected"]]
            /\ activeProposals' = Without(activeProposals, id)
      /\ UNCHANGED <<voted, adminVars, outsideVars, pauseVars, time, calls>>

\* A call after the deadline panics, which undoes its own attempt to mark the
\* proposal as expired: only expire_proposal does that.
Vote(voter, id, approve) ==
  LET p == Counted(proposals[id], voter, approve)
  IN  /\ voter \in members
      /\ proposals[id].status \in {"Pending", "Active"}
      /\ voter \notin voted[id]
      /\ time <= proposals[id].endsAt
      /\ voted' = [voted EXCEPT ![id] = @ \cup {voter}]
      /\ \/ /\ ~QuorumReached(p)
            /\ proposals' = [proposals EXCEPT ![id] = p]
            /\ UNCHANGED activeProposals
         \/ /\ QuorumReached(p)
            /\ Supported(p)
            /\ proposals' = [proposals EXCEPT
                 ![id] = [p EXCEPT !.status = "Approved", !.readyAt = time + govConfig.timelock]]
            /\ UNCHANGED activeProposals
         \/ /\ QuorumReached(p)
            /\ ~Supported(p)
            /\ proposals' = [proposals EXCEPT ![id] = [p EXCEPT !.status = "Rejected"]]
            /\ activeProposals' = Without(activeProposals, id)
      /\ UNCHANGED <<adminVars, outsideVars, pauseVars, time, calls>>

--------------------------------------------------------------------------------
Reached(action) == IF action.builtIn THEN registeredTokens \cup registeredOracles
                                     ELSE {action.target}

Done(action) == Reached(action) \subseteq obeying

\* Mutant: an action counts as carried out if any of its contracts obeyed.
DispatchedLeniently(before, action) ==
  [ paused |-> IF action.pauses THEN before.paused \cup (Reached(action) \cap obeying)
                                ELSE before.paused \ (Reached(action) \cap obeying),
    protocol |-> IF action.builtIn /\ Done(action) THEN action.pauses ELSE before.protocol,
    results |-> Append(before.results,
                       Reached(action) = {} \/ Reached(action) \cap obeying # {}) ]

\* One action after another: the contracts that obey are paused or unpaused,
\* and ProtocolPaused follows only if all of them did.
Dispatched(before, action) ==
  [ paused |-> IF action.pauses THEN before.paused \cup (Reached(action) \cap obeying)
                                ELSE before.paused \ (Reached(action) \cap obeying),
    protocol |-> IF action.builtIn /\ Done(action) THEN action.pauses ELSE before.protocol,
    results |-> Append(before.results, Done(action)) ]

DispatchUpTo(actions) ==
  LET after[i \in 0 .. Len(actions)] ==
        IF i = 0 THEN [paused |-> pausedContracts, protocol |-> protocolPaused, results |-> <<>>]
                 ELSE Dispatched(after[i - 1], actions[i])
  IN  after

Dispatch(actions) == DispatchUpTo(actions)[Len(actions)]

\* Without partial execution the first failure rolls everything back, and the
\* proposal stays approved.
Execute(caller, id) ==
  LET p == proposals[id]
      end == Dispatch(p.actions)
  IN  /\ caller \in members
      /\ p.status = "Approved"
      /\ time >= p.readyAt
      /\ ~p.partial => \A i \in DOMAIN p.actions : end.results[i]
      /\ pausedContracts' = end.paused
      /\ protocolPaused' = end.protocol
      /\ proposals' = [proposals EXCEPT
           ![id] = [@ EXCEPT !.status = "Executed",
                             !.results = IF p.partial THEN end.results ELSE <<>>]]
      /\ activeProposals' = Without(activeProposals, id)
      /\ UNCHANGED <<voted, adminVars, outsideVars, time, calls>>

\* Mutant: the slot is not given back.
ResolveKeepingSlot(id, status) ==
  /\ proposals' = [proposals EXCEPT ![id].status = status]
  /\ UNCHANGED <<activeProposals, voted, adminVars, outsideVars, pauseVars, time, calls>>

Resolve(id, status) ==
  /\ proposals' = [proposals EXCEPT ![id].status = status]
  /\ activeProposals' = Without(activeProposals, id)
  /\ UNCHANGED <<voted, adminVars, outsideVars, pauseVars, time, calls>>

\* Mutant: a proposal already executed may be cancelled.
CancelProposalAnyTime(caller, id) ==
  /\ \/ caller = govAdmin
     \/ /\ caller = proposals[id].proposer
        /\ proposals[id].status \in {"Active", "Pending"}
  /\ Resolve(id, "Cancelled")

CancelProposal(caller, id) ==
  /\ \/ /\ caller = govAdmin
        /\ proposals[id].status \in {"Approved", "Active", "Pending"}
     \/ /\ caller = proposals[id].proposer
        /\ proposals[id].status \in {"Active", "Pending"}
  /\ Resolve(id, "Cancelled")

\* Mutant: a proposal nobody voted on cannot expire.
ExpireVotedProposal(id) ==
  /\ proposals[id].status = "Active"
  /\ time > proposals[id].endsAt
  /\ Resolve(id, "Expired")

\* Anyone may call it.
ExpireProposal(id) ==
  /\ proposals[id].status \in {"Active", "Pending"}
  /\ time > proposals[id].endsAt
  /\ Resolve(id, "Expired")

--------------------------------------------------------------------------------
\* What every call of the admin has in common.
ByAdmin(caller) ==
  /\ caller = govAdmin
  /\ calls < MaxCalls
  /\ calls' = calls + 1
  /\ UNCHANGED <<ballotVars, outsideVars, time>>

UpdateGovernanceConfig(caller, c) ==
  /\ ByAdmin(caller)
  /\ Validated(c)
  /\ govConfig' = c
  /\ UNCHANGED <<govAdmin, members, registeredTokens, registeredOracles, govToken, pauseVars>>

TransferGovernanceAdmin(caller, newAdmin) ==
  /\ ByAdmin(caller)
  /\ govAdmin' = newAdmin
  /\ UNCHANGED <<members, govConfig, registeredTokens, registeredOracles, govToken, pauseVars>>

AddMember(caller, member) ==
  /\ ByAdmin(caller)
  /\ member \notin members
  /\ members' = members \cup {member}
  /\ UNCHANGED <<govAdmin, govConfig, registeredTokens, registeredOracles, govToken, pauseVars>>

RemoveMember(caller, member) ==
  /\ ByAdmin(caller)
  /\ member \in members
  /\ Cardinality(members) > 1
  /\ members' = members \ {member}
  /\ UNCHANGED <<govAdmin, govConfig, registeredTokens, registeredOracles, govToken, pauseVars>>

RegisterToken(caller, token) ==
  /\ ByAdmin(caller)
  /\ registeredTokens' = registeredTokens \cup {token}
  /\ UNCHANGED <<govAdmin, members, govConfig, registeredOracles, govToken, pauseVars>>

DeregisterToken(caller, token) ==
  /\ ByAdmin(caller)
  /\ registeredTokens' = registeredTokens \ {token}
  /\ UNCHANGED <<govAdmin, members, govConfig, registeredOracles, govToken, pauseVars>>

RegisterOracle(caller, oracle) ==
  /\ ByAdmin(caller)
  /\ registeredOracles' = registeredOracles \cup {oracle}
  /\ UNCHANGED <<govAdmin, members, govConfig, registeredTokens, govToken, pauseVars>>

DeregisterOracle(caller, oracle) ==
  /\ ByAdmin(caller)
  /\ registeredOracles' = registeredOracles \ {oracle}
  /\ UNCHANGED <<govAdmin, members, govConfig, registeredTokens, govToken, pauseVars>>

\* A proposal under way is from then on decided by weight too.
SetGovernanceToken(caller, token) ==
  /\ ByAdmin(caller)
  /\ govToken' = token
  /\ UNCHANGED <<govAdmin, members, govConfig, registeredTokens, registeredOracles, pauseVars>>

Emergency(caller, pauses) ==
  LET end == Dispatch(<<[builtIn |-> TRUE, pauses |-> pauses]>>)
  IN  /\ ByAdmin(caller)
      /\ end.results[1]
      /\ pausedContracts' = end.paused
      /\ protocolPaused' = end.protocol
      /\ UNCHANGED adminVars

EmergencyPause(caller) == Emergency(caller, TRUE)
EmergencyUnpause(caller) == Emergency(caller, FALSE)

--------------------------------------------------------------------------------
\* What happens outside the contract.
ByOthers ==
  /\ calls < MaxCalls
  /\ calls' = calls + 1
  /\ UNCHANGED <<ballotVars, adminVars, protocolPaused, time>>

\* As credit_token's transfer does it, to oneself too.
MoveWeight(token, from, to, amount) ==
  LET b == holdings[token]
  IN  /\ ByOthers
      /\ amount > 0
      /\ b[from] >= amount
      /\ b[to] + amount <= MaxWeight
      /\ holdings' = [holdings EXCEPT ![token] = [b EXCEPT ![from] = b[from] - amount,
                                                           ![to] = b[to] + amount]]
      /\ UNCHANGED <<obeying, pausedContracts>>

\* The admin of a pausable contract makes governance its guardian, or another.
SetGuardian(contract) ==
  /\ ByOthers
  /\ \/ obeying' = obeying \cup {contract}
     \/ obeying' = obeying \ {contract}
  /\ UNCHANGED <<holdings, pausedContracts>>

PauseOrUnpauseDirectly(contract) ==
  /\ ByOthers
  /\ \/ pausedContracts' = pausedContracts \cup {contract}
     \/ pausedContracts' = pausedContracts \ {contract}
  /\ UNCHANGED <<holdings, obeying>>

TimePasses ==
  /\ time < MaxTime
  /\ time' = time + 1
  /\ UNCHANGED <<ballotVars, adminVars, outsideVars, pauseVars, calls>>

--------------------------------------------------------------------------------
GovernanceInit ==
  /\ govAdmin = FirstAdmin
  /\ members = FirstMembers
  /\ govConfig = FirstConfig
  /\ proposals = <<>>
  /\ activeProposals = <<>>
  /\ voted = <<>>
  /\ protocolPaused = FALSE
  /\ registeredTokens = {}
  /\ registeredOracles = {}
  /\ govToken = NoToken
  /\ holdings = FirstHoldings
  /\ obeying = FirstObeying
  /\ pausedContracts = {}
  /\ time = 1
  /\ calls = 0

ProposalCalls(caller) ==
  \/ \E actions \in ActionLists, partial \in BOOLEAN : Propose(caller, actions, partial)
  \/ \E id \in DOMAIN proposals : \/ \E approve \in BOOLEAN : Vote(caller, id, approve)
                                  \/ Execute(caller, id)
                                  \/ CancelProposal(caller, id)

AdminCalls(caller) ==
  \/ \E c \in Configs : UpdateGovernanceConfig(caller, c)
  \/ \E a \in Admins : TransferGovernanceAdmin(caller, a)
  \/ \E m \in Person : AddMember(caller, m) \/ RemoveMember(caller, m)
  \/ \E t \in CreditTokens : RegisterToken(caller, t) \/ DeregisterToken(caller, t)
  \/ \E o \in Oracles : RegisterOracle(caller, o) \/ DeregisterOracle(caller, o)
  \/ \E t \in VotingTokens : SetGovernanceToken(caller, t)
  \/ EmergencyPause(caller)
  \/ EmergencyUnpause(caller)

OutsideCalls ==
  \/ \E t \in VotingTokens, from, to \in Person, n \in TransferAmounts : MoveWeight(t, from, to, n)
  \/ \E c \in Contract : SetGuardian(c) \/ PauseOrUnpauseDirectly(c)

GovernanceNext ==
  \/ \E caller \in Person : ProposalCalls(caller) \/ AdminCalls(caller)
  \/ \E id \in DOMAIN proposals : ExpireProposal(id)
  \/ OutsideCalls
  \/ TimePasses

GovernanceSpec == GovernanceInit /\ [][GovernanceNext]_governanceVars

\* Ledgers close, and somebody expires what may be expired: expire_proposal asks
\* for no authorization ("Callable by anyone after the voting period ends").
GovernanceFairness ==
  /\ WF_governanceVars(TimePasses)
  /\ \A id \in 1 .. MaxProposals :
       WF_governanceVars(id \in DOMAIN proposals /\ ExpireProposal(id))

FairGovernanceSpec == GovernanceSpec /\ GovernanceFairness

--------------------------------------------------------------------------------
Undecided == {"Pending", "Active", "Approved"}
Statuses == Undecided \cup {"Executed", "Cancelled", "Rejected", "Expired"}

Proposals ==
  [ proposer : Person, actions : ActionLists, partial : BOOLEAN, results : Seq(BOOLEAN),
    yes : Nat, no : Nat, eligible : Nat, totalWeight : Nat, yesWeight : Nat, noWeight : Nat,
    status : Statuses, endsAt : Nat, readyAt : Nat ]

GovernanceTypeOK ==
  /\ govAdmin \in Person
  /\ members \subseteq Person
  /\ govConfig \in GovernanceConfig
  /\ govConfig.approvalBps \in ApprovalShares
  /\ proposals \in Seq(Proposals)
  /\ activeProposals \in Seq(Nat)
  /\ voted \in Seq(SUBSET Person)
  /\ Len(voted) = Len(proposals)
  /\ protocolPaused \in BOOLEAN
  /\ registeredTokens \subseteq CreditTokens
  /\ registeredOracles \subseteq Oracles
  /\ govToken \in VotingTokens \cup {NoToken}
  /\ holdings \in [VotingTokens -> [Person -> Nat]]
  /\ obeying \subseteq Contract
  /\ pausedContracts \subseteq Contract
  /\ time \in Nat
  /\ calls \in Nat

\* The slots max_active_proposals counts are held by the proposals still to be
\* decided or executed, once each and in order: none that is over blocks a slot,
\* none that may still be executed has lost it, over votes that decide,
\* executions that roll back, cancellations and expiries.
SlotsAreOpenProposals ==
  activeProposals = Chosen([id \in DOMAIN proposals |-> id],
                           {id \in DOMAIN proposals : proposals[id].status \in Undecided})

\* A proposal that passed has the vote of a member for it and as many votes as
\* members who voted, however the threshold, the quorum, the membership or the
\* way of counting changed under it.
NothingPassesUnsupported ==
  \A id \in DOMAIN proposals :
    LET p == proposals[id]
    IN  /\ p.yes + p.no = Cardinality(voted[id])
        /\ p.status \in {"Approved", "Executed"} => p.yes > 0

\* What an execution of proposal id leaves behind.
LeavesAsReported(id) ==
  LET p == proposals[id]
      last == proposals'[id]
      n == DOMAIN p.actions
      DoneAt(i) == IF p.partial THEN last.results[i] ELSE TRUE
      LastToReach(i, c) ==
        /\ c \in Reached(p.actions[i])
        /\ \A j \in n : j > i => c \notin Reached(p.actions[j])
      LastBuiltIn(i) ==
        /\ p.actions[i].builtIn /\ DoneAt(i)
        /\ \A j \in n : j > i => ~(p.actions[j].builtIn /\ DoneAt(j))
  IN  /\ p.partial => DOMAIN last.results = n
      /\ \A i \in n : DoneAt(i) <=> \A c \in Reached(p.actions[i]) : c \in obeying
      /\ \A i \in n, c \in Contract :
           DoneAt(i) /\ LastToReach(i, c) => (c \in pausedContracts' <=> p.actions[i].pauses)
      /\ \A c \in Contract : (\A i \in n : c \notin Reached(p.actions[i]))
           => (c \in pausedContracts' <=> c \in pausedContracts)
      /\ \A i \in n : LastBuiltIn(i) => (protocolPaused' <=> p.actions[i].pauses)

\* An execution leaves the contracts as it says.  An action reported as done,
\* and in an atomic execution every action, holds on each contract it reaches
\* that no later action reaches; one reported as failed met a contract that
\* refused; a contract no action reaches is left alone; and ProtocolPaused says
\* what the last built-in action done says.
ExecutionIsReported ==
  [][ \A id \in DOMAIN proposals :
        proposals[id].status = "Approved" /\ proposals'[id].status = "Executed"
          => LeavesAsReported(id) ]_governanceVars

Stage(status) ==
  CASE status \in {"Pending", "Active"} -> "Voting"
    [] status = "Approved" -> "Passed"
    [] status = "Executed" -> "CarriedOut"
    [] OTHER -> "Dropped"

\* The proposals lead the one-way life the abstract specification allows: one
\* ballot per member, execution at most once and after the timelock.
Proposed == INSTANCE ProposalLife
  WITH plan <- [id \in DOMAIN proposals |-> <<proposals[id].proposer, proposals[id].actions,
                                              proposals[id].partial>>],
       deadline <- [id \in DOMAIN proposals |-> proposals[id].endsAt],
       voters <- voted,
       stage <- [id \in DOMAIN proposals |-> Stage(proposals[id].status)],
       ready <- [id \in DOMAIN proposals |-> proposals[id].readyAt]
ImplementsProposalLife == Proposed!Life

\* No vote stays open for ever: a proposal that is put to the vote is approved,
\* rejected, cancelled or expired, also when nobody ever votes or a late vote
\* panics, so that its slot does not stay taken by it.
EveryVoteEnds ==
  \A id \in 1 .. MaxProposals :
    (id \in DOMAIN proposals /\ proposals[id].status \in {"Pending", "Active"})
      ~> (id \in DOMAIN proposals /\ proposals[id].status \notin {"Pending", "Active"})
================================================================================
