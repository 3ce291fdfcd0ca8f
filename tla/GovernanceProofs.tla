---------------------------- MODULE GovernanceProofs ----------------------------
(***************************************************************************)
(* Proofs about Governance, for every set of people, contracts, voting     *)
(* tokens, configurations and lists of actions.                            *)
(***************************************************************************)
EXTENDS Governance, CollectionTheorems, SequenceTheorems

ConfigFits ==
  /\ govConfig \in GovernanceConfig
  /\ govConfig.approvalBps \in ApprovalShares

Electorate ==
  /\ members \subseteq Person
  /\ govToken \in VotingTokens \cup {NoToken}
  /\ holdings \in [VotingTokens -> [Person -> Nat]]
  /\ time \in Nat

Settings == ConfigFits /\ Electorate

Typed ==
  /\ Settings
  /\ voted \in Seq(SUBSET Person)
  /\ Len(voted) = Len(proposals)
  /\ proposals \in Seq(Proposals)

--------------------------------------------------------------------------------
(***************************************************************************)
(* What carrying out a list of actions does, one action after another.     *)
(***************************************************************************)

\* What the first i actions have done: each result says whether every contract
\* obeyed, a contract is as the last action to reach it and be obeyed left it,
\* and the protocol is as the last built-in action done left it.
Reports(d, actions, i) ==
  /\ d.results \in Seq(BOOLEAN) /\ Len(d.results) = i
  /\ \A j \in 1 .. i : d.results[j] <=> Done(actions[j])
  /\ \A c : (\A j \in 1 .. i : c \notin Reached(actions[j]))
              => (c \in d.paused <=> c \in pausedContracts)
  /\ \A j \in 1 .. i : \A c \in obeying :
       c \in Reached(actions[j]) /\ (\A k \in 1 .. i : k > j => c \notin Reached(actions[k]))
         => (c \in d.paused <=> actions[j].pauses)
  /\ \A j \in 1 .. i :
       actions[j].builtIn /\ Done(actions[j])
         /\ (\A k \in 1 .. i : k > j => ~(actions[k].builtIn /\ Done(actions[k])))
         => (d.protocol <=> actions[j].pauses)
  /\ pausedContracts \subseteq Contract /\ obeying \subseteq Contract => d.paused \subseteq Contract
  /\ protocolPaused \in BOOLEAN => d.protocol \in BOOLEAN

LEMMA DispatchedReports ==
  ASSUME NEW actions, NEW n \in Nat, NEW d, Reports(d, actions, n),
         actions[n + 1].pauses \in BOOLEAN
  PROVE  Reports(Dispatched(d, actions[n + 1]), actions, n + 1)
<1> DEFINE e == Dispatched(d, actions[n + 1])
           m == n + 1
           a == actions[m]
           here == Reached(a) \cap obeying
<1>1. /\ e.paused = IF a.pauses THEN d.paused \cup here ELSE d.paused \ here
      /\ e.protocol = IF a.builtIn /\ Done(a) THEN a.pauses ELSE d.protocol
      /\ e.results = Append(d.results, Done(a))
  BY DEF Dispatched
<1>2. /\ m \in 1 .. m /\ m \notin 1 .. n /\ m \in Nat
      /\ \A j \in 1 .. m : j \in 1 .. n \/ j = m
      /\ \A j \in 1 .. n : j \in 1 .. m /\ m > j /\ j # m
      /\ ~(\E k \in 1 .. m : k > m)
  OBVIOUS
<1>3. /\ \A c \in here : c \in e.paused <=> a.pauses
      /\ \A c : c \notin Reached(a) => (c \in e.paused <=> c \in d.paused)
  BY <1>1
<1>4. /\ d.results \in Seq(BOOLEAN) /\ Len(d.results) = n
      /\ \A j \in 1 .. n : d.results[j] <=> Done(actions[j])
      /\ \A c : (\A j \in 1 .. n : c \notin Reached(actions[j]))
                  => (c \in d.paused <=> c \in pausedContracts)
  BY DEF Reports
<1>5. \A j \in 1 .. n : \A c \in obeying :
        c \in Reached(actions[j]) /\ (\A k \in 1 .. n : k > j => c \notin Reached(actions[k]))
          => (c \in d.paused <=> actions[j].pauses)
  BY DEF Reports
<1>6. \A j \in 1 .. n :
        actions[j].builtIn /\ Done(actions[j])
          /\ (\A k \in 1 .. n : k > j => ~(actions[k].builtIn /\ Done(actions[k])))
          => (d.protocol <=> actions[j].pauses)
  BY DEF Reports
<1>7. /\ pausedContracts \subseteq Contract /\ obeying \subseteq Contract => d.paused \subseteq Contract
      /\ protocolPaused \in BOOLEAN => d.protocol \in BOOLEAN
  BY DEF Reports
<1>8. a.pauses \in BOOLEAN
  OBVIOUS
<1> HIDE DEF e, m
<1>9. /\ e.results \in Seq(BOOLEAN) /\ Len(e.results) = m
      /\ \A j \in 1 .. n : e.results[j] = d.results[j]
      /\ e.results[m] = Done(a)
  <2>1. Done(a) \in BOOLEAN
    BY DEF Done
  <2> DEFINE b == Done(a)
  <2>2. b \in BOOLEAN /\ e.results = Append(d.results, b)
    BY <1>1, <2>1
  <2> HIDE DEF b
  <2>3. /\ e.results \in Seq(BOOLEAN) /\ Len(e.results) = n + 1
        /\ \A j \in 1 .. n : e.results[j] = d.results[j]
        /\ e.results[n + 1] = b
    BY <1>4, <2>2, AppendProperties
  <2> QED
    BY <2>3 DEF m, b
<1>10. \A j \in 1 .. m : e.results[j] <=> Done(actions[j])
  BY <1>2, <1>4, <1>9, Zenon DEF a
<1> HIDE DEF a, here
<1>11. ASSUME NEW c, \A j \in 1 .. m : c \notin Reached(actions[j])
       PROVE  c \in e.paused <=> c \in pausedContracts
  <2>1. c \notin Reached(a) /\ \A j \in 1 .. n : c \notin Reached(actions[j])
    BY <1>2, <1>11 DEF a
  <2> QED
    BY <1>3, <1>4, <2>1
<1>12. ASSUME NEW j \in 1 .. m, NEW c \in obeying, c \in Reached(actions[j]),
              \A k \in 1 .. m : k > j => c \notin Reached(actions[k])
       PROVE  c \in e.paused <=> actions[j].pauses
  <2>1. CASE j = m
    <3>1. c \in here
      BY <1>12, <2>1 DEF here, a
    <3> QED
      BY <1>3, <2>1, <3>1 DEF a
  <2>2. CASE j \in 1 .. n
    <3>1. c \notin Reached(a)
      BY <1>2, <1>12, <2>2 DEF a
    <3>2. \A k \in 1 .. n : k > j => c \notin Reached(actions[k])
      BY <1>2, <1>12
    <3>3. c \in d.paused <=> actions[j].pauses
      BY <1>5, <1>12, <2>2, <3>2
    <3> QED
      BY <1>3, <3>1, <3>3
  <2> QED
    BY <1>2, <2>1, <2>2
<1>13. ASSUME NEW j \in 1 .. m, actions[j].builtIn /\ Done(actions[j]),
              \A k \in 1 .. m : k > j => ~(actions[k].builtIn /\ Done(actions[k]))
       PROVE  e.protocol <=> actions[j].pauses
  <2>1. CASE j = m
    BY <1>1, <1>13, <2>1 DEF a
  <2>2. CASE j \in 1 .. n
    <3>1. ~(a.builtIn /\ Done(a))
      BY <1>2, <1>13, <2>2 DEF a
    <3>2. \A k \in 1 .. n : k > j => ~(actions[k].builtIn /\ Done(actions[k]))
      BY <1>2, <1>13
    <3>3. d.protocol <=> actions[j].pauses
      BY <1>6, <1>13, <2>2, <3>2
    <3> QED
      BY <1>1, <3>1, <3>3
  <2> QED
    BY <1>2, <2>1, <2>2
<1>14. pausedContracts \subseteq Contract /\ obeying \subseteq Contract => e.paused \subseteq Contract
  BY <1>1, <1>7 DEF here
<1>15. protocolPaused \in BOOLEAN => e.protocol \in BOOLEAN
  BY <1>1, <1>7, <1>8
<1>16. Reports(e, actions, m)
  <2>1. \A c : (\A j \in 1 .. m : c \notin Reached(actions[j]))
                => (c \in e.paused <=> c \in pausedContracts)
    BY <1>11
  <2>2. \A j \in 1 .. m : \A c \in obeying :
          c \in Reached(actions[j]) /\ (\A k \in 1 .. m : k > j => c \notin Reached(actions[k]))
            => (c \in e.paused <=> actions[j].pauses)
    BY <1>12
  <2>3. \A j \in 1 .. m :
          actions[j].builtIn /\ Done(actions[j])
            /\ (\A k \in 1 .. m : k > j => ~(actions[k].builtIn /\ Done(actions[k])))
            => (e.protocol <=> actions[j].pauses)
    BY <1>13
  <2> QED
    BY <1>9, <1>10, <2>1, <2>2, <2>3, <1>14, <1>15 DEF Reports
<1> QED
  BY <1>16 DEF e, m

\* The recursive function behind Dispatch satisfies its equations.
LEMMA DispatchFollows ==
  ASSUME NEW actions, Len(actions) \in Nat
  PROVE  /\ DispatchUpTo(actions)[0]
              = [paused |-> pausedContracts, protocol |-> protocolPaused, results |-> <<>>]
         /\ \A i \in 1 .. Len(actions) :
              DispatchUpTo(actions)[i] = Dispatched(DispatchUpTo(actions)[i - 1], actions[i])
<1> DEFINE L == Len(actions)
           start == [paused |-> pausedContracts, protocol |-> protocolPaused, results |-> <<>>]
           Next1(prev, i) == Dispatched(prev, actions[i])
           Unfold(g) == [i \in 0 .. L |-> IF i = 0 THEN start ELSE Next1(g[i - 1], i)]
           Good(g, n) == g[0] = start /\ \A i \in 1 .. n : g[i] = Next1(g[i - 1], i)
           N == {n \in Nat : \E g : Good(g, n)}
           a == CHOOSE g : g = Unfold(g)
<1>1. DispatchUpTo(actions) = a
  BY DEF DispatchUpTo
<1>2. 0 \in N
  <2> DEFINE g == [i \in {0} |-> start]
  <2> HIDE DEF start
  <2>1. g[0] = start
    OBVIOUS
  <2>2. Good(g, 0)
    BY <2>1
  <2> QED
    BY <2>2
<1>3. ASSUME NEW n \in Nat, n \in N PROVE n + 1 \in N
  <2> HIDE DEF start, Next1
  <2>1. PICK g : Good(g, n)
    BY <1>3
  <2> DEFINE h == [i \in 0 .. n + 1 |-> IF i = n + 1 THEN Next1(g[n], n + 1) ELSE g[i]]
  <2>2. \A i \in 0 .. n : h[i] = g[i]
    OBVIOUS
  <2>3. h[n + 1] = Next1(g[n], n + 1)
    OBVIOUS
  <2> HIDE DEF h
  <2>4. h[0] = start
    BY <2>1, <2>2
  <2>5. \A i \in 1 .. n + 1 : h[i] = Next1(h[i - 1], i)
    <3> TAKE i \in 1 .. n + 1
    <3>1. CASE i = n + 1
      <4>1. (n + 1) - 1 = n /\ h[n] = g[n]
        BY <2>2
      <4> QED
        BY <2>3, <3>1, <4>1
    <3>2. CASE i # n + 1
      <4>1. i \in 1 .. n /\ i \in 0 .. n /\ i - 1 \in 0 .. n
        BY <3>2
      <4>2. h[i] = g[i] /\ h[i - 1] = g[i - 1]
        BY <2>2, <4>1
      <4>3. g[i] = Next1(g[i - 1], i)
        BY <2>1, <4>1
      <4> QED
        BY <4>2, <4>3
    <3> QED
      BY <3>1, <3>2
  <2>6. Good(h, n + 1)
    BY <2>4, <2>5
  <2> QED
    BY <2>6
<1>4. L \in N
  <2> HIDE DEF N, L
  <2>1. L \in Nat
    BY DEF L
  <2> QED
    BY <1>2, <1>3, <2>1, InductionOnNat
<1>5. PICK g : Good(g, L)
  BY <1>4
<1> DEFINE h == [i \in 0 .. L |-> g[i]]
<1> HIDE DEF start, Next1
<1>6. \A i \in 0 .. L : h[i] = IF i = 0 THEN start ELSE Next1(h[i - 1], i)
  <2> TAKE i \in 0 .. L
  <2>1. L \in Nat
    OBVIOUS
  <2> HIDE DEF L
  <2>2. CASE i = 0
    BY <1>5, <2>1, <2>2
  <2>3. CASE i # 0
    <3>1. i \in 1 .. L /\ i - 1 \in 0 .. L
      BY <2>1, <2>3
    <3>2. h[i] = g[i] /\ h[i - 1] = g[i - 1]
      BY <3>1
    <3> QED
      BY <1>5, <2>3, <3>1, <3>2
  <2> QED
    BY <2>2, <2>3
<1>7. h = Unfold(h)
  <2> DEFINE u == Unfold(h)
  <2>1. \A i \in 0 .. L : u[i] = IF i = 0 THEN start ELSE Next1(h[i - 1], i)
    OBVIOUS
  <2>2. \A i \in 0 .. L : u[i] = h[i]
    BY <1>6, <2>1
  <2>3. u = [i \in 0 .. L |-> u[i]]
    OBVIOUS
  <2> HIDE DEF u
  <2>4. u = h
    BY <2>2, <2>3
  <2> QED
    BY <2>4 DEF u
<1> HIDE DEF h
<1>8. a = Unfold(a)
  BY <1>7
<1> HIDE DEF a
<1>9. a[0] = start
  BY <1>8
<1>10. \A i \in 1 .. L : a[i] = Next1(a[i - 1], i)
  <2> TAKE i \in 1 .. L
  <2>1. i \in 0 .. L /\ i # 0
    OBVIOUS
  <2>2. Unfold(a)[i] = Next1(a[i - 1], i)
    BY <2>1
  <2> HIDE DEF Unfold
  <2> QED
    BY <1>8, <2>2
<1> QED
  BY <1>1, <1>9, <1>10 DEF start, Next1

Fillable(fills) == Len(fills) \in Nat /\ \A i \in 1 .. Len(fills) : fills[i].amount \in Int

LEMMA DispatchReports ==
  ASSUME NEW actions \in Seq(GovernanceAction)
  PROVE  Reports(Dispatch(actions), actions, Len(actions))
<1> DEFINE L == Len(actions)
           a == DispatchUpTo(actions)
           N == {n \in Nat : n <= L => Reports(a[n], actions, n)}
<1>1. L \in Nat /\ DOMAIN actions = 1 .. L
  BY LenProperties
<1>2. /\ a[0] = [paused |-> pausedContracts, protocol |-> protocolPaused, results |-> <<>>]
      /\ \A i \in 1 .. L : a[i] = Dispatched(a[i - 1], actions[i])
  BY <1>1, DispatchFollows
<1>3. \A i \in 1 .. L : actions[i].pauses \in BOOLEAN
  <2>1. \A i \in 1 .. L : actions[i] \in GovernanceAction
    BY ElementOfSeq
  <2>2. \A g \in GovernanceAction : g.pauses \in BOOLEAN
    BY DEF GovernanceAction
  <2> QED
    BY <2>1, <2>2
<1> HIDE DEF a, L
<1>4. Reports(a[0], actions, 0)
  <2> DEFINE d == a[0]
  <2>1. d.paused = pausedContracts /\ d.protocol = protocolPaused /\ d.results = <<>>
    BY <1>2
  <2>2. d.results \in Seq(BOOLEAN) /\ Len(d.results) = 0
    BY <2>1, EmptySeq
  <2>3. 1 .. 0 = {}
    OBVIOUS
  <2> HIDE DEF d
  <2>4. Reports(d, actions, 0)
    BY <2>1, <2>2, <2>3 DEF Reports
  <2> QED
    BY <2>4 DEF d
<1>5. ASSUME NEW n \in Nat, n \in N PROVE n + 1 \in N
  <2> SUFFICES ASSUME n + 1 <= L PROVE Reports(a[n + 1], actions, n + 1)
    OBVIOUS
  <2>1. n + 1 \in 1 .. L /\ (n + 1) - 1 = n /\ n <= L
    BY <1>1
  <2>2. Reports(a[n], actions, n)
    BY <1>5, <2>1
  <2>3. a[n + 1] = Dispatched(a[n], actions[n + 1])
    BY <1>2, <2>1
  <2>4. actions[n + 1].pauses \in BOOLEAN
    BY <1>3, <2>1
  <2>5. Reports(Dispatched(a[n], actions[n + 1]), actions, n + 1)
    BY <2>2, <2>4, DispatchedReports
  <2> QED
    BY <2>3, <2>5
<1>6. L \in N
  <2>1. 0 \in N
    BY <1>4
  <2> HIDE DEF N
  <2> QED
    BY <1>1, <1>5, <2>1, InductionOnNat
<1>7. Reports(a[L], actions, L)
  BY <1>1, <1>6
<1> QED
  BY <1>7 DEF Dispatch, a, L

\* How an execution of proposal id reports what it did.
Carried(id, results) ==
  LET p == proposals[id]
      end == Dispatch(p.actions)
  IN  /\ results = IF p.partial THEN end.results ELSE <<>>
      /\ ~p.partial => \A i \in DOMAIN p.actions : end.results[i]
      /\ pausedContracts' = end.paused
      /\ protocolPaused' = end.protocol

--------------------------------------------------------------------------------
(***************************************************************************)
(* The steps.                                                              *)
(***************************************************************************)

\* The proposal propose writes.
Fresh(p) ==
  /\ p.proposer \in members
  /\ p.actions \in ActionLists
  /\ p.partial \in BOOLEAN
  /\ p = [ proposer |-> p.proposer, actions |-> p.actions, partial |-> p.partial, results |-> <<>>,
           yes |-> 0, no |-> 0, eligible |-> Cardinality(members),
           totalWeight |-> TotalEligibleWeight, yesWeight |-> 0, noWeight |-> 0,
           status |-> "Pending", endsAt |-> time + govConfig.votingPeriod, readyAt |-> 0 ]

Proposing(p) ==
  /\ Fresh(p)
  /\ proposals' = Append(proposals, p)
  /\ voted' = Append(voted, {})
  /\ activeProposals' = Append(activeProposals, Len(proposals) + 1)
  /\ UNCHANGED <<time, members, govConfig, govToken, holdings>>

Voting(voter, id, approve, q) ==
  LET p == Counted(proposals[id], voter, approve)
  IN  /\ voter \in members
      /\ proposals[id].status \in {"Pending", "Active"}
      /\ voter \notin voted[id]
      /\ time <= proposals[id].endsAt
      /\ voted' = [voted EXCEPT ![id] = @ \cup {voter}]
      /\ proposals' = [proposals EXCEPT ![id] = q]
      /\ \/ q = p /\ UNCHANGED activeProposals
         \/ /\ Supported(p)
            /\ q = [p EXCEPT !.status = "Approved", !.readyAt = time + govConfig.timelock]
            /\ UNCHANGED activeProposals
         \/ /\ q = [p EXCEPT !.status = "Rejected"]
            /\ activeProposals' = Without(activeProposals, id)
      /\ UNCHANGED <<time, members, govConfig, govToken, holdings>>

\* The end of a proposal, by execution or otherwise.
Ending(id, q) ==
  /\ proposals' = [proposals EXCEPT ![id] = q]
  /\ activeProposals' = Without(activeProposals, id)
  /\ \/ /\ proposals[id].status = "Approved"
        /\ time >= proposals[id].readyAt
        /\ \E results : /\ Carried(id, results)
                        /\ q = [proposals[id] EXCEPT !.status = "Executed", !.results = results]
     \/ /\ proposals[id].status \in Undecided
        /\ \E s \in {"Cancelled", "Expired"} : q = [proposals[id] EXCEPT !.status = s]
  /\ UNCHANGED <<voted, time, members, govConfig, govToken, holdings>>

\* Whatever leaves the proposals alone.
Aside ==
  /\ UNCHANGED ballotVars
  /\ Settings => Settings'
  /\ time' = time \/ time' = time + 1

\* A step that leaves the settings to others leaves them as they are.
LEMMA SettingsKept ==
  ASSUME UNCHANGED <<members, govConfig, govToken, holdings>>,
         time' = time \/ time' = time + 1
  PROVE  Settings => Settings'
<1>1. ConfigFits => ConfigFits'
  BY DEF ConfigFits, GovernanceConfig
<1>2. Electorate => Electorate'
  BY DEF Electorate
<1> QED
  BY <1>1, <1>2 DEF Settings

LEMMA AdminSteps ==
  ASSUME NEW caller, AdminCalls(caller)
  PROVE  Aside
<1>1. ASSUME NEW c \in Configs, UpdateGovernanceConfig(caller, c) PROVE Aside
  <2>1. c \in GovernanceConfig
    BY GovernanceAssumption
  <2>4. c.approvalBps \in ApprovalShares
    <3>1. Validated(c)
      BY <1>1 DEF UpdateGovernanceConfig
    <3> QED
      BY <3>1 DEF Validated
  <2>2. govConfig' = c /\ UNCHANGED <<ballotVars, time, members, govToken, holdings>>
    BY <1>1 DEF UpdateGovernanceConfig, ByAdmin, outsideVars
  <2>3. Settings => Settings'
    <3>1. ConfigFits'
      BY <2>1, <2>2, <2>4 DEF ConfigFits, GovernanceConfig
    <3>2. Electorate => Electorate'
      BY <2>2 DEF Electorate
    <3> QED
      BY <3>1, <3>2 DEF Settings
  <2> QED
    BY <2>2, <2>3 DEF Aside
<1>2. ASSUME NEW m \in Person, AddMember(caller, m) \/ RemoveMember(caller, m) PROVE Aside
  <2>1. /\ members' \subseteq members \cup {m}
        /\ UNCHANGED <<ballotVars, time, govConfig, govToken, holdings>>
    BY <1>2 DEF AddMember, RemoveMember, ByAdmin, outsideVars
  <2>2. Settings => Settings'
    <3>1. ConfigFits => ConfigFits'
      BY <2>1 DEF ConfigFits, GovernanceConfig
    <3>2. Electorate => Electorate'
      BY <2>1 DEF Electorate
    <3> QED
      BY <3>1, <3>2 DEF Settings
  <2> QED
    BY <2>1, <2>2 DEF Aside
<1>3. ASSUME NEW t \in VotingTokens, SetGovernanceToken(caller, t) PROVE Aside
  <2>1. govToken' = t /\ UNCHANGED <<ballotVars, time, members, govConfig, holdings>>
    BY <1>3 DEF SetGovernanceToken, ByAdmin, outsideVars
  <2>2. Settings => Settings'
    <3>1. ConfigFits => ConfigFits'
      BY <2>1 DEF ConfigFits, GovernanceConfig
    <3>2. Electorate => Electorate'
      BY <2>1 DEF Electorate
    <3> QED
      BY <3>1, <3>2 DEF Settings
  <2> QED
    BY <2>1, <2>2 DEF Aside
<1>4. ASSUME \/ \E a \in Admins : TransferGovernanceAdmin(caller, a)
             \/ \E t \in CreditTokens : RegisterToken(caller, t) \/ DeregisterToken(caller, t)
             \/ \E o \in Oracles : RegisterOracle(caller, o) \/ DeregisterOracle(caller, o)
             \/ EmergencyPause(caller)
             \/ EmergencyUnpause(caller)
      PROVE  Aside
  <2>1. UNCHANGED <<ballotVars, time, members, govConfig, govToken, holdings>>
    BY <1>4 DEF TransferGovernanceAdmin, RegisterToken, DeregisterToken, RegisterOracle,
                DeregisterOracle, EmergencyPause, EmergencyUnpause, Emergency,
                ByAdmin, outsideVars, adminVars
  <2> QED
    BY <2>1, SettingsKept DEF Aside
<1> QED
  BY <1>1, <1>2, <1>3, <1>4 DEF AdminCalls

LEMMA OutsideSteps ==
  ASSUME OutsideCalls
  PROVE  Aside
<1>1. ASSUME NEW t \in VotingTokens, NEW from \in Person, NEW to \in Person,
             NEW n \in TransferAmounts, MoveWeight(t, from, to, n)
      PROVE  Aside
  <2> DEFINE b == holdings[t]
             moved == [b EXCEPT ![from] = b[from] - n, ![to] = b[to] + n]
  <2>1. n \in Nat
    BY GovernanceAssumption
  <2>2. /\ b[from] >= n
        /\ holdings' = [holdings EXCEPT ![t] = moved]
        /\ UNCHANGED <<ballotVars, time, members, govToken>>
    BY <1>1 DEF MoveWeight, ByOthers, adminVars
  <2>6. UNCHANGED govConfig
    BY <1>1 DEF MoveWeight, ByOthers, adminVars
  <2>3. ASSUME Electorate PROVE Electorate'
    <3>1. b \in [Person -> Nat]
      BY <2>3 DEF Electorate
    <3>2. b[from] - n \in Nat /\ b[to] + n \in Nat
      BY <3>1, <2>1, <2>2
    <3>3. moved \in [Person -> Nat]
      BY <3>1, <3>2
    <3> HIDE DEF moved, b
    <3>4. holdings' \in [VotingTokens -> [Person -> Nat]]
      BY <2>2, <2>3, <3>3 DEF Electorate
    <3> QED
      BY <2>2, <2>3, <3>4 DEF Electorate
  <2>4. ConfigFits => ConfigFits'
    BY <2>6 DEF ConfigFits, GovernanceConfig
  <2>5. Settings => Settings'
    BY <2>3, <2>4 DEF Settings
  <2> QED
    BY <2>2, <2>5 DEF Aside
<1>2. ASSUME NEW c \in Contract, SetGuardian(c) \/ PauseOrUnpauseDirectly(c) PROVE Aside
  <2>1. UNCHANGED <<ballotVars, time, members, govConfig, govToken, holdings>>
    BY <1>2 DEF SetGuardian, PauseOrUnpauseDirectly, ByOthers, adminVars
  <2> QED
    BY <2>1, SettingsKept DEF Aside
<1> QED
  BY <1>1, <1>2 DEF OutsideCalls

LEMMA BallotSteps ==
  ASSUME NEW caller, NEW id \in DOMAIN proposals, NEW approve \in BOOLEAN
  PROVE  /\ Vote(caller, id, approve) => \E q : Voting(caller, id, approve, q)
         /\ Execute(caller, id) => \E q : Ending(id, q)
         /\ CancelProposal(caller, id) => \E q : Ending(id, q)
         /\ ExpireProposal(id) => \E q : Ending(id, q)
<1> DEFINE p == proposals[id]
           counted == Counted(p, caller, approve)
<1>1. ASSUME Vote(caller, id, approve) PROVE \E q : Voting(caller, id, approve, q)
  <2>1. UNCHANGED <<time, members, govConfig, govToken, holdings>>
    BY <1>1 DEF Vote, adminVars, outsideVars
  <2> DEFINE passed == [counted EXCEPT !.status = "Approved", !.readyAt = time + govConfig.timelock]
             failed == [counted EXCEPT !.status = "Rejected"]
  <2>2. \/ proposals' = [proposals EXCEPT ![id] = counted] /\ UNCHANGED activeProposals
        \/ /\ Supported(counted)
           /\ proposals' = [proposals EXCEPT ![id] = passed]
           /\ UNCHANGED activeProposals
        \/ /\ proposals' = [proposals EXCEPT ![id] = failed]
           /\ activeProposals' = Without(activeProposals, id)
    BY <1>1 DEF Vote
  <2>3. /\ caller \in members
        /\ p.status \in {"Pending", "Active"}
        /\ caller \notin voted[id]
        /\ time <= p.endsAt
        /\ voted' = [voted EXCEPT ![id] = @ \cup {caller}]
    BY <1>1 DEF Vote
  <2>4. CASE proposals' = [proposals EXCEPT ![id] = counted] /\ UNCHANGED activeProposals
    <3>1. Voting(caller, id, approve, counted)
      BY <2>1, <2>3, <2>4 DEF Voting
    <3> QED
      BY <3>1
  <2>5. CASE /\ Supported(counted)
             /\ proposals' = [proposals EXCEPT ![id] = passed]
             /\ UNCHANGED activeProposals
    <3>1. Voting(caller, id, approve, passed)
      BY <2>1, <2>3, <2>5 DEF Voting
    <3> QED
      BY <3>1
  <2>6. CASE /\ proposals' = [proposals EXCEPT ![id] = failed]
             /\ activeProposals' = Without(activeProposals, id)
    <3>1. Voting(caller, id, approve, failed)
      BY <2>1, <2>3, <2>6 DEF Voting
    <3> QED
      BY <3>1
  <2> QED
    BY <2>2, <2>4, <2>5, <2>6
<1>2. ASSUME Execute(caller, id) PROVE \E q : Ending(id, q)
  <2> DEFINE results == IF p.partial THEN Dispatch(p.actions).results ELSE <<>>
             q == [p EXCEPT !.status = "Executed", !.results = results]
  <2>1. /\ p.status = "Approved"
        /\ time >= p.readyAt
        /\ proposals' = [proposals EXCEPT ![id] = q]
        /\ activeProposals' = Without(activeProposals, id)
    BY <1>2 DEF Execute
  <2>4. Carried(id, results)
    BY <1>2 DEF Execute, Carried
  <2>2. UNCHANGED <<voted, time, members, govConfig, govToken, holdings>>
    BY <1>2 DEF Execute, adminVars, outsideVars
  <2> HIDE DEF results
  <2>3. Ending(id, q)
    BY <2>1, <2>2, <2>4 DEF Ending
  <2> QED
    BY <2>3
<1>3. ASSUME NEW s \in {"Cancelled", "Expired"}, Resolve(id, s), p.status \in Undecided
      PROVE  \E q : Ending(id, q)
  <2>1. /\ proposals' = [proposals EXCEPT ![id] = [p EXCEPT !.status = s]]
        /\ activeProposals' = Without(activeProposals, id)
    BY <1>3 DEF Resolve
  <2>2. UNCHANGED <<voted, time, members, govConfig, govToken, holdings>>
    BY <1>3 DEF Resolve, adminVars, outsideVars
  <2>3. Ending(id, [p EXCEPT !.status = s])
    BY <1>3, <2>1, <2>2 DEF Ending
  <2> QED
    BY <2>3
<1> QED
  BY <1>1, <1>2, <1>3 DEF CancelProposal, ExpireProposal, Undecided

LEMMA GovernanceSteps ==
  ASSUME [GovernanceNext]_governanceVars
  PROVE  \/ \E p : Proposing(p)
         \/ \E id \in DOMAIN proposals : \/ \E v : \E a \in BOOLEAN : \E q : Voting(v, id, a, q)
                                         \/ \E q : Ending(id, q)
         \/ Aside
<1> DEFINE Proposes == \E p : Proposing(p)
           Votes(id) == \E v : \E a \in BOOLEAN : \E q : Voting(v, id, a, q)
           Ends(id) == \E q : Ending(id, q)
           Goal == Proposes \/ (\E id \in DOMAIN proposals : Votes(id) \/ Ends(id)) \/ Aside
<1> SUFFICES Goal
  OBVIOUS
<1>1. ASSUME NEW caller, NEW actions \in ActionLists, NEW partial \in BOOLEAN,
             Propose(caller, actions, partial)
      PROVE  Proposes
  <2> DEFINE p == [ proposer |-> caller, actions |-> actions, partial |-> partial, results |-> <<>>,
           yes |-> 0, no |-> 0, eligible |-> Cardinality(members),
           totalWeight |-> TotalEligibleWeight, yesWeight |-> 0, noWeight |-> 0,
           status |-> "Pending", endsAt |-> time + govConfig.votingPeriod, readyAt |-> 0 ]
  <2>1. /\ caller \in members
        /\ proposals' = Append(proposals, p)
        /\ voted' = Append(voted, {})
        /\ activeProposals' = Append(activeProposals, Len(proposals) + 1)
    BY <1>1 DEF Propose
  <2>2. UNCHANGED <<time, members, govConfig, govToken, holdings>>
    BY <1>1 DEF Propose, adminVars, outsideVars
  <2>3. Fresh(p)
    BY <2>1 DEF Fresh
  <2> HIDE DEF p
  <2>4. Proposing(p)
    BY <2>1, <2>2, <2>3 DEF Proposing
  <2> QED
    BY <2>4
<1>2. ASSUME NEW caller, NEW id \in DOMAIN proposals, NEW approve \in BOOLEAN,
             Vote(caller, id, approve)
      PROVE  Votes(id)
  BY <1>2, BallotSteps
<1>3. ASSUME NEW caller, NEW id \in DOMAIN proposals,
             Execute(caller, id) \/ CancelProposal(caller, id) \/ ExpireProposal(id)
      PROVE  Ends(id)
  BY <1>3, BallotSteps
<1> HIDE DEF Proposes, Votes, Ends
<1>4. ASSUME NEW caller, ProposalCalls(caller) PROVE Goal
  BY <1>1, <1>2, <1>3, <1>4 DEF ProposalCalls
<1>5. TimePasses => Aside
  <2>1. TimePasses => /\ time' = time + 1
                      /\ UNCHANGED <<ballotVars, members, govConfig, govToken, holdings>>
    BY DEF TimePasses, adminVars, outsideVars
  <2> QED
    BY <2>1, SettingsKept DEF Aside
<1>6. UNCHANGED governanceVars => Aside
  <2>1. UNCHANGED governanceVars
          => UNCHANGED <<ballotVars, time, members, govConfig, govToken, holdings>>
    BY DEF governanceVars, adminVars, outsideVars
  <2> QED
    BY <2>1, SettingsKept DEF Aside
<1>7. ASSUME NEW id \in DOMAIN proposals, ExpireProposal(id) PROVE Goal
  BY <1>3, <1>7
<1> HIDE DEF Goal
<1>8. Aside => Goal
  BY DEF Goal
<1> QED
  BY <1>4, <1>5, <1>6, <1>7, <1>8, AdminSteps, OutsideSteps DEF GovernanceNext

--------------------------------------------------------------------------------
(***************************************************************************)
(* Types.                                                                  *)
(***************************************************************************)

LEMMA WeightTyped ==
  ASSUME Settings, NEW v \in members
  PROVE  v \in Person /\ Weight(v) \in Nat
<1>1. v \in Person
  BY DEF Settings, Electorate
<1>2. Weighted => holdings[govToken] \in [Person -> Nat]
  BY DEF Settings, Electorate, Weighted
<1> QED
  BY <1>1, <1>2 DEF Weight

LEMMA TotalTyped ==
  ASSUME Settings
  PROVE  Cardinality(members) \in Nat /\ TotalEligibleWeight \in Nat
<1>1. IsFiniteSet(Person) /\ FirstHoldings \in [VotingTokens -> [Person -> Nat]]
  BY GovernanceAssumption
<1>2. Cardinality(members) \in Nat
  <2>1. members \subseteq Person
    BY DEF Settings, Electorate
  <2> QED
    BY <1>1, <2>1, FS_Subset, FS_CardinalityType
<1>3. ASSUME Weighted PROVE Supply(govToken) \in Nat
  <2> DEFINE f == FirstHoldings[govToken]
  <2>1. govToken \in VotingTokens
    BY <1>3 DEF Settings, Electorate, Weighted
  <2>2. f \in [Person -> Nat]
    BY <1>1, <2>1
  <2>3. DOMAIN f = Person /\ \A x \in Person : f[x] \in Nat
    BY <2>2
  <2> HIDE DEF f
  <2>4. SumFunctionOnSet(f, Person) \in Nat
    BY <1>1, <2>3, SumBoundsTerms
  <2>5. SumFunction(f) = SumFunctionOnSet(f, Person)
    BY <2>3 DEF SumFunction
  <2> QED
    BY <2>4, <2>5 DEF Supply, f
<1> QED
  BY <1>2, <1>3 DEF TotalEligibleWeight

\* What a ballot adds to the proposal it is cast on.
LEMMA CountedFields ==
  ASSUME Settings, NEW p \in Proposals, NEW v \in members, NEW approve \in BOOLEAN
  PROVE  LET c == Counted(p, v, approve)
         IN  /\ c \in Proposals
             /\ \A field \in {"proposer", "actions", "partial", "endsAt", "readyAt"} : c[field] = p[field]
             /\ c.status = "Active"
             /\ c.yes + c.no = p.yes + p.no + 1
             /\ c.yes = 0 => p.yes = 0 /\ c.yesWeight = p.yesWeight
<1> DEFINE w == Weight(v)
<1>1. w \in Nat
  BY WeightTyped
<1>2. /\ p.yes \in Nat /\ p.no \in Nat /\ p.yesWeight \in Nat /\ p.noWeight \in Nat
  BY DEF Proposals
<1> HIDE DEF w
<1>3. CASE approve
  <2>1. PICK y \in Nat, a \in Nat : y = p.yes + 1 /\ a = p.yesWeight + w
    BY <1>1, <1>2
  <2>2. Counted(p, v, approve) = [p EXCEPT !.status = "Active", !.yes = y, !.yesWeight = a]
    BY <1>3, <2>1 DEF Counted, w
  <2>3. LET c == Counted(p, v, approve)
        IN  /\ c \in Proposals
            /\ \A field \in {"proposer", "actions", "partial", "endsAt", "readyAt"} : c[field] = p[field]
            /\ c.status = "Active" /\ c.yes = y /\ c.no = p.no
    BY <2>2, ZenonT(30) DEF Proposals, Statuses, Undecided
  <2> QED
    BY <1>2, <2>1, <2>3
<1>4. CASE ~approve
  <2>1. PICK n \in Nat, b \in Nat : n = p.no + 1 /\ b = p.noWeight + w
    BY <1>1, <1>2
  <2>2. Counted(p, v, approve) = [p EXCEPT !.status = "Active", !.no = n, !.noWeight = b]
    BY <1>4, <2>1 DEF Counted, w
  <2>3. LET c == Counted(p, v, approve)
        IN  /\ c \in Proposals
            /\ \A field \in {"proposer", "actions", "partial", "endsAt", "readyAt"} : c[field] = p[field]
            /\ c.status = "Active" /\ c.yes = p.yes /\ c.no = n /\ c.yesWeight = p.yesWeight
    BY <2>2, ZenonT(30) DEF Proposals, Statuses, Undecided
  <2> QED
    BY <1>2, <2>1, <2>3
<1> QED
  BY <1>3, <1>4

\* What is written back: the proposal with the ballot, decided by it or not.
LEMMA VotingFields ==
  ASSUME Settings, NEW id \in DOMAIN proposals, proposals[id] \in Proposals,
         NEW v, NEW approve \in BOOLEAN, NEW q, Voting(v, id, approve, q)
  PROVE  LET p == proposals[id]
         IN  /\ q \in Proposals
             /\ \A field \in {"proposer", "actions", "partial", "endsAt"} : q[field] = p[field]
             /\ q.yes + q.no = p.yes + p.no + 1
             /\ q.yes = 0 => p.yes = 0 /\ q.yesWeight = p.yesWeight
             /\ \/ /\ q.status = "Active" /\ q.readyAt = p.readyAt
                   /\ UNCHANGED activeProposals
                \/ /\ q.status = "Approved" /\ Supported(q)
                   /\ q.readyAt = time + govConfig.timelock
                   /\ UNCHANGED activeProposals
                \/ /\ q.status = "Rejected" /\ q.readyAt = p.readyAt
                   /\ activeProposals' = Without(activeProposals, id)
<1> DEFINE p == proposals[id]
           c == Counted(p, v, approve)
<1>1. /\ c \in Proposals
      /\ \A field \in {"proposer", "actions", "partial", "endsAt", "readyAt"} : c[field] = p[field]
      /\ c.status = "Active"
      /\ c.yes + c.no = p.yes + p.no + 1
      /\ c.yes = 0 => p.yes = 0 /\ c.yesWeight = p.yesWeight
  BY CountedFields DEF Voting
<1>2. \/ q = c /\ UNCHANGED activeProposals
      \/ /\ Supported(c)
         /\ q = [c EXCEPT !.status = "Approved", !.readyAt = time + govConfig.timelock]
         /\ UNCHANGED activeProposals
      \/ /\ q = [c EXCEPT !.status = "Rejected"]
         /\ activeProposals' = Without(activeProposals, id)
  BY DEF Voting
<1>3. time + govConfig.timelock \in Nat
  BY DEF Settings, ConfigFits, Electorate, GovernanceConfig
<1> HIDE DEF c, p
<1>4. CASE q = c /\ UNCHANGED activeProposals
  BY <1>1, <1>4 DEF p
<1>5. CASE /\ Supported(c)
           /\ q = [c EXCEPT !.status = "Approved", !.readyAt = time + govConfig.timelock]
           /\ UNCHANGED activeProposals
  <2>1. PICK r \in Nat : r = time + govConfig.timelock
    BY <1>3
  <2>2. q = [c EXCEPT !.status = "Approved", !.readyAt = r]
    BY <1>5, <2>1
  <2>3. /\ q \in Proposals
        /\ \A field \in {"proposer", "actions", "partial", "endsAt"} : q[field] = c[field]
        /\ q.yes = c.yes /\ q.no = c.no /\ q.yesWeight = c.yesWeight /\ q.noWeight = c.noWeight
        /\ q.status = "Approved" /\ q.readyAt = r
    BY <1>1, <2>2 DEF Proposals, Statuses, Undecided
  <2>4. Supported(q)
    BY <1>5, <2>3 DEF Supported
  <2> QED
    BY <1>1, <1>5, <2>1, <2>3, <2>4 DEF p
<1>6. CASE /\ q = [c EXCEPT !.status = "Rejected"]
           /\ activeProposals' = Without(activeProposals, id)
  <2>1. /\ q \in Proposals
        /\ \A field \in {"proposer", "actions", "partial", "endsAt", "readyAt"} : q[field] = c[field]
        /\ q.yes = c.yes /\ q.no = c.no /\ q.yesWeight = c.yesWeight
        /\ q.status = "Rejected"
    BY <1>1, <1>6 DEF Proposals, Statuses, Undecided
  <2> QED
    BY <1>1, <1>6, <2>1 DEF p
<1> QED
  BY <1>2, <1>4, <1>5, <1>6

LEMMA EndingFields ==
  ASSUME NEW id \in DOMAIN proposals, proposals[id] \in Proposals, NEW q, Ending(id, q)
  PROVE  LET p == proposals[id]
         IN  /\ q.status \in Statuses
             /\ q \in Proposals
             /\ \A field \in {"proposer", "actions", "partial", "endsAt", "readyAt",
                               "yes", "no", "yesWeight"} : q[field] = p[field]
             /\ \/ /\ p.status = "Approved" /\ q.status = "Executed" /\ time >= p.readyAt
                   /\ Carried(id, q.results)
                \/ p.status \in Undecided /\ q.status \in {"Cancelled", "Expired"}
<1> DEFINE p == proposals[id]
<1> HIDE DEF p
<1>0. p \in Proposals
  BY DEF p
<1>1. ASSUME NEW results \in Seq(BOOLEAN), q = [p EXCEPT !.status = "Executed", !.results = results]
      PROVE  /\ q \in Proposals /\ q.status = "Executed" /\ q.results = results
             /\ \A field \in {"proposer", "actions", "partial", "endsAt", "readyAt",
                               "yes", "no", "yesWeight"} : q[field] = p[field]
  BY <1>0, <1>1 DEF Proposals, Statuses, Undecided
<1>2. ASSUME NEW s \in {"Cancelled", "Expired"}, q = [p EXCEPT !.status = s]
      PROVE  /\ q \in Proposals /\ q.status = s
             /\ \A field \in {"proposer", "actions", "partial", "endsAt", "readyAt",
                               "yes", "no", "yesWeight"} : q[field] = p[field]
  BY <1>0, <1>2 DEF Proposals, Statuses, Undecided
<1>3. CASE p.status = "Approved" /\ time >= p.readyAt
           /\ \E results : /\ Carried(id, results)
                           /\ q = [p EXCEPT !.status = "Executed", !.results = results]
  <2>1. PICK results : /\ Carried(id, results)
                       /\ q = [p EXCEPT !.status = "Executed", !.results = results]
    BY <1>3
  <2>2. results \in Seq(BOOLEAN)
    <3>1. p.actions \in Seq(GovernanceAction)
      BY <1>0, GovernanceAssumption DEF Proposals
    <3>2. Dispatch(p.actions).results \in Seq(BOOLEAN)
      BY <3>1, DispatchReports DEF Reports
    <3> QED
      BY <2>1, <3>2, EmptySeq DEF Carried, p
  <2> QED
    BY <1>1, <1>3, <2>1, <2>2 DEF p, Statuses
<1>4. CASE p.status \in Undecided /\ \E s \in {"Cancelled", "Expired"} : q = [p EXCEPT !.status = s]
  <2>1. PICK s \in {"Cancelled", "Expired"} : q = [p EXCEPT !.status = s]
    BY <1>4
  <2> QED
    BY <1>2, <1>4, <2>1 DEF p, Statuses
<1> QED
  BY <1>3, <1>4 DEF Ending, p

LEMMA TypedInit == GovernanceInit => Typed
<1> SUFFICES ASSUME GovernanceInit PROVE Typed
  OBVIOUS
<1>1. /\ members = FirstMembers /\ govConfig = FirstConfig /\ proposals = <<>> /\ voted = <<>>
      /\ govToken = NoToken /\ holdings = FirstHoldings /\ time = 1
  BY DEF GovernanceInit
<1>2. /\ FirstMembers \subseteq Person /\ FirstHoldings \in [VotingTokens -> [Person -> Nat]]
      /\ FirstConfig \in GovernanceConfig /\ FirstConfig.approvalBps \in ApprovalShares
  BY GovernanceAssumption
<1>3. ConfigFits
  BY <1>1, <1>2 DEF ConfigFits
<1>4. Electorate
  BY <1>1, <1>2 DEF Electorate
<1>5. voted \in Seq(SUBSET Person) /\ Len(voted) = Len(proposals)
  BY <1>1, EmptySeq
<1>6. proposals \in Seq(Proposals)
  BY <1>1, EmptySeq
<1> QED
  BY <1>3, <1>4, <1>5, <1>6 DEF Typed, Settings

\* Where a proposal is, its ballots are.
LEMMA Ids ==
  ASSUME Typed
  PROVE  /\ Len(proposals) \in Nat
         /\ DOMAIN proposals = 1 .. Len(proposals)
         /\ DOMAIN voted = DOMAIN proposals
         /\ \A id \in DOMAIN proposals : voted[id] \subseteq Person /\ IsFiniteSet(voted[id])
<1>1. proposals \in Seq(Proposals)
  BY DEF Typed
<1>2. Len(proposals) \in Nat /\ DOMAIN proposals = 1 .. Len(proposals)
  BY <1>1, LenProperties
<1>3. voted \in Seq(SUBSET Person) /\ Len(voted) = Len(proposals)
  BY DEF Typed
<1>4. DOMAIN voted = 1 .. Len(voted) /\ \A id \in 1 .. Len(voted) : voted[id] \in SUBSET Person
  BY <1>3, LenProperties, ElementOfSeq
<1>5. IsFiniteSet(Person)
  BY GovernanceAssumption
<1> QED
  BY <1>2, <1>3, <1>4, <1>5, FS_Subset

\* The proposals and ballots after a step that adds or rewrites one.
LEMMA TypedKept ==
  ASSUME Typed, [GovernanceNext]_governanceVars
  PROVE  Typed'
<1>0. proposals \in Seq(Proposals)
  BY DEF Typed
<1>1. voted \in Seq(SUBSET Person) /\ Len(voted) = Len(proposals) /\ Settings
  BY DEF Typed
<1>2. DOMAIN proposals = 1 .. Len(proposals) /\ DOMAIN voted = 1 .. Len(voted)
  BY <1>0, <1>1, LenProperties
<1>3. ASSUME NEW p, Proposing(p) PROVE Typed'
  <2>2. p \in Proposals
    <3> DEFINE total == TotalEligibleWeight
               ends == time + govConfig.votingPeriod
               count == Cardinality(members)
               none == <<>>
    <3>1. total \in Nat /\ count \in Nat
      BY <1>1, TotalTyped
    <3>2. ends \in Nat
      BY <1>1 DEF Settings, ConfigFits, Electorate, GovernanceConfig
    <3>3. p.proposer \in Person
      BY <1>1, <1>3 DEF Settings, Electorate, Proposing, Fresh
    <3>4. p.actions \in ActionLists /\ p.partial \in BOOLEAN
      BY <1>3 DEF Proposing, Fresh
    <3>5. p = [ proposer |-> p.proposer, actions |-> p.actions, partial |-> p.partial,
                results |-> none, yes |-> 0, no |-> 0, eligible |-> count, totalWeight |-> total,
                yesWeight |-> 0, noWeight |-> 0, status |-> "Pending", endsAt |-> ends,
                readyAt |-> 0 ]
      BY <1>3 DEF Proposing, Fresh
    <3>6. "Pending" \in Statuses /\ none \in Seq(BOOLEAN)
      BY EmptySeq DEF Statuses, Undecided
    <3> HIDE DEF total, ends, count, none
    <3> QED
      BY <3>1, <3>2, <3>3, <3>4, <3>5, <3>6 DEF Proposals
  <2>3. proposals' = Append(proposals, p) /\ voted' = Append(voted, {})
    BY <1>3 DEF Proposing
  <2>4. proposals' \in Seq(Proposals) /\ Len(proposals') = Len(proposals) + 1
    BY <1>0, <2>2, <2>3, AppendProperties
  <2>5. voted' \in Seq(SUBSET Person) /\ Len(voted') = Len(voted) + 1
    BY <1>1, <2>3, AppendProperties
  <2>6. Settings'
    <3>1. UNCHANGED <<time, members, govConfig, govToken, holdings>>
      BY <1>3 DEF Proposing
    <3> QED
      BY <1>1, <3>1, SettingsKept
  <2> QED
    BY <1>1, <2>4, <2>5, <2>6 DEF Typed
<1>4. ASSUME NEW id \in DOMAIN proposals, NEW v, NEW a \in BOOLEAN, NEW q, Voting(v, id, a, q)
      PROVE  Typed'
  <2>1. proposals[id] \in Proposals
    BY <1>0, <1>2, ElementOfSeq
  <2>2. q \in Proposals
    BY <1>1, <1>4, <2>1, VotingFields
  <2>3. /\ proposals' = [proposals EXCEPT ![id] = q]
        /\ voted' = [voted EXCEPT ![id] = voted[id] \cup {v}]
        /\ v \in members
    BY <1>4 DEF Voting
  <2>4. proposals' \in Seq(Proposals) /\ Len(proposals') = Len(proposals)
    BY <1>0, <1>2, <2>2, <2>3, ExceptSeq
  <2>5. voted[id] \cup {v} \in SUBSET Person
    BY <1>1, <1>2, <2>3, ElementOfSeq DEF Settings, Electorate
  <2>6. voted' \in Seq(SUBSET Person) /\ Len(voted') = Len(voted)
    BY <1>1, <1>2, <2>3, <2>5, ExceptSeq
  <2>7. Settings'
    <3>1. UNCHANGED <<time, members, govConfig, govToken, holdings>>
      BY <1>4 DEF Voting
    <3> QED
      BY <1>1, <3>1, SettingsKept
  <2> QED
    BY <1>1, <2>4, <2>6, <2>7 DEF Typed
<1>5. ASSUME NEW id \in DOMAIN proposals, NEW q, Ending(id, q) PROVE Typed'
  <2>1. proposals[id] \in Proposals
    BY <1>0, <1>2, ElementOfSeq
  <2>2. q \in Proposals
    BY <1>5, <2>1, EndingFields
  <2>4. /\ proposals' = [proposals EXCEPT ![id] = q]
        /\ voted' = voted
    BY <1>5 DEF Ending
  <2>5. proposals' \in Seq(Proposals) /\ Len(proposals') = Len(proposals)
    BY <1>0, <1>2, <2>2, <2>4, ExceptSeq
  <2>6. Settings'
    <3>1. UNCHANGED <<time, members, govConfig, govToken, holdings>>
      BY <1>5 DEF Ending
    <3> QED
      BY <1>1, <3>1, SettingsKept
  <2> QED
    BY <1>1, <2>4, <2>5, <2>6 DEF Typed
<1>6. ASSUME Aside PROVE Typed'
  <2>1. proposals' = proposals /\ voted' = voted /\ Settings'
    BY <1>1, <1>6 DEF Aside, ballotVars
  <2> QED
    BY <1>0, <1>1, <2>1 DEF Typed
<1> QED
  BY <1>3, <1>4, <1>5, <1>6, GovernanceSteps

LEMMA AlwaysTyped == GovernanceSpec => []Typed
<1>1. Typed /\ [GovernanceNext]_governanceVars => Typed'
  BY TypedKept
<1> QED
  BY <1>1, TypedInit, PTL DEF GovernanceSpec

--------------------------------------------------------------------------------
(***************************************************************************)
(* What a proposal that passed has behind it.                              *)
(***************************************************************************)

\* The counts of a proposal are its ballots; without a vote for it, it has no
\* weight for it either.
Holds(p, ballots) ==
  /\ p.yes + p.no = Cardinality(ballots)
  /\ p.yes = 0 => p.yesWeight = 0
  /\ p.status \in {"Approved", "Executed"} => p.yes > 0

Backed == \A id \in DOMAIN proposals : Holds(proposals[id], voted[id])

\* No share of the votes is reached without a vote for the proposal.
LEMMA ThresholdNeedsYes ==
  ASSUME Settings, NEW yes \in Nat, NEW no \in Nat, ThresholdReached(yes, no)
  PROVE  yes > 0
<1> SUFFICES ASSUME yes = 0 PROVE FALSE
  OBVIOUS
<1>1. PICK least \in Nat : least = govConfig.approvalBps /\ least > 0
  <2> DEFINE bps == govConfig.approvalBps
  <2>1. bps \in ApprovalShares
    BY DEF Settings, ConfigFits
  <2> HIDE DEF bps
  <2>2. bps \in Nat /\ bps > 0
    BY <2>1, SMT DEF ApprovalShares
  <2> QED
    BY <2>2 DEF bps
<1>2. no > 0 /\ (yes * 10000) \div (yes + no) >= least
  BY <1>1 DEF ThresholdReached
<1> DEFINE share == (yes * 10000) \div (yes + no)
<1>3. share = 0
  <2>1. PICK z \in Nat : z = yes * 10000 /\ z = 0
    OBVIOUS
  <2>2. PICK all \in Nat : all = yes + no /\ all > 0
    BY <1>2
  <2>3. z \div all = 0
    BY <2>1, <2>2
  <2> QED
    BY <2>1, <2>2, <2>3
<1>4. share >= least
  BY <1>2
<1> HIDE DEF share
<1>5. PICK s \in Nat : s = share /\ s = 0
  BY <1>3
<1>6. ~(s >= least)
  BY <1>1, <1>5
<1> QED
  BY <1>4, <1>5, <1>6

LEMMA BackedKept ==
  ASSUME Typed, Backed, [GovernanceNext]_governanceVars
  PROVE  Backed'
<1>0. proposals \in Seq(Proposals)
  BY DEF Typed
<1>1. /\ voted \in Seq(SUBSET Person) /\ Len(voted) = Len(proposals) /\ Settings
  BY DEF Typed
<1>2. /\ Len(proposals) \in Nat /\ DOMAIN proposals = 1 .. Len(proposals)
      /\ DOMAIN voted = DOMAIN proposals
      /\ \A id \in DOMAIN proposals : IsFiniteSet(voted[id])
  BY Ids
<1>3. \A id \in DOMAIN proposals : proposals[id] \in Proposals
  BY <1>0, <1>2, ElementOfSeq
<1>4. \A id \in DOMAIN proposals : Holds(proposals[id], voted[id])
  BY DEF Backed
<1>5. Backed' <=> \A id \in DOMAIN proposals' : Holds(proposals'[id], voted'[id])
  BY DEF Backed
<1>6. ASSUME NEW p, Proposing(p) PROVE Backed'
  <2>1. proposals' = Append(proposals, p) /\ voted' = Append(voted, {})
    BY <1>6 DEF Proposing
  <2>2. p.yes = 0 /\ p.no = 0 /\ p.yesWeight = 0 /\ p.status = "Pending"
    BY <1>6 DEF Proposing, Fresh
  <2> DEFINE S == Proposals \cup {p}
  <2>3. p \in S /\ proposals \in Seq(S)
    <3>1. Proposals \subseteq S
      OBVIOUS
    <3> QED
      BY <1>0, <3>1, SeqMonotonic
  <2> HIDE DEF S
  <2>4. /\ DOMAIN proposals' = DOMAIN proposals \cup {Len(proposals) + 1}
        /\ proposals'[Len(proposals) + 1] = p
        /\ \A id \in DOMAIN proposals : proposals'[id] = proposals[id]
    BY <1>2, <2>1, <2>3, AppendProperties, LenProperties
  <2>5. /\ voted'[Len(proposals) + 1] = {}
        /\ \A id \in DOMAIN proposals : voted'[id] = voted[id]
    BY <1>1, <1>2, <2>1, AppendProperties, LenProperties
  <2>6. Cardinality({}) = 0
    BY FS_EmptySet
  <2>7. Holds(p, {})
    BY <2>2, <2>6 DEF Holds
  <2> QED
    BY <1>4, <1>5, <2>4, <2>5, <2>7
<1>7. ASSUME NEW id \in DOMAIN proposals, NEW v, NEW a \in BOOLEAN, NEW q, Voting(v, id, a, q)
      PROVE  Backed'
  <2> DEFINE p == proposals[id]
             ballots == voted[id]
  <2>0. Holds(p, ballots)
    BY <1>4
  <2>1. /\ q \in Proposals
        /\ q.yes + q.no = p.yes + p.no + 1
        /\ q.yes = 0 => p.yes = 0 /\ q.yesWeight = p.yesWeight
        /\ \/ q.status \in {"Active", "Rejected"}
           \/ q.status = "Approved" /\ Supported(q)
    BY <1>1, <1>3, <1>7, VotingFields
  <2>2. /\ proposals' = [proposals EXCEPT ![id] = q]
        /\ voted' = [voted EXCEPT ![id] = ballots \cup {v}]
        /\ v \notin ballots
    BY <1>7 DEF Voting
  <2>3. Cardinality(ballots \cup {v}) = Cardinality(ballots) + 1
    BY <1>2, <2>2, FS_AddElement
  <2>4. q.yes \in Nat /\ q.no \in Nat /\ q.yesWeight \in Nat /\ q.noWeight \in Nat
    BY <2>1 DEF Proposals
  <2>5. q.yes = 0 => q.yesWeight = 0
    BY <2>0, <2>1 DEF Holds
  <2>6. q.status = "Approved" => q.yes > 0
    <3>1. ASSUME Supported(q) PROVE q.yes > 0
      <4>1. CASE Weighted
        <5>1. q.yesWeight > 0
          BY <1>1, <2>4, <3>1, <4>1, ThresholdNeedsYes DEF Supported
        <5> QED
          BY <2>4, <2>5, <5>1
      <4>2. CASE ~Weighted
        BY <1>1, <2>4, <3>1, <4>2, ThresholdNeedsYes DEF Supported
      <4> QED
        BY <4>1, <4>2
    <3> QED
      BY <2>1, <3>1
  <2>7. Holds(q, ballots \cup {v})
    <3>1. q.yes + q.no = Cardinality(ballots \cup {v})
      BY <2>0, <2>1, <2>3 DEF Holds
    <3>2. q.status # "Executed"
      BY <2>1
    <3> QED
      BY <2>5, <2>6, <3>1, <3>2 DEF Holds
  <2>8. /\ DOMAIN proposals' = DOMAIN proposals
        /\ proposals'[id] = q /\ voted'[id] = ballots \cup {v}
        /\ \A i \in DOMAIN proposals : i # id => proposals'[i] = proposals[i] /\ voted'[i] = voted[i]
    BY <1>2, <2>2
  <2> HIDE DEF ballots, p
  <2> QED
    BY <1>4, <1>5, <2>7, <2>8
<1>8. ASSUME NEW id \in DOMAIN proposals, NEW q, Ending(id, q) PROVE Backed'
  <2> DEFINE p == proposals[id]
  <2>1. /\ q.yes = p.yes /\ q.no = p.no /\ q.yesWeight = p.yesWeight
        /\ \/ p.status = "Approved" /\ q.status = "Executed"
           \/ q.status \in {"Cancelled", "Expired"}
    BY <1>3, <1>8, EndingFields
  <2>2. proposals' = [proposals EXCEPT ![id] = q] /\ voted' = voted
    BY <1>8 DEF Ending
  <2>3. Holds(q, voted[id])
    <3>1. Holds(p, voted[id])
      BY <1>4
    <3> QED
      BY <2>1, <3>1 DEF Holds
  <2>4. /\ DOMAIN proposals' = DOMAIN proposals
        /\ proposals'[id] = q
        /\ \A i \in DOMAIN proposals : i # id => proposals'[i] = proposals[i]
    BY <1>2, <2>2
  <2> HIDE DEF p
  <2> QED
    BY <1>4, <1>5, <2>2, <2>3, <2>4
<1>9. ASSUME Aside PROVE Backed'
  BY <1>9 DEF Aside, Backed, ballotVars
<1> QED
  BY <1>6, <1>7, <1>8, <1>9, GovernanceSteps

\* Whatever the members and the admin do, and however holdings move, a proposal
\* that was approved or executed has a vote for it, and its counts are as many
\* as the members remembered to have voted on it.
THEOREM PassedWasSupported == GovernanceSpec => []NothingPassesUnsupported
<1>1. GovernanceInit => Backed
  BY DEF GovernanceInit, Backed
<1>2. Typed /\ Backed /\ [GovernanceNext]_governanceVars => Backed'
  BY BackedKept
<1>3. Backed => NothingPassesUnsupported
  BY DEF Backed, Holds, NothingPassesUnsupported
<1> QED
  BY <1>1, <1>2, <1>3, AlwaysTyped, PTL DEF GovernanceSpec

--------------------------------------------------------------------------------
(***************************************************************************)
(* The slots of the proposals still to be decided or executed.             *)
(***************************************************************************)

\* The proposals with one of the statuses that hold a slot.
Unresolved == {id \in DOMAIN proposals : proposals[id].status \in Undecided}

\* SlotsAreOpenProposals over the numbers of the proposals.
LEMMA SlotsByNumber ==
  ASSUME NEW n \in Nat, DOMAIN proposals = 1 .. n
  PROVE  SlotsAreOpenProposals <=> activeProposals = Chosen([i \in 1 .. n |-> i], Unresolved)
BY DEF SlotsAreOpenProposals, Unresolved

LEMMA WithoutNumber ==
  ASSUME NEW n \in Nat, NEW S, NEW id
  PROVE  Without(Chosen([i \in 1 .. n |-> i], S), id) = Chosen([i \in 1 .. n |-> i], S \ {id})
<1> DEFINE numbers == [i \in 1 .. n |-> i]
           T == 1 .. n
           R == Range(Chosen(numbers, S)) \ {id}
           D == S \ {id}
<1>1. numbers \in Seq(T)
  BY NumbersAppend
<1> HIDE DEF numbers, T
<1>2. Range(Chosen(numbers, S)) = Range(numbers) \cap S
  BY <1>1, ChosenProperties
<1>3. \A x \in Range(numbers) : x \in D <=> x \in S /\ x \in R
  BY <1>2
<1> HIDE DEF R, D
<1>4. Chosen(Chosen(numbers, S), R) = Chosen(numbers, D)
  BY <1>1, <1>3, ChosenAgain
<1> QED
  BY <1>4 DEF Without, numbers, R, D

\* A proposal rewritten without leaving the statuses that hold a slot keeps it;
\* one that leaves them gives it back.
LEMMA SlotOfRewritten ==
  ASSUME NEW n \in Nat, DOMAIN proposals = 1 .. n, SlotsAreOpenProposals,
         NEW id \in DOMAIN proposals, NEW q, proposals' = [proposals EXCEPT ![id] = q],
         proposals[id].status \in Undecided,
         \/ q.status \in Undecided /\ UNCHANGED activeProposals
         \/ q.status \notin Undecided /\ activeProposals' = Without(activeProposals, id)
  PROVE  SlotsAreOpenProposals'
<1> DEFINE numbers == [i \in 1 .. n |-> i]
<1>1. DOMAIN proposals' = 1 .. n /\ proposals'[id] = q
  OBVIOUS
<1>2. \A i \in 1 .. n : i # id => proposals'[i] = proposals[i]
  OBVIOUS
<1>3. activeProposals = Chosen(numbers, Unresolved)
  BY SlotsByNumber
<1>4. SlotsAreOpenProposals' <=> activeProposals' = Chosen(numbers, Unresolved')
  BY <1>1 DEF SlotsAreOpenProposals, Unresolved
<1>5. CASE q.status \in Undecided /\ UNCHANGED activeProposals
  <2>1. \A i \in 1 .. n : i \in Unresolved <=> i \in Unresolved'
    BY <1>1, <1>2, <1>5 DEF Unresolved
  <2>2. Chosen(numbers, Unresolved) = Chosen(numbers, Unresolved')
    BY <2>1, ChosenNumbersAgree
  <2> QED
    BY <1>3, <1>4, <1>5, <2>2
<1>6. CASE q.status \notin Undecided /\ activeProposals' = Without(activeProposals, id)
  <2>1. \A i \in 1 .. n : i \in Unresolved \ {id} <=> i \in Unresolved'
    BY <1>1, <1>2, <1>6 DEF Unresolved
  <2>2. Chosen(numbers, Unresolved \ {id}) = Chosen(numbers, Unresolved')
    BY <2>1, ChosenNumbersAgree
  <2>3. Without(Chosen(numbers, Unresolved), id) = Chosen(numbers, Unresolved \ {id})
    BY WithoutNumber
  <2> HIDE DEF numbers
  <2> QED
    BY <1>3, <1>4, <1>6, <2>2, <2>3
<1> QED
  BY <1>5, <1>6

LEMMA SlotsKept ==
  ASSUME Typed, SlotsAreOpenProposals, [GovernanceNext]_governanceVars
  PROVE  SlotsAreOpenProposals'
<1> DEFINE n == Len(proposals)
<1>0. proposals \in Seq(Proposals)
  BY DEF Typed
<1>1. n \in Nat /\ DOMAIN proposals = 1 .. n /\ Settings
  BY Ids DEF Typed
<1>2. \A id \in DOMAIN proposals : proposals[id] \in Proposals
  BY <1>0, <1>1, ElementOfSeq
<1>3. ASSUME NEW p, Proposing(p) PROVE SlotsAreOpenProposals'
  <2>1. /\ proposals' = Append(proposals, p) /\ p.status = "Pending"
        /\ activeProposals' = Append(activeProposals, n + 1)
    BY <1>3 DEF Proposing, Fresh
  <2> DEFINE S == Proposals \cup {p}
  <2>2. Proposals \subseteq S /\ p \in S
    OBVIOUS
  <2>3. proposals \in Seq(S)
    BY <1>0, <2>2, SeqMonotonic
  <2> HIDE DEF S
  <2>4. /\ DOMAIN proposals' = 1 .. n + 1
        /\ proposals'[n + 1] = p
        /\ \A id \in 1 .. n : proposals'[id] = proposals[id]
    BY <1>1, <2>1, <2>2, <2>3, AppendProperties, LenProperties
  <2> HIDE DEF n
  <2>5. \A i \in 1 .. n : i \in Unresolved <=> i \in Unresolved'
    BY <1>1, <2>4 DEF Unresolved
  <2>6. n + 1 \in Unresolved'
    BY <1>1, <2>1, <2>4 DEF Unresolved, Undecided
  <2>7. Chosen([i \in 1 .. n + 1 |-> i], Unresolved')
        = Append(Chosen([i \in 1 .. n |-> i], Unresolved), n + 1)
    BY <1>1, <2>5, <2>6, ChosenNumbersExtend
  <2>8. activeProposals = Chosen([i \in 1 .. n |-> i], Unresolved)
    BY <1>1, SlotsByNumber
  <2>9. SlotsAreOpenProposals'
        <=> activeProposals' = Chosen([i \in 1 .. n + 1 |-> i], Unresolved')
    BY <2>4 DEF SlotsAreOpenProposals, Unresolved
  <2> QED
    BY <2>1, <2>7, <2>8, <2>9
<1> HIDE DEF n
<1>4. ASSUME NEW id \in DOMAIN proposals, NEW v, NEW a \in BOOLEAN, NEW q, Voting(v, id, a, q)
      PROVE  SlotsAreOpenProposals'
  <2>1. /\ proposals[id].status \in Undecided
        /\ proposals' = [proposals EXCEPT ![id] = q]
    BY <1>4 DEF Voting, Undecided
  <2>2. \/ q.status = "Active" /\ UNCHANGED activeProposals
        \/ q.status = "Approved" /\ UNCHANGED activeProposals
        \/ q.status = "Rejected" /\ activeProposals' = Without(activeProposals, id)
    BY <1>1, <1>2, <1>4, VotingFields
  <2>3. \/ q.status \in Undecided /\ UNCHANGED activeProposals
        \/ q.status \notin Undecided /\ activeProposals' = Without(activeProposals, id)
    BY <2>2 DEF Undecided
  <2> QED
    BY <1>1, <2>1, <2>3, SlotOfRewritten
<1>5. ASSUME NEW id \in DOMAIN proposals, NEW q, Ending(id, q) PROVE SlotsAreOpenProposals'
  <2>1. /\ proposals' = [proposals EXCEPT ![id] = q]
        /\ activeProposals' = Without(activeProposals, id)
    BY <1>5 DEF Ending
  <2>2. \/ proposals[id].status = "Approved" /\ q.status = "Executed"
        \/ proposals[id].status \in Undecided /\ q.status \in {"Cancelled", "Expired"}
    BY <1>2, <1>5, EndingFields
  <2>3. proposals[id].status \in Undecided /\ q.status \notin Undecided
    BY <2>2 DEF Undecided
  <2> QED
    BY <1>1, <2>1, <2>3, SlotOfRewritten
<1>6. ASSUME Aside PROVE SlotsAreOpenProposals'
  BY <1>6 DEF Aside, ballotVars, SlotsAreOpenProposals
<1> QED
  BY <1>3, <1>4, <1>5, <1>6, GovernanceSteps

\* The list max_active_proposals is compared with holds, in order and once each,
\* exactly the proposals still to be decided or executed: none that is over
\* blocks a slot and none that may still be executed has lost its own.
THEOREM SlotsAreThoseOpen == GovernanceSpec => []SlotsAreOpenProposals
<1>1. GovernanceInit => SlotsAreOpenProposals
  <2> SUFFICES ASSUME GovernanceInit PROVE SlotsAreOpenProposals
    OBVIOUS
  <2>1. activeProposals = <<>> /\ DOMAIN proposals = {}
    BY DEF GovernanceInit
  <2>2. [id \in DOMAIN proposals |-> id] = <<>>
    BY <2>1
  <2> QED
    BY <2>1, <2>2, ChosenOfNone DEF SlotsAreOpenProposals
<1>2. Typed /\ SlotsAreOpenProposals /\ [GovernanceNext]_governanceVars
        => SlotsAreOpenProposals'
  BY SlotsKept
<1> QED
  BY <1>1, <1>2, AlwaysTyped, PTL DEF GovernanceSpec

--------------------------------------------------------------------------------
(***************************************************************************)
(* What an execution reports.                                              *)
(***************************************************************************)

\* Only an execution of a proposal turns it from approved to executed.
LEMMA ExecutedIsCarried ==
  ASSUME Typed, [GovernanceNext]_governanceVars, NEW i \in DOMAIN proposals,
         proposals[i].status = "Approved", proposals'[i].status = "Executed"
  PROVE  /\ Carried(i, proposals'[i].results)
         /\ proposals[i].actions \in Seq(GovernanceAction)
         /\ proposals[i].partial \in BOOLEAN
<1>0. proposals \in Seq(Proposals)
  BY DEF Typed
<1>1. /\ Len(proposals) \in Nat /\ DOMAIN proposals = 1 .. Len(proposals)
      /\ \A id \in DOMAIN proposals : proposals[id] \in Proposals
  BY <1>0, Ids, ElementOfSeq
<1>2. proposals[i].actions \in Seq(GovernanceAction) /\ proposals[i].partial \in BOOLEAN
  <2>1. proposals[i].actions \in ActionLists /\ proposals[i].partial \in BOOLEAN
    BY <1>1 DEF Proposals
  <2> QED
    BY <2>1, GovernanceAssumption
<1>3. ASSUME NEW p, Proposing(p) PROVE FALSE
  <2> DEFINE S == Proposals \cup {p}
  <2>1. Proposals \subseteq S /\ p \in S /\ proposals' = Append(proposals, p)
    BY <1>3 DEF Proposing
  <2>2. proposals \in Seq(S)
    BY <1>0, <2>1, SeqMonotonic
  <2> HIDE DEF S
  <2>3. proposals'[i] = proposals[i]
    BY <1>1, <2>1, <2>2, AppendProperties
  <2> QED
    BY <2>3
<1>4. ASSUME NEW id \in DOMAIN proposals, NEW v, NEW a \in BOOLEAN, NEW q, Voting(v, id, a, q)
      PROVE  FALSE
  <2>1. proposals[id].status \in {"Pending", "Active"} /\ proposals' = [proposals EXCEPT ![id] = q]
    BY <1>4 DEF Voting
  <2>2. i # id
    BY <2>1
  <2> QED
    BY <2>1, <2>2
<1>5. ASSUME NEW id \in DOMAIN proposals, NEW q, Ending(id, q)
      PROVE  Carried(i, proposals'[i].results)
  <2>1. proposals' = [proposals EXCEPT ![id] = q]
    BY <1>5 DEF Ending
  <2>2. i = id /\ proposals'[id] = q
    BY <2>1
  <2>3. q.status = "Executed"
    BY <2>2
  <2>4. Carried(id, q.results)
    BY <1>1, <1>5, <2>3, EndingFields
  <2> QED
    BY <2>2, <2>4
<1>6. ~Aside
  BY DEF Aside, ballotVars
<1> QED
  BY <1>2, <1>3, <1>4, <1>5, <1>6, GovernanceSteps

LEMMA CarriedAsReported ==
  ASSUME NEW id \in DOMAIN proposals, Carried(id, proposals'[id].results),
         proposals[id].actions \in Seq(GovernanceAction), proposals[id].partial \in BOOLEAN
  PROVE  LeavesAsReported(id)
<1> DEFINE p == proposals[id]
           actions == p.actions
           n == DOMAIN actions
           end == Dispatch(actions)
           results == proposals'[id].results
           DoneAt(i) == IF p.partial THEN results[i] ELSE TRUE
<1>1. Len(actions) \in Nat /\ n = 1 .. Len(actions)
  BY LenProperties
<1>2. Reports(end, actions, Len(actions))
  BY DispatchReports
<1>3. /\ results = IF p.partial THEN end.results ELSE <<>>
      /\ ~p.partial => \A i \in n : end.results[i]
      /\ pausedContracts' = end.paused
      /\ protocolPaused' = end.protocol
  BY DEF Carried
<1> HIDE DEF p, actions, n, end, results
<1>4. /\ end.results \in Seq(BOOLEAN) /\ Len(end.results) = Len(actions)
      /\ \A i \in n : end.results[i] <=> Done(actions[i])
      /\ \A c : (\A i \in n : c \notin Reached(actions[i]))
                  => (c \in end.paused <=> c \in pausedContracts)
  BY <1>1, <1>2 DEF Reports
<1>5. \A i \in n : \A c \in obeying :
        c \in Reached(actions[i]) /\ (\A k \in n : k > i => c \notin Reached(actions[k]))
          => (c \in end.paused <=> actions[i].pauses)
  BY <1>1, <1>2 DEF Reports
<1>6. \A i \in n :
        actions[i].builtIn /\ Done(actions[i])
          /\ (\A k \in n : k > i => ~(actions[k].builtIn /\ Done(actions[k])))
          => (end.protocol <=> actions[i].pauses)
  BY <1>1, <1>2 DEF Reports
<1>7. \A i \in n : DoneAt(i) <=> Done(actions[i])
  <2>1. CASE p.partial
    BY <1>3, <1>4, <2>1
  <2>2. CASE ~p.partial
    BY <1>3, <1>4, <2>2
  <2> QED
    BY <2>1, <2>2
<1>8. p.partial => DOMAIN results = n
  <2> SUFFICES ASSUME p.partial PROVE DOMAIN results = n
    OBVIOUS
  <2>1. results = end.results
    BY <1>3
  <2>2. DOMAIN end.results = 1 .. Len(actions)
    BY <1>4, LenProperties
  <2> QED
    BY <1>1, <2>1, <2>2
<1> HIDE DEF DoneAt
<1>9. \A i \in n : DoneAt(i) <=> \A c \in Reached(actions[i]) : c \in obeying
  BY <1>7 DEF Done
<1>10. ASSUME NEW i \in n, NEW c \in Contract, DoneAt(i), c \in Reached(actions[i]),
              \A j \in n : j > i => c \notin Reached(actions[j])
       PROVE  c \in pausedContracts' <=> actions[i].pauses
  <2>1. c \in obeying
    BY <1>9, <1>10
  <2>2. c \in end.paused <=> actions[i].pauses
    BY <1>5, <1>10, <2>1
  <2> QED
    BY <1>3, <2>2
<1>11. ASSUME NEW c \in Contract, \A i \in n : c \notin Reached(actions[i])
       PROVE  c \in pausedContracts' <=> c \in pausedContracts
  <2>1. c \in end.paused <=> c \in pausedContracts
    BY <1>4, <1>11
  <2> QED
    BY <1>3, <2>1
<1>12. ASSUME NEW i \in n, actions[i].builtIn, DoneAt(i),
              \A j \in n : j > i => ~(actions[j].builtIn /\ DoneAt(j))
       PROVE  protocolPaused' <=> actions[i].pauses
  <2>1. Done(actions[i]) /\ \A j \in n : j > i => ~(actions[j].builtIn /\ Done(actions[j]))
    BY <1>7, <1>12
  <2>2. end.protocol <=> actions[i].pauses
    BY <1>6, <1>12, <2>1
  <2> QED
    BY <1>3, <2>2, Zenon
<1> QED
  BY <1>8, <1>9, <1>10, <1>11, <1>12, Zenon
     DEF LeavesAsReported, DoneAt, results, actions, n, p

\* An execution leaves the contracts and ProtocolPaused as its results say,
\* whatever the actions are, in whichever order they reach the same contracts,
\* and whichever of them refuse.
THEOREM ExecutionsReport == GovernanceSpec => ExecutionIsReported
<1> DEFINE Reported == \A id \in DOMAIN proposals :
                         proposals[id].status = "Approved" /\ proposals'[id].status = "Executed"
                           => LeavesAsReported(id)
<1>1. Typed /\ [GovernanceNext]_governanceVars => [Reported]_governanceVars
  BY ExecutedIsCarried, CarriedAsReported
<1> QED
  BY <1>1, AlwaysTyped, PTL DEF GovernanceSpec, ExecutionIsReported

--------------------------------------------------------------------------------
(***************************************************************************)
(* The rest of the types.                                                  *)
(***************************************************************************)

Office ==
  /\ govAdmin \in Person
  /\ registeredTokens \subseteq CreditTokens /\ registeredOracles \subseteq Oracles
  /\ protocolPaused \in BOOLEAN
  /\ obeying \subseteq Contract /\ pausedContracts \subseteq Contract
  /\ calls \in Nat

LEMMA DispatchTyped ==
  ASSUME Office, NEW actions \in Seq(GovernanceAction)
  PROVE  Dispatch(actions).paused \subseteq Contract /\ Dispatch(actions).protocol \in BOOLEAN
<1>1. Reports(Dispatch(actions), actions, Len(actions))
  BY DispatchReports
<1> QED
  BY <1>1, Zenon DEF Reports, Office

LEMMA OfficeOverProposals ==
  ASSUME Typed, Office, NEW caller, NEW id \in DOMAIN proposals,
         \/ \E approve \in BOOLEAN : Vote(caller, id, approve)
         \/ Execute(caller, id)
         \/ CancelProposal(caller, id)
         \/ ExpireProposal(id)
  PROVE  Office'
<1>1. CASE Execute(caller, id)
  <2>1. /\ pausedContracts' = Dispatch(proposals[id].actions).paused
        /\ protocolPaused' = Dispatch(proposals[id].actions).protocol
        /\ UNCHANGED <<govAdmin, registeredTokens, registeredOracles, obeying, calls>>
    BY <1>1 DEF Execute, adminVars, outsideVars
  <2>2. proposals[id].actions \in Seq(GovernanceAction)
    <3>1. proposals[id] \in Proposals
      BY Ids, ElementOfSeq DEF Typed
    <3> QED
      BY <3>1, GovernanceAssumption DEF Proposals
  <2>3. pausedContracts' \subseteq Contract /\ protocolPaused' \in BOOLEAN
    BY <2>1, <2>2, DispatchTyped
  <2> QED
    BY <2>1, <2>3 DEF Office
<1>2. CASE \/ \E approve \in BOOLEAN : Vote(caller, id, approve)
           \/ CancelProposal(caller, id)
           \/ ExpireProposal(id)
  <2>1. UNCHANGED <<govAdmin, registeredTokens, registeredOracles, obeying, calls,
                    pausedContracts, protocolPaused>>
    BY <1>2 DEF Vote, CancelProposal, ExpireProposal, Resolve, adminVars, outsideVars, pauseVars
  <2> QED
    BY <2>1 DEF Office
<1> QED
  BY <1>1, <1>2

LEMMA OfficeOverAdmin ==
  ASSUME Office, NEW caller, AdminCalls(caller)
  PROVE  Office'
<1>0. calls + 1 \in Nat
  BY DEF Office
<1>1. ASSUME NEW a \in Admins, TransferGovernanceAdmin(caller, a) PROVE Office'
  <2>1. /\ govAdmin' = a /\ calls' = calls + 1
        /\ UNCHANGED <<registeredTokens, registeredOracles, obeying, pausedContracts, protocolPaused>>
    BY <1>1 DEF TransferGovernanceAdmin, ByAdmin, outsideVars, pauseVars
  <2>2. a \in Person
    BY GovernanceAssumption
  <2> QED
    BY <1>0, <2>1, <2>2 DEF Office
<1>2. ASSUME NEW t \in CreditTokens, RegisterToken(caller, t) \/ DeregisterToken(caller, t)
      PROVE  Office'
  <2>1. /\ registeredTokens' \subseteq registeredTokens \cup {t} /\ calls' = calls + 1
        /\ UNCHANGED <<govAdmin, registeredOracles, obeying, pausedContracts, protocolPaused>>
    BY <1>2 DEF RegisterToken, DeregisterToken, ByAdmin, outsideVars, pauseVars
  <2> QED
    BY <1>0, <2>1 DEF Office
<1>3. ASSUME NEW o \in Oracles, RegisterOracle(caller, o) \/ DeregisterOracle(caller, o)
      PROVE  Office'
  <2>1. /\ registeredOracles' \subseteq registeredOracles \cup {o} /\ calls' = calls + 1
        /\ UNCHANGED <<govAdmin, registeredTokens, obeying, pausedContracts, protocolPaused>>
    BY <1>3 DEF RegisterOracle, DeregisterOracle, ByAdmin, outsideVars, pauseVars
  <2> QED
    BY <1>0, <2>1 DEF Office
<1>4. ASSUME \/ \E c \in Configs : UpdateGovernanceConfig(caller, c)
             \/ \E m \in Person : AddMember(caller, m) \/ RemoveMember(caller, m)
             \/ \E t \in VotingTokens : SetGovernanceToken(caller, t)
      PROVE  Office'
  <2>1. /\ calls' = calls + 1
        /\ UNCHANGED <<govAdmin, registeredTokens, registeredOracles, obeying, pausedContracts,
                       protocolPaused>>
    BY <1>4 DEF UpdateGovernanceConfig, AddMember, RemoveMember, SetGovernanceToken, ByAdmin,
                outsideVars, pauseVars
  <2> QED
    BY <1>0, <2>1 DEF Office
<1>5. ASSUME NEW pauses \in BOOLEAN, Emergency(caller, pauses) PROVE Office'
  <2> DEFINE actions == <<[builtIn |-> TRUE, pauses |-> pauses]>>
  <2>1. /\ pausedContracts' = Dispatch(actions).paused
        /\ protocolPaused' = Dispatch(actions).protocol
        /\ calls' = calls + 1
        /\ UNCHANGED <<govAdmin, registeredTokens, registeredOracles, obeying>>
    BY <1>5 DEF Emergency, ByAdmin, outsideVars, adminVars
  <2>2. actions \in Seq(GovernanceAction)
    <3>1. [builtIn |-> TRUE, pauses |-> pauses] \in GovernanceAction
      BY DEF GovernanceAction
    <3> QED
      BY <3>1
  <2> HIDE DEF actions
  <2>3. pausedContracts' \subseteq Contract /\ protocolPaused' \in BOOLEAN
    BY <2>1, <2>2, DispatchTyped
  <2> QED
    BY <1>0, <2>1, <2>3 DEF Office
<1> QED
  BY <1>1, <1>2, <1>3, <1>4, <1>5 DEF AdminCalls, EmergencyPause, EmergencyUnpause

LEMMA OfficeKept ==
  ASSUME Typed, Office, [GovernanceNext]_governanceVars
  PROVE  Office'
<1>0. calls + 1 \in Nat
  BY DEF Office
<1>1. ASSUME NEW caller, NEW actions, NEW partial, Propose(caller, actions, partial)
      PROVE  Office'
  BY <1>1 DEF Propose, Office, adminVars, outsideVars, pauseVars
<1>2. ASSUME NEW caller \in Person, ProposalCalls(caller) PROVE Office'
  BY <1>1, <1>2, OfficeOverProposals DEF ProposalCalls
<1>3. ASSUME NEW id \in DOMAIN proposals, ExpireProposal(id) PROVE Office'
  BY <1>3, OfficeOverProposals
<1>4. ASSUME NEW t, NEW from, NEW to, NEW n, MoveWeight(t, from, to, n) PROVE Office'
  <2>1. /\ calls' = calls + 1
        /\ UNCHANGED <<govAdmin, registeredTokens, registeredOracles, obeying, pausedContracts,
                       protocolPaused>>
    BY <1>4 DEF MoveWeight, ByOthers, adminVars
  <2> QED
    BY <1>0, <2>1 DEF Office
<1>5. ASSUME NEW c \in Contract, SetGuardian(c) \/ PauseOrUnpauseDirectly(c) PROVE Office'
  <2>1. /\ calls' = calls + 1
        /\ obeying' \subseteq obeying \cup {c} /\ pausedContracts' \subseteq pausedContracts \cup {c}
        /\ UNCHANGED <<govAdmin, registeredTokens, registeredOracles, protocolPaused>>
    BY <1>5 DEF SetGuardian, PauseOrUnpauseDirectly, ByOthers, adminVars
  <2> QED
    BY <1>0, <2>1 DEF Office
<1>6. ASSUME TimePasses \/ UNCHANGED governanceVars PROVE Office'
  BY <1>6 DEF TimePasses, governanceVars, Office, adminVars, outsideVars, pauseVars
<1> QED
  BY <1>2, <1>3, <1>4, <1>5, <1>6, OfficeOverAdmin DEF GovernanceNext, OutsideCalls

\* The state keeps its types: what an execution records is one result per action
\* or nothing, slots are numbers of proposals, the approval threshold stays
\* within what update_config accepts, and only what was registered is paused.
THEOREM GovernanceTypes == GovernanceSpec => []GovernanceTypeOK
<1>1. GovernanceInit => Office
  <2> SUFFICES ASSUME GovernanceInit PROVE Office
    OBVIOUS
  <2>1. /\ govAdmin = FirstAdmin /\ registeredTokens = {} /\ registeredOracles = {}
        /\ protocolPaused = FALSE /\ obeying = FirstObeying /\ pausedContracts = {} /\ calls = 0
    BY DEF GovernanceInit
  <2> QED
    BY <2>1, GovernanceAssumption DEF Office
<1>2. Typed /\ Office /\ [GovernanceNext]_governanceVars => Office'
  BY OfficeKept
<1>3. Typed /\ Office /\ SlotsAreOpenProposals => GovernanceTypeOK
  <2> SUFFICES ASSUME Typed, Office, SlotsAreOpenProposals PROVE GovernanceTypeOK
    OBVIOUS
  <2> DEFINE n == Len(proposals)
  <2>1. n \in Nat /\ DOMAIN proposals = 1 .. n
    BY Ids
  <2> HIDE DEF n
  <2>2. activeProposals = Chosen([i \in 1 .. n |-> i], Unresolved)
    BY <2>1, SlotsByNumber
  <2>3. activeProposals \in Seq(1 .. n)
    BY <2>1, <2>2, ChosenNumbers
  <2>4. activeProposals \in Seq(Nat)
    <3>1. 1 .. n \subseteq Nat
      BY <2>1
    <3> QED
      BY <2>3, <3>1, SeqMonotonic
  <2> QED
    BY <2>4 DEF GovernanceTypeOK, Typed, Office, Settings, ConfigFits, Electorate
<1> QED
  BY <1>1, <1>2, <1>3, AlwaysTyped, SlotsAreThoseOpen, PTL DEF GovernanceSpec

--------------------------------------------------------------------------------
(***************************************************************************)
(* The one-way life of a proposal.  Each step is matched with the step of  *)
(* ProposalLife it is, or leaves what ProposalLife sees alone.             *)
(***************************************************************************)

\* What the instance Proposed is given.
Plans == [id \in DOMAIN proposals |-> <<proposals[id].proposer, proposals[id].actions,
                                        proposals[id].partial>>]
Deadlines == [id \in DOMAIN proposals |-> proposals[id].endsAt]
Stages == [id \in DOMAIN proposals |-> Stage(proposals[id].status)]
Readies == [id \in DOMAIN proposals |-> proposals[id].readyAt]

\* A function on 1 .. n + 1 appends its last value to what it is on 1 .. n.
LEMMA LongerFunction ==
  ASSUME NEW n \in Nat, NEW f, f = [i \in 1 .. n |-> f[i]],
         NEW g, g = [i \in 1 .. n + 1 |-> g[i]], \A i \in 1 .. n : g[i] = f[i]
  PROVE  /\ Len(f) = n /\ Len(g) = n + 1
         /\ g = Append(f, g[n + 1])
<1> DEFINE S == {g[i] : i \in 1 .. n + 1}
<1>1. \A i \in 1 .. n + 1 : g[i] \in S
  OBVIOUS
<1>3. n + 1 \in 1 .. n + 1 /\ n + 1 \in Nat /\ \A i \in 1 .. n + 1 : i = n + 1 \/ i \in 1 .. n
  OBVIOUS
<1>2. ASSUME NEW i \in 1 .. n PROVE f[i] \in S
  <2>1. i \in 1 .. n + 1
    OBVIOUS
  <2> QED
    BY <1>1, <2>1
<1> HIDE DEF S
<1>4. f \in [1 .. n -> S] /\ g \in [1 .. n + 1 -> S]
  BY <1>1, <1>2
<1>5. f \in Seq(S) /\ Len(f) = n
  BY <1>4
<1>6. g \in Seq(S) /\ Len(g) = n + 1
  BY <1>3, <1>4
<1>7. PICK last \in S : last = g[n + 1]
  BY <1>1, <1>3
<1>8. /\ Append(f, last) \in Seq(S) /\ Len(Append(f, last)) = n + 1
      /\ \A i \in 1 .. n : Append(f, last)[i] = f[i]
      /\ Append(f, last)[n + 1] = last
  BY <1>5, AppendProperties
<1>9. ASSUME NEW i \in 1 .. n + 1 PROVE g[i] = Append(f, last)[i]
  BY <1>3, <1>7, <1>8
<1>10. g = Append(f, last)
  BY <1>6, <1>8, <1>9, SeqEqual
<1> QED
  BY <1>5, <1>6, <1>7, <1>10

LEMMA StartsAsLife == GovernanceInit => Proposed!Start
<1> SUFFICES ASSUME GovernanceInit PROVE Proposed!Start
  OBVIOUS
<1>1. proposals = <<>> /\ voted = <<>> /\ time = 1
  BY DEF GovernanceInit
<1>2. DOMAIN proposals = {}
  BY <1>1
<1>3. Plans = <<>> /\ Deadlines = <<>> /\ Stages = <<>> /\ Readies = <<>>
  BY <1>2 DEF Plans, Deadlines, Stages, Readies
<1> QED
  BY <1>1, <1>3 DEF Proposed!Start, Plans, Deadlines, Stages, Readies

LEMMA SubmitsStep ==
  ASSUME Typed, NEW p, Proposing(p)
  PROVE  Proposed!Submit
<1> DEFINE n == Len(proposals)
<1>0. proposals \in Seq(Proposals)
  BY DEF Typed
<1>1. n \in Nat /\ DOMAIN proposals = 1 .. n
  BY Ids
<1>2. /\ proposals' = Append(proposals, p) /\ voted' = Append(voted, {})
      /\ time' = time
      /\ p.status = "Pending" /\ p.readyAt = 0
  BY DEF Proposing, Fresh
<1>3. /\ DOMAIN proposals' = 1 .. n + 1
      /\ proposals'[n + 1] = p
      /\ \A id \in 1 .. n : proposals'[id] = proposals[id]
  <2> DEFINE S == Proposals \cup {p}
  <2>1. Proposals \subseteq S /\ p \in S
    OBVIOUS
  <2>2. proposals \in Seq(S)
    BY <1>0, <2>1, SeqMonotonic
  <2> HIDE DEF S
  <2> QED
    BY <1>1, <1>2, <2>1, <2>2, AppendProperties, LenProperties
<1> HIDE DEF n
<1>4. n + 1 \in 1 .. n + 1
  BY <1>1
<1>5. Len(Plans) = n /\ Len(Plans') = n + 1 /\ Plans' = Append(Plans, Plans'[n + 1])
  <2>1. Plans = [i \in 1 .. n |-> Plans[i]] /\ Plans' = [i \in 1 .. n + 1 |-> Plans'[i]]
    BY <1>1, <1>3 DEF Plans
  <2>2. \A i \in 1 .. n : Plans'[i] = Plans[i]
    BY <1>1, <1>3 DEF Plans
  <2> HIDE DEF Plans
  <2> QED
    BY <1>1, <2>1, <2>2, LongerFunction
<1>6. Len(Deadlines') = n + 1 /\ Deadlines' = Append(Deadlines, Deadlines'[n + 1])
  <2>1. /\ Deadlines = [i \in 1 .. n |-> Deadlines[i]]
        /\ Deadlines' = [i \in 1 .. n + 1 |-> Deadlines'[i]]
    BY <1>1, <1>3 DEF Deadlines
  <2>2. \A i \in 1 .. n : Deadlines'[i] = Deadlines[i]
    BY <1>1, <1>3 DEF Deadlines
  <2> QED
    BY <1>1, <2>1, <2>2, LongerFunction
<1>7. Stages' = Append(Stages, "Voting")
  <2>1. Stages = [i \in 1 .. n |-> Stages[i]] /\ Stages' = [i \in 1 .. n + 1 |-> Stages'[i]]
    BY <1>1, <1>3 DEF Stages
  <2>2. \A i \in 1 .. n : Stages'[i] = Stages[i]
    BY <1>1, <1>3 DEF Stages
  <2>3. Stages'[n + 1] = "Voting"
    BY <1>2, <1>3, <1>4 DEF Stages, Stage
  <2> QED
    BY <1>1, <2>1, <2>2, <2>3, LongerFunction
<1>8. Readies' = Append(Readies, 0)
  <2>1. Readies = [i \in 1 .. n |-> Readies[i]] /\ Readies' = [i \in 1 .. n + 1 |-> Readies'[i]]
    BY <1>1, <1>3 DEF Readies
  <2>2. \A i \in 1 .. n : Readies'[i] = Readies[i]
    BY <1>1, <1>3 DEF Readies
  <2>3. Readies'[n + 1] = 0
    BY <1>2, <1>3, <1>4 DEF Readies
  <2> QED
    BY <1>1, <2>1, <2>2, <2>3, LongerFunction
<1>9. /\ Len(Plans') = Len(Plans) + 1 /\ Len(Deadlines') = Len(Plans) + 1
      /\ Plans' = Append(Plans, Plans'[Len(Plans) + 1])
      /\ Deadlines' = Append(Deadlines, Deadlines'[Len(Plans) + 1])
  BY <1>5, <1>6
<1> QED
  BY <1>2, <1>7, <1>8, <1>9 DEF Proposed!Submit, Plans, Deadlines, Stages, Readies

\* One proposal rewritten: what ProposalLife sees of the others stays.
LEMMA Rewritten ==
  ASSUME NEW id \in DOMAIN proposals, NEW q,
         proposals' = [proposals EXCEPT ![id] = q],
         \A field \in {"proposer", "actions", "partial", "endsAt"} : q[field] = proposals[id][field]
  PROVE  /\ UNCHANGED <<Plans, Deadlines>>
         /\ Stages' = [Stages EXCEPT ![id] = Stage(q.status)]
         /\ Readies' = [Readies EXCEPT ![id] = q.readyAt]
         /\ id \in DOMAIN Stages /\ Stages[id] = Stage(proposals[id].status)
         /\ Deadlines[id] = proposals[id].endsAt /\ Readies[id] = proposals[id].readyAt
         /\ DOMAIN Readies' = DOMAIN Readies /\ Readies'[id] = q.readyAt
<1>1. /\ DOMAIN proposals' = DOMAIN proposals /\ proposals'[id] = q
      /\ \A i \in DOMAIN proposals : i # id => proposals'[i] = proposals[i]
  OBVIOUS
<1>2. /\ q.proposer = proposals[id].proposer /\ q.actions = proposals[id].actions
      /\ q.partial = proposals[id].partial /\ q.endsAt = proposals[id].endsAt
  OBVIOUS
<1>3. UNCHANGED Plans
  BY <1>1, <1>2 DEF Plans
<1>4. UNCHANGED Deadlines
  BY <1>1, <1>2 DEF Deadlines
<1>5. /\ Stages' = [Stages EXCEPT ![id] = Stage(q.status)]
      /\ id \in DOMAIN Stages /\ Stages[id] = Stage(proposals[id].status)
  BY <1>1 DEF Stages
<1>6. /\ Readies' = [Readies EXCEPT ![id] = q.readyAt]
      /\ Readies[id] = proposals[id].readyAt
      /\ DOMAIN Readies' = DOMAIN Readies /\ Readies'[id] = q.readyAt
  BY <1>1 DEF Readies
<1>7. Deadlines[id] = proposals[id].endsAt
  BY DEF Deadlines
<1> QED
  BY <1>3, <1>4, <1>5, <1>6, <1>7

LEMMA VotingIsABallot ==
  ASSUME Typed, NEW id \in DOMAIN proposals, NEW v, NEW a \in BOOLEAN, NEW q, Voting(v, id, a, q)
  PROVE  Proposed!CastBallot(id)
<1> DEFINE p == proposals[id]
<1>0. proposals \in Seq(Proposals)
  BY DEF Typed
<1>1. /\ DOMAIN proposals = 1 .. Len(proposals) /\ DOMAIN voted = DOMAIN proposals /\ Settings
  BY Ids DEF Typed
<1>2. p \in Proposals
  BY <1>0, <1>1, ElementOfSeq
<1>3. /\ \A field \in {"proposer", "actions", "partial", "endsAt"} : q[field] = p[field]
      /\ \/ q.status = "Active" /\ q.readyAt = p.readyAt
         \/ q.status = "Approved" /\ q.readyAt = time + govConfig.timelock
         \/ q.status = "Rejected" /\ q.readyAt = p.readyAt
  BY <1>1, <1>2, VotingFields
<1>4. /\ p.status \in {"Pending", "Active"}
      /\ v \notin voted[id] /\ time <= p.endsAt
      /\ voted' = [voted EXCEPT ![id] = voted[id] \cup {v}]
      /\ proposals' = [proposals EXCEPT ![id] = q]
      /\ time' = time
  BY DEF Voting
<1>5. /\ UNCHANGED <<Plans, Deadlines>>
      /\ Stages' = [Stages EXCEPT ![id] = Stage(q.status)]
      /\ Readies' = [Readies EXCEPT ![id] = q.readyAt]
      /\ id \in DOMAIN Stages /\ Stages[id] = Stage(p.status)
      /\ Deadlines[id] = p.endsAt /\ Readies[id] = p.readyAt
      /\ DOMAIN Readies' = DOMAIN Readies /\ Readies'[id] = q.readyAt
  BY <1>3, <1>4, Rewritten
<1>6. Stages[id] = "Voting"
  BY <1>4, <1>5 DEF Stage
<1>7. /\ DOMAIN voted' = DOMAIN voted
      /\ \E b \in voted'[id] \ voted[id] : voted' = [voted EXCEPT ![id] = @ \cup {b}]
  <2>1. voted'[id] = voted[id] \cup {v}
    BY <1>1, <1>4
  <2> QED
    BY <1>4, <2>1
<1>8. \/ UNCHANGED <<Stages, Readies>>
      \/ /\ Stages' = [Stages EXCEPT ![id] = "Passed"]
         /\ DOMAIN Readies' = DOMAIN Readies
         /\ Readies'[id] >= time
         /\ Readies' = [Readies EXCEPT ![id] = Readies'[id]]
      \/ /\ Stages' = [Stages EXCEPT ![id] = "Dropped"]
         /\ UNCHANGED Readies
  <2>1. q.readyAt = p.readyAt => UNCHANGED Readies
    BY <1>1, <1>5 DEF Readies
  <2>2. CASE q.status = "Active" /\ q.readyAt = p.readyAt
    <3>1. Stage(q.status) = "Voting"
      BY <2>2 DEF Stage
    <3>2. UNCHANGED Stages
      BY <1>5, <1>6, <3>1 DEF Stages
    <3> QED
      BY <2>1, <2>2, <3>2
  <2>3. CASE q.status = "Approved" /\ q.readyAt = time + govConfig.timelock
    <3>1. Stage(q.status) = "Passed"
      BY <2>3 DEF Stage
    <3>2. time + govConfig.timelock >= time
      BY <1>1 DEF Settings, ConfigFits, Electorate, GovernanceConfig
    <3> QED
      BY <1>5, <2>3, <3>1, <3>2
  <2>4. CASE q.status = "Rejected" /\ q.readyAt = p.readyAt
    <3>1. Stage(q.status) = "Dropped"
      BY <2>4 DEF Stage
    <3> QED
      BY <1>5, <2>1, <2>4, <3>1
  <2> QED
    BY <1>3, <2>2, <2>3, <2>4
<1>9. time <= Deadlines[id] /\ UNCHANGED <<Plans, Deadlines, time>>
  BY <1>4, <1>5
<1> QED
  BY <1>6, <1>7, <1>8, <1>9 DEF Proposed!CastBallot, Plans, Deadlines, Stages, Readies

LEMMA EndingIsAnEnd ==
  ASSUME Typed, NEW id \in DOMAIN proposals, NEW q, Ending(id, q)
  PROVE  Proposed!CarryOut(id) \/ Proposed!Drop(id)
<1> DEFINE p == proposals[id]
<1>0. proposals \in Seq(Proposals)
  BY DEF Typed
<1>1. DOMAIN proposals = 1 .. Len(proposals)
  BY Ids
<1>2. p \in Proposals
  BY <1>0, <1>1, ElementOfSeq
<1>3. /\ \A field \in {"proposer", "actions", "partial", "endsAt", "readyAt"} : q[field] = p[field]
      /\ \/ p.status = "Approved" /\ q.status = "Executed" /\ time >= p.readyAt
         \/ p.status \in Undecided /\ q.status \in {"Cancelled", "Expired"}
  BY <1>2, EndingFields
<1>4. /\ proposals' = [proposals EXCEPT ![id] = q]
      /\ voted' = voted /\ time' = time
  BY DEF Ending
<1>5. /\ UNCHANGED <<Plans, Deadlines>>
      /\ Stages' = [Stages EXCEPT ![id] = Stage(q.status)]
      /\ Readies' = [Readies EXCEPT ![id] = q.readyAt]
      /\ id \in DOMAIN Stages /\ Stages[id] = Stage(p.status)
      /\ Readies[id] = p.readyAt
  BY <1>3, <1>4, Rewritten
<1>6. UNCHANGED Readies
  BY <1>3, <1>5 DEF Readies
<1>7. CASE p.status = "Approved" /\ q.status = "Executed" /\ time >= p.readyAt
  <2>1. Stage(p.status) = "Passed" /\ Stage(q.status) = "CarriedOut"
    BY <1>7 DEF Stage
  <2>2. /\ Stages[id] = "Passed" /\ time >= Readies[id]
        /\ Stages' = [Stages EXCEPT ![id] = "CarriedOut"]
    BY <1>5, <1>7, <2>1
  <2>3. Proposed!CarryOut(id)
    BY <1>4, <1>5, <1>6, <2>2 DEF Proposed!CarryOut, Plans, Deadlines, Stages, Readies
  <2> QED
    BY <2>3
<1>8. CASE p.status \in Undecided /\ q.status \in {"Cancelled", "Expired"}
  <2>1. Stage(p.status) \in {"Voting", "Passed"} /\ Stage(q.status) = "Dropped"
    BY <1>8 DEF Stage, Undecided
  <2>2. /\ Stages[id] \in {"Voting", "Passed"}
        /\ Stages' = [Stages EXCEPT ![id] = "Dropped"]
    BY <1>5, <2>1
  <2>3. Proposed!Drop(id)
    BY <1>4, <1>5, <1>6, <2>2 DEF Proposed!Drop, Plans, Deadlines, Stages, Readies
  <2> QED
    BY <2>3
<1> QED
  BY <1>3, <1>7, <1>8

LEMMA StepsOfALife ==
  ASSUME Typed, [GovernanceNext]_governanceVars
  PROVE  [Proposed!Step]_Proposed!lifeVars
<1>1. ASSUME NEW p, Proposing(p) PROVE Proposed!Step
  BY <1>1, SubmitsStep DEF Proposed!Step
<1>2. ASSUME NEW id \in DOMAIN proposals, NEW v, NEW a \in BOOLEAN, NEW q, Voting(v, id, a, q)
      PROVE  Proposed!Step
  <2>1. Proposed!CastBallot(id) /\ id \in DOMAIN Stages
    BY <1>2, VotingIsABallot DEF Stages
  <2> QED
    BY <2>1 DEF Proposed!Step, Stages
<1>3. ASSUME NEW id \in DOMAIN proposals, NEW q, Ending(id, q) PROVE Proposed!Step
  <2>1. (Proposed!CarryOut(id) \/ Proposed!Drop(id)) /\ id \in DOMAIN Stages
    BY <1>3, EndingIsAnEnd DEF Stages
  <2> QED
    BY <2>1 DEF Proposed!Step, Stages
<1>4. ASSUME Aside PROVE [Proposed!Step]_Proposed!lifeVars
  <2>1. UNCHANGED <<proposals, voted>> /\ (time' = time \/ time' = time + 1)
    BY <1>4 DEF Aside, ballotVars
  <2>2. UNCHANGED <<Plans, Deadlines, Stages, Readies>>
    BY <2>1 DEF Plans, Deadlines, Stages, Readies
  <2>3. time \in Nat
    BY DEF Typed, Settings, Electorate
  <2>4. CASE time' = time
    <3>1. UNCHANGED Proposed!lifeVars
      BY <2>1, <2>2, <2>4 DEF Proposed!lifeVars, Plans, Deadlines, Stages, Readies
    <3> QED
      BY <3>1
  <2>5. CASE time' = time + 1
    <3>1. time' > time
      BY <2>3, <2>5
    <3>2. Proposed!Wait
      BY <2>1, <2>2, <3>1 DEF Proposed!Wait, Plans, Deadlines, Stages, Readies
    <3> QED
      BY <3>2 DEF Proposed!Step
  <2> QED
    BY <2>1, <2>4, <2>5
<1> QED
  BY <1>1, <1>2, <1>3, <1>4, GovernanceSteps

\* Every proposal leads the one-way life of ProposalLife: one ballot per voter and
\* none after the deadline, passed by a ballot, carried out at most once and not
\* before its timelock, and nothing proposed is ever rewritten.
THEOREM LeadsOneLife == GovernanceSpec => ImplementsProposalLife
<1>1. Typed /\ [GovernanceNext]_governanceVars => [Proposed!Step]_Proposed!lifeVars
  BY StepsOfALife
<1> QED
  BY <1>1, StartsAsLife, AlwaysTyped, PTL DEF GovernanceSpec, ImplementsProposalLife, Proposed!Life
================================================================================
