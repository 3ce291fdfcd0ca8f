--------------------------- MODULE CreditTokenProofs ---------------------------
(***************************************************************************)
(* Proofs about CreditToken, for every set of addresses, amounts and roles.*)
(*                                                                         *)
(* What a call does to the balances and the supply counters is one of five *)
(* effects.  Lemma StepEffect sorts every step into one of them; the       *)
(* theorems about the supply then argue about the effects only.            *)
(***************************************************************************)
EXTENDS CreditToken, CollectionTheorems

\* The sum of a function on the addresses.
LEMMA TotalIsSum ==
  ASSUME NEW f, DOMAIN f = Address
  PROVE  Total(f) = SumFunctionOnSet(f, Address)
BY DEF Total, SumFunction

LEMMA TotalIsInt ==
  ASSUME NEW f \in [Address -> Int]
  PROVE  Total(f) \in Int
<1>1. \A a \in Address : f[a] \in Int
  OBVIOUS
<1> QED
  BY <1>1, SumProperties, TotalIsSum, AddressAssumption

--------------------------------------------------------------------------------
(***************************************************************************)
(* Batches.                                                                *)
(***************************************************************************)

\* What a batch of positive payments pays in total and to each address.
LEMMA BatchPays ==
  ASSUME NEW batch \in Batches, \A i \in DOMAIN batch : batch[i].amount > 0
  PROVE  /\ BatchTotal(batch) \in Nat \ {0}
         /\ \A a \in Address : PaidTo(batch, a) \in Nat
         /\ Total([a \in Address |-> PaidTo(batch, a)]) = BatchTotal(batch)
<1> DEFINE I == DOMAIN batch
           n == [i \in I |-> batch[i].amount]
           to == [i \in I |-> batch[i].to]
           Got(a) == [i \in I |-> IF batch[i].to = a THEN batch[i].amount ELSE 0]
<1>1. PICK k \in 1 .. MaxBatch : batch \in [1 .. k -> Payments]
  BY DEF Batches
<1>2. I = 1 .. k /\ 1 \in I /\ IsFiniteSet(I)
  BY <1>1, FS_Interval
<1>3. ASSUME NEW i \in I PROVE batch[i].amount \in Nat \ {0} /\ batch[i].to \in Address
  <2>1. batch[i] \in Payments /\ batch[i].amount > 0
    BY <1>1, <1>2
  <2>2. batch[i].amount \in Int /\ batch[i].to \in Address
    BY <2>1, NumberAssumption DEF Payments
  <2> QED
    BY <2>1, <2>2
<1>4. n \in [I -> Int] /\ to \in [I -> Address] /\ \A i \in I : n[i] \in Nat
  BY <1>3
<1>5. BatchTotal(batch) = SumFunctionOnSet(n, I)
  BY DEF BatchTotal, Total, SumFunction
<1>6. \A a \in Address : PaidTo(batch, a) = SumFunctionOnSet(Got(a), I)
  BY DEF PaidTo, Total, SumFunction
<1>7. BatchTotal(batch) \in Nat \ {0}
  <2>1. SumFunctionOnSet(n, I) \in Nat /\ \A i \in I : n[i] <= SumFunctionOnSet(n, I)
    <3> HIDE DEF n
    <3> QED
      BY <1>2, <1>4, SumBoundsTerms
  <2>2. n[1] \in Nat \ {0}
    BY <1>2, <1>3
  <2> HIDE DEF n
  <2> QED
    BY <1>2, <1>5, <2>1, <2>2
<1>8. ASSUME NEW a \in Address PROVE PaidTo(batch, a) \in Nat
  <2>1. \A i \in I : Got(a)[i] \in Nat
    BY <1>3
  <2> HIDE DEF Got
  <2> QED
    BY <1>2, <1>6, <2>1, SumBoundsTerms
<1>9. Total([a \in Address |-> PaidTo(batch, a)]) = BatchTotal(batch)
  <2>1. \A a \in Address : Got(a) = [i \in I |-> IF to[i] = a THEN n[i] ELSE 0]
    OBVIOUS
  <2>2. [a \in Address |-> PaidTo(batch, a)]
        = [a \in Address |->
             SumFunctionOnSet([i \in I |-> IF to[i] = a THEN n[i] ELSE 0], I)]
    <3> HIDE DEF Got, n, to
    <3> QED
      BY <1>6, <2>1
  <2>3. SumFunctionOnSet(
          [a \in Address |->
             SumFunctionOnSet([i \in I |-> IF to[i] = a THEN n[i] ELSE 0], I)], Address)
        = SumFunctionOnSet(n, I)
    <3>1. IsFiniteSet(I) /\ IsFiniteSet(Address) /\ n \in [I -> Int] /\ to \in [I -> Address]
      BY <1>2, <1>4, AddressAssumption
    <3> HIDE DEF n, to, I
    <3> QED
      BY <3>1, SumDealt
  <2>4. Total([a \in Address |-> PaidTo(batch, a)])
        = SumFunctionOnSet([a \in Address |-> PaidTo(batch, a)], Address)
    BY TotalIsSum
  <2> QED
    BY <1>5, <2>2, <2>3, <2>4
<1> QED
  BY <1>7, <1>8, <1>9

\* Crediting a batch adds its total to the sum of the balances.
LEMMA BatchCredits ==
  ASSUME NEW b \in [Address -> Nat],
         NEW batch \in Batches, \A i \in DOMAIN batch : batch[i].amount > 0
  PROVE  /\ Credited(b, batch) \in [Address -> Nat]
         /\ Total(Credited(b, batch)) = Total(b) + BatchTotal(batch)
<1> DEFINE paid == [a \in Address |-> PaidTo(batch, a)]
           c == Credited(b, batch)
<1>1. \A a \in Address : paid[a] \in Nat /\ b[a] \in Nat /\ c[a] = b[a] + paid[a]
  BY BatchPays DEF Credited
<1>2. DOMAIN b = Address /\ DOMAIN paid = Address /\ DOMAIN c = Address
  BY DEF Credited
<1>3. Total(paid) = BatchTotal(batch)
  BY BatchPays
<1>4. c \in [Address -> Nat]
  BY <1>1, <1>2 DEF Credited
<1> HIDE DEF paid, c
<1>5. SumFunctionOnSet(c, Address)
      = SumFunctionOnSet(b, Address) + SumFunctionOnSet(paid, Address)
  BY <1>1, SumAdds, AddressAssumption
<1>6. Total(c) = Total(b) + Total(paid)
  BY <1>2, <1>5, TotalIsSum
<1> QED
  BY <1>3, <1>4, <1>6 DEF c

--------------------------------------------------------------------------------
(***************************************************************************)
(* Type correctness.                                                       *)
(***************************************************************************)

\* The inputs a caller passes are of the types the entry points take.
LEMMA InputTypes ==
  /\ Amounts \subseteq Int /\ Caps \subseteq Int
  /\ Delays \subseteq Nat /\ Expirations \subseteq Nat /\ RecordIds \subseteq Nat
  /\ Admins \subseteq Address /\ Minters \subseteq Address
  /\ Guardians \subseteq Address /\ Bridges \subseteq Address
  /\ Registries \subseteq Address /\ MaxAmount \in Nat /\ Deployer \in Address
  /\ Grants \subseteq [holder : Address, spender : Address]
BY AddressAssumption, NumberAssumption

\* What leaves a group of variables alone keeps the group well typed.
LEMMA Untouched ==
  /\ RolesOK /\ UNCHANGED <<roles, maxSupply, paused, ledger>> => RolesOK'
  /\ HoldingsOK /\ UNCHANGED holdings => HoldingsOK'
  /\ TotalsOK /\ UNCHANGED totals => TotalsOK'
<1>1. RolesOK /\ UNCHANGED <<roles, maxSupply, paused, ledger>> => RolesOK'
  BY DEF RolesOK, roles
<1>2. HoldingsOK /\ UNCHANGED holdings => HoldingsOK'
  BY DEF HoldingsOK, holdings
<1>3. TotalsOK /\ UNCHANGED totals => TotalsOK'
  BY DEF TotalsOK, totals
<1> QED
  BY <1>1, <1>2, <1>3

LEMMA AdministerTypes ==
  ASSUME TypeOK, NEW caller \in Address, Administer(caller)
  PROVE  TypeOK'
<1> SUFFICES RolesOK' /\ UNCHANGED <<holdings, totals>>
  BY Untouched DEF TypeOK
<1>0. RolesOK
  BY DEF TypeOK
<1>1. ASSUME NEW a \in Admins, NEW d \in Nat, ProposeAdmin(caller, a, d)
      PROVE  RolesOK' /\ UNCHANGED <<holdings, totals>>
  <2>1. a \in Address /\ ledger + d \in Nat
    BY <1>0, InputTypes DEF RolesOK
  <2> QED
    BY <1>0, <1>1, <2>1 DEF ProposeAdmin, RolesOK
<1>2. ASSUME NEW a \in Admins, SetAdmin(caller, a)
      PROVE  RolesOK' /\ UNCHANGED <<holdings, totals>>
  BY <1>1, <1>2 DEF SetAdmin
<1>3. ASSUME AcceptAdmin(caller) \/ CancelAdminProposal(caller)
      PROVE  RolesOK' /\ UNCHANGED <<holdings, totals>>
  BY <1>0, <1>3 DEF AcceptAdmin, CancelAdminProposal, RolesOK, NoProposal
<1>5. ASSUME NEW m \in Minters, SetMinter(caller, m)
      PROVE  RolesOK' /\ UNCHANGED <<holdings, totals>>
  BY <1>0, <1>5, InputTypes DEF SetMinter, RolesOK
<1>6. ASSUME NEW g \in Guardians, SetPauseGuardian(caller, g)
      PROVE  RolesOK' /\ UNCHANGED <<holdings, totals>>
  BY <1>0, <1>6, InputTypes DEF SetPauseGuardian, RolesOK
<1>7. ASSUME NEW b \in Bridges, SetBridge(caller, b)
      PROVE  RolesOK' /\ UNCHANGED <<holdings, totals>>
  BY <1>0, <1>7, InputTypes DEF SetBridge, RolesOK
<1>8. ASSUME NEW r \in Registries, SetRetirementRegistry(caller, r)
      PROVE  RolesOK' /\ UNCHANGED <<holdings, totals>>
  BY <1>0, <1>8, InputTypes DEF SetRetirementRegistry, RolesOK
<1>9. ASSUME NEW require \in BOOLEAN, SetRequireRegistry(caller, require)
      PROVE  RolesOK' /\ UNCHANGED <<holdings, totals>>
  BY <1>0, <1>9 DEF SetRequireRegistry, RolesOK
<1>10. ASSUME NEW max \in Caps, SetMaxSupply(caller, max)
       PROVE  RolesOK' /\ UNCHANGED <<holdings, totals>>
  <2>1. max \in Nat
    BY <1>10, InputTypes DEF SetMaxSupply
  <2> QED
    BY <1>0, <1>10, <2>1 DEF SetMaxSupply, RolesOK, roles
<1>11. ASSUME Pause(caller) \/ Unpause(caller)
       PROVE  RolesOK' /\ UNCHANGED <<holdings, totals>>
  BY <1>0, <1>11 DEF Pause, Unpause, SetPaused, RolesOK, roles
<1>12. \A d \in Delays : d \in Nat
  BY InputTypes
<1> QED
  BY <1>1, <1>2, <1>3, <1>5, <1>6, <1>7, <1>8, <1>9, <1>10, <1>11, <1>12 DEF Administer

LEMMA MintTypes ==
  ASSUME TypeOK, NEW caller, NEW to \in Address, NEW n \in Int, MintTo(caller, to, n)
  PROVE  TypeOK'
<1>0. RolesOK /\ HoldingsOK /\ TotalsOK
  BY DEF TypeOK
<1>1. n \in Nat
  BY DEF MintTo
<1>2. HoldingsOK'
  BY <1>0, <1>1 DEF MintTo, HoldingsOK
<1>3. TotalsOK'
  BY <1>0, <1>1 DEF MintTo, TotalsOK
<1> QED
  BY <1>0, <1>2, <1>3, Untouched DEF MintTo, TypeOK

LEMMA IssueTypes ==
  ASSUME TypeOK, NEW caller \in Address, Issue(caller)
  PROVE  TypeOK'
<1>0. RolesOK /\ HoldingsOK /\ TotalsOK
  BY DEF TypeOK
<1>1. ASSUME NEW to \in Address, NEW n \in Amounts, MintTo(caller, to, n) PROVE TypeOK'
  <2>1. n \in Int
    BY InputTypes
  <2> QED
    BY <1>1, <2>1, MintTypes
<1>2. ASSUME NEW batch \in Batches, BatchMintTo(caller, batch) PROVE TypeOK'
  <2>1. balance \in [Address -> Nat]
    BY <1>0 DEF HoldingsOK
  <2>2. BatchTotal(batch) \in Nat /\ Credited(balance, batch) \in [Address -> Nat]
    BY <1>2, <2>1, BatchPays, BatchCredits DEF BatchMintTo
  <2>3. HoldingsOK'
    BY <1>0, <1>2, <2>2 DEF BatchMintTo, HoldingsOK
  <2>4. TotalsOK'
    BY <1>0, <1>2, <2>2 DEF BatchMintTo, TotalsOK
  <2> QED
    BY <1>0, <1>2, <2>3, <2>4, Untouched DEF BatchMintTo, TypeOK
<1> QED
  BY <1>1, <1>2 DEF Issue

LEMMA DestroyTypes ==
  ASSUME TypeOK, NEW caller \in Address, Destroy(caller)
  PROVE  TypeOK'
<1>0. RolesOK /\ HoldingsOK /\ TotalsOK
  BY DEF TypeOK
<1>1. ASSUME NEW from \in Address, NEW n \in Amounts, DestroyBurned(from, n),
             bridgedToEvm' \in {bridgedToEvm, bridgedToEvm + n}
      PROVE TypeOK'
  <2>1. n \in Nat
    BY <1>1, InputTypes DEF DestroyBurned
  <2>2. HoldingsOK'
    BY <1>0, <1>1, <2>1 DEF DestroyBurned, HoldingsOK
  <2>3. TotalsOK'
    BY <1>0, <1>1, <2>1 DEF DestroyBurned, TotalsOK
  <2> QED
    BY <1>0, <1>1, <2>2, <2>3, Untouched DEF DestroyBurned, TypeOK
<1>2. ASSUME NEW from \in Address, NEW n \in Amounts,
             Burn(caller, from, n) \/ BurnWithReason(caller, from, n)
      PROVE  TypeOK'
  BY <1>1, <1>2 DEF Burn, BurnByBridge, BurnByAdmin, BurnWithReason
<1>3. ASSUME NEW n \in Amounts, NEW r \in RecordIds \cup {NoRecord}, Retire(caller, n, r)
      PROVE  TypeOK'
  <2>1. n \in Nat /\ r \in Nat \cup {NoRecord}
    BY <1>3, InputTypes DEF Retire
  <2>2. HoldingsOK'
    BY <1>0, <1>3, <2>1 DEF Retire, HoldingsOK
  <2>3. Certificate(caller, n, r) \in Certificates
    BY <2>1 DEF Certificate, Certificates
  <2>4. certs' \in Seq(Certificates)
    BY <1>0, <1>3, <2>3 DEF Retire, TotalsOK
  <2>5. TotalsOK'
    BY <1>0, <1>3, <2>1, <2>4 DEF Retire, TotalsOK
  <2> QED
    BY <1>0, <1>3, <2>2, <2>5, Untouched DEF Retire, TypeOK
<1> QED
  BY <1>2, <1>3 DEF Destroy

\* A transfer moves whole balances of natural numbers.
LEMMA MovedTypes ==
  ASSUME NEW b \in [Address -> Nat], NEW from \in Address, NEW to \in Address,
         NEW n \in Nat, b[from] >= n
  PROVE  Moved(b, from, to, n) \in [Address -> Nat]
<1>1. b[from] - n \in Nat /\ b[to] + n \in Nat
  OBVIOUS
<1> QED
  BY <1>1 DEF Moved

LEMMA MoveTypes ==
  ASSUME TypeOK, NEW caller \in Address, Move(caller)
  PROVE  TypeOK'
<1>0. /\ RolesOK /\ HoldingsOK /\ TotalsOK
      /\ balance \in [Address -> Nat]
      /\ allowance \in [Address -> [Address -> Nat]]
      /\ expiration \in [Address -> [Address -> Nat]]
  BY DEF TypeOK, HoldingsOK
<1>1. ASSUME NEW to \in Address, NEW n \in Amounts, Transfer(caller, to, n) PROVE TypeOK'
  <2>1. n \in Nat /\ balance[caller] >= n
    BY <1>1, InputTypes DEF Transfer
  <2>2. balance' \in [Address -> Nat]
    BY <1>0, <1>1, <2>1, MovedTypes DEF Transfer
  <2>3. HoldingsOK'
    BY <1>0, <1>1, <2>2 DEF Transfer, HoldingsOK
  <2> QED
    BY <1>0, <1>1, <2>3, Untouched DEF Transfer, TypeOK
<1>2. ASSUME NEW batch \in Batches, BatchTransfer(caller, batch) PROVE TypeOK'
  <2> DEFINE debited == [balance EXCEPT ![caller] = @ - BatchTotal(batch)]
  <2>1. \A i \in DOMAIN batch : batch[i].amount > 0
    BY <1>2 DEF BatchTransfer
  <2>2. BatchTotal(batch) \in Nat
    BY <2>1, BatchPays
  <2>3. balance[caller] - BatchTotal(batch) \in Nat
    BY <1>0, <1>2, <2>2 DEF BatchTransfer
  <2>4. debited \in [Address -> Nat] /\ balance' = Credited(debited, batch)
    BY <1>0, <1>2, <2>3 DEF BatchTransfer
  <2>5. balance' \in [Address -> Nat]
    <3> HIDE DEF debited
    <3> QED
      BY <2>1, <2>4, BatchCredits
  <2>6. HoldingsOK'
    BY <1>0, <1>2, <2>5 DEF BatchTransfer, HoldingsOK
  <2> QED
    BY <1>0, <1>2, <2>6, Untouched DEF BatchTransfer, TypeOK
<1>3. ASSUME NEW from \in Address, NEW to \in Address, NEW n \in Amounts,
             TransferFrom(caller, from, to, n)
      PROVE  TypeOK'
  <2>1. n \in Nat /\ balance[from] >= n /\ allowance[from][caller] >= n
    BY <1>3, InputTypes DEF TransferFrom
  <2>2. balance' \in [Address -> Nat]
    BY <1>0, <1>3, <2>1, MovedTypes DEF TransferFrom
  <2>3. allowance[from][caller] - n \in Nat
    BY <1>0, <2>1
  <2>4. allowance' \in [Address -> [Address -> Nat]]
    BY <1>0, <1>3, <2>3 DEF TransferFrom
  <2>5. HoldingsOK'
    BY <1>0, <1>3, <2>2, <2>4 DEF TransferFrom, HoldingsOK
  <2> QED
    BY <1>0, <1>3, <2>5, Untouched DEF TransferFrom, TypeOK
<1>4. ASSUME NEW g \in Grants, NEW n \in Amounts, NEW e \in Expirations,
             caller = g.holder, Approve(caller, g.spender, n, e)
      PROVE  TypeOK'
  <2>1. g.spender \in Address /\ n \in Nat /\ e \in Nat
    BY <1>4, InputTypes DEF Approve
  <2>2. allowance' \in [Address -> [Address -> Nat]]
    BY <1>0, <1>4, <2>1 DEF Approve
  <2>3. expiration' \in [Address -> [Address -> Nat]]
    BY <1>0, <1>4, <2>1 DEF Approve
  <2>4. HoldingsOK'
    BY <1>0, <1>4, <2>2, <2>3 DEF Approve, HoldingsOK
  <2> QED
    BY <1>0, <1>4, <2>4, Untouched DEF Approve, TypeOK
<1> QED
  BY <1>1, <1>2, <1>3, <1>4 DEF Move

LEMMA TypesInit == Init => TypeOK
<1> SUFFICES ASSUME Init PROVE TypeOK
  OBVIOUS
<1>1. RolesOK
  BY InputTypes DEF Init, RolesOK, NoProposal
<1>2. HoldingsOK
  BY DEF Init, HoldingsOK
<1>3. TotalsOK
  BY DEF Init, TotalsOK
<1> QED
  BY <1>1, <1>2, <1>3 DEF TypeOK

LEMMA TypesKept ==
  ASSUME TypeOK, [Next]_vars
  PROVE  TypeOK'
<1>1. ASSUME NEW caller \in Address,
             Administer(caller) \/ Issue(caller) \/ Destroy(caller) \/ Move(caller)
      PROVE  TypeOK'
  BY <1>1, AdministerTypes, IssueTypes, DestroyTypes, MoveTypes
<1>2. CASE CloseLedger
  <2>1. ledger' \in Nat
    BY <1>2 DEF CloseLedger, TypeOK, RolesOK
  <2>2. RolesOK'
    BY <1>2, <2>1 DEF CloseLedger, TypeOK, RolesOK, roles
  <2> QED
    BY <1>2, <2>2, Untouched DEF CloseLedger, TypeOK
<1>3. CASE UNCHANGED vars
  BY <1>3, Untouched DEF TypeOK, vars
<1> QED
  BY <1>1, <1>2, <1>3 DEF Next

\* Every reachable state is well typed; balances and the counters of retired,
\* burned, minted and bridged credits never go below zero.
THEOREM TypeCorrect == Spec => []TypeOK
<1>1. Init => TypeOK
  BY TypesInit
<1>2. TypeOK /\ [Next]_vars => TypeOK'
  BY TypesKept
<1> QED
  BY <1>1, <1>2, PTL DEF Spec

--------------------------------------------------------------------------------
(***************************************************************************)
(* What a step does to the balances and the supply counters.               *)
(***************************************************************************)
Quiet == UNCHANGED <<balance, totals>>

Issued ==
  \E n \in Nat \ {0} :
    /\ ~paused
    /\ UnderCap(totalSupply')
    /\ totalSupply' = totalSupply + n
    /\ everMinted' = everMinted + n
    /\ bridgedToEvm' <= bridgedToEvm
    /\ Total(balance') = Total(balance) + n
    /\ UNCHANGED <<totalRetired, totalBurned, certs>>

Burned ==
  \E n \in Nat \ {0} :
    /\ totalSupply' = totalSupply - n
    /\ totalBurned' = totalBurned + n
    /\ bridgedToEvm' <= bridgedToEvm + n
    /\ Total(balance') = Total(balance) - n
    /\ \A a \in Address : balance'[a] <= balance[a]
    /\ UNCHANGED <<totalRetired, everMinted, certs>>

Retired ==
  \E n \in Nat \ {0} :
    /\ ~paused
    /\ totalSupply' = totalSupply - n
    /\ totalRetired' = totalRetired + n
    /\ Total(balance') = Total(balance) - n
    /\ \E c \in Certificates : c.amount = n /\ certs' = Append(certs, c)
    /\ UNCHANGED <<totalBurned, everMinted, bridgedToEvm>>

PaidOneself ==
  \E a \in Address : /\ balance'[a] > balance[a]
                     /\ balance' = [balance EXCEPT ![a] = balance'[a]]

Transferred ==
  /\ ~paused
  /\ UNCHANGED totals
  /\ \/ Total(balance') = Total(balance)
     \/ Total(balance') >= Total(balance) /\ PaidOneself

Effect == Quiet \/ Issued \/ Burned \/ Retired \/ Transferred

\* Setting one balance moves the sum by the difference.
LEMMA OneBalance ==
  ASSUME NEW b \in [Address -> Nat], NEW a \in Address, NEW v \in Int
  PROVE  Total([b EXCEPT ![a] = v]) = Total(b) + v - b[a]
<1>1. b \in [Address -> Int]
  OBVIOUS
<1> QED
  BY <1>1, SumUpdate, AddressAssumption DEF Total

LEMMA AdministerEffect ==
  ASSUME NEW caller \in Address, Administer(caller)
  PROVE  Effect
<1> USE DEF holdings, roles, Quiet, Effect
<1>1. ASSUME NEW a, NEW d, ProposeAdmin(caller, a, d) PROVE Quiet
  BY <1>1 DEF ProposeAdmin
<1>2. ASSUME NEW a, \/ SetAdmin(caller, a) \/ SetMinter(caller, a)
                    \/ SetPauseGuardian(caller, a) \/ SetBridge(caller, a)
                    \/ SetRetirementRegistry(caller, a) \/ SetRequireRegistry(caller, a)
                    \/ SetMaxSupply(caller, a)
      PROVE  Quiet
  BY <1>1, <1>2 DEF SetAdmin, SetMinter, SetPauseGuardian, SetBridge,
                    SetRetirementRegistry, SetRequireRegistry, SetMaxSupply
<1>3. ASSUME \/ AcceptAdmin(caller) \/ CancelAdminProposal(caller)
             \/ Pause(caller) \/ Unpause(caller)
      PROVE  Quiet
  BY <1>3 DEF AcceptAdmin, CancelAdminProposal, Pause, Unpause, SetPaused
<1> QED
  BY <1>1, <1>2, <1>3 DEF Administer

LEMMA MintIssues ==
  ASSUME TypeOK, NEW caller, NEW to \in Address, NEW n \in Int, MintTo(caller, to, n)
  PROVE  Issued
<1>0. /\ balance \in [Address -> Nat] /\ totalSupply \in Int /\ everMinted \in Nat
      /\ bridgedToEvm \in Nat /\ maxSupply \in Nat
  BY DEF TypeOK, HoldingsOK, TotalsOK, RolesOK
<1>1. n \in Nat \ {0}
  BY DEF MintTo
<1>2. Total(balance') = Total(balance) + n
  <2>1. Total(balance) \in Int /\ balance[to] + n \in Int /\ balance[to] \in Int
    BY <1>0, <1>1, TotalIsInt
  <2>2. Total([balance EXCEPT ![to] = balance[to] + n])
        = Total(balance) + (balance[to] + n) - balance[to]
    BY <1>0, <2>1, OneBalance
  <2>3. balance' = [balance EXCEPT ![to] = balance[to] + n]
    BY DEF MintTo
  <2> QED
    BY <1>1, <2>1, <2>2, <2>3
<1>3. UnderCap(totalSupply')
  BY <1>0, <1>1 DEF MintTo, UnderCap
<1>4. bridgedToEvm' <= bridgedToEvm
  BY <1>0, <1>1 DEF MintTo
<1> QED
  BY <1>1, <1>2, <1>3, <1>4 DEF MintTo, Issued

LEMMA IssueEffect ==
  ASSUME TypeOK, NEW caller \in Address, Issue(caller)
  PROVE  Issued
<1>0. /\ balance \in [Address -> Nat] /\ totalSupply \in Int /\ everMinted \in Nat
      /\ bridgedToEvm \in Nat /\ maxSupply \in Nat
  BY DEF TypeOK, HoldingsOK, TotalsOK, RolesOK
<1>1. ASSUME NEW to \in Address, NEW n \in Amounts, MintTo(caller, to, n) PROVE Issued
  <2>1. n \in Int
    BY InputTypes
  <2> QED
    BY <1>1, <2>1, MintIssues
<1>2. ASSUME NEW batch \in Batches, BatchMintTo(caller, batch) PROVE Issued
  <2>1. \A i \in DOMAIN batch : batch[i].amount > 0
    BY <1>2 DEF BatchMintTo
  <2>2. BatchTotal(batch) \in Nat \ {0}
    BY <2>1, BatchPays
  <2>3. Total(balance') = Total(balance) + BatchTotal(batch)
    BY <1>0, <1>2, <2>1, BatchCredits DEF BatchMintTo
  <2>4. UnderCap(totalSupply')
    BY <1>2 DEF BatchMintTo
  <2>5. bridgedToEvm' <= bridgedToEvm
    BY <1>0, <1>2 DEF BatchMintTo
  <2> QED
    BY <1>2, <2>2, <2>3, <2>4, <2>5 DEF BatchMintTo, Issued
<1> QED
  BY <1>1, <1>2 DEF Issue

\* Debiting a holder by n lowers the sum of the balances by n.
LEMMA Debited ==
  ASSUME NEW b \in [Address -> Nat], NEW a \in Address, NEW n \in Nat
  PROVE  /\ Total([b EXCEPT ![a] = @ - n]) = Total(b) - n
         /\ \A x \in Address : [b EXCEPT ![a] = @ - n][x] <= b[x]
<1>1. Total(b) \in Int /\ b[a] - n \in Int /\ b[a] \in Int
  BY TotalIsInt
<1>2. Total([b EXCEPT ![a] = b[a] - n]) = Total(b) + (b[a] - n) - b[a]
  BY <1>1, OneBalance
<1>3. [b EXCEPT ![a] = @ - n] = [b EXCEPT ![a] = b[a] - n]
  OBVIOUS
<1>4. Total([b EXCEPT ![a] = @ - n]) = Total(b) - n
  BY <1>1, <1>2, <1>3
<1>5. \A x \in Address : [b EXCEPT ![a] = @ - n][x] <= b[x]
  OBVIOUS
<1> QED
  BY <1>4, <1>5

LEMMA DestroyEffect ==
  ASSUME TypeOK, NEW caller \in Address, Destroy(caller)
  PROVE  Effect
<1>0. balance \in [Address -> Nat] /\ bridgedToEvm \in Nat
  BY DEF TypeOK, HoldingsOK, TotalsOK
<1>1. ASSUME NEW from \in Address, NEW n \in Amounts, DestroyBurned(from, n),
             bridgedToEvm' \in {bridgedToEvm, bridgedToEvm + n}
      PROVE  Burned
  <2>1. n \in Nat \ {0}
    BY <1>1, InputTypes DEF DestroyBurned
  <2>2. balance' = [balance EXCEPT ![from] = @ - n]
    BY <1>1 DEF DestroyBurned
  <2>3. /\ Total(balance') = Total(balance) - n
        /\ \A x \in Address : balance'[x] <= balance[x]
    BY <1>0, <2>1, <2>2, Debited
  <2>4. bridgedToEvm' <= bridgedToEvm + n
    BY <1>0, <1>1, <2>1
  <2> QED
    BY <1>1, <2>1, <2>3, <2>4 DEF DestroyBurned, Burned
<1>2. ASSUME NEW from \in Address, NEW n \in Amounts,
             Burn(caller, from, n) \/ BurnWithReason(caller, from, n)
      PROVE  Burned
  BY <1>1, <1>2 DEF Burn, BurnByBridge, BurnByAdmin, BurnWithReason
<1>3. ASSUME NEW n \in Amounts, NEW r \in RecordIds \cup {NoRecord}, Retire(caller, n, r)
      PROVE  Retired
  <2>1. n \in Nat \ {0} /\ r \in Nat \cup {NoRecord}
    BY <1>3, InputTypes DEF Retire
  <2>2. balance' = [balance EXCEPT ![caller] = @ - n]
    BY <1>3 DEF Retire
  <2>3. Total(balance') = Total(balance) - n
    BY <1>0, <2>1, <2>2, Debited
  <2>4. /\ Certificate(caller, n, r) \in Certificates
        /\ Certificate(caller, n, r).amount = n
        /\ certs' = Append(certs, Certificate(caller, n, r))
    BY <1>3, <2>1 DEF Certificate, Certificates, Retire
  <2> QED
    BY <1>3, <2>1, <2>3, <2>4 DEF Retire, Retired
<1> QED
  BY <1>2, <1>3 DEF Destroy, Effect

\* A transfer between two addresses moves credits; a transfer to oneself adds
\* the amount to the balance.
LEMMA MovedTotal ==
  ASSUME NEW b \in [Address -> Nat], NEW from \in Address, NEW to \in Address,
         NEW n \in Nat \ {0}, b[from] >= n
  PROVE  \/ from # to /\ Total(Moved(b, from, to, n)) = Total(b)
         \/ /\ from = to
            /\ Moved(b, from, to, n) = [b EXCEPT ![to] = b[to] + n]
            /\ Total(Moved(b, from, to, n)) = Total(b) + n
<1>0. /\ Total(b) \in Int /\ b[from] - n \in Nat /\ b[to] + n \in Nat
      /\ b[from] - n \in Int /\ b[to] + n \in Int /\ b[from] \in Int /\ b[to] \in Int
  <2>1. b \in [Address -> Int]
    OBVIOUS
  <2>2. Total(b) \in Int
    BY <2>1, TotalIsInt
  <2> QED
    BY <2>2
<1>1. CASE from = to
  <2>1. Moved(b, from, to, n) = [b EXCEPT ![to] = b[to] + n]
    BY <1>1 DEF Moved
  <2>2. Total([b EXCEPT ![to] = b[to] + n]) = Total(b) + (b[to] + n) - b[to]
    BY <1>0, OneBalance
  <2>3. Total(Moved(b, from, to, n)) = Total(b) + n
    BY <1>0, <2>1, <2>2
  <2> QED
    BY <1>1, <2>1, <2>3
<1>2. CASE from # to
  <2> DEFINE d == [b EXCEPT ![from] = b[from] - n]
  <2>1. d \in [Address -> Nat] /\ d[to] = b[to]
    BY <1>0, <1>2
  <2>2. Total(d) = Total(b) + (b[from] - n) - b[from]
    BY <1>0, OneBalance
  <2>3. Moved(b, from, to, n) = [d EXCEPT ![to] = b[to] + n]
    BY <1>2 DEF Moved
  <2> HIDE DEF d
  <2>4. Total([d EXCEPT ![to] = b[to] + n]) = Total(d) + (b[to] + n) - d[to]
    BY <1>0, <2>1, OneBalance
  <2>5. Total(Moved(b, from, to, n)) = Total(b)
    BY <1>0, <2>1, <2>2, <2>3, <2>4
  <2> QED
    BY <1>2, <2>5
<1> QED
  BY <1>1, <1>2

\* transfer and transfer_from, seen from the ledger.
LEMMA MovedEffect ==
  ASSUME TypeOK, NEW from \in Address, NEW to \in Address, NEW n \in Amounts,
         n > 0, balance[from] >= n, ~paused,
         balance' = Moved(balance, from, to, n), UNCHANGED totals
  PROVE  Transferred
<1>0. balance \in [Address -> Nat] /\ n \in Nat \ {0} /\ Total(balance) \in Int
  <2>1. balance \in [Address -> Nat] /\ n \in Nat \ {0}
    BY InputTypes DEF TypeOK, HoldingsOK
  <2>2. balance \in [Address -> Int]
    BY <2>1
  <2> QED
    BY <2>1, <2>2, TotalIsInt
<1>1. \/ Total(balance') = Total(balance)
      \/ /\ balance' = [balance EXCEPT ![to] = balance[to] + n]
         /\ Total(balance') = Total(balance) + n
  BY <1>0, MovedTotal
<1>2. ASSUME balance' = [balance EXCEPT ![to] = balance[to] + n],
             Total(balance') = Total(balance) + n
      PROVE  Total(balance') >= Total(balance) /\ PaidOneself
  <2>1. balance'[to] = balance[to] + n /\ balance'[to] > balance[to]
    BY <1>0, <1>2
  <2>2. balance' = [balance EXCEPT ![to] = balance'[to]]
    BY <1>2, <2>1
  <2>3. PaidOneself
    BY <2>1, <2>2 DEF PaidOneself
  <2> QED
    BY <1>0, <1>2, <2>3
<1> QED
  BY <1>1, <1>2 DEF Transferred

LEMMA MoveEffect ==
  ASSUME TypeOK, NEW caller \in Address, Move(caller)
  PROVE  Effect
<1>0. balance \in [Address -> Nat]
  BY DEF TypeOK, HoldingsOK
<1>1. ASSUME NEW to \in Address, NEW n \in Amounts, Transfer(caller, to, n)
      PROVE  Transferred
  BY <1>1, MovedEffect DEF Transfer
<1>2. ASSUME NEW from \in Address, NEW to \in Address, NEW n \in Amounts,
             TransferFrom(caller, from, to, n)
      PROVE  Transferred
  BY <1>2, MovedEffect DEF TransferFrom
<1>3. ASSUME NEW batch \in Batches, BatchTransfer(caller, batch) PROVE Transferred
  <2> DEFINE debited == [balance EXCEPT ![caller] = @ - BatchTotal(batch)]
  <2>1. \A i \in DOMAIN batch : batch[i].amount > 0
    BY <1>3 DEF BatchTransfer
  <2>2. BatchTotal(batch) \in Nat
    BY <2>1, BatchPays
  <2>3. debited \in [Address -> Nat] /\ balance' = Credited(debited, batch)
    <3>1. balance[caller] - BatchTotal(batch) \in Nat
      BY <1>0, <1>3, <2>2 DEF BatchTransfer
    <3> QED
      BY <1>0, <1>3, <3>1 DEF BatchTransfer
  <2>4. Total(debited) = Total(balance) - BatchTotal(batch)
    BY <1>0, <2>2, Debited
  <2>5. Total(balance) \in Int
    <3>1. balance \in [Address -> Int]
      BY <1>0
    <3> QED
      BY <3>1, TotalIsInt
  <2>6. Total(balance') = Total(debited) + BatchTotal(batch)
    <3> HIDE DEF debited
    <3> QED
      BY <2>1, <2>3, BatchCredits
  <2>7. Total(balance') = Total(balance)
    BY <2>2, <2>4, <2>5, <2>6
  <2> QED
    BY <1>3, <2>7 DEF BatchTransfer, Transferred
<1>4. ASSUME NEW s, NEW n, NEW e, Approve(caller, s, n, e) PROVE Quiet
  BY <1>4 DEF Approve, Quiet
<1> QED
  BY <1>1, <1>2, <1>3, <1>4 DEF Move, Effect

\* Every step has one of the five effects.
LEMMA StepEffect ==
  ASSUME TypeOK, [Next]_vars
  PROVE  Effect
<1>1. ASSUME NEW caller \in Address,
             Administer(caller) \/ Issue(caller) \/ Destroy(caller) \/ Move(caller)
      PROVE  Effect
  BY <1>1, AdministerEffect, IssueEffect, DestroyEffect, MoveEffect DEF Effect
<1>2. CASE CloseLedger
  BY <1>2 DEF CloseLedger, holdings, Effect, Quiet
<1>3. CASE UNCHANGED vars
  BY <1>3 DEF vars, holdings, Effect, Quiet
<1> QED
  BY <1>1, <1>2, <1>3 DEF Next

--------------------------------------------------------------------------------
(***************************************************************************)
(* The theorems.                                                           *)
(***************************************************************************)

\* The types of the quantities the invariants relate.
LEMMA Quantities ==
  ASSUME TypeOK
  PROVE  /\ totalSupply \in Int /\ totalRetired \in Nat /\ totalBurned \in Nat
         /\ everMinted \in Nat /\ bridgedToEvm \in Nat /\ Total(balance) \in Int
         /\ maxSupply \in Nat
<1>1. balance \in [Address -> Int]
  BY DEF TypeOK, HoldingsOK
<1> QED
  BY <1>1, TotalIsInt DEF TypeOK, TotalsOK, RolesOK

\* The credits counted as away are no more than all the burns there were.  That is
\* all the counters say by themselves; that a bridge credit comes home at most once
\* is BridgesBringBackWhatTheySent.
BridgedAreBurned == bridgedToEvm <= totalBurned

\* The three invariants of the supply are inductive together with the types.
SupplyInvariant ==
  /\ SupplyConservation
  /\ HeldCoversSupply
  /\ BridgedAreBurned

LEMMA SupplyInit == Init => SupplyInvariant
<1> SUFFICES ASSUME Init PROVE SupplyInvariant
  OBVIOUS
<1>1. Total(balance) = 0
  <2>1. balance = [a \in Address |-> 0]
    BY DEF Init
  <2>2. \A x \in Address : balance[x] = IF x = 0 THEN 0 ELSE 0
    BY <2>1
  <2>3. SumFunctionOnSet(balance, Address) = 0
    BY <2>2, SumOfPoint, AddressAssumption
  <2> QED
    BY <2>1, <2>3, TotalIsSum
<1> QED
  BY <1>1 DEF Init, SupplyInvariant, SupplyConservation, HeldCoversSupply, BridgedAreBurned

\* Each of the effects keeps the supply's invariants.
LEMMA SupplyKept ==
  ASSUME TypeOK, TypeOK', SupplyInvariant, Effect
  PROVE  SupplyInvariant'
<1>0. /\ totalSupply \in Int /\ totalRetired \in Nat /\ totalBurned \in Nat
      /\ everMinted \in Nat /\ bridgedToEvm \in Nat /\ Total(balance) \in Int
  BY Quantities
<1>00. bridgedToEvm' \in Nat /\ Total(balance') \in Int
  <2>1. balance' \in [Address -> Int] /\ bridgedToEvm' \in Nat
    BY DEF TypeOK, HoldingsOK, TotalsOK
  <2> QED
    BY <2>1, TotalIsInt
<1>1. SupplyConservation'
  BY <1>0, <1>00, SMTT(20) DEF Effect, Quiet, Issued, Burned, Retired, Transferred, totals,
              SupplyInvariant, SupplyConservation
<1>2. HeldCoversSupply'
  BY <1>0, <1>00, SMTT(20) DEF Effect, Quiet, Issued, Burned, Retired, Transferred, totals,
              SupplyInvariant, HeldCoversSupply
<1>3. BridgedAreBurned'
  BY <1>0, <1>00 DEF Effect, Quiet, Issued, Burned, Retired, Transferred, totals,
              SupplyInvariant, BridgedAreBurned
<1> QED
  BY <1>1, <1>2, <1>3 DEF SupplyInvariant

\* No sequence of calls by any callers loses or invents supply: what was minted
\* circulates, is retired or is burned; the circulating credits are held by
\* somebody; and the credits counted on the EVM chain were burned here.
THEOREM SupplySafe == Spec => []SupplyInvariant
<1>1. Init => SupplyInvariant
  BY SupplyInit
<1>2. TypeOK /\ TypeOK' /\ SupplyInvariant /\ [Next]_vars => SupplyInvariant'
  BY StepEffect, SupplyKept
<1> QED
  BY <1>1, <1>2, TypeCorrect, PTL DEF Spec

\* SPEC section 5, invariant 1, on its own.
THEOREM Conservation == Spec => []SupplyConservation
<1>1. SupplyInvariant => SupplyConservation
  BY DEF SupplyInvariant
<1> QED
  BY <1>1, SupplySafe, PTL

\* Supply is never stranded: the circulating credits are held by somebody.
THEOREM HeldCovers == Spec => []HeldCoversSupply
<1>1. SupplyInvariant => HeldCoversSupply
  BY DEF SupplyInvariant
<1> QED
  BY <1>1, SupplySafe, PTL

\* The certificates add up to the retired total: each retirement issues one
\* certificate of its amount, and no call alters an issued one.
THEOREM CertificatesAccount == Spec => []CertificatesAccountForRetired
<1> DEFINE amounts == [i \in DOMAIN certs |-> certs[i].amount]
<1>1. Init => CertificatesAccountForRetired
  <2> SUFFICES ASSUME Init PROVE CertificatesAccountForRetired
    OBVIOUS
  <2>1. DOMAIN amounts = {}
    BY DEF Init
  <2>2. SumFunctionOnSet(amounts, {}) = 0
    <3>1. IsFiniteSet({})
      BY FS_EmptySet
    <3> HIDE DEF amounts
    <3> QED
      BY <3>1, SumProperties
  <2> QED
    BY <2>1, <2>2 DEF Init, CertificatesAccountForRetired, Total, SumFunction
<1>2. TypeOK /\ CertificatesAccountForRetired /\ [Next]_vars => CertificatesAccountForRetired'
  <2> SUFFICES ASSUME TypeOK, CertificatesAccountForRetired, Effect
               PROVE  CertificatesAccountForRetired'
    BY StepEffect
  <2>1. CASE UNCHANGED <<certs, totalRetired>>
    BY <2>1 DEF CertificatesAccountForRetired
  <2>2. CASE Retired
    <3>1. PICK n \in Nat \ {0} :
            /\ totalRetired' = totalRetired + n
            /\ \E c \in Certificates : c.amount = n /\ certs' = Append(certs, c)
      BY <2>2 DEF Retired
    <3>2. PICK c \in Certificates : c.amount = n /\ certs' = Append(certs, c)
      BY <3>1
    <3> DEFINE k == Len(certs)
               after == [i \in DOMAIN (certs') |-> certs'[i].amount]
    <3>3. /\ certs \in Seq(Certificates) /\ k \in Nat /\ DOMAIN certs = 1 .. k
          /\ IsFiniteSet(1 .. k)
      <4>1. certs \in Seq(Certificates)
        BY DEF TypeOK, TotalsOK
      <4>2. k \in Nat /\ DOMAIN certs = 1 .. k
        BY <4>1
      <4>3. IsFiniteSet(1 .. k)
        BY <4>2, FS_Interval
      <4> QED
        BY <4>1, <4>2, <4>3
    <3>10. /\ DOMAIN (certs') = (1 .. k) \cup {k + 1} /\ k + 1 \notin 1 .. k
           /\ \A i \in 1 .. k : certs'[i] = certs[i]
           /\ certs'[k + 1] = c
      BY <3>2, <3>3
    <3>4. /\ \A i \in 1 .. k : amounts[i] \in Int /\ after[i] = amounts[i]
          /\ after[k + 1] = n /\ n \in Int
      <4>1. \A i \in 1 .. k : certs[i] \in Certificates
        BY <3>3
      <4>2. \A i \in 1 .. k : certs[i].amount \in Int
        BY <4>1 DEF Certificates
      <4>3. \A i \in 1 .. k : amounts[i] = certs[i].amount
        BY <3>3
      <4>4. \A i \in 1 .. k : after[i] = certs[i].amount
        BY <3>10
      <4>5. after[k + 1] = c.amount
        BY <3>10
      <4> QED
        BY <3>1, <3>2, <4>2, <4>3, <4>4, <4>5
    <3>5. DOMAIN amounts = 1 .. k /\ DOMAIN after = (1 .. k) \cup {k + 1}
      BY <3>3, <3>10
    <3>6. SumFunctionOnSet(amounts, 1 .. k) = totalRetired
      BY <3>5 DEF CertificatesAccountForRetired, Total, SumFunction
    <3>7. Total([i \in DOMAIN (certs') |-> certs'[i].amount])
          = SumFunctionOnSet(after, (1 .. k) \cup {k + 1})
      BY <3>5 DEF Total, SumFunction
    <3>8. SumFunctionOnSet(after, (1 .. k) \cup {k + 1}) = n + totalRetired
      <4> HIDE DEF amounts, after, k
      <4>1. SumFunctionOnSet(after, 1 .. k) = SumFunctionOnSet(amounts, 1 .. k)
        BY <3>3, <3>4, SumAgrees
      <4>2. \A i \in (1 .. k) \cup {k + 1} : after[i] \in Int
        BY <3>4
      <4>3. SumFunctionOnSet(after, (1 .. k) \cup {k + 1})
            = after[k + 1] + SumFunctionOnSet(after, 1 .. k)
        BY <3>3, <3>10, <4>2, SumInsert
      <4> QED
        BY <3>4, <3>6, <4>1, <4>3
    <3>9. totalRetired \in Nat
      BY Quantities
    <3>11. n + totalRetired = totalRetired + n
      BY <3>4, <3>9
    <3> QED
      BY <3>1, <3>7, <3>8, <3>11 DEF CertificatesAccountForRetired
  <2> QED
    BY <2>1, <2>2 DEF Effect, Quiet, Issued, Burned, Transferred, totals
<1> QED
  BY <1>1, <1>2, TypeCorrect, PTL DEF Spec

\* Only paying oneself opens the gap between what is held and what circulates.
THEOREM GapTheorem == Spec => GapOnlyFromPayingOneself
<1>1. TypeOK /\ [Next]_vars =>
        [ Total(balance') - totalSupply' # Total(balance) - totalSupply
          => /\ UNCHANGED totals
             /\ \E a \in Address : /\ balance'[a] > balance[a]
                                   /\ balance' = [balance EXCEPT ![a] = balance'[a]] ]_vars
  <2> SUFFICES ASSUME TypeOK, Effect,
                      Total(balance') - totalSupply' # Total(balance) - totalSupply
               PROVE  UNCHANGED totals /\ PaidOneself
    BY StepEffect DEF PaidOneself
  <2>1. totalSupply \in Int /\ Total(balance) \in Int
    BY Quantities
  <2> QED
    BY <2>1 DEF Effect, Quiet, Issued, Burned, Retired, Transferred, totals
<1> QED
  BY <1>1, TypeCorrect, PTL DEF Spec, GapOnlyFromPayingOneself

LEMMA CapHoldsEffect ==
  ASSUME TypeOK, Effect, everMinted' > everMinted
  PROVE  UnderCap(totalSupply')
<1>1. everMinted \in Nat
  BY Quantities
<1> QED
  BY <1>1 DEF Effect, Quiet, Issued, Burned, Retired, Transferred, totals

\* No mint, single or batched, lifts the supply above the cap in force.
THEOREM MintsCapped == Spec => MintsRespectCap
<1>1. TypeOK /\ [Next]_vars => [everMinted' > everMinted => UnderCap(totalSupply')]_vars
  BY StepEffect, CapHoldsEffect
<1> QED
  BY <1>1, TypeCorrect, PTL DEF Spec, MintsRespectCap

Frozen == paused => /\ \A a \in Address : balance'[a] <= balance[a]
                    /\ Total(balance) - Total(balance') = totalBurned' - totalBurned
                    /\ UNCHANGED <<everMinted, totalRetired, certs>>

LEMMA PauseHoldsEffect ==
  ASSUME TypeOK, Effect
  PROVE  Frozen
<1> SUFFICES ASSUME paused PROVE Frozen
  BY DEF Frozen
<1>1. /\ totalBurned \in Nat /\ Total(balance) \in Int
      /\ \A a \in Address : balance[a] \in Nat
  BY Quantities DEF TypeOK, HoldingsOK
<1>2. CASE Quiet
  BY <1>1, <1>2 DEF Quiet, totals, Frozen
<1>3. CASE Burned
  BY <1>1, <1>3 DEF Burned, Frozen
<1> QED
  BY <1>2, <1>3 DEF Effect, Issued, Retired, Transferred

\* While the token is paused the only change is a burn.
THEOREM PauseHolds == Spec => PauseFreezes
<1>1. TypeOK /\ [Next]_vars => [Frozen]_vars
  BY StepEffect, PauseHoldsEffect
<1> QED
  BY <1>1, TypeCorrect, PTL DEF Spec, PauseFreezes, Frozen

\* Only the address proposed becomes admin, no earlier than the delay it was
\* proposed with, and the proposal is used up: no other entry point writes Admin.
THEOREM HandoverOnlyByAcceptance == Spec => HandoverUsesUpProposal
<1> DEFINE Accepted == /\ admin' = pendingAdmin.to
                       /\ ledger >= pendingAdmin.activeAfter
                       /\ pendingAdmin' = NoProposal
<1>1. ASSUME NEW caller \in Address, Administer(caller), admin' # admin
      PROVE  Accepted
  BY <1>1 DEF Administer, ProposeAdmin, SetAdmin, SetMinter, SetPauseGuardian, SetBridge,
              AcceptAdmin, CancelAdminProposal, SetRetirementRegistry, SetRequireRegistry,
              SetMaxSupply, Pause, Unpause, SetPaused, roles
<1>2. ASSUME NEW caller \in Address, Issue(caller)
      PROVE  admin' = admin
  BY <1>2 DEF Issue, MintTo, BatchMintTo, roles
<1>3. ASSUME NEW caller \in Address, Destroy(caller)
      PROVE  admin' = admin
  BY <1>3 DEF Destroy, Burn, BurnWithReason, BurnByBridge, BurnByAdmin, DestroyBurned,
              Retire, roles
<1>4. ASSUME NEW caller \in Address, Move(caller)
      PROVE  admin' = admin
  BY <1>4 DEF Move, Transfer, BatchTransfer, TransferFrom, Approve, roles
<1>5. CloseLedger \/ UNCHANGED vars => admin' = admin
  BY DEF CloseLedger, vars, roles
<1>6. [Next]_vars => [admin' # admin => Accepted]_vars
  BY <1>1, <1>2, <1>3, <1>4, <1>5 DEF Next
<1> QED
  BY <1>6, PTL DEF Spec, HandoverUsesUpProposal

\* To the supply ledger, every effect a step can have is one of its steps or none.
LEMMA LedgerInit == Init => Supply!Init
<1> DEFINE claims == [i \in DOMAIN certs |-> certs[i].amount]
<1> SUFFICES ASSUME Init PROVE Supply!Init
  OBVIOUS
<1>1. claims = <<>>
  BY DEF Init
<1> QED
  BY <1>1 DEF Init, Supply!Init

LEMMA LedgerStep ==
  ASSUME TypeOK, Effect
  PROVE  [Supply!Next]_Supply!supply
<1> DEFINE claims == [i \in DOMAIN certs |-> certs[i].amount]
<1>0. /\ totalSupply \in Int /\ totalRetired \in Nat /\ totalBurned \in Nat
      /\ everMinted \in Nat
  BY Quantities
<1>1. CASE Quiet \/ Transferred
  BY <1>1 DEF Quiet, Transferred, totals, Supply!supply
<1>2. CASE Issued
  BY <1>0, <1>2 DEF Issued, Supply!Next, Supply!Issue
<1>3. CASE Burned
  BY <1>0, <1>3 DEF Burned, Supply!Next, Supply!Burn
<1>4. CASE Retired
  <2>1. PICK n \in Nat \ {0} :
          /\ totalSupply' = totalSupply - n
          /\ totalRetired' = totalRetired + n
          /\ UNCHANGED <<totalBurned, everMinted>>
          /\ \E c \in Certificates : c.amount = n /\ certs' = Append(certs, c)
    BY <1>4 DEF Retired
  <2>2. PICK c \in Certificates : c.amount = n /\ certs' = Append(certs, c)
    BY <2>1
  <2>3. [i \in DOMAIN (certs') |-> certs'[i].amount] = Append(claims, n)
    <3>1. certs \in Seq(Certificates)
      BY DEF TypeOK, TotalsOK
    <3> QED
      BY <2>2, <3>1
  <2> QED
    BY <1>0, <2>1, <2>3 DEF Supply!Next, Supply!Retire
<1> QED
  BY <1>1, <1>2, <1>3, <1>4 DEF Effect

\* The token implements the supply ledger it promises.
THEOREM Refinement == Spec => ImplementsSupplyLedger
<1>1. TypeOK /\ [Next]_vars => [Supply!Next]_Supply!supply
  BY StepEffect, LedgerStep
<1> QED
  BY <1>1, LedgerInit, TypeCorrect, PTL DEF Spec, ImplementsSupplyLedger, Supply!Spec

================================================================================
