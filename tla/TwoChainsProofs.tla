---------------------------- MODULE TwoChainsProofs ----------------------------
(***************************************************************************)
(* Proofs that the bridge neither creates nor loses a credit, for every    *)
(* set of addresses, amounts, relayer lists and transfers that are forged. *)
(*                                                                         *)
(* Each direction is a lane: what was deposited on one chain, of which     *)
(* some was delivered on the other.  A step leaves both lanes alone, or    *)
(* sends on one, or delivers on one; whatever else is signed is refused.   *)
(***************************************************************************)
EXTENDS TwoChains, CreditTokenProofs, SequenceTheorems

\* The amounts of a lane's deposits.
Amount(ds) == [i \in DOMAIN ds |-> ds[i].amount]

\* A lane's deposits: positive amounts, numbered by their nonces.
Lane(ds) ==
  /\ ds \in Seq(Range(ds))
  /\ \A i \in DOMAIN ds : ds[i].amount \in Nat \ {0} /\ ds[i].nonce = i - 1

LEMMA LaneShape ==
  ASSUME NEW ds, Lane(ds)
  PROVE  /\ Len(ds) \in Nat /\ DOMAIN ds = 1 .. Len(ds) /\ IsFiniteSet(DOMAIN ds)
         /\ \A i \in DOMAIN ds : ds[i].amount \in Int
<1>1. Len(ds) \in Nat /\ DOMAIN ds = 1 .. Len(ds)
  BY DEF Lane
<1>2. IsFiniteSet(DOMAIN ds)
  BY <1>1, FS_Interval
<1>3. \A i \in DOMAIN ds : ds[i].amount \in Nat
  BY DEF Lane
<1>4. \A i \in DOMAIN ds : ds[i].amount \in Int
  BY <1>3
<1> QED
  BY <1>1, <1>2, <1>4

LEMMA UnderWayIs ==
  ASSUME NEW ds, Lane(ds), NEW D
  PROVE  /\ UnderWay(ds, D) = SumFunctionOnSet(Amount(ds), DOMAIN ds \ D)
         /\ UnderWay(ds, D) \in Int
<1> DEFINE S == DOMAIN ds \ D
           f == [i \in S |-> ds[i].amount]
           g == Amount(ds)
<1>1. IsFiniteSet(S)
  BY LaneShape, FS_Subset
<1>2. \A i \in S : g[i] \in Int /\ f[i] = g[i]
  BY LaneShape DEF Amount
<1>3. DOMAIN f = S /\ UnderWay(ds, D) = Total(f)
  BY DEF UnderWay
<1> HIDE DEF f, g, S
<1>4. SumFunctionOnSet(f, S) = SumFunctionOnSet(g, S)
  BY <1>1, <1>2, SumAgrees
<1>5. SumFunctionOnSet(g, S) \in Int
  BY <1>1, <1>2, SumProperties
<1> QED
  BY <1>3, <1>4, <1>5 DEF Total, SumFunction, g, S

\* A deposit is under way.
LEMMA LaneSends ==
  ASSUME NEW ds, Lane(ds), NEW d, d.amount \in Nat \ {0}, d.nonce = Len(ds),
         NEW D \in SUBSET DOMAIN ds
  PROVE  /\ Lane(Append(ds, d))
         /\ Amount(Append(ds, d)) = Append(Amount(ds), d.amount)
         /\ Len(Amount(ds)) = Len(ds)
         /\ UnderWay(Append(ds, d), D) = UnderWay(ds, D) + d.amount
<1> DEFINE es == Append(ds, d)
           n == Len(ds) + 1
           S == DOMAIN ds \ D
<1>1. Len(ds) \in Nat /\ DOMAIN ds = 1 .. Len(ds) /\ IsFiniteSet(DOMAIN ds)
  BY LaneShape
<1>2. /\ DOMAIN es = DOMAIN ds \cup {n} /\ n \notin DOMAIN ds /\ es[n] = d /\ Len(es) = n
      /\ \A i \in DOMAIN ds : es[i] = ds[i]
  <2>1. ds \in Seq(Range(ds) \cup {d})
    BY DEF Lane
  <2>2. Len(es) = n /\ DOMAIN es = 1 .. n /\ es[n] = d
    BY <1>1, <2>1
  <2>3. \A i \in DOMAIN ds : es[i] = ds[i]
    BY <1>1, <2>1
  <2>4. 1 .. n = (1 .. Len(ds)) \cup {n} /\ n \notin 1 .. Len(ds)
    BY <1>1
  <2>5. DOMAIN es = DOMAIN ds \cup {n} /\ n \notin DOMAIN ds
    <3> HIDE DEF es, n
    <3> QED
      BY <1>1, <2>2, <2>4
  <2> QED
    BY <2>2, <2>3, <2>5
<1>3. es \in Seq(Range(es))
  <2>0. ds \in Seq(Range(ds) \cup {d})
    BY DEF Lane
  <2>1. es = [i \in 1 .. n |-> es[i]]
    <3>1. es \in Seq(Range(ds) \cup {d})
      BY <2>0
    <3>2. Len(es) = n
      BY <1>2
    <3> HIDE DEF es, n
    <3> QED
      BY <3>1, <3>2
  <2>2. \A i \in 1 .. n : es[i] \in Range(es)
    BY <1>1, <1>2 DEF Range
  <2>3. n \in Nat
    BY <1>1
  <2> HIDE DEF es, n
  <2> QED
    BY <2>1, <2>2, <2>3
<1>4. n - 1 = Len(ds)
  BY <1>1
<1> HIDE DEF es, n
<1>5. Lane(es)
  BY <1>2, <1>3, <1>4 DEF Lane
<1>6. Len(Amount(ds)) = Len(ds)
  BY <1>1 DEF Amount
<1>7. Amount(es) = Append(Amount(ds), d.amount)
  <2> DEFINE a == Amount(ds)
             b == Append(a, d.amount)
  <2>1. a \in Seq(Nat)
    BY <1>1 DEF Amount, Lane
  <2>2. Len(a) = Len(ds) /\ \A i \in DOMAIN ds : a[i] = ds[i].amount
    BY <1>6 DEF Amount
  <2> HIDE DEF a
  <2>3. DOMAIN b = 1 .. Len(ds) + 1 /\ b[Len(ds) + 1] = d.amount
        /\ \A i \in 1 .. Len(ds) : b[i] = a[i]
    BY <2>1, <2>2, <1>1
  <2>4. b = [i \in DOMAIN b |-> b[i]]
    BY <2>1
  <2> HIDE DEF b
  <2>5. DOMAIN b = DOMAIN es
    BY <1>1, <1>2, <2>3 DEF n
  <2>6. \A i \in DOMAIN es : b[i] = es[i].amount
    BY <1>1, <1>2, <2>2, <2>3 DEF n
  <2> QED
    BY <2>4, <2>5, <2>6 DEF Amount, a, b
<1>8. UnderWay(es, D) = UnderWay(ds, D) + d.amount
  <2> DEFINE g == Amount(ds)
             h == Amount(es)
  <2>1. IsFiniteSet(S) /\ n \notin S /\ DOMAIN es \ D = S \cup {n}
    BY <1>1, <1>2, FS_Subset
  <2>2. \A i \in S : g[i] \in Int /\ h[i] = g[i]
    BY <1>2, LaneShape DEF Amount
  <2>3. h[n] = d.amount /\ d.amount \in Int
    BY <1>2 DEF Amount
  <2> HIDE DEF g, h, S
  <2>4. \A i \in S \cup {n} : h[i] \in Int
    BY <2>2, <2>3
  <2>5. SumFunctionOnSet(h, S \cup {n}) = h[n] + SumFunctionOnSet(h, S)
    BY <2>1, <2>4, SumInsert
  <2>6. SumFunctionOnSet(h, S) = SumFunctionOnSet(g, S)
    BY <2>1, <2>2, SumAgrees
  <2>7. UnderWay(es, D) = SumFunctionOnSet(h, S \cup {n})
    BY <1>5, <2>1, UnderWayIs DEF h
  <2>8. UnderWay(ds, D) = SumFunctionOnSet(g, S)
    BY UnderWayIs DEF g, S
  <2>9. UnderWay(ds, D) \in Int
    BY UnderWayIs
  <2> QED
    BY <2>3, <2>5, <2>6, <2>7, <2>8, <2>9
<1> QED
  BY <1>5, <1>6, <1>7, <1>8 DEF es

\* A delivery ends the way of one deposit.
LEMMA LaneDelivers ==
  ASSUME NEW ds, Lane(ds), NEW D, NEW i \in DOMAIN ds \ D
  PROVE  UnderWay(ds, D \cup {i}) = UnderWay(ds, D) - ds[i].amount
<1> DEFINE S == DOMAIN ds \ (D \cup {i})
           g == Amount(ds)
<1>1. IsFiniteSet(S) /\ i \notin S /\ DOMAIN ds \ D = S \cup {i}
  BY LaneShape, FS_Subset
<1>2. \A j \in S \cup {i} : g[j] \in Int
  BY LaneShape DEF Amount
<1>3. g[i] = ds[i].amount /\ g[i] \in Int
  BY LaneShape DEF Amount
<1>4. UnderWay(ds, D \cup {i}) = SumFunctionOnSet(g, S)
  BY UnderWayIs
<1>5. UnderWay(ds, D) = SumFunctionOnSet(g, S \cup {i})
  BY <1>1, UnderWayIs
<1>6. UnderWay(ds, D \cup {i}) \in Int
  BY UnderWayIs
<1> HIDE DEF S, g
<1>7. SumFunctionOnSet(g, S \cup {i}) = g[i] + SumFunctionOnSet(g, S)
  BY <1>1, <1>2, SumInsert
<1> QED
  BY <1>3, <1>4, <1>5, <1>6, <1>7

--------------------------------------------------------------------------------
(***************************************************************************)
(* The invariant.                                                          *)
(***************************************************************************)

NothingAcross ==
  /\ bridge = NoAddress
  /\ bridgeDeposits = <<>>
  /\ evmDeposits = <<>>
  /\ evmBalance = [x \in EvmAddress |-> 0]

\* What was delivered was sent, and nothing is sent before the token has its bridge.
AcrossTypes ==
  /\ totalSupply \in Int
  /\ bridgedToEvm \in Int
  /\ evmBalance \in [EvmAddress -> Nat]
  /\ Lane(bridgeDeposits)
  /\ \A i \in DOMAIN bridgeDeposits : bridgeDeposits[i].recipient \in EvmAddress
  /\ Lane(evmDeposits)
  /\ evmProcessed \subseteq Outbound
  /\ processed \subseteq Inbound
  /\ relayers \in RelayerLists \cup {FirstRelayers}
  /\ ValidRelayers(relayers)
  /\ bridge = BridgeAddress \/ NothingAcross

AcrossIInv == AcrossTypes /\ BridgedCreditsAreSomewhere

Moves == Bridged!Trade \/ Bridged!Leave \/ Bridged!Arrive \/ Bridged!LeaveForHome \/ Bridged!Return

Crossing == AcrossIInv' /\ Moves

LEMMA EvmTotal ==
  ASSUME NEW f \in [EvmAddress -> Int]
  PROVE  Total(f) = SumFunctionOnSet(f, EvmAddress) /\ Total(f) \in Int
<1>1. \A x \in EvmAddress : f[x] \in Int
  OBVIOUS
<1>2. SumFunctionOnSet(f, EvmAddress) \in Int
  BY <1>1, EvmAssumption, SumProperties
<1>3. Total(f) = SumFunctionOnSet(f, EvmAddress)
  BY DEF Total, SumFunction
<1> QED
  BY <1>2, <1>3

LEMMA EvmTotalUpdate ==
  ASSUME NEW f \in [EvmAddress -> Int], NEW a \in EvmAddress, NEW n \in Int
  PROVE  Total([f EXCEPT ![a] = f[a] + n]) = Total(f) + n
<1> DEFINE v == f[a] + n
<1>1. v \in Int /\ f[a] \in Int
  OBVIOUS
<1>2. Total(f) \in Int
  BY EvmTotal
<1> HIDE DEF v
<1>3. SumFunction([f EXCEPT ![a] = v]) = SumFunction(f) + v - f[a]
  BY <1>1, EvmAssumption, SumUpdate
<1>4. Total([f EXCEPT ![a] = v]) = Total(f) + v - f[a]
  BY <1>3 DEF Total
<1> QED
  BY <1>1, <1>2, <1>4 DEF v

--------------------------------------------------------------------------------
(***************************************************************************)
(* Steps that send and deliver nothing.                                    *)
(***************************************************************************)

LEMMA QuietCrossing ==
  ASSUME AcrossIInv, totalSupply' \in Int, bridgedToEvm' = bridgedToEvm,
         bridge' = bridge \/ bridge' = BridgeAddress,
         relayers' \in RelayerLists \cup {FirstRelayers}, ValidRelayers(relayers'),
         UNCHANGED <<processed, bridgeDeposits, evmSupply, evmProcessed, evmDeposits>>,
         evmBalance' \in [EvmAddress -> Nat], Total(evmBalance') = Total(evmBalance),
         NothingAcross => evmBalance' = evmBalance
  PROVE  Crossing
<1>1. Arrived' = Arrived /\ Returned' = Returned /\ Outbound' = Outbound /\ Inbound' = Inbound
  BY DEF Arrived, Returned, Outbound, Inbound
<1>2. AcrossTypes'
  <2>1. bridge' = BridgeAddress \/ NothingAcross'
    BY DEF AcrossIInv, AcrossTypes, NothingAcross
  <2> QED
    BY <1>1, <2>1 DEF AcrossIInv, AcrossTypes
<1>3. BridgedCreditsAreSomewhere'
  BY <1>1 DEF AcrossIInv, BridgedCreditsAreSomewhere
<1>4. Bridged!Trade
  BY <1>1 DEF Bridged!Trade
<1> QED
  BY <1>2, <1>3, <1>4 DEF Crossing, AcrossIInv, Moves

\* Calls of the token by others than the bridge.
LEMMA TokenCallsAreQuiet ==
  ASSUME AcrossTypes, TokenCalls
  PROVE  /\ totalSupply' \in Int
         /\ bridgedToEvm' = bridgedToEvm
         /\ bridge' = bridge \/ bridge' = BridgeAddress
<1>1. totalSupply \in Int /\ bridge \in {NoAddress, BridgeAddress}
  BY DEF AcrossTypes, NothingAcross
<1>2. CASE CloseLedger
  BY <1>1, <1>2 DEF CloseLedger, totals, roles
<1>3. ASSUME NEW caller \in Address \ {BridgeAddress}, Administer(caller)
      PROVE  /\ totalSupply' = totalSupply /\ bridgedToEvm' = bridgedToEvm
             /\ bridge' = bridge \/ bridge' = BridgeAddress
  <2>1. Bridges \subseteq {BridgeAddress}
    BY ChainsAssumption
  <2> QED
    BY <1>3, <2>1 DEF Administer, ProposeAdmin, SetAdmin, SetMinter, SetPauseGuardian, SetBridge,
              AcceptAdmin, CancelAdminProposal, SetRetirementRegistry, SetRequireRegistry,
              SetMaxSupply, Pause, Unpause, SetPaused, roles, totals
<1>4. ASSUME NEW caller \in Address \ {BridgeAddress}, Issue(caller)
      PROVE  totalSupply' \in Int /\ bridgedToEvm' = bridgedToEvm /\ bridge' = bridge
  <2>1. caller # bridge
    BY <1>1, AddressAssumption
  <2>2. ASSUME NEW to \in Address, NEW n \in Amounts, MintTo(caller, to, n)
        PROVE  totalSupply' \in Int /\ bridgedToEvm' = bridgedToEvm /\ bridge' = bridge
    <3>1. n \in Int
      BY NumberAssumption
    <3> QED
      BY <1>1, <2>1, <2>2, <3>1 DEF MintTo, roles
  <2>3. ASSUME NEW batch \in Batches, BatchMintTo(caller, batch)
        PROVE  totalSupply' \in Int /\ bridgedToEvm' = bridgedToEvm /\ bridge' = bridge
    <3>1. \A i \in DOMAIN batch : batch[i].amount > 0
      BY <2>3 DEF BatchMintTo
    <3>2. BatchTotal(batch) \in Nat \ {0}
      BY <3>1, BatchPays
    <3>3. totalSupply' = totalSupply + BatchTotal(batch) /\ bridgedToEvm' = bridgedToEvm /\ bridge' = bridge
      BY <2>3 DEF BatchMintTo, roles
    <3> QED
      BY <1>1, <3>2, <3>3
  <2> QED
    BY <1>4, <2>2, <2>3 DEF Issue
<1>5. ASSUME NEW caller \in Address \ {BridgeAddress}, Destroy(caller)
      PROVE  totalSupply' \in Int /\ bridgedToEvm' = bridgedToEvm /\ bridge' = bridge
  <2>1. caller # bridge
    BY <1>1, AddressAssumption
  <2>2. PICK n \in Amounts : totalSupply' = totalSupply - n /\ bridgedToEvm' = bridgedToEvm /\ bridge' = bridge
    BY <1>5, <2>1 DEF Destroy, Burn, BurnWithReason, BurnByBridge, BurnByAdmin, DestroyBurned,
              Retire, roles
  <2>3. n \in Int
    BY NumberAssumption
  <2> QED
    BY <1>1, <2>2, <2>3
<1>6. ASSUME NEW caller \in Address \ {BridgeAddress}, Move(caller)
      PROVE  totalSupply' = totalSupply /\ bridgedToEvm' = bridgedToEvm /\ bridge' = bridge
  BY <1>6 DEF Move, Transfer, BatchTransfer, TransferFrom, Approve, roles, totals
<1> QED
  BY <1>1, <1>2, <1>3, <1>4, <1>5, <1>6 DEF TokenCalls

LEMMA TokenCrossing ==
  ASSUME AcrossIInv, TokenCalls, UNCHANGED <<bridgeVars, evmVars>>
  PROVE  Crossing
<1>1. AcrossTypes
  BY DEF AcrossIInv
<1>2. /\ totalSupply' \in Int /\ bridgedToEvm' = bridgedToEvm
      /\ bridge' = bridge \/ bridge' = BridgeAddress
  BY <1>1, TokenCallsAreQuiet
<1>3. /\ relayers' = relayers
      /\ UNCHANGED <<processed, bridgeDeposits, evmSupply, evmProcessed, evmDeposits, evmBalance>>
  BY DEF bridgeVars, evmVars
<1>4. /\ relayers \in RelayerLists \cup {FirstRelayers} /\ ValidRelayers(relayers)
      /\ evmBalance \in [EvmAddress -> Nat]
  BY <1>1 DEF AcrossTypes
<1> QED
  BY <1>2, <1>3, <1>4, QuietCrossing

LEMMA AdministrationCrossing ==
  ASSUME AcrossIInv, NEW caller, BridgeAdministration(caller) \/ UNCHANGED <<vars, bridgeVars>>,
         UNCHANGED evmVars
  PROVE  Crossing
<1>1. /\ relayers \in RelayerLists \cup {FirstRelayers} /\ ValidRelayers(relayers)
      /\ evmBalance \in [EvmAddress -> Nat] /\ totalSupply \in Int
  BY DEF AcrossIInv, AcrossTypes
<1>2. UNCHANGED <<evmSupply, evmProcessed, evmDeposits, evmBalance>>
  BY DEF evmVars
<1>3. UNCHANGED vars /\ UNCHANGED <<processed, bridgeDeposits>>
  BY DEF BridgeAdministration, UpdateRelayers, SetToken, SetBridgePaused, bridgeVars
<1>4. relayers' \in RelayerLists \cup {FirstRelayers} /\ ValidRelayers(relayers')
  BY <1>1 DEF BridgeAdministration, UpdateRelayers, SetToken, SetBridgePaused, bridgeVars
<1>5. totalSupply' = totalSupply /\ bridgedToEvm' = bridgedToEvm /\ bridge' = bridge
  BY <1>3 DEF vars, totals, roles
<1> QED
  BY <1>1, <1>2, <1>3, <1>4, <1>5, QuietCrossing

\* Moving a balance of the EVM token.
LEMMA EvmMoveKeepsTotal ==
  ASSUME evmBalance \in [EvmAddress -> Nat], NEW from \in EvmAddress, NEW to \in EvmAddress,
         NEW n \in Nat, evmBalance[from] >= n
  PROVE  /\ EvmMoved(from, to, n) \in [EvmAddress -> Nat]
         /\ Total(EvmMoved(from, to, n)) = Total(evmBalance)
         /\ evmBalance = [x \in EvmAddress |-> 0] => EvmMoved(from, to, n) = evmBalance
<1> DEFINE b == evmBalance
           c == [b EXCEPT ![from] = b[from] + (-n)]
           d == [c EXCEPT ![to] = c[to] + n]
<1>1. b \in [EvmAddress -> Int] /\ -n \in Int /\ b[from] \in Nat
  OBVIOUS
<1>2. c \in [EvmAddress -> Nat] /\ c \in [EvmAddress -> Int]
  <2>1. b[from] + (-n) \in Nat
    BY <1>1
  <2> QED
    BY <2>1
<1>3. EvmMoved(from, to, n) = d
  <2>1. b[from] - n = b[from] + (-n)
    BY <1>1
  <2> QED
    BY <2>1, Zenon DEF EvmMoved
<1>4. Total(c) = Total(b) + (-n)
  BY <1>1, EvmTotalUpdate
<1>5. b = [x \in EvmAddress |-> 0] => d = b
  <2> SUFFICES ASSUME b = [x \in EvmAddress |-> 0] PROVE d = b
    OBVIOUS
  <2>1. n = 0 /\ b[from] = 0
    OBVIOUS
  <2>2. c = b
    BY <2>1
  <2> HIDE DEF c
  <2> QED
    BY <2>1, <2>2
<1> HIDE DEF c
<1>6. d \in [EvmAddress -> Nat]
  BY <1>2
<1>7. Total(d) = Total(c) + n
  <2>1. n \in Int /\ c \in [EvmAddress -> Int]
    BY <1>2
  <2> QED
    BY <2>1, EvmTotalUpdate
<1>8. Total(b) \in Int
  BY <1>1, EvmTotal
<1> HIDE DEF d, b
<1>9. Total(d) = Total(b)
  BY <1>4, <1>7, <1>8
<1> QED
  BY <1>3, <1>5, <1>6, <1>9 DEF b

LEMMA EvmQuietCrossing ==
  ASSUME AcrossIInv, NEW sender \in EvmAddress, UNCHANGED <<vars, bridgeVars>>,
         \/ \E to \in EvmAddress, n \in EvmAmounts : EvmTransfer(sender, to, n)
         \/ \E y \in EvmAddress, n \in EvmAmounts : EvmApprove(sender, y, n)
         \/ \E from, to \in EvmAddress, n \in EvmAmounts : EvmTransferFrom(sender, from, to, n)
         \/ \E value \in BOOLEAN : SetEvmPaused(sender, value)
  PROVE  Crossing
<1>1. /\ relayers \in RelayerLists \cup {FirstRelayers} /\ ValidRelayers(relayers)
      /\ evmBalance \in [EvmAddress -> Nat] /\ totalSupply \in Int
  BY DEF AcrossIInv, AcrossTypes
<1>2. /\ totalSupply' = totalSupply /\ bridgedToEvm' = bridgedToEvm /\ bridge' = bridge
      /\ relayers' = relayers /\ UNCHANGED <<processed, bridgeDeposits>>
  BY DEF vars, totals, roles, bridgeVars
<1>3. UNCHANGED <<evmSupply, evmProcessed, evmDeposits>>
  BY DEF EvmTransfer, EvmApprove, EvmTransferFrom, SetEvmPaused
<1>4. \/ evmBalance' = evmBalance
      \/ \E from, to \in EvmAddress, n \in EvmAmounts :
           evmBalance[from] >= n /\ evmBalance' = EvmMoved(from, to, n)
  BY DEF EvmTransfer, EvmApprove, EvmTransferFrom, SetEvmPaused
<1>5. /\ evmBalance' \in [EvmAddress -> Nat] /\ Total(evmBalance') = Total(evmBalance)
      /\ NothingAcross => evmBalance' = evmBalance
  <2>1. CASE evmBalance' = evmBalance
    BY <1>1, <2>1
  <2>2. CASE evmBalance' # evmBalance
    <3>1. PICK from \in EvmAddress, to \in EvmAddress, n \in EvmAmounts :
             evmBalance[from] >= n /\ evmBalance' = EvmMoved(from, to, n)
      BY <1>4, <2>2
    <3>2. n \in Nat
      BY EvmAssumption
    <3> QED
      BY <1>1, <3>1, <3>2, EvmMoveKeepsTotal DEF NothingAcross
  <2> QED
    BY <2>1, <2>2
<1> QED
  BY <1>1, <1>2, <1>3, <1>5, QuietCrossing

--------------------------------------------------------------------------------
(***************************************************************************)
(* Sending.                                                                *)
(***************************************************************************)

LEMMA TransferFields ==
  ASSUME NEW d
  PROVE  /\ ToEvm(d).destination = 2 /\ ToEvm(d).token = EvmContract
         /\ ToEvm(d).recipient = d.recipient /\ ToEvm(d).amount = d.amount
         /\ ToEvm(d).nonce = d.nonce
         /\ ToStellar(d).destination = 1 /\ ToStellar(d).token = EvmToken
         /\ ToStellar(d).recipient = d.recipient /\ ToStellar(d).amount = d.amount
         /\ ToStellar(d).nonce = d.nonce
BY DEF ToEvm, ToStellar, Evm, Stellar

\* One deposit more on a lane.
LEMMA LaneExtends ==
  ASSUME NEW ds, Lane(ds), NEW d
  PROVE  /\ DOMAIN Append(ds, d) = DOMAIN ds \cup {Len(ds) + 1}
         /\ Append(ds, d)[Len(ds) + 1] = d
         /\ \A i \in DOMAIN ds : Append(ds, d)[i] = ds[i]
<1> DEFINE n == Len(ds) + 1
           es == Append(ds, d)
<1>1. Len(ds) \in Nat /\ DOMAIN ds = 1 .. Len(ds)
  BY LaneShape
<1>2. ds \in Seq(Range(ds) \cup {d})
  BY DEF Lane
<1>3. DOMAIN es = 1 .. n /\ es[n] = d
  BY <1>1, <1>2
<1>4. \A i \in DOMAIN ds : es[i] = ds[i]
  BY <1>1, <1>2
<1>5. 1 .. n = (1 .. Len(ds)) \cup {n}
  BY <1>1
<1> HIDE DEF es, n
<1>6. DOMAIN es = DOMAIN ds \cup {n}
  BY <1>1, <1>3, <1>5
<1> QED
  BY <1>3, <1>4, <1>6 DEF es, n

LEMMA DepositCrossing ==
  ASSUME AcrossIInv, NEW from, NEW n \in Amounts, NEW to \in EvmRecipients,
         Deposit(from, n, to), UNCHANGED evmVars
  PROVE  Crossing
<1> DEFINE ds == bridgeDeposits
           d == [from |-> from, recipient |-> to, amount |-> n, nonce |-> Len(ds)]
           es == Append(ds, d)
           m == Len(ds) + 1
<1>1. /\ totalSupply \in Int /\ bridgedToEvm \in Int /\ evmBalance \in [EvmAddress -> Nat]
      /\ Lane(ds) /\ \A i \in DOMAIN ds : ds[i].recipient \in EvmAddress
      /\ Lane(evmDeposits) /\ evmProcessed \subseteq Outbound /\ processed \subseteq Inbound
      /\ relayers \in RelayerLists \cup {FirstRelayers} /\ ValidRelayers(relayers)
  BY DEF AcrossIInv, AcrossTypes
<1>2. n \in Nat \ {0} /\ n \in Int /\ to \in EvmAddress
  BY NumberAssumption, ChainsAssumption DEF Deposit, TransferAndBurn
<1>3. /\ totalSupply' = totalSupply - n /\ bridgedToEvm' = bridgedToEvm + n
      /\ bridge = BridgeAddress /\ bridge' = bridge
  BY DEF Deposit, TransferAndBurn, roles
<1>4. bridgeDeposits' = es /\ UNCHANGED <<relayers, processed>>
  BY DEF Deposit
<1>5. UNCHANGED <<evmBalance, evmSupply, evmProcessed, evmDeposits>>
  BY DEF evmVars
<1>6. d.amount = n /\ d.recipient = to /\ d.nonce = Len(ds)
  OBVIOUS
<1> HIDE DEF d
<1>7. Arrived \in SUBSET DOMAIN ds
  BY DEF Arrived
<1>8. /\ Lane(es) /\ Amount(es) = Append(Amount(ds), n) /\ Len(Amount(ds)) = Len(ds)
      /\ UnderWay(es, Arrived) = UnderWay(ds, Arrived) + n
  BY <1>1, <1>2, <1>6, <1>7, LaneSends
<1>9. DOMAIN es = DOMAIN ds \cup {m} /\ es[m] = d /\ \A i \in DOMAIN ds : es[i] = ds[i]
  BY <1>1, LaneExtends
<1>10. ToEvm(d) \notin evmProcessed
  <2> SUFFICES ASSUME ToEvm(d) \in evmProcessed PROVE FALSE
    OBVIOUS
  <2>1. PICK j \in DOMAIN ds : ToEvm(d) = ToEvm(ds[j])
    BY <1>1 DEF Outbound, Range
  <2>2. d.nonce = ds[j].nonce
    BY <2>1, TransferFields
  <2>3. ds[j].nonce = j - 1 /\ j \in 1 .. Len(ds) /\ Len(ds) \in Nat
    BY <1>1, LaneShape DEF Lane
  <2> HIDE DEF ds
  <2> QED
    BY <1>6, <2>2, <2>3
<1>11. Arrived' = Arrived
  <2>1. Arrived' = {i \in DOMAIN es : ToEvm(es[i]) \in evmProcessed}
    BY <1>4, <1>5 DEF Arrived
  <2> HIDE DEF es, m
  <2>2. {i \in DOMAIN es : ToEvm(es[i]) \in evmProcessed}
          = {i \in DOMAIN ds : ToEvm(ds[i]) \in evmProcessed}
    BY <1>9, <1>10
  <2> QED
    BY <2>1, <2>2 DEF Arrived
<1>12. Outbound \subseteq Outbound' /\ Inbound' = Inbound /\ Returned' = Returned
  <2>1. Range(ds) \subseteq Range(es)
    BY <1>9 DEF Range
  <2> HIDE DEF es
  <2> QED
    BY <1>4, <1>5, <2>1 DEF Outbound, Inbound, Returned
<1> HIDE DEF es, m
<1>13. AcrossTypes'
  <2>1. totalSupply' \in Int /\ bridgedToEvm' \in Int
    BY <1>1, <1>2, <1>3
  <2>2. \A i \in DOMAIN es : es[i].recipient \in EvmAddress
    BY <1>1, <1>2, <1>6, <1>9
  <2> QED
    BY <1>1, <1>3, <1>4, <1>5, <1>8, <1>12, <2>1, <2>2 DEF AcrossTypes
<1>14. BridgedCreditsAreSomewhere'
  <2>1. /\ bridgedToEvm = Total(evmBalance) + UnderWay(ds, Arrived) + UnderWay(evmDeposits, Returned)
        /\ evmSupply = Total(evmBalance)
    BY DEF AcrossIInv, BridgedCreditsAreSomewhere
  <2>2. UnderWay(ds, Arrived) \in Int /\ UnderWay(evmDeposits, Returned) \in Int
    BY <1>1, UnderWayIs
  <2>3. evmBalance \in [EvmAddress -> Int]
    BY <1>1
  <2>4. Total(evmBalance) \in Int
    BY <2>3, EvmTotal
  <2> DEFINE a == Total(evmBalance)
             b == UnderWay(ds, Arrived)
             c == UnderWay(evmDeposits, Returned)
  <2>5. bridgedToEvm' = a + UnderWay(es, Arrived) + c
    <3> HIDE DEF a, b, c
    <3>1. bridgedToEvm = a + b + c /\ a \in Int /\ b \in Int /\ c \in Int /\ UnderWay(es, Arrived) = b + n
      BY <1>8, <2>1, <2>2, <2>4 DEF a, b, c
    <3> QED
      BY <1>2, <1>3, <3>1
  <2> QED
    BY <1>4, <1>5, <1>11, <1>12, <2>1, <2>5 DEF BridgedCreditsAreSomewhere
<1>15. Bridged!Leave
  <2>1. totalSupply - totalSupply' = n /\ totalSupply' < totalSupply
    BY <1>1, <1>2, <1>3
  <2>2. Amount(bridgeDeposits') = Append(Amount(bridgeDeposits), totalSupply - totalSupply')
    BY <1>4, <1>8, <2>1
  <2>3. Len(Amount(bridgeDeposits')) = Len(Amount(bridgeDeposits)) + 1
    <3>1. Amount(ds) \in Seq(Nat)
      <4>1. Len(ds) \in Nat /\ DOMAIN ds = 1 .. Len(ds) /\ \A i \in DOMAIN ds : ds[i].amount \in Nat
        BY <1>1, LaneShape DEF Lane
      <4> HIDE DEF ds
      <4> QED
        BY <4>1 DEF Amount
    <3> QED
      BY <1>2, <2>1, <2>2, <3>1
  <2> QED
    BY <1>5, <1>11, <1>12, <2>1, <2>2, <2>3 DEF Bridged!Leave, Amount
<1> QED
  BY <1>13, <1>14, <1>15 DEF Crossing, AcrossIInv, Moves

LEMMA EvmDepositCrossing ==
  ASSUME AcrossIInv, NEW sender \in EvmAddress, NEW n \in EvmAmounts, NEW target,
         EvmDeposit(sender, n, target), UNCHANGED <<vars, bridgeVars>>
  PROVE  Crossing
<1> DEFINE ds == evmDeposits
           d == [sender |-> sender, type |-> target.type, recipient |-> target.recipient,
                 amount |-> n, nonce |-> Len(ds)]
           es == Append(ds, d)
           m == Len(ds) + 1
<1>1. /\ totalSupply \in Int /\ bridgedToEvm \in Int /\ evmBalance \in [EvmAddress -> Nat]
      /\ Lane(ds) /\ \A i \in DOMAIN bridgeDeposits : bridgeDeposits[i].recipient \in EvmAddress
      /\ Lane(bridgeDeposits) /\ evmProcessed \subseteq Outbound /\ processed \subseteq Inbound
      /\ relayers \in RelayerLists \cup {FirstRelayers} /\ ValidRelayers(relayers)
  BY DEF AcrossIInv, AcrossTypes
<1>2. n \in Nat \ {0} /\ n \in Int /\ evmBalance[sender] >= n
  BY EvmAssumption DEF EvmDeposit
<1>3. /\ totalSupply' = totalSupply /\ bridgedToEvm' = bridgedToEvm /\ bridge' = bridge
      /\ UNCHANGED <<relayers, processed, bridgeDeposits>>
  BY DEF vars, totals, roles, bridgeVars
<1>4. /\ evmDeposits' = es /\ evmProcessed' = evmProcessed
      /\ evmSupply' = evmSupply - n /\ evmBalance' = [evmBalance EXCEPT ![sender] = @ - n]
  BY DEF EvmDeposit
<1>5. bridge = BridgeAddress
  <2>1. evmBalance # [x \in EvmAddress |-> 0]
    BY <1>2
  <2> QED
    BY <2>1 DEF AcrossIInv, AcrossTypes, NothingAcross
<1>6. d.amount = n /\ d.nonce = Len(ds)
  OBVIOUS
<1> HIDE DEF d
<1>7. Returned \in SUBSET DOMAIN ds
  BY DEF Returned
<1>8. /\ Lane(es) /\ Amount(es) = Append(Amount(ds), n) /\ Len(Amount(ds)) = Len(ds)
      /\ UnderWay(es, Returned) = UnderWay(ds, Returned) + n
  BY <1>1, <1>2, <1>6, <1>7, LaneSends
<1>9. DOMAIN es = DOMAIN ds \cup {m} /\ es[m] = d /\ \A i \in DOMAIN ds : es[i] = ds[i]
  BY <1>1, LaneExtends
<1>10. ToStellar(d) \notin processed
  <2> SUFFICES ASSUME ToStellar(d) \in processed PROVE FALSE
    OBVIOUS
  <2>1. PICK j \in DOMAIN ds : ToStellar(d) = ToStellar(ds[j])
    BY <1>1 DEF Inbound, Range
  <2>2. d.nonce = ds[j].nonce
    BY <2>1, TransferFields
  <2>3. ds[j].nonce = j - 1 /\ j \in 1 .. Len(ds) /\ Len(ds) \in Nat
    BY <1>1, LaneShape DEF Lane
  <2> HIDE DEF ds
  <2> QED
    BY <1>6, <2>2, <2>3
<1>11. Returned' = Returned
  <2>1. Returned' = {i \in DOMAIN es : ToStellar(es[i]) \in processed}
    BY <1>3, <1>4 DEF Returned
  <2> HIDE DEF es, m
  <2>2. {i \in DOMAIN es : ToStellar(es[i]) \in processed}
          = {i \in DOMAIN ds : ToStellar(ds[i]) \in processed}
    BY <1>9, <1>10
  <2> QED
    BY <2>1, <2>2 DEF Returned
<1>12. Inbound \subseteq Inbound' /\ Outbound' = Outbound /\ Arrived' = Arrived
  <2>1. Range(ds) \subseteq Range(es)
    BY <1>9 DEF Range
  <2> HIDE DEF es
  <2> QED
    BY <1>3, <1>4, <2>1 DEF Outbound, Inbound, Arrived
<1> HIDE DEF es, m
<1>13. evmBalance' \in [EvmAddress -> Nat] /\ Total(evmBalance') = Total(evmBalance) - n
       /\ Total(evmBalance) \in Int
  <2> DEFINE k == -n
  <2>1. /\ evmBalance \in [EvmAddress -> Int] /\ k \in Int
        /\ evmBalance[sender] - n = evmBalance[sender] + k /\ evmBalance[sender] - n \in Nat
    BY <1>1, <1>2
  <2>2. Total(evmBalance) \in Int
    BY <2>1, EvmTotal
  <2> HIDE DEF k
  <2>3. Total([evmBalance EXCEPT ![sender] = evmBalance[sender] + k]) = Total(evmBalance) + k
    BY <2>1, EvmTotalUpdate
  <2>4. evmBalance' = [evmBalance EXCEPT ![sender] = evmBalance[sender] + k]
    BY <1>4, <2>1
  <2>5. Total(evmBalance') = Total(evmBalance) + k
    BY <2>3, <2>4
  <2>6. Total(evmBalance) + k = Total(evmBalance) - n
    BY <1>2, <2>2 DEF k
  <2>7. evmBalance' \in [EvmAddress -> Nat]
    BY <1>1, <1>4, <2>1
  <2> QED
    BY <2>2, <2>5, <2>6, <2>7
<1>14. AcrossTypes'
  BY <1>1, <1>3, <1>4, <1>5, <1>8, <1>12, <1>13 DEF AcrossTypes
<1>15. /\ bridgedToEvm = Total(evmBalance) + UnderWay(bridgeDeposits, Arrived) + UnderWay(ds, Returned)
       /\ evmSupply = Total(evmBalance)
  BY DEF AcrossIInv, BridgedCreditsAreSomewhere
<1>16. BridgedCreditsAreSomewhere'
  <2>1. UnderWay(bridgeDeposits, Arrived) \in Int /\ UnderWay(ds, Returned) \in Int
    BY <1>1, UnderWayIs
  <2> DEFINE a == Total(evmBalance)
             b == UnderWay(bridgeDeposits, Arrived)
             c == UnderWay(ds, Returned)
  <2>2. bridgedToEvm = (a - n) + b + UnderWay(es, Returned)
    <3> HIDE DEF a, b, c
    <3>1. bridgedToEvm = a + b + c /\ a \in Int /\ b \in Int /\ c \in Int /\ UnderWay(es, Returned) = c + n
      BY <1>8, <1>13, <1>15, <2>1 DEF a, b, c
    <3> QED
      BY <1>2, <3>1
  <2> QED
    BY <1>3, <1>4, <1>11, <1>12, <1>13, <1>15, <2>2 DEF BridgedCreditsAreSomewhere
<1>17. Bridged!LeaveForHome
  <2>1. evmSupply - evmSupply' = n /\ evmSupply' < evmSupply
    BY <1>2, <1>4, <1>13, <1>15
  <2>2. Amount(evmDeposits') = Append(Amount(evmDeposits), evmSupply - evmSupply')
    BY <1>4, <1>8, <2>1
  <2>3. Len(Amount(evmDeposits')) = Len(Amount(evmDeposits)) + 1
    <3>1. Amount(ds) \in Seq(Nat)
      <4>1. Len(ds) \in Nat /\ DOMAIN ds = 1 .. Len(ds) /\ \A i \in DOMAIN ds : ds[i].amount \in Nat
        BY <1>1, LaneShape DEF Lane
      <4> HIDE DEF ds
      <4> QED
        BY <4>1 DEF Amount
    <3> QED
      BY <1>2, <2>1, <2>2, <3>1
  <2> QED
    BY <1>3, <1>11, <1>12, <2>1, <2>2, <2>3 DEF Bridged!LeaveForHome, Amount
<1> QED
  BY <1>14, <1>16, <1>17 DEF Crossing, AcrossIInv, Moves

--------------------------------------------------------------------------------
(***************************************************************************)
(* Delivering.  As many signers as the threshold are not all faulty, and   *)
(* an honest one signs for a chain only what was sent there.               *)
(***************************************************************************)

LEMMA NotAllFaulty ==
  ASSUME NEW R, IsFiniteSet(R), NEW k \in Nat, Cardinality(R \cap Faulty) < k,
         NEW signers \in SUBSET R, Cardinality(signers) >= k
  PROVE  ~(signers \subseteq Faulty)
<1> SUFFICES ASSUME signers \subseteq Faulty PROVE FALSE
  OBVIOUS
<1>1. signers \subseteq R \cap Faulty /\ IsFiniteSet(R \cap Faulty)
  BY FS_Subset
<1>2. Cardinality(signers) <= Cardinality(R \cap Faulty)
  BY <1>1, FS_Subset
<1>3. Cardinality(signers) \in Nat /\ Cardinality(R \cap Faulty) \in Nat
  BY <1>1, FS_Subset, FS_CardinalityType
<1> QED
  BY <1>2, <1>3

LEMMA HomeSignersAreHonest ==
  ASSUME AcrossTypes, NEW t, NEW signers \in SUBSET Range(relayers.list),
         Withdraw(t, signers, Attested(signers))
  PROVE  t \in Inbound
<1>1. /\ relayers \in RelayerLists \cup {FirstRelayers} /\ ValidRelayers(relayers)
  BY DEF AcrossTypes
<1>2. relayers.threshold \in Nat /\ IsFiniteSet(Range(relayers.list))
  BY <1>1, BridgeAssumption
<1>3. Cardinality(Range(relayers.list) \cap Faulty) < relayers.threshold
  BY <1>1, ChainsAssumption
<1>4. /\ Cardinality(signers) >= relayers.threshold /\ t \in Attested(signers)
      /\ t.destination = 1 /\ t.token = EvmToken
  BY DEF Withdraw, Authorized, Stellar
<1>5. ~(signers \subseteq Faulty)
  BY <1>2, <1>3, <1>4, NotAllFaulty
<1>6. t \in Outbound \cup Inbound \cup Foreign
  BY <1>4, <1>5 DEF Attested
<1>7. t \notin Outbound
  BY <1>4, TransferFields DEF Outbound
<1>8. t \notin Foreign
  BY <1>4, ChainsAssumption
<1> QED
  BY <1>6, <1>7, <1>8

LEMMA AwaySignersAreHonest ==
  ASSUME NEW t, NEW signers \in SUBSET EvmRelayers,
         EvmWithdraw(t, signers, Attested(signers))
  PROVE  t \in Outbound
<1>1. EvmThreshold \in Nat /\ IsFiniteSet(EvmRelayers)
  BY EvmAssumption
<1>2. Cardinality(EvmRelayers \cap Faulty) < EvmThreshold
  BY ChainsAssumption
<1>3. /\ Cardinality(signers) >= EvmThreshold /\ t \in Attested(signers)
      /\ t.destination = 2 /\ t.token = EvmToken
  BY ChainsAssumption DEF EvmWithdraw, EvmAuthorized, Evm
<1>4. ~(signers \subseteq Faulty)
  BY <1>1, <1>2, <1>3, NotAllFaulty
<1>5. t \in Outbound \cup Inbound \cup Foreign
  BY <1>3, <1>4 DEF Attested
<1>6. t \notin Inbound
  BY <1>3, TransferFields DEF Inbound
<1>7. t \notin Foreign
  BY <1>3, ChainsAssumption
<1> QED
  BY <1>5, <1>6, <1>7

\* The nonces tell the transfers of a lane apart.
LEMMA LaneDistinct ==
  ASSUME NEW ds, Lane(ds), NEW i \in DOMAIN ds, NEW j \in DOMAIN ds, ds[i].nonce = ds[j].nonce
  PROVE  i = j
<1>1. ds[i].nonce = i - 1 /\ ds[j].nonce = j - 1
  BY DEF Lane
<1>2. DOMAIN ds = 1 .. Len(ds) /\ Len(ds) \in Nat
  BY LaneShape
<1>3. i \in Int /\ j \in Int
  BY <1>2
<1>4. i - 1 = j - 1
  BY <1>1
<1> QED
  BY <1>3, <1>4

LEMMA WithdrawCrossing ==
  ASSUME AcrossIInv, NEW t, NEW signers \in SUBSET Range(relayers.list),
         Withdraw(t, signers, Attested(signers)), UNCHANGED evmVars
  PROVE  Crossing
<1> DEFINE ds == evmDeposits
<1>1. /\ totalSupply \in Int /\ bridgedToEvm \in Int /\ evmBalance \in [EvmAddress -> Nat]
      /\ Lane(ds) /\ \A i \in DOMAIN bridgeDeposits : bridgeDeposits[i].recipient \in EvmAddress
      /\ Lane(bridgeDeposits) /\ evmProcessed \subseteq Outbound /\ processed \subseteq Inbound
      /\ relayers \in RelayerLists \cup {FirstRelayers} /\ ValidRelayers(relayers)
  BY DEF AcrossIInv, AcrossTypes
<1>2. t \in Inbound
  BY HomeSignersAreHonest DEF AcrossIInv
<1>3. PICK i \in DOMAIN ds : t = ToStellar(ds[i])
  BY <1>2 DEF Inbound, Range
<1>4. t \notin processed /\ processed' = processed \cup {t}
  BY DEF Withdraw
<1>5. i \in DOMAIN ds \ Returned
  BY <1>3, <1>4 DEF Returned
<1>6. bridge = BridgeAddress
  <2>1. ds # <<>>
    BY <1>3
  <2> QED
    BY <2>1 DEF AcrossIInv, AcrossTypes, NothingAcross
<1> DEFINE n == ds[i].amount
<1>7. n \in Int /\ t.amount = n
  BY <1>1, <1>3, LaneShape, TransferFields
<1>8. totalSupply' = totalSupply + n /\ bridgedToEvm' = bridgedToEvm - n /\ bridge' = bridge
  BY <1>6, <1>7 DEF Withdraw, MintTo, roles
<1>9. UNCHANGED <<relayers, bridgeDeposits>>
  BY DEF Withdraw
<1>10. UNCHANGED <<evmBalance, evmSupply, evmProcessed, evmDeposits>>
  BY DEF evmVars
<1>11. \A j \in DOMAIN ds : ToStellar(ds[j]) = t => j = i
  <2> SUFFICES ASSUME NEW j \in DOMAIN ds, ToStellar(ds[j]) = t PROVE j = i
    OBVIOUS
  <2>1. ds[j].nonce = ds[i].nonce
    BY <1>3, TransferFields
  <2> QED
    BY <1>1, <2>1, LaneDistinct
<1> HIDE DEF n
<1>12. Returned' = Returned \cup {i}
  <2>1. Returned' = {j \in DOMAIN ds : ToStellar(ds[j]) \in processed'}
    BY <1>10 DEF Returned
  <2>2. Returned = {j \in DOMAIN ds : ToStellar(ds[j]) \in processed}
    BY DEF Returned
  <2> HIDE DEF ds
  <2> QED
    BY <1>3, <1>4, <1>11, <2>1, <2>2
<1>13. Arrived' = Arrived /\ Outbound' = Outbound /\ Inbound' = Inbound
  BY <1>9, <1>10 DEF Arrived, Outbound, Inbound
<1>14. UnderWay(ds, Returned') = UnderWay(ds, Returned) - n
  BY <1>1, <1>5, <1>12, LaneDelivers DEF n
<1>15. AcrossTypes'
  <2>1. totalSupply' \in Int /\ bridgedToEvm' \in Int
    BY <1>1, <1>7, <1>8
  <2>2. processed' \subseteq Inbound'
    BY <1>1, <1>2, <1>4, <1>13
  <2> QED
    BY <1>1, <1>6, <1>8, <1>9, <1>10, <1>13, <2>1, <2>2 DEF AcrossTypes
<1>16. BridgedCreditsAreSomewhere'
  <2>1. /\ bridgedToEvm = Total(evmBalance) + UnderWay(bridgeDeposits, Arrived)
                                            + UnderWay(ds, Returned)
        /\ evmSupply = Total(evmBalance)
    BY DEF AcrossIInv, BridgedCreditsAreSomewhere
  <2>2. UnderWay(bridgeDeposits, Arrived) \in Int /\ UnderWay(ds, Returned) \in Int
    BY <1>1, UnderWayIs
  <2>3. evmBalance \in [EvmAddress -> Int]
    BY <1>1
  <2>4. Total(evmBalance) \in Int
    BY <2>3, EvmTotal
  <2> DEFINE a == Total(evmBalance)
             b == UnderWay(bridgeDeposits, Arrived)
             c == UnderWay(ds, Returned)
  <2>5. bridgedToEvm' = a + b + UnderWay(ds, Returned')
    <3> HIDE DEF a, b, c
    <3>1. bridgedToEvm = a + b + c /\ a \in Int /\ b \in Int /\ c \in Int
      BY <2>1, <2>2, <2>4 DEF a, b, c
    <3>2. UnderWay(ds, Returned') = c - n
      BY <1>14 DEF c
    <3> QED
      BY <1>7, <1>8, <3>1, <3>2
  <2> QED
    BY <1>9, <1>10, <1>13, <2>1, <2>5 DEF BridgedCreditsAreSomewhere
<1>17. Bridged!Return
  <2>1. DOMAIN Amount(ds) = DOMAIN ds /\ Amount(ds)[i] = n
    BY DEF Amount, n
  <2>2. i \in DOMAIN Amount(ds) \ Returned /\ totalSupply' = totalSupply + Amount(ds)[i]
    BY <1>5, <1>8, <2>1
  <2> QED
    BY <1>9, <1>10, <1>12, <1>13, <2>2 DEF Bridged!Return, Amount
<1> QED
  BY <1>15, <1>16, <1>17 DEF Crossing, AcrossIInv, Moves

LEMMA EvmWithdrawCrossing ==
  ASSUME AcrossIInv, NEW t, NEW signers \in SUBSET EvmRelayers,
         EvmWithdraw(t, signers, Attested(signers)), UNCHANGED <<vars, bridgeVars>>
  PROVE  Crossing
<1> DEFINE ds == bridgeDeposits
<1>1. /\ totalSupply \in Int /\ bridgedToEvm \in Int /\ evmBalance \in [EvmAddress -> Nat]
      /\ Lane(ds) /\ \A i \in DOMAIN ds : ds[i].recipient \in EvmAddress
      /\ Lane(evmDeposits) /\ evmProcessed \subseteq Outbound /\ processed \subseteq Inbound
      /\ relayers \in RelayerLists \cup {FirstRelayers} /\ ValidRelayers(relayers)
  BY DEF AcrossIInv, AcrossTypes
<1>2. t \in Outbound
  BY AwaySignersAreHonest
<1>3. PICK i \in DOMAIN ds : t = ToEvm(ds[i])
  BY <1>2 DEF Outbound, Range
<1>4. t \notin evmProcessed /\ evmProcessed' = evmProcessed \cup {t}
  BY DEF EvmWithdraw
<1>5. i \in DOMAIN ds \ Arrived
  BY <1>3, <1>4 DEF Arrived
<1>6. bridge = BridgeAddress
  <2>1. ds # <<>>
    BY <1>3
  <2> QED
    BY <2>1 DEF AcrossIInv, AcrossTypes, NothingAcross
<1> DEFINE n == ds[i].amount
           x == ds[i].recipient
<1>7. n \in Nat /\ n \in Int /\ t.amount = n /\ x \in EvmAddress /\ t.recipient = x
  BY <1>1, <1>3, TransferFields DEF Lane
<1>8. /\ totalSupply' = totalSupply /\ bridgedToEvm' = bridgedToEvm /\ bridge' = bridge
      /\ UNCHANGED <<relayers, processed, bridgeDeposits>>
  BY DEF vars, totals, roles, bridgeVars
<1>9. /\ evmDeposits' = evmDeposits /\ evmSupply' = evmSupply + n
      /\ evmBalance' = [evmBalance EXCEPT ![x] = @ + n]
  BY <1>7 DEF EvmWithdraw
<1>10. \A j \in DOMAIN ds : ToEvm(ds[j]) = t => j = i
  <2> SUFFICES ASSUME NEW j \in DOMAIN ds, ToEvm(ds[j]) = t PROVE j = i
    OBVIOUS
  <2>1. ds[j].nonce = ds[i].nonce
    BY <1>3, TransferFields
  <2> QED
    BY <1>1, <2>1, LaneDistinct
<1> HIDE DEF n, x
<1>11. Arrived' = Arrived \cup {i}
  <2>1. Arrived' = {j \in DOMAIN ds : ToEvm(ds[j]) \in evmProcessed'}
    BY <1>8 DEF Arrived
  <2>2. Arrived = {j \in DOMAIN ds : ToEvm(ds[j]) \in evmProcessed}
    BY DEF Arrived
  <2> HIDE DEF ds
  <2> QED
    BY <1>3, <1>4, <1>10, <2>1, <2>2
<1>12. Returned' = Returned /\ Outbound' = Outbound /\ Inbound' = Inbound
  BY <1>8, <1>9 DEF Returned, Outbound, Inbound
<1>13. UnderWay(ds, Arrived') = UnderWay(ds, Arrived) - n
  BY <1>1, <1>5, <1>11, LaneDelivers DEF n
<1>14. /\ evmBalance' \in [EvmAddress -> Nat] /\ Total(evmBalance') = Total(evmBalance) + n
       /\ Total(evmBalance) \in Int
  <2>1. evmBalance \in [EvmAddress -> Int] /\ evmBalance[x] \in Nat
    BY <1>1, <1>7
  <2>2. evmBalance' = [evmBalance EXCEPT ![x] = evmBalance[x] + n]
    BY <1>9
  <2>3. Total([evmBalance EXCEPT ![x] = evmBalance[x] + n]) = Total(evmBalance) + n
    BY <1>7, <2>1, EvmTotalUpdate
  <2>4. Total(evmBalance) \in Int
    BY <2>1, EvmTotal
  <2>5. evmBalance[x] + n \in Nat
    BY <1>7, <2>1
  <2>6. evmBalance' \in [EvmAddress -> Nat]
    BY <1>1, <2>2, <2>5
  <2> QED
    BY <2>2, <2>3, <2>4, <2>6
<1>15. AcrossTypes'
  <2>1. evmProcessed' \subseteq Outbound'
    BY <1>1, <1>2, <1>4, <1>12
  <2> QED
    BY <1>1, <1>6, <1>8, <1>9, <1>12, <1>14, <2>1 DEF AcrossTypes
<1>16. /\ bridgedToEvm = Total(evmBalance) + UnderWay(ds, Arrived) + UnderWay(evmDeposits, Returned)
       /\ evmSupply = Total(evmBalance)
  BY DEF AcrossIInv, BridgedCreditsAreSomewhere
<1>17. BridgedCreditsAreSomewhere'
  <2>1. UnderWay(ds, Arrived) \in Int /\ UnderWay(evmDeposits, Returned) \in Int
    BY <1>1, UnderWayIs
  <2> DEFINE a == Total(evmBalance)
             b == UnderWay(ds, Arrived)
             c == UnderWay(evmDeposits, Returned)
  <2>2. bridgedToEvm = (a + n) + UnderWay(ds, Arrived') + c
    <3> HIDE DEF a, b, c
    <3>1. bridgedToEvm = a + b + c /\ a \in Int /\ b \in Int /\ c \in Int
      BY <1>14, <1>16, <2>1 DEF a, b, c
    <3>2. UnderWay(ds, Arrived') = b - n
      BY <1>13 DEF b
    <3> QED
      BY <1>7, <3>1, <3>2
  <2> QED
    BY <1>8, <1>9, <1>12, <1>14, <1>16, <2>2 DEF BridgedCreditsAreSomewhere
<1>18. Bridged!Arrive
  <2>1. DOMAIN Amount(ds) = DOMAIN ds /\ Amount(ds)[i] = n
    BY DEF Amount, n
  <2>2. i \in DOMAIN Amount(ds) \ Arrived /\ evmSupply' = evmSupply + Amount(ds)[i]
    BY <1>5, <1>9, <2>1
  <2> QED
    BY <1>8, <1>9, <1>11, <1>12, <2>2 DEF Bridged!Arrive, Amount
<1> QED
  BY <1>15, <1>17, <1>18 DEF Crossing, AcrossIInv, Moves

--------------------------------------------------------------------------------
(***************************************************************************)
(* The theorems.                                                           *)
(***************************************************************************)

LEMMA AcrossStarts == ChainsInit => AcrossIInv /\ Bridged!Origin
<1> SUFFICES ASSUME ChainsInit PROVE AcrossIInv /\ Bridged!Origin
  OBVIOUS
<1>1. /\ totalSupply = 0 /\ bridgedToEvm = 0 /\ bridge = NoAddress /\ relayers = FirstRelayers
      /\ processed = {} /\ bridgeDeposits = <<>>
  BY DEF ChainsInit, BridgeInit, Init
<1>2. /\ evmBalance = [x \in EvmAddress |-> 0] /\ evmSupply = 0 /\ evmProcessed = {}
      /\ evmDeposits = <<>>
  BY DEF ChainsInit, EvmInit
<1>3. Lane(<<>>)
  BY DEF Lane
<1>4. AcrossTypes
  <2>1. ValidRelayers(FirstRelayers)
    BY BridgeAssumption
  <2> QED
    BY <1>1, <1>2, <1>3, <2>1 DEF AcrossTypes, NothingAcross
<1>5. UnderWay(<<>>, {}) = 0
  <2>1. UnderWay(<<>>, {}) = SumFunctionOnSet(Amount(<<>>), {})
    BY <1>3, UnderWayIs
  <2>2. SumFunctionOnSet(Amount(<<>>), {}) = 0
    BY SumProperties, FS_EmptySet
  <2> QED
    BY <2>1, <2>2
<1>6. Total(evmBalance) = 0
  <2>1. PICK z \in EvmAddress : TRUE
    BY EvmAssumption
  <2>2. SumFunctionOnSet(evmBalance, EvmAddress) = 0
    BY <1>2, <2>1, EvmAssumption, SumOfPoint
  <2>3. evmBalance \in [EvmAddress -> Int]
    BY <1>2
  <2> QED
    BY <2>2, <2>3, EvmTotal
<1>7. Arrived = {} /\ Returned = {}
  BY <1>1, <1>2 DEF Arrived, Returned
<1>8. BridgedCreditsAreSomewhere
  BY <1>1, <1>2, <1>5, <1>6, <1>7 DEF BridgedCreditsAreSomewhere
<1>9. Bridged!Origin
  <2>1. [i \in DOMAIN bridgeDeposits |-> bridgeDeposits[i].amount] = <<>>
    BY <1>1
  <2>2. [i \in DOMAIN evmDeposits |-> evmDeposits[i].amount] = <<>>
    BY <1>2
  <2> QED
    BY <1>1, <1>2, <1>7, <2>1, <2>2 DEF Bridged!Origin
<1> QED
  BY <1>4, <1>8, <1>9 DEF AcrossIInv

LEMMA AcrossMoves == AcrossIInv /\ [ChainsNext]_chainsVars => Crossing
<1> SUFFICES ASSUME AcrossIInv, [ChainsNext]_chainsVars PROVE Crossing
  OBVIOUS
<1>1. CASE TokenCalls /\ UNCHANGED <<bridgeVars, evmVars>>
  BY <1>1, TokenCrossing
<1>2. ASSUME NEW caller \in {BridgeAdmin, BridgeGovernance},
             BridgeAdministration(caller) /\ UNCHANGED evmVars
      PROVE  Crossing
  BY <1>2, AdministrationCrossing
<1>3. ASSUME NEW from \in Address \ {BridgeAddress}, NEW n \in Amounts, NEW to \in EvmRecipients,
             Deposit(from, n, to) /\ UNCHANGED evmVars
      PROVE  Crossing
  BY <1>3, DepositCrossing
<1>4. ASSUME NEW t \in Transfers, NEW signers \in SUBSET Range(relayers.list),
             Withdraw(t, signers, Attested(signers)) /\ UNCHANGED evmVars
      PROVE  Crossing
  BY <1>4, WithdrawCrossing
<1>5. ASSUME NEW sender \in EvmAddress \ {ZeroAddress},
             EvmCalls(sender) /\ UNCHANGED <<vars, bridgeVars>>
      PROVE  Crossing
  <2>1. ASSUME NEW n \in EvmAmounts, NEW g \in StellarTargets, EvmDeposit(sender, n, g)
        PROVE  Crossing
    BY <1>5, <2>1, EvmDepositCrossing
  <2>2. ASSUME NEW g \in EvmGrants, NEW n \in EvmAmounts, EvmApprove(sender, g.spender, n)
        PROVE  Crossing
    <3>1. g.spender \in EvmAddress
      BY EvmAssumption
    <3> QED
      BY <1>5, <2>2, <3>1, EvmQuietCrossing
  <2>3. CASE \/ \E to \in EvmAddress, n \in EvmAmounts : EvmTransfer(sender, to, n)
             \/ \E from, to \in EvmAddress, n \in EvmAmounts : EvmTransferFrom(sender, from, to, n)
             \/ \E value \in BOOLEAN : SetEvmPaused(sender, value)
    BY <1>5, <2>3, EvmQuietCrossing
  <2> QED
    BY <1>5, <2>1, <2>2, <2>3 DEF EvmCalls
<1>6. ASSUME NEW t \in Transfers, NEW signers \in SUBSET EvmRelayers,
             EvmWithdraw(t, signers, Attested(signers)) /\ UNCHANGED <<vars, bridgeVars>>
      PROVE  Crossing
  BY <1>6, EvmWithdrawCrossing
<1>7. CASE UNCHANGED chainsVars
  <2>1. UNCHANGED <<vars, bridgeVars>> /\ UNCHANGED evmVars
    BY <1>7 DEF chainsVars
  <2> QED
    BY <2>1, AdministrationCrossing
<1> QED
  BY <1>1, <1>2, <1>3, <1>4, <1>5, <1>6, <1>7 DEF ChainsNext

\* The two contracts of the bridge never disagree: in every order of deposits,
\* withdrawals, repeated submissions, pauses and relayer changes, the credits
\* the token counts as bridged are on the EVM chain or under way.
THEOREM CreditsSomewhere == ChainsSpec => []BridgedCreditsAreSomewhere
<1>1. ChainsInit => AcrossIInv
  BY AcrossStarts
<1>2. AcrossIInv /\ [ChainsNext]_chainsVars => AcrossIInv'
  BY AcrossMoves DEF Crossing
<1>3. AcrossIInv => BridgedCreditsAreSomewhere
  BY DEF AcrossIInv
<1> QED
  BY <1>1, <1>2, <1>3, PTL DEF ChainsSpec

\* deposit and withdraw of both contracts implement transfers that arrive at
\* most once, in full, and only if they were sent.
THEOREM CrossingRefined == ChainsSpec => ImplementsCreditsAcross
<1>1. ChainsInit => AcrossIInv /\ Bridged!Origin
  BY AcrossStarts
<1>2. AcrossIInv /\ [ChainsNext]_chainsVars => AcrossIInv'
  BY AcrossMoves DEF Crossing
<1>3. AcrossIInv /\ [ChainsNext]_chainsVars
        => [Bridged!Trade \/ Bridged!Leave \/ Bridged!Arrive \/ Bridged!LeaveForHome
              \/ Bridged!Return]_(Bridged!acrossVars)
  BY AcrossMoves DEF Crossing, Moves
<1> QED
  BY <1>1, <1>2, <1>3, PTL DEF ChainsSpec, ImplementsCreditsAcross, Bridged!Across

--------------------------------------------------------------------------------
(***************************************************************************)
(* The token under the bridge.  To its counters a deposit is a burn and a  *)
(* withdrawal an issue, so what the token promises alone it keeps here too.*)
(***************************************************************************)

TokenIInv ==
  /\ AcrossIInv
  /\ TypeOK
  /\ SupplyInvariant
  /\ \A i \in DOMAIN evmDeposits : evmDeposits[i].recipient \in Address

\* The transfer to the bridge and the burn by it are a burn by the depositor.
LEMMA DepositBurns ==
  ASSUME TypeOK, NEW from \in Address \ {BridgeAddress}, NEW n \in Amounts,
         TransferAndBurn(from, n)
  PROVE  TypeOK' /\ Burned
<1>0. /\ RolesOK /\ HoldingsOK /\ TotalsOK /\ balance \in [Address -> Nat]
      /\ bridgedToEvm \in Nat
  BY DEF TypeOK, HoldingsOK, TotalsOK
<1>1. n \in Nat \ {0} /\ BridgeAddress \in Address
  BY InputTypes, BridgeAssumption DEF TransferAndBurn
<1>2. balance[from] >= n /\ bridgedToEvm' = bridgedToEvm + n
      /\ totalSupply' = totalSupply - n /\ totalBurned' = totalBurned + n
      /\ UNCHANGED <<roles, maxSupply, paused, allowance, expiration,
                     totalRetired, everMinted, certs, ledger>>
  BY DEF TransferAndBurn
<1>3. balance' = [balance EXCEPT ![from] = @ - n]
  <2> DEFINE B == BridgeAddress
             moved == [balance EXCEPT ![from] = balance[from] - n, ![B] = balance[B] + n]
             c == [moved EXCEPT ![B] = @ - n]
             d == [balance EXCEPT ![from] = @ - n]
  <2>1. balance' = c
    BY DEF TransferAndBurn, Moved
  <2>2. ASSUME NEW a \in Address PROVE c[a] = d[a]
    <3>1. CASE a = B
      BY <1>0, <1>1, <3>1
    <3>2. CASE a # B
      BY <1>0, <1>1, <3>2
    <3> QED
      BY <3>1, <3>2
  <2>3. c = d
    <3>1. c = [a \in Address |-> c[a]] /\ d = [a \in Address |-> d[a]]
      BY <1>0
    <3> QED
      BY <2>2, <3>1
  <2> QED
    BY <2>1, <2>3
<1>4. /\ Total(balance') = Total(balance) - n
      /\ \A a \in Address : balance'[a] <= balance[a]
  BY <1>0, <1>1, <1>3, Debited
<1>5. HoldingsOK'
  <2>1. balance' \in [Address -> Nat]
    BY <1>0, <1>1, <1>2, <1>3
  <2> QED
    BY <1>0, <1>2, <2>1 DEF HoldingsOK
<1>6. TotalsOK'
  BY <1>0, <1>1, <1>2 DEF TotalsOK
<1>7. RolesOK'
  BY <1>0, <1>2, Untouched
<1>8. Burned
  <2>1. bridgedToEvm' <= bridgedToEvm + n
    BY <1>0, <1>1, <1>2
  <2> QED
    BY <1>1, <1>2, <1>4, <2>1 DEF Burned
<1> QED
  BY <1>5, <1>6, <1>7, <1>8 DEF TypeOK

\* A withdrawal mints what an address of this chain was sent.
LEMMA WithdrawIssues ==
  ASSUME TokenIInv, NEW t, NEW signers \in SUBSET Range(relayers.list),
         Withdraw(t, signers, Attested(signers))
  PROVE  TypeOK' /\ Issued
<1>1. t \in Inbound
  BY HomeSignersAreHonest DEF TokenIInv, AcrossIInv
<1>2. PICK i \in DOMAIN evmDeposits : t = ToStellar(evmDeposits[i])
  BY <1>1 DEF Inbound, Range
<1>3. t.recipient \in Address /\ t.amount \in Int
  <2>1. evmDeposits[i].amount \in Int /\ evmDeposits[i].recipient \in Address
    BY LaneShape DEF TokenIInv, AcrossIInv, AcrossTypes
  <2> QED
    BY <1>2, <2>1, TransferFields
<1>4. MintTo(BridgeAddress, t.recipient, t.amount)
  BY DEF Withdraw
<1> QED
  BY <1>3, <1>4, MintTypes, MintIssues DEF TokenIInv

LEMMA RecipientsKept ==
  ASSUME TokenIInv, [ChainsNext]_chainsVars
  PROVE  \A i \in DOMAIN (evmDeposits') : evmDeposits'[i].recipient \in Address
<1>0. /\ Lane(evmDeposits)
      /\ \A i \in DOMAIN evmDeposits : evmDeposits[i].recipient \in Address
  BY DEF TokenIInv, AcrossIInv, AcrossTypes
<1>1. ASSUME NEW sender, NEW n, NEW g \in StellarTargets, EvmDeposit(sender, n, g)
      PROVE  \A i \in DOMAIN (evmDeposits') : evmDeposits'[i].recipient \in Address
  <2> DEFINE d == [sender |-> sender, type |-> g.type, recipient |-> g.recipient,
                   amount |-> n, nonce |-> Len(evmDeposits)]
  <2>1. evmDeposits' = Append(evmDeposits, d)
    BY <1>1 DEF EvmDeposit
  <2>2. d.recipient \in Address
    BY <1>1, ChainsAssumption DEF EvmDeposit
  <2> HIDE DEF d
  <2> QED
    BY <1>0, <2>1, <2>2, LaneExtends
<1>2. CASE evmDeposits' = evmDeposits
  BY <1>0, <1>2
<1>3. UNCHANGED evmVars \/ UNCHANGED chainsVars => evmDeposits' = evmDeposits
  BY DEF evmVars, chainsVars
<1>4. ASSUME NEW sender, EvmCalls(sender)
      PROVE  \/ evmDeposits' = evmDeposits
             \/ \E n \in EvmAmounts, g \in StellarTargets : EvmDeposit(sender, n, g)
  BY <1>4 DEF EvmCalls, EvmTransfer, EvmApprove, EvmTransferFrom, SetEvmPaused
<1>5. ASSUME NEW t, NEW signers, NEW at, EvmWithdraw(t, signers, at)
      PROVE  evmDeposits' = evmDeposits
  BY <1>5 DEF EvmWithdraw
<1> QED
  BY <1>1, <1>2, <1>3, <1>4, <1>5 DEF ChainsNext

\* What a step of both chains is to the token.
LEMMA TokenMoves ==
  ASSUME TokenIInv, [ChainsNext]_chainsVars
  PROVE  TypeOK' /\ Effect
<1>0. TypeOK
  BY DEF TokenIInv
<1>1. [Next]_vars => TypeOK' /\ Effect
  BY <1>0, TypesKept, StepEffect
<1>2. CASE TokenCalls
  <2>1. Next
    BY <1>2 DEF TokenCalls, Next
  <2> QED
    BY <1>1, <2>1
<1>3. ASSUME NEW caller, BridgeAdministration(caller) PROVE UNCHANGED vars
  BY <1>3 DEF BridgeAdministration, UpdateRelayers, SetToken, SetBridgePaused
<1>4. ASSUME NEW from \in Address \ {BridgeAddress}, NEW n \in Amounts, NEW to, Deposit(from, n, to)
      PROVE  TypeOK' /\ Effect
  <2>1. TransferAndBurn(from, n)
    BY <1>4 DEF Deposit
  <2> QED
    BY <1>0, <2>1, DepositBurns DEF Effect
<1>5. ASSUME NEW t, NEW signers \in SUBSET Range(relayers.list),
             Withdraw(t, signers, Attested(signers))
      PROVE  TypeOK' /\ Effect
  BY <1>5, WithdrawIssues DEF Effect
<1>6. CASE UNCHANGED chainsVars
  BY <1>1, <1>6 DEF chainsVars
<1> QED
  BY <1>1, <1>2, <1>3, <1>4, <1>5, <1>6 DEF ChainsNext

LEMMA TokenKept ==
  ASSUME TokenIInv, [ChainsNext]_chainsVars
  PROVE  TokenIInv'
<1>1. AcrossIInv'
  BY AcrossMoves DEF TokenIInv, Crossing
<1>2. TypeOK' /\ Effect
  BY TokenMoves
<1>3. SupplyInvariant'
  BY <1>2, SupplyKept DEF TokenIInv
<1> QED
  BY <1>1, <1>2, <1>3, RecipientsKept DEF TokenIInv

LEMMA TokenStarts == ChainsInit => TokenIInv
<1> SUFFICES ASSUME ChainsInit PROVE TokenIInv
  OBVIOUS
<1>1. TypeOK /\ SupplyInvariant
  BY TypesInit, SupplyInit DEF ChainsInit, BridgeInit
<1>2. evmDeposits = <<>>
  BY DEF ChainsInit, EvmInit
<1> QED
  BY <1>1, <1>2, AcrossStarts DEF TokenIInv

\* Under the bridge the token's counters are conserved, its holders cover its
\* supply, and whatever it counts on the EVM chain was burned here.
THEOREM SupplySafeUnderBridge == ChainsSpec => []SupplyInvariant
<1>1. TokenIInv /\ [ChainsNext]_chainsVars => TokenIInv'
  BY TokenKept
<1>2. TokenIInv => SupplyInvariant
  BY DEF TokenIInv
<1> QED
  BY <1>1, <1>2, TokenStarts, PTL DEF ChainsSpec

\* Both chains together leave the token the supply ledger it promises to be: a
\* deposit burns on it and a withdrawal issues on it.
THEOREM RefinementUnderBridge == ChainsSpec => ImplementsSupplyLedger
<1>1. TokenIInv /\ [ChainsNext]_chainsVars => TokenIInv'
  BY TokenKept
<1>2. ChainsInit => Supply!Init
  BY LedgerInit DEF ChainsInit, BridgeInit
<1>3. TokenIInv /\ [ChainsNext]_chainsVars => [Supply!Next]_Supply!supply
  BY TokenMoves, LedgerStep DEF TokenIInv
<1> QED
  BY <1>1, <1>2, <1>3, TokenStarts, PTL DEF ChainsSpec, ImplementsSupplyLedger, Supply!Spec

\* No withdrawal lifts the supply above the cap, and no call of the bridge
\* mints on a paused token.
THEOREM CapAndPauseUnderBridge == ChainsSpec => MintsRespectCap /\ PauseFreezes
<1>1. TokenIInv /\ [ChainsNext]_chainsVars => TokenIInv'
  BY TokenKept
<1>2. TokenIInv /\ [ChainsNext]_chainsVars =>
        /\ [everMinted' > everMinted => UnderCap(totalSupply')]_vars
        /\ [Frozen]_vars
  BY TokenMoves, CapHoldsEffect, PauseHoldsEffect DEF TokenIInv
<1> QED
  BY <1>1, <1>2, TokenStarts, PTL DEF ChainsSpec, MintsRespectCap, PauseFreezes, Frozen

\* The credits of the EVM chain and those under way to it or back are never more
\* than were burned at home.
AwayWasBurned ==
  evmSupply + UnderWay(bridgeDeposits, Arrived) + UnderWay(evmDeposits, Returned) <= totalBurned

THEOREM AwayIsBacked == ChainsSpec => []AwayWasBurned
<1>1. BridgedCreditsAreSomewhere /\ SupplyInvariant => AwayWasBurned
  BY DEF BridgedCreditsAreSomewhere, SupplyInvariant, BridgedAreBurned, AwayWasBurned
<1> QED
  BY <1>1, CreditsSomewhere, SupplySafeUnderBridge, PTL
================================================================================
