--------------------------- MODULE TokenClientsProofs ---------------------------
(***************************************************************************)
(* Proofs about those a credit token works with: the bridges that burn and *)
(* mint on it, the retirement registry its retirements are recorded in,    *)
(* alone and together with the token, and the oracle that mints what a     *)
(* window of readings earned.  They hold for every set of callers,         *)
(* accounts, projects and amounts, every bound on the totals and any       *)
(* readings.                                                               *)
(*                                                                         *)
(* Only RecordRetirement writes records, the total or an index, so each    *)
(* proof about the registry has one step for it and one for everything     *)
(* else.                                                                   *)
(***************************************************************************)
EXTENDS BridgeHistory, RetirementTrail, OracleMinting, CreditTokenProofs

(***************************************************************************)
(* The token's bridges.                                                    *)
(***************************************************************************)

\* A token whose bridges are remembered is a token: the memory asks nothing of a
\* call, so that all theorems of CreditTokenProofs hold.
THEOREM HistoryRunsToken == HistorySpec => Spec
<1>1. HistoryInit => Init
  BY DEF HistoryInit
<1>2. [HistoryNext]_historyVars => [Next]_vars
  <2> SUFFICES ASSUME [HistoryNext]_historyVars PROVE [Next]_vars
    OBVIOUS
  <2>1. ASSUME NEW caller \in Address, NEW from \in Address, NEW n \in Amounts,
               BurnRemembered(caller, from, n)
        PROVE  Next
    BY <2>1 DEF BurnRemembered, Next, Destroy
  <2>2. ASSUME NEW caller \in Address, NEW to \in Address, NEW n \in Amounts,
               MintRemembered(caller, to, n)
        PROVE  Next
    BY <2>2 DEF MintRemembered, Next, Issue
  <2>3. CASE Unremembered
    BY <2>3 DEF Unremembered, Next, Issue, Destroy
  <2>4. CASE UNCHANGED historyVars
    BY <2>4 DEF historyVars
  <2> QED
    BY <2>1, <2>2, <2>3, <2>4 DEF HistoryNext
<1> QED
  BY <1>1, <1>2, PTL DEF HistorySpec, Spec

\* No other call touches BridgedToEvm.
LEMMA OtherCallsKeepBridged ==
  ASSUME Unremembered
  PROVE  UNCHANGED <<bridgedToEvm, sent, brought>>
<1> USE DEF totals, holdings, roles
<1>1. ASSUME NEW c, Administer(c) PROVE UNCHANGED bridgedToEvm
  <2>1. ASSUME NEW a, NEW d, ProposeAdmin(c, a, d) PROVE UNCHANGED bridgedToEvm
    BY <2>1 DEF ProposeAdmin
  <2>2. ASSUME NEW a, \/ SetAdmin(c, a) \/ SetMinter(c, a) \/ SetPauseGuardian(c, a)
                      \/ SetBridge(c, a) \/ SetRetirementRegistry(c, a)
                      \/ SetRequireRegistry(c, a) \/ SetMaxSupply(c, a)
        PROVE  UNCHANGED bridgedToEvm
    BY <2>1, <2>2 DEF SetAdmin, SetMinter, SetPauseGuardian, SetBridge,
                      SetRetirementRegistry, SetRequireRegistry, SetMaxSupply
  <2>3. ASSUME AcceptAdmin(c) \/ CancelAdminProposal(c) \/ Pause(c) \/ Unpause(c)
        PROVE  UNCHANGED bridgedToEvm
    BY <2>3 DEF AcceptAdmin, CancelAdminProposal, Pause, Unpause, SetPaused
  <2> QED
    BY <1>1, <2>1, <2>2, <2>3 DEF Administer
<1>2. ASSUME NEW c, Move(c) PROVE UNCHANGED bridgedToEvm
  BY <1>2 DEF Move, Transfer, BatchTransfer, TransferFrom, Approve
<1>3. ASSUME NEW c, NEW batch, BatchMintTo(c, batch) PROVE UNCHANGED bridgedToEvm
  BY <1>3 DEF BatchMintTo
<1>4. ASSUME NEW c, NEW from, NEW n, NEW r, BurnWithReason(c, from, n) \/ Retire(c, n, r)
      PROVE  UNCHANGED bridgedToEvm
  BY <1>4 DEF BurnWithReason, Retire
<1>5. CloseLedger => UNCHANGED bridgedToEvm
  BY DEF CloseLedger
<1>6. UNCHANGED bridgedToEvm
  <2>1. CASE \E c \in Address : Administer(c)
    BY <2>1, <1>1
  <2>2. CASE \E c \in Address : Move(c)
    BY <2>2, <1>2
  <2>3. CASE \E c \in Address, batch \in Batches : BatchMintTo(c, batch)
    BY <2>3, <1>3
  <2>4. CASE \E c \in Address :
               \/ \E from \in Address, n \in Amounts : BurnWithReason(c, from, n)
               \/ \E n \in Amounts, r \in RecordIds \cup {NoRecord} : Retire(c, n, r)
    BY <2>4, <1>4
  <2> QED
    BY <2>1, <2>2, <2>3, <2>4, <1>5 DEF Unremembered
<1> QED
  BY <1>6 DEF Unremembered

\* What bridges sent comes home at most once, however often the bridge is replaced
\* meanwhile: mint_to by the bridge of the day draws on what its predecessors
\* burned, and BridgedToEvm is all that may still come home.
THEOREM BridgesBringBack == HistorySpec => []BridgesBringBackWhatTheySent
<1> DEFINE Remembered == sent \in Int /\ brought \in Int /\ bridgedToEvm = sent - brought
<1>1. HistoryInit => Remembered
  BY DEF HistoryInit, Init
<1>2. TypeOK /\ Remembered /\ [HistoryNext]_historyVars => Remembered'
  <2> SUFFICES ASSUME TypeOK, Remembered, [HistoryNext]_historyVars PROVE Remembered'
    OBVIOUS
  <2>1. ASSUME NEW caller \in Address, NEW from \in Address, NEW n \in Amounts,
               BurnRemembered(caller, from, n)
        PROVE  Remembered'
    <3>1. n \in Int
      BY NumberAssumption
    <3>2. CASE BurnByBridge(caller, from, n)
      BY <2>1, <3>1, <3>2 DEF BurnRemembered, BurnByBridge
    <3>3. CASE BurnByAdmin(caller, from, n)
      BY <2>1, <3>3 DEF BurnRemembered, BurnByAdmin
    <3> QED
      BY <2>1, <3>2, <3>3 DEF BurnRemembered, Burn
  <2>2. ASSUME NEW caller \in Address, NEW to \in Address, NEW n \in Amounts,
               MintRemembered(caller, to, n)
        PROVE  Remembered'
    <3>1. n \in Int
      BY NumberAssumption
    <3> QED
      BY <2>2, <3>1 DEF MintRemembered, MintTo
  <2>3. CASE Unremembered
    BY <2>3, OtherCallsKeepBridged
  <2>4. CASE UNCHANGED historyVars
    BY <2>4 DEF historyVars, vars, totals
  <2> QED
    BY <2>1, <2>2, <2>3, <2>4 DEF HistoryNext
<1>3. TypeOK /\ Remembered => BridgesBringBackWhatTheySent
  BY DEF TypeOK, TotalsOK, BridgesBringBackWhatTheySent
<1> QED
  BY <1>1, <1>2, <1>3, HistoryRunsToken, TypeCorrect, PTL DEF HistorySpec

--------------------------------------------------------------------------------
(***************************************************************************)
(* The registry alone.                                                     *)
(***************************************************************************)

\* A step records one retirement, or leaves records, total and indexes alone.
LEMMA RegistrySteps ==
  ASSUME [RegistryNext]_registryVars
  PROVE  \/ \E c \in Callers, r \in Retirees, p \in Projects, n \in Retirements :
              RecordRetirement(c, r, p, n)
         \/ /\ UNCHANGED <<records, totalRecorded, byRetiree, byProject>>
            /\ \/ UNCHANGED authorized
               \/ \E c \in Callers, allowed \in BOOLEAN :
                    authorized' = IF allowed THEN authorized \cup {c} ELSE authorized \ {c}
BY DEF RegistryNext, registryVars, SetAuthorizedCaller

\* What is appended to the records is a record, of a positive amount.
LEMMA NewRecordTypes ==
  ASSUME NEW c \in Callers, NEW r \in Retirees, NEW p \in Projects, NEW n \in Retirements,
         n > 0
  PROVE  [retiree |-> r, project |-> p, token |-> c, amount |-> n] \in Records
BY RegistryAssumption DEF Records

\* Filing the id of the next record keeps an index one of ids of records.
LEMMA FiledTypes ==
  ASSUME NEW K, NEW k \in Nat, NEW index \in [K -> Seq(1 .. k)], NEW key \in K,
         NEW next, next = k + 1
  PROVE  [index EXCEPT ![key] = Append(@, next)] \in [K -> Seq(1 .. k + 1)]
<1>1. \A x \in K : index[x] \in Seq(1 .. k + 1)
  <2>1. Seq(1 .. k) \subseteq Seq(1 .. k + 1)
    <3>1. 1 .. k \subseteq 1 .. k + 1
      OBVIOUS
    <3> QED
      BY <3>1, SeqMonotonic
  <2> QED
    BY <2>1
<1>2. next \in 1 .. k + 1
  OBVIOUS
<1>3. Append(index[key], next) \in Seq(1 .. k + 1)
  BY <1>1, <1>2, AppendProperties
<1> QED
  BY <1>1, <1>3

--------------------------------------------------------------------------------
(***************************************************************************)
(* Type correctness.                                                       *)
(***************************************************************************)

\* No sequence of calls stores a record of nothing, a negative total or an index
\* entry that is not the id of a record: record_retirement and the indexes it
\* files under, with set_authorized_caller between.
THEOREM RegistryTypes == RegistrySpec => []RegistryTypeOK
<1>1. RegistryInit => RegistryTypeOK
  <2> SUFFICES ASSUME RegistryInit PROVE RegistryTypeOK
    OBVIOUS
  <2>1. \A S : <<>> \in Seq(S)
    BY EmptySeq
  <2> QED
    BY <2>1 DEF RegistryInit, RegistryTypeOK
<1>2. RegistryTypeOK /\ [RegistryNext]_registryVars => RegistryTypeOK'
  <2> SUFFICES ASSUME RegistryTypeOK, [RegistryNext]_registryVars PROVE RegistryTypeOK'
    OBVIOUS
  <2>1. CASE \E c \in Callers, r \in Retirees, p \in Projects, n \in Retirements :
               RecordRetirement(c, r, p, n)
    <3>1. PICK c \in Callers, r \in Retirees, p \in Projects, n \in Retirements :
            RecordRetirement(c, r, p, n)
      BY <2>1
    <3> DEFINE new == [retiree |-> r, project |-> p, token |-> c, amount |-> n]
    <3>2. new \in Records
      BY <3>1, NewRecordTypes DEF RecordRetirement
    <3>3. records' = Append(records, new)
      BY <3>1 DEF RecordRetirement
    <3>4. records \in Seq(Records)
      BY DEF RegistryTypeOK
    <3> HIDE DEF new
    <3>5. records' \in Seq(Records) /\ Len(records') = Len(records) + 1
      BY <3>2, <3>3, <3>4, AppendProperties
    <3>6. Len(records) \in Nat
      BY <3>4, LenProperties
    <3>7. byRetiree' \in [Retirees -> Seq(1 .. Len(records'))]
      <4>1. byRetiree' = [byRetiree EXCEPT ![r] = Append(@, NextId)]
        BY <3>1 DEF RecordRetirement, Filed
      <4>2. byRetiree \in [Retirees -> Seq(1 .. Len(records))]
        BY DEF RegistryTypeOK
      <4> QED
        BY <3>5, <3>6, <4>1, <4>2, FiledTypes DEF NextId
    <3>8. byProject' \in [Projects -> Seq(1 .. Len(records'))]
      <4>1. byProject' = [byProject EXCEPT ![p] = Append(@, NextId)]
        BY <3>1 DEF RecordRetirement, Filed
      <4>2. byProject \in [Projects -> Seq(1 .. Len(records))]
        BY DEF RegistryTypeOK
      <4> QED
        BY <3>5, <3>6, <4>1, <4>2, FiledTypes DEF NextId
    <3>9. totalRecorded' \in Nat
      BY <3>1, RegistryAssumption DEF RecordRetirement, RegistryTypeOK
    <3>10. authorized' \subseteq Callers
      BY <3>1 DEF RecordRetirement, RegistryTypeOK
    <3> QED
      BY <3>5, <3>7, <3>8, <3>9, <3>10 DEF RegistryTypeOK
  <2>2. CASE UNCHANGED <<records, totalRecorded, byRetiree, byProject>>
             /\ \/ UNCHANGED authorized
                \/ \E c \in Callers, allowed \in BOOLEAN :
                     authorized' = IF allowed THEN authorized \cup {c} ELSE authorized \ {c}
    <3>1. authorized' \subseteq Callers
      BY <2>2 DEF RegistryTypeOK
    <3> QED
      BY <2>2, <3>1 DEF RegistryTypeOK
  <2> QED
    BY <2>1, <2>2, RegistrySteps
<1> QED
  BY <1>1, <1>2, PTL DEF RegistrySpec

--------------------------------------------------------------------------------
(***************************************************************************)
(* The total.                                                              *)
(***************************************************************************)

RecordedAmounts(s) == [i \in DOMAIN s |-> s[i].amount]

\* The sum of a list's amounts grows by what is appended.
LEMMA AppendedSum ==
  ASSUME NEW s \in Seq(Records), NEW r \in Records
  PROVE  SumFunction(RecordedAmounts(Append(s, r))) = SumFunction(RecordedAmounts(s)) + r.amount
<1> DEFINE n == Len(s)
           f == RecordedAmounts(s)
           h == RecordedAmounts(Append(s, r))
<1>1. n \in Nat /\ DOMAIN s = 1 .. n
  BY LenProperties
<1>2. /\ Append(s, r) \in Seq(Records)
      /\ Len(Append(s, r)) = n + 1
      /\ \A i \in 1 .. n : Append(s, r)[i] = s[i]
      /\ Append(s, r)[n + 1] = r
  BY AppendProperties
<1>3. DOMAIN Append(s, r) = 1 .. n + 1
  BY <1>1, <1>2, LenProperties
<1>4. \A x \in Records : x.amount \in Int
  BY DEF Records
<1>5. \A i \in 1 .. n : f[i] \in Int /\ h[i] = f[i]
  <2>1. \A i \in 1 .. n : s[i] \in Records
    BY ElementOfSeq
  <2> QED
    BY <1>1, <1>2, <1>3, <1>4, <2>1 DEF RecordedAmounts
<1>6. h[n + 1] = r.amount /\ r.amount \in Int
  BY <1>1, <1>2, <1>3, <1>4 DEF RecordedAmounts
<1>7. DOMAIN f = 1 .. n /\ DOMAIN h = (1 .. n) \cup {n + 1}
  BY <1>1, <1>3 DEF RecordedAmounts
<1>8. IsFiniteSet(1 .. n) /\ (n + 1) \notin 1 .. n
  BY <1>1, FS_Interval
<1> HIDE DEF f, h, n
<1>9. SumFunctionOnSet(h, (1 .. n) \cup {n + 1}) = h[n + 1] + SumFunctionOnSet(h, 1 .. n)
  <2>1. \A i \in (1 .. n) \cup {n + 1} : h[i] \in Int
    BY <1>5, <1>6
  <2> QED
    BY <1>8, <2>1, SumInsert
<1>10. SumFunctionOnSet(h, 1 .. n) = SumFunctionOnSet(f, 1 .. n)
  BY <1>5, <1>8, SumAgrees
<1>11. SumFunctionOnSet(f, 1 .. n) \in Int
  BY <1>5, <1>8, SumProperties
<1>12. SumFunction(h) = SumFunction(f) + r.amount
  BY <1>6, <1>7, <1>9, <1>10, <1>11 DEF SumFunction
<1> QED
  BY <1>12 DEF f, h

\* TotalRetired, a counter of its own, is the sum of the amounts of the records
\* after any sequence of calls.
THEOREM TotalIsOfTheRecords == RegistrySpec => []RecordsAddUp
<1> USE DEF RecordedAmounts
<1>1. RegistryInit => RecordsAddUp
  <2> SUFFICES ASSUME RegistryInit PROVE RecordsAddUp
    OBVIOUS
  <2>1. records = <<>> /\ totalRecorded = 0
    BY DEF RegistryInit
  <2> DEFINE none == [i \in DOMAIN records |-> records[i].amount]
  <2>2. DOMAIN none = {}
    BY <2>1
  <2>3. SumFunctionOnSet(none, {}) = 0
    <3>1. IsFiniteSet({})
      BY FS_EmptySet
    <3>2. \A x \in {} : none[x] \in Int
      OBVIOUS
    <3> HIDE DEF none
    <3> QED
      BY <3>1, <3>2, SumProperties
  <2> HIDE DEF none
  <2>4. SumFunction(none) = 0
    BY <2>2, <2>3 DEF SumFunction
  <2> QED
    BY <2>1, <2>4 DEF RecordsAddUp, none
<1>2. RegistryTypeOK /\ RecordsAddUp /\ [RegistryNext]_registryVars => RecordsAddUp'
  <2> SUFFICES ASSUME RegistryTypeOK, RecordsAddUp, [RegistryNext]_registryVars
               PROVE  RecordsAddUp'
    OBVIOUS
  <2>1. CASE \E c \in Callers, r \in Retirees, p \in Projects, n \in Retirements :
               RecordRetirement(c, r, p, n)
    <3>1. PICK c \in Callers, r \in Retirees, p \in Projects, n \in Retirements :
            RecordRetirement(c, r, p, n)
      BY <2>1
    <3> DEFINE new == [retiree |-> r, project |-> p, token |-> c, amount |-> n]
    <3>2. new \in Records /\ new.amount = n
      BY <3>1, NewRecordTypes DEF RecordRetirement
    <3>3. records' = Append(records, new) /\ totalRecorded' = totalRecorded + n
      BY <3>1 DEF RecordRetirement
    <3>4. records \in Seq(Records)
      BY DEF RegistryTypeOK
    <3>5. SumFunction(RecordedAmounts(records)) = totalRecorded
      BY DEF RecordsAddUp
    <3> HIDE DEF new, RecordedAmounts
    <3>6. SumFunction(RecordedAmounts(records')) = totalRecorded'
      BY <3>2, <3>3, <3>4, <3>5, AppendedSum
    <3> QED
      BY <3>6 DEF RecordsAddUp, RecordedAmounts
  <2>2. CASE UNCHANGED <<records, totalRecorded, byRetiree, byProject>>
    BY <2>2 DEF RecordsAddUp
  <2> QED
    BY <2>1, <2>2, RegistrySteps
<1> QED
  BY <1>1, <1>2, RegistryTypes, PTL DEF RegistrySpec

--------------------------------------------------------------------------------
(***************************************************************************)
(* The records and their indexes.                                          *)
(***************************************************************************)

\* No call rewrites or removes a record: record_retirement only appends.
THEOREM RecordsOnlyGrow == RegistrySpec => RecordsAreAppendOnly
<1>1. RegistryTypeOK /\ [RegistryNext]_registryVars
      => [ /\ Len(records') >= Len(records)
           /\ SubSeq(records', 1, Len(records)) = records ]_registryVars
  <2> SUFFICES ASSUME RegistryTypeOK, [RegistryNext]_registryVars
               PROVE  /\ Len(records') >= Len(records)
                      /\ SubSeq(records', 1, Len(records)) = records
    OBVIOUS
  <2>1. records \in Seq(Records) /\ Len(records) \in Nat
    BY LenProperties DEF RegistryTypeOK
  <2>2. CASE \E c \in Callers, r \in Retirees, p \in Projects, n \in Retirements :
               RecordRetirement(c, r, p, n)
    <3>1. PICK c \in Callers, r \in Retirees, p \in Projects, n \in Retirements :
            RecordRetirement(c, r, p, n)
      BY <2>2
    <3> DEFINE new == [retiree |-> r, project |-> p, token |-> c, amount |-> n]
    <3>2. new \in Records
      BY <3>1, NewRecordTypes DEF RecordRetirement
    <3>3. records' = Append(records, new)
      BY <3>1 DEF RecordRetirement
    <3> HIDE DEF new
    <3>4. /\ records' \in Seq(Records)
          /\ Len(records') = Len(records) + 1
          /\ \A i \in 1 .. Len(records) : records'[i] = records[i]
      BY <2>1, <3>2, <3>3, AppendProperties
    <3>5. /\ SubSeq(records', 1, Len(records)) \in Seq(Records)
          /\ Len(SubSeq(records', 1, Len(records))) = Len(records)
          /\ \A i \in 1 .. Len(records) : SubSeq(records', 1, Len(records))[i] = records'[i]
      BY <2>1, <3>4, SubSeqProperties
    <3>6. SubSeq(records', 1, Len(records)) = records
      BY <2>1, <3>4, <3>5, SeqEqual
    <3> QED
      BY <2>1, <3>4, <3>6
  <2>3. CASE UNCHANGED <<records, totalRecorded, byRetiree, byProject>>
    BY <2>1, <2>3, SubSeqFull
  <2> QED
    BY <2>2, <2>3, RegistrySteps
<1> QED
  BY <1>1, RegistryTypes, PTL DEF RegistrySpec, RecordsAreAppendOnly

--------------------------------------------------------------------------------
(***************************************************************************)
(* The pages.  The inductive invariant says of every index that the        *)
(* records its entries name are those a scan finds, in the same order.     *)
(***************************************************************************)

\* The records that an index names.
Listed(s, index) == [j \in DOMAIN index |-> s[index[j]]]

IndexesAreScans ==
  /\ \A r \in Retirees : Listed(records, byRetiree[r]) = Those(r, "retiree")
  /\ \A p \in Projects : Listed(records, byProject[p]) = Those(p, "project")

LEMMA ListedTypes ==
  ASSUME NEW T, NEW s \in Seq(T), NEW index \in Seq(1 .. Len(s))
  PROVE  /\ Listed(s, index) \in Seq(T)
         /\ Len(Listed(s, index)) = Len(index)
         /\ \A j \in 1 .. Len(index) : Listed(s, index)[j] = s[index[j]] /\ s[index[j]] \in T
<1>1. Len(index) \in Nat /\ DOMAIN index = 1 .. Len(index)
  BY LenProperties
<1>2. \A j \in 1 .. Len(index) : index[j] \in 1 .. Len(s)
  BY ElementOfSeq
<1>3. \A j \in 1 .. Len(index) : s[index[j]] \in T
  BY <1>2, ElementOfSeq
<1> DEFINE l == [j \in 1 .. Len(index) |-> s[index[j]]]
<1>4. l \in Seq(T) /\ Len(l) = Len(index)
  BY <1>1, <1>3
<1>5. Listed(s, index) = l
  BY <1>1 DEF Listed
<1> QED
  BY <1>3, <1>4, <1>5

\* What an index names stays the same when records are appended, and the id of
\* the appended record names it.
LEMMA ListedAppends ==
  ASSUME NEW T, NEW s \in Seq(T), NEW e \in T, NEW index \in Seq(1 .. Len(s)),
         NEW next, next = Len(s) + 1
  PROVE  /\ Listed(Append(s, e), index) = Listed(s, index)
         /\ Listed(Append(s, e), Append(index, next)) = Append(Listed(s, index), e)
<1> DEFINE t == Append(s, e)
           m == Len(index)
           longer == Append(index, next)
<1>1. Len(s) \in Nat /\ m \in Nat /\ DOMAIN index = 1 .. m
  BY LenProperties
<1>2. /\ t \in Seq(T) /\ Len(t) = Len(s) + 1
      /\ \A i \in 1 .. Len(s) : t[i] = s[i]
      /\ t[next] = e
  BY AppendProperties
<1>3. index \in Seq(1 .. Len(t)) /\ next \in 1 .. Len(t)
  <2>1. 1 .. Len(s) \subseteq 1 .. Len(t)
    BY <1>1, <1>2
  <2>2. next \in 1 .. Len(t)
    BY <1>1, <1>2
  <2> HIDE DEF t
  <2> QED
    BY <2>1, <2>2, SeqMonotonic
<1>4. /\ longer \in Seq(1 .. Len(t)) /\ Len(longer) = m + 1
      /\ \A i \in 1 .. m : longer[i] = index[i]
      /\ longer[m + 1] = next
  <2> HIDE DEF t
  <2> QED
    BY <1>3, AppendProperties
<1> HIDE DEF t, longer
<1>5. \A j \in 1 .. m : index[j] \in 1 .. Len(s)
  BY ElementOfSeq
<1>6. \A j \in 1 .. m : t[index[j]] = s[index[j]]
  BY <1>2, <1>5
<1>7. Listed(t, index) = Listed(s, index)
  BY <1>1, <1>6 DEF Listed
<1>8. /\ Listed(t, longer) \in Seq(T)
      /\ Len(Listed(t, longer)) = m + 1
      /\ \A j \in 1 .. m + 1 : Listed(t, longer)[j] = t[longer[j]]
  BY <1>2, <1>4, ListedTypes
<1>9. /\ Listed(s, index) \in Seq(T)
      /\ Len(Listed(s, index)) = m
      /\ \A j \in 1 .. m : Listed(s, index)[j] = s[index[j]]
  BY ListedTypes
<1> DEFINE l == Listed(s, index)
<1> HIDE DEF l, m
<1>10. /\ Append(l, e) \in Seq(T)
       /\ Len(Append(l, e)) = m + 1
       /\ \A j \in 1 .. m : Append(l, e)[j] = l[j]
       /\ Append(l, e)[m + 1] = e
  BY <1>9, AppendProperties DEF l
<1>11. \A j \in 1 .. m + 1 : Listed(t, longer)[j] = Append(l, e)[j]
  <2> TAKE j \in 1 .. m + 1
  <2>1. CASE j \in 1 .. m
    <3>1. Listed(t, longer)[j] = t[index[j]]
      BY <1>4, <1>8, <2>1
    <3>2. Append(l, e)[j] = s[index[j]]
      BY <1>9, <1>10, <2>1 DEF l
    <3> QED
      BY <1>6, <2>1, <3>1, <3>2
  <2>2. CASE j = m + 1
    <3>1. Listed(t, longer)[m + 1] = t[longer[m + 1]]
      BY <1>8, <2>2
    <3> QED
      BY <1>2, <1>4, <1>10, <2>2, <3>1
  <2>3. m \in Nat
    BY <1>1
  <2>4. j \in 1 .. m \/ j = m + 1
    BY <2>3
  <2> QED
    BY <2>1, <2>2, <2>4
<1>12. Listed(t, longer) = Append(l, e)
  BY <1>8, <1>10, <1>11, SeqEqual
<1> QED
  BY <1>7, <1>12 DEF t, longer, l

\* A scan of all records finds the appended one too, if it is looked for.
LEMMA ScanAppends ==
  ASSUME NEW key, NEW field, NEW new \in Records, records \in Seq(Records),
         records' = Append(records, new)
  PROVE  Those(key, field)' = IF new[field] = key THEN Append(Those(key, field), new)
                                                  ELSE Those(key, field)
<1> DEFINE S == {r \in Range(records) : r[field] = key}
           R == {r \in Range(records') : r[field] = key}
<1>1. Range(records') = Range(records) \cup {new}
  BY AppendedRange
<1>2. \A x \in Range(records) : x \in S <=> x \in R
  BY <1>1
<1>3. Chosen(records', R) = IF new \in R THEN Append(Chosen(records, S), new)
                                         ELSE Chosen(records, S)
  <2> HIDE DEF R, S
  <2> QED
    BY <1>2, ChosenExtends
<1>4. new \in R <=> new[field] = key
  BY <1>1
<1> HIDE DEF R, S
<1>5. Chosen(records', R) = IF new[field] = key THEN Append(Chosen(records, S), new)
                                                ELSE Chosen(records, S)
  BY <1>3, <1>4
<1> QED
  BY <1>5 DEF Those, R, S

LEMMA ScansInit == RegistryInit => IndexesAreScans
<1> SUFFICES ASSUME RegistryInit PROVE IndexesAreScans
  OBVIOUS
<1>1. \A s : Listed(s, <<>>) = <<>>
  BY DEF Listed
<1>2. \A key, field : Those(key, field) = <<>>
  BY ChosenOfNone DEF RegistryInit, Those
<1>3. \A r \in Retirees : byRetiree[r] = <<>>
  BY DEF RegistryInit
<1>4. \A p \in Projects : byProject[p] = <<>>
  BY DEF RegistryInit
<1> QED
  BY <1>1, <1>2, <1>3, <1>4 DEF IndexesAreScans

\* What one key's list names, filed under the new record's key or left alone.
LEMMA OneListFiled ==
  ASSUME NEW key, NEW field, NEW new \in Records, records \in Seq(Records),
         records' = Append(records, new),
         NEW list \in Seq(1 .. Len(records)), Listed(records, list) = Those(key, field)
  PROVE  Listed(records', IF key = new[field] THEN Append(list, NextId) ELSE list)
         = Those(key, field)'
<1>1. NextId = Len(records) + 1
  BY DEF NextId
<1>2. /\ Listed(records', list) = Listed(records, list)
      /\ Listed(records', Append(list, NextId)) = Append(Listed(records, list), new)
  BY <1>1, ListedAppends
<1>3. Those(key, field)' = IF new[field] = key THEN Append(Those(key, field), new)
                                               ELSE Those(key, field)
  BY ScanAppends
<1>4. CASE key = new[field]
  BY <1>2, <1>3, <1>4
<1>5. CASE key # new[field]
  BY <1>2, <1>3, <1>5
<1> QED
  BY <1>4, <1>5

LEMMA ScansKept ==
  ASSUME RegistryTypeOK, IndexesAreScans, [RegistryNext]_registryVars
  PROVE  IndexesAreScans'
<1>1. CASE \E c \in Callers, r \in Retirees, p \in Projects, n \in Retirements :
             RecordRetirement(c, r, p, n)
  <2>1. PICK c \in Callers, r \in Retirees, p \in Projects, n \in Retirements :
          RecordRetirement(c, r, p, n)
    BY <1>1
  <2> DEFINE new == [retiree |-> r, project |-> p, token |-> c, amount |-> n]
  <2>2. new \in Records /\ new["retiree"] = r /\ new["project"] = p
    BY <2>1, NewRecordTypes DEF RecordRetirement
  <2>3. records' = Append(records, new) /\ records \in Seq(Records)
    BY <2>1 DEF RecordRetirement, RegistryTypeOK
  <2>4. byRetiree' = Filed(byRetiree, r) /\ byProject' = Filed(byProject, p)
    BY <2>1 DEF RecordRetirement
  <2> HIDE DEF new
  <2> new \in Records
    BY <2>2
  <2>6. ASSUME NEW k \in Retirees PROVE Listed(records', byRetiree'[k]) = Those(k, "retiree")'
    <3>1. byRetiree[k] \in Seq(1 .. Len(records)) /\ byRetiree \in [Retirees -> Seq(1 .. Len(records))]
      BY DEF RegistryTypeOK
    <3>2. Listed(records, byRetiree[k]) = Those(k, "retiree")
      BY DEF IndexesAreScans
    <3>3. byRetiree' = [byRetiree EXCEPT ![r] = Append(@, NextId)]
      BY <2>4 DEF Filed
    <3>4. byRetiree'[k] = IF k = r THEN Append(byRetiree[k], NextId) ELSE byRetiree[k]
      BY <3>1, <3>3, Zenon
    <3>5. byRetiree'[k] = IF k = new["retiree"] THEN Append(byRetiree[k], NextId) ELSE byRetiree[k]
      BY <2>2, <3>4
    <3>6. Listed(records', IF k = new["retiree"] THEN Append(byRetiree[k], NextId) ELSE byRetiree[k])
          = Those(k, "retiree")'
      BY <2>3, <3>1, <3>2, OneListFiled
    <3> QED
      BY <3>5, <3>6
  <2>7. ASSUME NEW k \in Projects PROVE Listed(records', byProject'[k]) = Those(k, "project")'
    <3>1. byProject[k] \in Seq(1 .. Len(records)) /\ byProject \in [Projects -> Seq(1 .. Len(records))]
      BY DEF RegistryTypeOK
    <3>2. Listed(records, byProject[k]) = Those(k, "project")
      BY DEF IndexesAreScans
    <3>3. byProject' = [byProject EXCEPT ![p] = Append(@, NextId)]
      BY <2>4 DEF Filed
    <3>4. byProject'[k] = IF k = p THEN Append(byProject[k], NextId) ELSE byProject[k]
      BY <3>1, <3>3, Zenon
    <3>5. byProject'[k] = IF k = new["project"] THEN Append(byProject[k], NextId) ELSE byProject[k]
      BY <2>2, <3>4
    <3>6. Listed(records', IF k = new["project"] THEN Append(byProject[k], NextId) ELSE byProject[k])
          = Those(k, "project")'
      BY <2>3, <3>1, <3>2, OneListFiled
    <3> QED
      BY <3>5, <3>6
  <2> QED
    BY <2>6, <2>7 DEF IndexesAreScans
<1>2. CASE UNCHANGED <<records, totalRecorded, byRetiree, byProject>>
  BY <1>2 DEF IndexesAreScans, Those
<1> QED
  BY <1>1, <1>2, RegistrySteps

\* A page is cut from what its index names.
LEMMA PageIsCut ==
  ASSUME records \in Seq(Records), NEW index \in Seq(1 .. Len(records)),
         NEW offset \in Nat, NEW limit \in Nat
  PROVE  Page(index, offset, limit) = Cut(Listed(records, index), offset, limit)
<1> DEFINE m == Len(index)
           last == IF offset + limit < m THEN offset + limit ELSE m
           l == Listed(records, index)
<1>1. m \in Nat /\ last \in Nat /\ last <= m
  BY LenProperties
<1>2. /\ l \in Seq(Records) /\ Len(l) = m
      /\ \A j \in 1 .. m : l[j] = records[index[j]] /\ l[j] \in Records
  BY ListedTypes
<1>3. Page(index, offset, limit) = [i \in 1 .. last - offset |-> records[index[offset + i]]]
  BY DEF Page
<1>4. Cut(l, offset, limit) = SubSeq(l, offset + 1, last)
  BY <1>2 DEF Cut
<1> HIDE DEF m, last, l
<1>5. CASE last < offset + 1
  <2>1. SubSeq(l, offset + 1, last) = <<>>
    BY <1>1, <1>5, SubSeqEmpty
  <2>2. 1 .. last - offset = {}
    BY <1>1, <1>5
  <2>3. [i \in 1 .. last - offset |-> records[index[offset + i]]] = <<>>
    BY <2>2
  <2> QED
    BY <1>3, <1>4, <2>1, <2>3 DEF l
<1>6. CASE offset + 1 <= last
  <2> DEFINE n == last - offset
             page == [i \in 1 .. n |-> records[index[offset + i]]]
             cut == SubSeq(l, offset + 1, last)
  <2>1. n \in Nat /\ last - (offset + 1) + 1 = n
    BY <1>1, <1>6
  <2>2. \A j \in offset + 1 .. last : j \in 1 .. m
    BY <1>1
  <2>3. /\ cut \in Seq(Records)
        /\ Len(cut) = n
        /\ \A i \in 1 .. n : cut[i] = l[(offset + 1) + i - 1]
    <3>1. \A j \in offset + 1 .. last : l[j] \in Records
      BY <1>2, <2>2
    <3> QED
      BY <1>1, <1>6, <2>1, <3>1, SubSeqProperties
  <2>4. \A i \in 1 .. n : (offset + 1) + i - 1 = offset + i /\ offset + i \in 1 .. m
    BY <1>1, <2>1
  <2>5. \A i \in 1 .. n : page[i] = l[offset + i] /\ page[i] \in Records
    BY <1>2, <2>4
  <2>6. page \in Seq(Records) /\ Len(page) = n
    <3> HIDE DEF n
    <3> QED
      BY <2>1, <2>5
  <2>7. \A i \in 1 .. n : page[i] = cut[i]
    BY <2>3, <2>4, <2>5
  <2> HIDE DEF page, cut, n
  <2>8. page = cut
    BY <2>3, <2>6, <2>7, SeqEqual
  <2> QED
    BY <1>3, <1>4, <2>8 DEF page, cut, n, l
<1> QED
  BY <1>1, <1>5, <1>6

\* The pages read by retiree and by project, from any offset and of any length,
\* are what a scan of all records finds: record_retirement files every record in
\* both indexes, and get_retirements_by_retiree and get_retirements_by_project
\* miss, repeat and reorder none.
THEOREM PagesComplete == RegistrySpec => []PagesAreTheRecords
<1>1. RegistryTypeOK /\ IndexesAreScans /\ [RegistryNext]_registryVars => IndexesAreScans'
  BY ScansKept
<1>2. RegistryTypeOK /\ IndexesAreScans => PagesAreTheRecords
  <2> SUFFICES ASSUME RegistryTypeOK, IndexesAreScans,
                      NEW offset \in 0 .. Len(records), NEW limit \in 0 .. Len(records)
               PROVE  /\ \A r \in Retirees : GetRetirementsByRetiree(r, offset, limit)
                                             = Cut(Those(r, "retiree"), offset, limit)
                      /\ \A p \in Projects : GetRetirementsByProject(p, offset, limit)
                                             = Cut(Those(p, "project"), offset, limit)
    BY DEF PagesAreTheRecords
  <2>1. records \in Seq(Records) /\ offset \in Nat /\ limit \in Nat
    BY DEF RegistryTypeOK
  <2>2. ASSUME NEW r \in Retirees
        PROVE  GetRetirementsByRetiree(r, offset, limit) = Cut(Those(r, "retiree"), offset, limit)
    <3>1. byRetiree[r] \in Seq(1 .. Len(records))
      BY DEF RegistryTypeOK
    <3>2. Page(byRetiree[r], offset, limit) = Cut(Listed(records, byRetiree[r]), offset, limit)
      BY <2>1, <3>1, PageIsCut
    <3> QED
      BY <3>2 DEF GetRetirementsByRetiree, IndexesAreScans
  <2>3. ASSUME NEW p \in Projects
        PROVE  GetRetirementsByProject(p, offset, limit) = Cut(Those(p, "project"), offset, limit)
    <3>1. byProject[p] \in Seq(1 .. Len(records))
      BY DEF RegistryTypeOK
    <3>2. Page(byProject[p], offset, limit) = Cut(Listed(records, byProject[p]), offset, limit)
      BY <2>1, <3>1, PageIsCut
    <3> QED
      BY <3>2 DEF GetRetirementsByProject, IndexesAreScans
  <2> QED
    BY <2>2, <2>3
<1> QED
  BY <1>1, <1>2, ScansInit, RegistryTypes, PTL DEF RegistrySpec

--------------------------------------------------------------------------------
(***************************************************************************)
(* The token and the registry together.  Only retire touches both; the     *)
(* proofs sort a step by what it does to certificates and records.         *)
(***************************************************************************)

CertsKept == UNCHANGED <<certs, totalRetired>>
RecordsKept == UNCHANGED <<records, totalRecorded, byRetiree, byProject>>

\* The token's calls other than retire issue no certificate.
LEMMA OtherCallsKeepCerts ==
  ASSUME TokenOnly
  PROVE  CertsKept
<1> USE DEF totals, holdings, roles, CertsKept
<1>1. ASSUME NEW c, Administer(c) PROVE CertsKept
  <2>1. ASSUME NEW a, NEW d, ProposeAdmin(c, a, d) PROVE CertsKept
    BY <2>1 DEF ProposeAdmin
  <2>2. ASSUME NEW a, \/ SetAdmin(c, a) \/ SetMinter(c, a) \/ SetPauseGuardian(c, a)
                      \/ SetBridge(c, a) \/ SetRetirementRegistry(c, a)
                      \/ SetRequireRegistry(c, a) \/ SetMaxSupply(c, a)
        PROVE  CertsKept
    BY <2>1, <2>2 DEF SetAdmin, SetMinter, SetPauseGuardian, SetBridge,
                      SetRetirementRegistry, SetRequireRegistry, SetMaxSupply
  <2>3. ASSUME AcceptAdmin(c) \/ CancelAdminProposal(c) \/ Pause(c) \/ Unpause(c)
        PROVE  CertsKept
    BY <2>3 DEF AcceptAdmin, CancelAdminProposal, Pause, Unpause, SetPaused
  <2> QED
    BY <1>1, <2>1, <2>2, <2>3 DEF Administer
<1>2. ASSUME NEW c, Issue(c) PROVE CertsKept
  BY <1>2 DEF Issue, MintTo, BatchMintTo
<1>3. ASSUME NEW c, Move(c) PROVE CertsKept
  BY <1>3 DEF Move, Transfer, BatchTransfer, TransferFrom, Approve
<1>4. ASSUME NEW c, NEW from, NEW n, Burn(c, from, n) \/ BurnWithReason(c, from, n)
      PROVE  CertsKept
  BY <1>4 DEF Burn, BurnByBridge, BurnByAdmin, BurnWithReason, DestroyBurned
<1>5. CASE CloseLedger
  BY <1>5 DEF CloseLedger
<1> QED
  BY <1>1, <1>2, <1>3, <1>4, <1>5 DEF TokenOnly

\* A retirement, recorded or not; a record by somebody else; or neither.
LEMMA TrailSteps ==
  ASSUME [TrailNext]_trailVars
  PROVE  \/ \E holder \in Address, n \in Amounts : RetireRecorded(holder, n)
         \/ /\ CertsKept
            /\ \E c \in Callers \ {Token}, r \in Retirees, p \in Projects, n \in Retirements :
                 RecordRetirement(c, r, p, n)
         \/ CertsKept /\ RecordsKept
<1>1. CASE TokenOnly
  BY <1>1, OtherCallsKeepCerts DEF TokenOnly, registryVars, RecordsKept
<1>2. CASE RegistryOnly
  <2>1. CertsKept
    BY <1>2 DEF RegistryOnly, vars, totals, CertsKept
  <2>2. ASSUME NEW caller, NEW c, NEW allowed, SetAuthorizedCaller(caller, c, allowed)
        PROVE  RecordsKept
    BY <2>2 DEF SetAuthorizedCaller, RecordsKept
  <2> QED
    BY <1>2, <2>1, <2>2 DEF RegistryOnly
<1>3. CASE UNCHANGED trailVars
  BY <1>3 DEF trailVars, vars, totals, registryVars, CertsKept, RecordsKept
<1> QED
  BY <1>1, <1>2, <1>3 DEF TrailNext

\* To the registry, a step of both is one of its own calls or none of its affairs.
LEMMA TrailIsRegistryStep ==
  ASSUME [TrailNext]_trailVars
  PROVE  [RegistryNext]_registryVars
<1>1. CASE \E holder \in Address, n \in Amounts : RetireRecorded(holder, n)
  <2>1. PICK holder \in Address, n \in Amounts : RetireRecorded(holder, n)
    BY <1>1
  <2>2. /\ Token \in Callers /\ holder \in Retirees /\ Project \in Projects
        /\ n \in Retirements
    BY TrailAssumption
  <2>3. CASE RecordRetirement(Token, holder, Project, n)
    BY <2>2, <2>3 DEF RegistryNext
  <2>4. CASE UNCHANGED registryVars
    BY <2>4
  <2> QED
    BY <2>1, <2>3, <2>4 DEF RetireRecorded
<1>2. CASE TokenOnly
  BY <1>2 DEF TokenOnly
<1>3. CASE RegistryOnly
  BY <1>3 DEF RegistryOnly, RegistryNext
<1>4. CASE UNCHANGED trailVars
  BY <1>4 DEF trailVars
<1> QED
  BY <1>1, <1>2, <1>3, <1>4 DEF TrailNext

\* With a token linked to it, the registry behaves as it does alone, so that what
\* is proved of the registry holds of it next to any token: its total, its
\* append-only records and its pages.
THEOREM TrailRunsRegistry == TrailSpec => RegistrySpec
<1>1. TrailInit => RegistryInit
  BY DEF TrailInit
<1>2. [TrailNext]_trailVars => [RegistryNext]_registryVars
  BY TrailIsRegistryStep
<1> QED
  BY <1>1, <1>2, PTL DEF TrailSpec, RegistrySpec

\* With a registry linked to it, the token behaves as it does alone, when any id
\* a registry gives out is among those a registry may answer: the token's
\* conservation, backing and refinement theorems hold next to the registry.
THEOREM TrailRunsToken ==
  ASSUME Nat \ {0} \subseteq RecordIds
  PROVE  TrailSpec => Spec
<1>1. TrailInit => Init
  BY DEF TrailInit
<1>2. RegistryTypeOK /\ [TrailNext]_trailVars => [Next]_vars
  <2> SUFFICES ASSUME RegistryTypeOK, [TrailNext]_trailVars PROVE [Next]_vars
    OBVIOUS
  <2>1. ASSUME NEW holder \in Address, NEW n \in Amounts, RetireRecorded(holder, n)
        PROVE  Next
    <3>1. records \in Seq(Records)
      BY DEF RegistryTypeOK
    <3>2. NextId \in RecordIds
      <4>1. Len(records) \in Nat
        BY <3>1, LenProperties
      <4> QED
        BY <4>1 DEF NextId
    <3>3. \E r \in RecordIds \cup {NoRecord} : Retire(holder, n, r)
      BY <2>1, <3>2 DEF RetireRecorded
    <3> QED
      BY <3>3 DEF Destroy, Next
  <2>2. CASE TokenOnly
    BY <2>2 DEF TokenOnly, Next, Destroy
  <2>3. CASE RegistryOnly
    BY <2>3 DEF RegistryOnly
  <2>4. CASE UNCHANGED trailVars
    BY <2>4 DEF trailVars
  <2> QED
    BY <2>1, <2>2, <2>3, <2>4 DEF TrailNext
<1> QED
  BY <1>1, <1>2, TrailRunsRegistry, RegistryTypes, PTL DEF TrailSpec, Spec

\* While the token is linked to the registry and not authorized there, nobody
\* retires: retire's call of record_retirement panics and takes it along.
THEOREM NothingOffTheRecord == TrailSpec => NoRetirementOffTheRecord
<1>1. [TrailNext]_trailVars
      => [ registry # NoAddress /\ Token \notin authorized
           => UNCHANGED <<certs, totalRetired>> ]_trailVars
  <2> SUFFICES ASSUME [TrailNext]_trailVars, registry # NoAddress, Token \notin authorized
               PROVE  UNCHANGED <<certs, totalRetired>>
    OBVIOUS
  <2>1. Token # RegistryAdmin
    BY TrailAssumption
  <2>2. ASSUME NEW holder, NEW n PROVE ~RetireRecorded(holder, n)
    BY <2>1 DEF RetireRecorded, RecordRetirement
  <2> QED
    BY <2>2, TrailSteps DEF CertsKept
<1> QED
  BY <1>1, PTL DEF TrailSpec, NoRetirementOffTheRecord

--------------------------------------------------------------------------------
(***************************************************************************)
(* Certificates and records.  The certificate a record calls for follows   *)
(* from the record and its id; the invariant compares the certificates     *)
(* with those that the token's own records call for.                       *)
(***************************************************************************)

Stamped(s) == [i \in DOMAIN s |-> Certificate(s[i].retiree, s[i].amount, i)]
OwnIds(s) == Chosen([i \in DOMAIN s |-> i], {i \in DOMAIN s : s[i].token = Token})
Recorded(cs) == Chosen(cs, {c \in Range(cs) : c.record # NoRecord})

CertsMatch ==
  /\ certs \in Seq(Certificates)
  /\ Recorded(certs) = Listed(Stamped(records), OwnIds(records))

LEMMA StampedTypes ==
  ASSUME NEW s \in Seq(Records)
  PROVE  /\ Stamped(s) \in Seq(Certificates)
         /\ Len(Stamped(s)) = Len(s)
         /\ \A i \in 1 .. Len(s) :
              /\ Stamped(s)[i] = Certificate(s[i].retiree, s[i].amount, i)
              /\ Certificate(s[i].retiree, s[i].amount, i) \in Certificates
<1> DEFINE n == Len(s)
           cert(i) == Certificate(s[i].retiree, s[i].amount, i)
           stamped == [i \in 1 .. n |-> cert(i)]
<1>1. n \in Nat /\ DOMAIN s = 1 .. n
  BY LenProperties
<1>2. \A i \in 1 .. n : s[i] \in Records
  BY ElementOfSeq
<1>3. ASSUME NEW i \in 1 .. n PROVE cert(i) \in Certificates
  <2>1. s[i].retiree \in Address /\ s[i].amount \in Nat
    BY <1>2, TrailAssumption DEF Records
  <2>2. i \in Nat
    OBVIOUS
  <2> QED
    BY <2>1, <2>2 DEF Certificate, Certificates
<1> HIDE DEF cert, n
<1>4. stamped \in Seq(Certificates) /\ Len(stamped) = n
  BY <1>1, <1>3
<1>5. Stamped(s) = stamped
  BY <1>1 DEF Stamped, cert
<1> QED
  BY <1>3, <1>4, <1>5 DEF n, cert

LEMMA StampedAppends ==
  ASSUME NEW s \in Seq(Records), NEW e \in Records
  PROVE  Stamped(Append(s, e))
         = Append(Stamped(s), Certificate(e.retiree, e.amount, Len(s) + 1))
<1> DEFINE t == Append(s, e)
           n == Len(s)
           new == Certificate(e.retiree, e.amount, n + 1)
<1>1. n \in Nat
  BY LenProperties
<1>2. /\ t \in Seq(Records) /\ Len(t) = n + 1
      /\ \A i \in 1 .. n : t[i] = s[i]
      /\ t[n + 1] = e
  BY AppendProperties
<1> HIDE DEF t
<1>3. /\ Stamped(t) \in Seq(Certificates) /\ Len(Stamped(t)) = n + 1
      /\ \A i \in 1 .. n + 1 : /\ Stamped(t)[i] = Certificate(t[i].retiree, t[i].amount, i)
                               /\ Stamped(t)[i] \in Certificates
  BY <1>2, StampedTypes
<1>4. /\ Stamped(s) \in Seq(Certificates) /\ Len(Stamped(s)) = n
      /\ \A i \in 1 .. n : Stamped(s)[i] = Certificate(s[i].retiree, s[i].amount, i)
  BY StampedTypes
<1>5. Stamped(t)[n + 1] = new /\ new \in Certificates
  <2>1. n + 1 \in 1 .. n + 1
    BY <1>1
  <2> QED
    BY <1>2, <1>3, <2>1
<1> HIDE DEF new, n
<1>6. /\ Append(Stamped(s), new) \in Seq(Certificates)
      /\ Len(Append(Stamped(s), new)) = n + 1
      /\ \A i \in 1 .. n : Append(Stamped(s), new)[i] = Stamped(s)[i]
      /\ Append(Stamped(s), new)[n + 1] = new
  BY <1>4, <1>5, AppendProperties
<1>7. ASSUME NEW i \in 1 .. n + 1 PROVE Stamped(t)[i] = Append(Stamped(s), new)[i]
  <2>1. CASE i \in 1 .. n
    <3>1. Stamped(t)[i] = Certificate(t[i].retiree, t[i].amount, i) /\ t[i] = s[i]
      BY <1>2, <1>3, <2>1
    <3>2. Append(Stamped(s), new)[i] = Certificate(s[i].retiree, s[i].amount, i)
      BY <1>4, <1>6, <2>1
    <3> QED
      BY <3>1, <3>2
  <2>2. CASE i = n + 1
    BY <1>5, <1>6, <2>2
  <2>3. i \in 1 .. n \/ i = n + 1
    BY <1>1
  <2> QED
    BY <2>1, <2>2, <2>3
<1>8. Stamped(t) = Append(Stamped(s), new)
  BY <1>3, <1>6, <1>7, SeqEqual
<1> QED
  BY <1>8 DEF t, new, n

\* The ids of the token's own records: the next id joins them if its record is
\* the token's.
LEMMA OwnIdsAppend ==
  ASSUME NEW s \in Seq(Records), NEW e \in Records
  PROVE  /\ OwnIds(s) \in Seq(1 .. Len(s))
         /\ OwnIds(Append(s, e)) = IF e.token = Token THEN Append(OwnIds(s), Len(s) + 1)
                                                      ELSE OwnIds(s)
<1> DEFINE t == Append(s, e)
           n == Len(s)
           S == {i \in DOMAIN s : s[i].token = Token}
           R == {i \in DOMAIN t : t[i].token = Token}
<1>1. n \in Nat /\ DOMAIN s = 1 .. n
  BY LenProperties
<1>2. /\ t \in Seq(Records) /\ Len(t) = n + 1
      /\ \A i \in 1 .. n : t[i] = s[i]
      /\ t[n + 1] = e
  BY AppendProperties
<1>3. DOMAIN t = 1 .. n + 1
  BY <1>2, LenProperties
<1> HIDE DEF t, n
<1>4. \A i \in 1 .. n : i \in S <=> i \in R
  <2>1. \A i \in 1 .. n : i \in 1 .. n + 1
    BY <1>1
  <2> QED
    BY <1>1, <1>2, <1>3, <2>1
<1>5. n + 1 \in R <=> e.token = Token
  <2>1. n + 1 \in 1 .. n + 1
    BY <1>1
  <2> QED
    BY <1>2, <1>3, <2>1
<1>6. OwnIds(s) = Chosen([i \in 1 .. n |-> i], S)
  BY <1>1 DEF OwnIds
<1>7. OwnIds(t) = Chosen([i \in 1 .. n + 1 |-> i], R)
  BY <1>3 DEF OwnIds
<1> HIDE DEF S, R
<1>8. Chosen([i \in 1 .. n |-> i], S) \in Seq(1 .. n)
  BY <1>1, ChosenNumbers
<1>9. Chosen([i \in 1 .. n + 1 |-> i], R)
      = IF n + 1 \in R THEN Append(Chosen([i \in 1 .. n |-> i], S), n + 1)
                       ELSE Chosen([i \in 1 .. n |-> i], S)
  BY <1>1, <1>4, ChosenNumbersExtend
<1> QED
  BY <1>5, <1>6, <1>7, <1>8, <1>9 DEF t, n

\* Appending a record stamps one certificate more if the record is the token's.
LEMMA OwnCertsAppend ==
  ASSUME NEW s \in Seq(Records), NEW e \in Records
  PROVE  Listed(Stamped(Append(s, e)), OwnIds(Append(s, e)))
         = IF e.token = Token
             THEN Append(Listed(Stamped(s), OwnIds(s)),
                         Certificate(e.retiree, e.amount, Len(s) + 1))
             ELSE Listed(Stamped(s), OwnIds(s))
<1> DEFINE c == Stamped(s)
           ids == OwnIds(s)
           new == Certificate(e.retiree, e.amount, Len(s) + 1)
<1>1. c \in Seq(Certificates) /\ Len(c) = Len(s)
  BY StampedTypes
<1>2. ids \in Seq(1 .. Len(s))
  BY OwnIdsAppend
<1>3. Stamped(Append(s, e)) = Append(c, new)
  BY StampedAppends
<1>4. new \in Certificates
  <2>1. e.retiree \in Address /\ e.amount \in Nat /\ Len(s) + 1 \in Nat
    BY TrailAssumption, LenProperties DEF Records
  <2> QED
    BY <2>1 DEF Certificate, Certificates
<1> DEFINE next == Len(s) + 1
<1>5. OwnIds(Append(s, e)) = IF e.token = Token THEN Append(ids, next) ELSE ids
  BY OwnIdsAppend
<1>6. next = Len(c) + 1 /\ ids \in Seq(1 .. Len(c))
  BY <1>1, <1>2
<1> HIDE DEF c, ids, new, next
<1>7. /\ Listed(Append(c, new), ids) = Listed(c, ids)
      /\ Listed(Append(c, new), Append(ids, next)) = Append(Listed(c, ids), new)
  BY <1>1, <1>4, <1>6, ListedAppends
<1>8. Listed(Stamped(Append(s, e)), OwnIds(Append(s, e)))
      = IF e.token = Token THEN Append(Listed(c, ids), new) ELSE Listed(c, ids)
  BY <1>3, <1>5, <1>7
<1> QED
  BY <1>8 DEF c, ids, new

LEMMA RecordedAppends ==
  ASSUME NEW cs \in Seq(Certificates), NEW c \in Certificates
  PROVE  Recorded(Append(cs, c)) = IF c.record # NoRecord THEN Append(Recorded(cs), c)
                                                          ELSE Recorded(cs)
<1> DEFINE S == {x \in Range(cs) : x.record # NoRecord}
           R == {x \in Range(Append(cs, c)) : x.record # NoRecord}
<1>1. Range(Append(cs, c)) = Range(cs) \cup {c}
  BY AppendedRange
<1>2. \A x \in Range(cs) : x \in S <=> x \in R
  BY <1>1
<1>3. c \in R <=> c.record # NoRecord
  BY <1>1
<1>4. Chosen(Append(cs, c), R) = IF c \in R THEN Append(Chosen(cs, S), c) ELSE Chosen(cs, S)
  <2> HIDE DEF R, S
  <2> QED
    BY <1>2, ChosenExtends
<1> HIDE DEF R, S
<1>5. Chosen(Append(cs, c), R) = IF c.record # NoRecord THEN Append(Chosen(cs, S), c)
                                                        ELSE Chosen(cs, S)
  BY <1>3, <1>4
<1> QED
  BY <1>5 DEF Recorded, R, S

LEMMA MatchInit == TrailInit => CertsMatch
<1> SUFFICES ASSUME TrailInit PROVE CertsMatch
  OBVIOUS
<1>1. certs = <<>> /\ records = <<>>
  BY DEF TrailInit, Init, RegistryInit
<1>2. Recorded(<<>>) = <<>>
  BY ChosenOfNone DEF Recorded
<1>3. OwnIds(<<>>) = <<>>
  <2>1. [i \in DOMAIN <<>> |-> i] = <<>>
    OBVIOUS
  <2> QED
    BY <2>1, ChosenOfNone DEF OwnIds
<1>4. Listed(Stamped(<<>>), <<>>) = <<>>
  BY DEF Listed
<1> QED
  BY <1>1, <1>2, <1>3, <1>4, EmptySeq DEF CertsMatch

LEMMA MatchKept ==
  ASSUME RegistryTypeOK, CertsMatch, [TrailNext]_trailVars
  PROVE  CertsMatch'
<1>1. records \in Seq(Records) /\ certs \in Seq(Certificates) /\ Len(records) \in Nat
  BY LenProperties DEF RegistryTypeOK, CertsMatch
<1>2. Recorded(certs) = Listed(Stamped(records), OwnIds(records))
  BY DEF CertsMatch
<1>3. ASSUME NEW holder \in Address, NEW n \in Amounts, RetireRecorded(holder, n)
      PROVE  CertsMatch'
  <2>1. n \in Nat \ {0}
    BY <1>3, InputTypes DEF RetireRecorded, Retire
  <2>2. CASE registry = NoAddress /\ Retire(holder, n, NoRecord) /\ UNCHANGED registryVars
    <3> DEFINE c == Certificate(holder, n, NoRecord)
    <3>1. c \in Certificates /\ c.record = NoRecord
      BY <2>1 DEF Certificate, Certificates
    <3>2. certs' = Append(certs, c) /\ records' = records
      BY <2>2 DEF Retire, registryVars
    <3> HIDE DEF c
    <3>3. certs' \in Seq(Certificates) /\ Recorded(certs') = Recorded(certs)
      BY <1>1, <3>1, <3>2, AppendProperties, RecordedAppends
    <3> QED
      BY <1>2, <3>2, <3>3 DEF CertsMatch
  <2>3. CASE Retire(holder, n, NextId) /\ RecordRetirement(Token, holder, Project, n)
    <3> DEFINE c == Certificate(holder, n, NextId)
               e == [retiree |-> holder, project |-> Project, token |-> Token, amount |-> n]
    <3>1. NextId \in Nat /\ NextId = Len(records) + 1
      BY <1>1 DEF NextId
    <3>2. c \in Certificates /\ c.record # NoRecord
      BY <2>1, <3>1, NumberAssumption DEF Certificate, Certificates
    <3>3. certs' = Append(certs, c) /\ records' = Append(records, e)
      BY <2>3 DEF Retire, RecordRetirement
    <3>4. e \in Records
      BY <2>1, TrailAssumption, NewRecordTypes
    <3>5. e.token = Token /\ Certificate(e.retiree, e.amount, Len(records) + 1) = c
      BY <3>1
    <3> HIDE DEF c, e
    <3>6. certs' \in Seq(Certificates) /\ Recorded(certs') = Append(Recorded(certs), c)
      BY <1>1, <3>2, <3>3, AppendProperties, RecordedAppends
    <3>7. Listed(Stamped(records'), OwnIds(records'))
          = Append(Listed(Stamped(records), OwnIds(records)), c)
      BY <1>1, <3>3, <3>4, <3>5, OwnCertsAppend
    <3> QED
      BY <1>2, <3>6, <3>7 DEF CertsMatch
  <2> QED
    BY <1>3, <2>2, <2>3 DEF RetireRecorded
<1>4. ASSUME CertsKept, NEW t \in Callers \ {Token}, NEW r \in Retirees, NEW p \in Projects,
             NEW n \in Retirements, RecordRetirement(t, r, p, n)
      PROVE  CertsMatch'
  <2> DEFINE e == [retiree |-> r, project |-> p, token |-> t, amount |-> n]
  <2>1. e \in Records /\ e.token # Token
    BY <1>4, NewRecordTypes DEF RecordRetirement
  <2>2. records' = Append(records, e) /\ certs' = certs
    BY <1>4 DEF RecordRetirement, CertsKept
  <2> HIDE DEF e
  <2>3. Listed(Stamped(records'), OwnIds(records')) = Listed(Stamped(records), OwnIds(records))
    BY <1>1, <2>1, <2>2, OwnCertsAppend
  <2> QED
    BY <1>1, <1>2, <2>2, <2>3 DEF CertsMatch
<1>5. CASE CertsKept /\ RecordsKept
  BY <1>1, <1>2, <1>5 DEF CertsKept, RecordsKept, CertsMatch
<1> QED
  BY <1>3, <1>4, <1>5, TrailSteps

\* The certificates that name a record are the token's records, in the order they
\* were filed, with the same retiree and amount and the record's own id: retire
\* and record_retirement, among the records of other tokens and of the admin, and
\* with the link set or authorization withdrawn at any time.
THEOREM EveryCertificateIsRecorded == TrailSpec => []CertificatesMatchRecords
<1>1. RegistryTypeOK /\ CertsMatch /\ [TrailNext]_trailVars => CertsMatch'
  BY MatchKept
<1>2. RegistryTypeOK /\ CertsMatch => CertificatesMatchRecords
  <2> SUFFICES ASSUME RegistryTypeOK, CertsMatch PROVE CertificatesMatchRecords
    OBVIOUS
  <2> DEFINE ids == OwnIds(records)
  <2>1. records \in Seq(Records)
    BY DEF RegistryTypeOK
  <2>2. ids \in Seq(1 .. Len(records))
    <3>1. Len(records) \in Nat /\ DOMAIN records = 1 .. Len(records)
      BY <2>1, LenProperties
    <3> QED
      BY <3>1, ChosenNumbers DEF OwnIds
  <2>3. \A k \in DOMAIN ids : ids[k] \in 1 .. Len(records)
    BY <2>2, LenProperties, ElementOfSeq
  <2>4. \A k \in DOMAIN ids :
          Stamped(records)[ids[k]] = Certificate(records[ids[k]].retiree,
                                                 records[ids[k]].amount, ids[k])
    BY <2>1, <2>3, StampedTypes
  <2> HIDE DEF ids
  <2>5. Listed(Stamped(records), ids)
        = [k \in DOMAIN ids |-> Certificate(records[ids[k]].retiree,
                                            records[ids[k]].amount, ids[k])]
    BY <2>4 DEF Listed
  <2>6. Recorded(certs) = Listed(Stamped(records), ids)
    BY DEF CertsMatch, ids
  <2> QED
    BY <2>5, <2>6 DEF CertificatesMatchRecords, Recorded, OwnIds, ids
<1> QED
  BY <1>1, <1>2, MatchInit, TrailRunsRegistry, RegistryTypes, PTL DEF TrailSpec

--------------------------------------------------------------------------------
(***************************************************************************)
(* Medians.  How many values lie below a number, and how many do not       *)
(* exceed it, decides which of them is the k-th smallest.                  *)
(***************************************************************************)
Below(values, v) == {i \in DOMAIN values : values[i] < v}
UpTo(values, v) == {i \in DOMAIN values : values[i] <= v}

\* Of finitely many numbers one is the least.
LEMMA LeastValue ==
  ASSUME NEW D, NEW f \in [D -> Int], NEW S \in SUBSET D, IsFiniteSet(S), S # {}
  PROVE  \E i \in S : \A j \in S : f[i] <= f[j]
<1> DEFINE G == {T \in SUBSET S : T # {} => \E i \in T : \A j \in T : f[i] <= f[j]}
<1>0. \A i \in S : f[i] \in Int
  OBVIOUS
<1>1. {} \in G
  OBVIOUS
<1>2. ASSUME NEW T \in SUBSET S, T \in G, NEW x \in S \ T
      PROVE  T \cup {x} \in G
  <2>1. T \cup {x} \in SUBSET S
    OBVIOUS
  <2>2. CASE T = {}
    <3>1. f[x] <= f[x]
      BY <1>0
    <3> QED
      BY <2>1, <2>2, <3>1
  <2>3. CASE T # {}
    <3>1. PICK i \in T : \A j \in T : f[i] <= f[j]
      BY <1>2, <2>3
    <3>2. f[i] \in Int /\ f[x] \in Int /\ \A j \in T : f[j] \in Int
      BY <1>0, <1>2
    <3>3. CASE f[i] <= f[x]
      BY <2>1, <3>1, <3>3
    <3>4. CASE f[x] <= f[i]
      <4>1. \A j \in T : f[x] <= f[j]
        BY <3>1, <3>2, <3>4
      <4>2. f[x] <= f[x]
        BY <3>2
      <4> QED
        BY <2>1, <4>1, <4>2
    <3> QED
      BY <3>2, <3>3, <3>4
  <2> QED
    BY <2>2, <2>3
<1>3. S \in G
  <2> HIDE DEF G
  <2> QED
    BY <1>1, <1>2, InductionOnSet
<1> QED
  BY <1>3

LEMMA GreatestValue ==
  ASSUME NEW D, NEW f \in [D -> Int], NEW S \in SUBSET D, IsFiniteSet(S), S # {}
  PROVE  \E i \in S : \A j \in S : f[j] <= f[i]
<1> DEFINE g == [i \in D |-> -f[i]]
<1>1. g \in [D -> Int]
  OBVIOUS
<1>2. \A i \in S : f[i] \in Int /\ g[i] = -f[i]
  OBVIOUS
<1> HIDE DEF g
<1>3. PICK i \in S : \A j \in S : g[i] <= g[j]
  BY <1>1, LeastValue
<1>4. \A j \in S : f[j] <= f[i]
  BY <1>2, <1>3
<1> QED
  BY <1>4

LEMMA CountsAreNatural ==
  ASSUME NEW n \in Nat, NEW values \in [1 .. n -> Int]
  PROVE  /\ IsFiniteSet(1 .. n) /\ Cardinality(1 .. n) = n
         /\ \A S \in SUBSET (1 .. n) :
              IsFiniteSet(S) /\ Cardinality(S) \in Nat /\ Cardinality(S) <= n
         /\ \A v : /\ Below(values, v) \in SUBSET (1 .. n)
                   /\ UpTo(values, v) \in SUBSET (1 .. n)
<1>1. IsFiniteSet(1 .. n) /\ Cardinality(1 .. n) = n
  BY FS_Interval
<1>2. \A S \in SUBSET (1 .. n) : IsFiniteSet(S) /\ Cardinality(S) <= Cardinality(1 .. n)
  BY <1>1, FS_Subset
<1>3. \A S \in SUBSET (1 .. n) : Cardinality(S) \in Nat
  BY <1>2, FS_CardinalityType
<1>4. DOMAIN values = 1 .. n
  OBVIOUS
<1>5. \A v : Below(values, v) \in SUBSET (1 .. n) /\ UpTo(values, v) \in SUBSET (1 .. n)
  BY <1>4 DEF Below, UpTo
<1> QED
  BY <1>1, <1>2, <1>3, <1>5

\* There is a k-th smallest value, for every k up to their number.
LEMMA RankExists ==
  ASSUME NEW n \in Nat, NEW values \in [1 .. n -> Int], NEW k \in 1 .. n
  PROVE  \E i \in 1 .. n : /\ Cardinality(Below(values, values[i])) < k
                           /\ Cardinality(UpTo(values, values[i])) >= k
<1>1. /\ IsFiniteSet(1 .. n) /\ Cardinality(1 .. n) = n /\ 1 .. n # {} /\ k \in Nat \ {0}
      /\ \A S \in SUBSET (1 .. n) : IsFiniteSet(S) /\ Cardinality(S) \in Nat
      /\ \A v : /\ Below(values, v) \in SUBSET (1 .. n)
                /\ UpTo(values, v) \in SUBSET (1 .. n)
  BY CountsAreNatural
<1>2. DOMAIN values = 1 .. n /\ \A i \in 1 .. n : values[i] \in Int
  OBVIOUS
<1> DEFINE K == {i \in 1 .. n : Cardinality(UpTo(values, values[i])) >= k}
<1>3. K # {}
  <2>1. PICK i \in 1 .. n : \A j \in 1 .. n : values[j] <= values[i]
    BY <1>1, GreatestValue
  <2>2. UpTo(values, values[i]) = 1 .. n
    BY <1>2, <2>1 DEF UpTo
  <2> QED
    BY <1>1, <2>2
<1>4. PICK i \in K : \A j \in K : values[i] <= values[j]
  <2>1. K \in SUBSET (1 .. n) /\ IsFiniteSet(K)
    BY <1>1
  <2> HIDE DEF K
  <2> QED
    BY <1>3, <2>1, LeastValue
<1> DEFINE B == Below(values, values[i])
<1>5. B \in SUBSET (1 .. n) /\ IsFiniteSet(B) /\ i \in 1 .. n
  BY <1>1
<1>6. CASE B = {}
  <2>1. Cardinality(B) = 0
    BY <1>6, FS_EmptySet
  <2> QED
    BY <1>1, <2>1
<1>7. CASE B # {}
  <2> HIDE DEF B
  <2>1. PICK j \in B : \A l \in B : values[l] <= values[j]
    BY <1>5, <1>7, GreatestValue
  <2> USE DEF B
  <2>2. j \in 1 .. n /\ values[j] < values[i]
    BY <1>2 DEF Below
  <2>3. B \subseteq UpTo(values, values[j])
    BY <1>2, <1>5, <2>1 DEF UpTo
  <2>4. UpTo(values, values[j]) \subseteq B
    BY <1>2, <1>5, <2>2 DEF UpTo, Below
  <2>5. j \notin K
    BY <1>2, <1>4, <1>5, <2>2
  <2>6. Cardinality(UpTo(values, values[j])) < k
    BY <1>1, <2>2, <2>5
  <2>7. UpTo(values, values[j]) = B
    BY <2>3, <2>4
  <2> QED
    BY <1>5, <2>6, <2>7
<1> QED
  BY <1>6, <1>7

\* What the choice of the k-th smallest value says of it.
LEMMA RankedIs ==
  ASSUME NEW n \in Nat, NEW values \in [1 .. n -> Int], NEW k \in 1 .. n
  PROVE  /\ \E i \in 1 .. n : Ranked(values, k) = values[i]
         /\ Ranked(values, k) \in Int
         /\ Cardinality(Below(values, Ranked(values, k))) < k
         /\ Cardinality(UpTo(values, Ranked(values, k))) >= k
<1> DEFINE V == {values[i] : i \in DOMAIN values}
           r == CHOOSE v \in V : /\ Cardinality(Below(values, v)) < k
                                 /\ Cardinality(UpTo(values, v)) >= k
<1>1. Ranked(values, k) = r
  BY DEF Ranked, Below, UpTo
<1>2. \E v \in V : Cardinality(Below(values, v)) < k /\ Cardinality(UpTo(values, v)) >= k
  BY RankExists
<1>3. r \in V /\ Cardinality(Below(values, r)) < k /\ Cardinality(UpTo(values, r)) >= k
  <2> HIDE DEF V
  <2> QED
    BY <1>2
<1>4. \E i \in 1 .. n : r = values[i]
  <2> HIDE DEF r
  <2> QED
    BY <1>3
<1> HIDE DEF r
<1> QED
  BY <1>1, <1>3, <1>4

\* A higher rank is no lower a value.
LEMMA RanksAscend ==
  ASSUME NEW n \in Nat, NEW values \in [1 .. n -> Int], NEW j \in 1 .. n, NEW k \in 1 .. n, j <= k
  PROVE  Ranked(values, j) <= Ranked(values, k)
<1> DEFINE r == Ranked(values, j)
           s == Ranked(values, k)
<1>1. r \in Int /\ Cardinality(Below(values, r)) < j
  BY RankedIs
<1>2. s \in Int /\ Cardinality(UpTo(values, s)) >= k
  BY RankedIs
<1> HIDE DEF r, s
<1>3. SUFFICES ASSUME s < r PROVE FALSE
  BY <1>1, <1>2 DEF r, s
<1> DEFINE U == UpTo(values, s)
           B == Below(values, r)
<1>4. U \subseteq B
  BY <1>1, <1>2, <1>3 DEF UpTo, Below
<1>5. IsFiniteSet(B) /\ Cardinality(B) \in Nat /\ Cardinality(U) \in Nat
  BY CountsAreNatural
<1> HIDE DEF U, B
<1>6. Cardinality(U) <= Cardinality(B)
  BY <1>4, <1>5, FS_Subset
<1>7. Cardinality(B) < j /\ Cardinality(U) >= k
  BY <1>1, <1>2 DEF U, B
<1> QED
  BY <1>5, <1>6, <1>7

\* Two sets of positions that together count more than there are have one in common.
LEMMA Overlap ==
  ASSUME NEW n \in Nat, NEW S \in SUBSET (1 .. n), NEW T \in SUBSET (1 .. n),
         Cardinality(S) + Cardinality(T) > n
  PROVE  \E i \in S : i \in T
<1>1. IsFiniteSet(1 .. n) /\ Cardinality(1 .. n) = n
  BY FS_Interval
<1>2. IsFiniteSet(S) /\ IsFiniteSet(T)
  BY <1>1, FS_Subset
<1>3. /\ IsFiniteSet(S \cup T)
      /\ Cardinality(S \cup T) = Cardinality(S) + Cardinality(T) - Cardinality(S \cap T)
  BY <1>2, FS_Union
<1>4. Cardinality(S \cup T) <= Cardinality(1 .. n)
  <2>1. S \cup T \in SUBSET (1 .. n)
    OBVIOUS
  <2> QED
    BY <1>1, <2>1, FS_Subset
<1>5. IsFiniteSet(S \cap T)
  BY <1>2, FS_Intersection
<1>6. /\ Cardinality(S) \in Nat /\ Cardinality(T) \in Nat
      /\ Cardinality(S \cup T) \in Nat /\ Cardinality(S \cap T) \in Nat
  BY <1>2, <1>3, <1>5, FS_CardinalityType
<1>7. Cardinality(S \cap T) > 0
  BY <1>1, <1>3, <1>4, <1>6
<1>8. S \cap T # {}
  BY <1>7, FS_EmptySet
<1> QED
  BY <1>8

\* Enough of the values include one at or below the k-th smallest, and one at or above.
LEMMA RankWithin ==
  ASSUME NEW n \in Nat, NEW values \in [1 .. n -> Int], NEW k \in 1 .. n,
         NEW most \in SUBSET (1 .. n)
  PROVE  /\ Cardinality(most) + k > n => \E i \in most : values[i] <= Ranked(values, k)
         /\ Cardinality(most) >= k => \E i \in most : values[i] >= Ranked(values, k)
<1> DEFINE r == Ranked(values, k)
           B == Below(values, r)
           U == UpTo(values, r)
           A == (1 .. n) \ B
<1>1. r \in Int /\ Cardinality(B) < k /\ Cardinality(U) >= k
  BY RankedIs
<1> HIDE DEF r
<1>2. /\ IsFiniteSet(1 .. n) /\ Cardinality(1 .. n) = n
      /\ \A S \in SUBSET (1 .. n) : Cardinality(S) \in Nat
      /\ B \in SUBSET (1 .. n) /\ U \in SUBSET (1 .. n)
  BY CountsAreNatural
<1>3. DOMAIN values = 1 .. n /\ \A i \in 1 .. n : values[i] \in Int
  OBVIOUS
<1>4. Cardinality(A) = n - Cardinality(B)
  <2>1. Cardinality(A) = Cardinality(1 .. n) - Cardinality((1 .. n) \cap B)
    BY <1>2, FS_Difference
  <2>2. (1 .. n) \cap B = B
    BY <1>2
  <2> QED
    BY <1>2, <2>1, <2>2
<1>5. ASSUME Cardinality(most) + k > n PROVE \E i \in most : values[i] <= r
  <2>1. Cardinality(most) + Cardinality(U) > n
    BY <1>1, <1>2, <1>5
  <2>2. PICK i \in most : i \in U
    <3> HIDE DEF U
    <3> QED
      BY <1>2, <2>1, Overlap
  <2> QED
    BY <2>2 DEF UpTo
<1>6. ASSUME Cardinality(most) >= k PROVE \E i \in most : values[i] >= r
  <2>1. Cardinality(most) + Cardinality(A) > n
    BY <1>1, <1>2, <1>4, <1>6, SMTT(20)
  <2>2. PICK i \in most : i \in A
    <3>1. A \in SUBSET (1 .. n)
      OBVIOUS
    <3> HIDE DEF A
    <3> QED
      BY <2>1, <3>1, Overlap
  <2>3. i \in 1 .. n /\ ~(values[i] < r)
    BY <1>3, <2>2 DEF Below
  <2> QED
    BY <1>1, <1>3, <2>3
<1> QED
  BY <1>5, <1>6 DEF r

\* Half of a sum lies between its terms, whichever way it is rounded.
LEMMA HalfBetween ==
  ASSUME NEW x \in Int, NEW y \in Int, x <= y
  PROVE  Half(x + y) \in Int /\ x <= Half(x + y) /\ Half(x + y) <= y
BY DEF Half

\* A median is a number between two of the values, and any majority has values on
\* both sides of it.
LEMMA MedianWithin ==
  ASSUME NEW n \in Nat \ {0}, NEW values \in [1 .. n -> Int]
  PROVE  /\ Median(values) \in Int
         /\ \A most \in SUBSET (1 .. n) :
              2 * Cardinality(most) > n =>
                /\ \E i \in most : values[i] <= Median(values)
                /\ \E i \in most : values[i] >= Median(values)
<1>0. Len(values) = n /\ n \in Nat
  OBVIOUS
<1>1. \A S \in SUBSET (1 .. n) : Cardinality(S) \in Nat
  BY <1>0, CountsAreNatural
<1>2. \A i \in 1 .. n : values[i] \in Int
  OBVIOUS
<1>3. CASE n % 2 = 1
  <2> DEFINE k == (n + 1) \div 2
             r == Ranked(values, k)
  <2>1. k \in 1 .. n /\ 2 * k = n + 1
    BY <1>3
  <2>2. Median(values) = r
    BY <1>0, <1>3 DEF Median
  <2> HIDE DEF k
  <2>3. r \in Int
    BY <1>0, <2>1, RankedIs
  <2>4. ASSUME NEW most \in SUBSET (1 .. n), 2 * Cardinality(most) > n
        PROVE  (\E i \in most : values[i] <= r) /\ (\E i \in most : values[i] >= r)
    <3>1. Cardinality(most) + k > n /\ Cardinality(most) >= k
      <4>1. Cardinality(most) \in Nat
        BY <1>1
      <4> QED
        BY <2>1, <2>4, <4>1
    <3> QED
      BY <1>0, <2>1, <3>1, RankWithin
  <2> HIDE DEF r
  <2> QED
    BY <2>2, <2>3, <2>4
<1>4. CASE n % 2 # 1
  <2> DEFINE k == n \div 2
             l == n \div 2 + 1
             r == Ranked(values, k)
             s == Ranked(values, l)
             h == Half(r + s)
  <2>1. k \in 1 .. n /\ l \in 1 .. n /\ 2 * k = n /\ l = k + 1 /\ k <= l
    BY <1>4
  <2>2. Median(values) = h
    BY <1>0, <1>4 DEF Median
  <2> HIDE DEF k, l
  <2>3. r \in Int /\ s \in Int
    BY <1>0, <2>1, RankedIs
  <2>4. r <= s
    BY <1>0, <2>1, RanksAscend
  <2>5. h \in Int /\ r <= h /\ h <= s
    <3> HIDE DEF r, s
    <3> QED
      BY <2>3, <2>4, HalfBetween
  <2> HIDE DEF h
  <2>6. ASSUME NEW most \in SUBSET (1 .. n), 2 * Cardinality(most) > n
        PROVE  (\E i \in most : values[i] <= h) /\ (\E i \in most : values[i] >= h)
    <3>1. Cardinality(most) + k > n /\ Cardinality(most) >= l
      <4>1. Cardinality(most) \in Nat
        BY <1>1
      <4> QED
        BY <2>1, <2>6, <4>1
    <3>2. PICK i \in most : values[i] <= r
      BY <1>0, <2>1, <3>1, RankWithin
    <3>3. PICK j \in most : values[j] >= s
      BY <1>0, <2>1, <3>1, RankWithin
    <3> HIDE DEF r, s
    <3>4. values[i] \in Int /\ values[j] \in Int
      BY <1>2
    <3>5. values[i] <= h
      BY <2>3, <2>5, <3>2, <3>4
    <3>6. values[j] >= h
      BY <2>3, <2>5, <3>3, <3>4
    <3> QED
      BY <3>5, <3>6
  <2> QED
    BY <2>2, <2>5, <2>6
<1> QED
  BY <1>3, <1>4

\* Values that keep a bound have a median that keeps it.
LEMMA MedianKeepsBound ==
  ASSUME NEW n \in Nat \ {0}, NEW values \in [1 .. n -> Int], \A i \in 1 .. n : values[i] >= 0
  PROVE  Median(values) \in Nat
<1>1. Cardinality(1 .. n) = n
  BY FS_Interval
<1>2. 2 * Cardinality(1 .. n) > n
  BY <1>1
<1>3. 1 .. n \in SUBSET (1 .. n)
  OBVIOUS
<1>4. Median(values) \in Int
  BY MedianWithin
<1>5. PICK i \in 1 .. n : values[i] <= Median(values)
  BY <1>2, <1>3, MedianWithin
<1> QED
  BY <1>4, <1>5

Readings == {r \in [Parameter -> Int] : ValidReading(r)}

\* The readings of a window: at least one, each of them valid.
IsWindow(readings) == \E n \in Nat \ {0} : readings \in [1 .. n -> Readings]

LEMMA MediansWithin ==
  ASSUME NEW readings, IsWindow(readings)
  PROVE  /\ Medians(readings) \in [Parameter -> Int]
         /\ Medians(readings).flow >= 0
         /\ \A most \in SUBSET DOMAIN readings :
              2 * Cardinality(most) > Len(readings) =>
                \A p \in Parameter :
                  /\ \E k \in most : readings[k][p] <= Medians(readings)[p]
                  /\ \E k \in most : readings[k][p] >= Medians(readings)[p]
<1> DEFINE of(p) == [i \in DOMAIN readings |-> readings[i][p]]
<1>1. PICK n \in Nat \ {0} : readings \in [1 .. n -> Readings]
  BY DEF IsWindow
<1>2. DOMAIN readings = 1 .. n /\ Len(readings) = n /\ \A i \in 1 .. n : readings[i] \in Readings
  BY <1>1
<1>3. \A i \in 1 .. n : /\ readings[i] \in [Parameter -> Int]
                        /\ ValidReading(readings[i])
  BY <1>2 DEF Readings
<1>4. ASSUME NEW p \in Parameter
      PROVE  of(p) \in [1 .. n -> Int] /\ \A i \in 1 .. n : of(p)[i] = readings[i][p]
  BY <1>2, <1>3
<1>5. Medians(readings) = [p \in Parameter |-> Median(of(p))]
  BY DEF Medians
<1> HIDE DEF of
<1>6. Medians(readings) \in [Parameter -> Int]
  <2>1. \A p \in Parameter : Median(of(p)) \in Int
    BY <1>4, MedianWithin
  <2> QED
    BY <1>5, <2>1
<1>7. Medians(readings).flow >= 0
  <2> DEFINE values == of("flow")
  <2>0. "flow" \in Parameter
    BY DEF Parameter
  <2>1. values \in [1 .. n -> Int] /\ \A i \in 1 .. n : values[i] = readings[i]["flow"]
    BY <1>4, <2>0
  <2>2. \A i \in 1 .. n : values[i] >= 0
    <3>1. \A r : ValidReading(r) => r["flow"] >= 0
      BY DEF ValidReading
    <3>2. \A i \in 1 .. n : readings[i]["flow"] >= 0
      BY <1>3, <3>1
    <3> QED
      BY <2>1, <3>2
  <2>3. Medians(readings).flow = Median(values)
    BY <1>5, <2>0
  <2> HIDE DEF values
  <2>4. Median(values) \in Nat
    BY <2>1, <2>2, MedianKeepsBound
  <2> QED
    BY <2>3, <2>4
<1>8. ASSUME NEW most \in SUBSET (1 .. n), 2 * Cardinality(most) > n, NEW p \in Parameter
      PROVE  /\ \E k \in most : readings[k][p] <= Medians(readings)[p]
             /\ \E k \in most : readings[k][p] >= Medians(readings)[p]
  <2> DEFINE values == of(p)
  <2>1. values \in [1 .. n -> Int] /\ \A i \in 1 .. n : values[i] = readings[i][p]
    BY <1>4
  <2>2. Medians(readings)[p] = Median(values)
    BY <1>5
  <2> HIDE DEF values
  <2>3. /\ \E k \in most : values[k] <= Median(values)
        /\ \E k \in most : values[k] >= Median(values)
    BY <1>8, <2>1, MedianWithin
  <2> QED
    BY <2>1, <2>2, <2>3
<1> QED
  BY <1>2, <1>6, <1>7, <1>8

--------------------------------------------------------------------------------
(***************************************************************************)
(* The formula.                                                            *)
(***************************************************************************)

\* What initialize and update_config let in.
FormulaOK(c) ==
  /\ c.minPh \in Int /\ c.maxPh \in Int /\ c.maxTurbidity \in Int /\ c.minOxygen \in Int
  /\ c.perKgN \in Int /\ c.perKgP \in Int
  /\ c.seconds \in Nat
  /\ c.feeBps \in Nat /\ c.feeBps <= 10000
  /\ c.treasury \in Address

BaselinesOK(b) == b.nitrogen \in Int /\ b.phosphorus \in Int /\ b.temperature \in Int

LEMMA ProductsAscend ==
  ASSUME NEW x \in Int, NEW y \in Int, NEW k \in Nat, x <= y
  PROVE  x * k <= y * k
OBVIOUS

LEMMA FloorsAscend ==
  ASSUME NEW x \in Int, NEW y \in Int, NEW d \in Nat \ {0}, x <= y
  PROVE  x \div d \in Int /\ y \div d \in Int /\ x \div d <= y \div d
OBVIOUS

\* A division of what is not negative is not negative.
LEMMA FloorIsNatural ==
  ASSUME NEW x \in Nat, NEW d \in Nat \ {0}
  PROVE  x \div d \in Nat
OBVIOUS

LEMMA RemovedIsNatural ==
  ASSUME NEW b \in Int, NEW x \in Int, NEW f \in Nat, NEW s \in Nat
  PROVE  Removed(b, x, f, s) \in Nat
<1>1. CASE x < b
  <2> DEFINE d == b - x
             m == d * f
             n == m * s
  <2>1. d \in Nat
    BY <1>1
  <2> HIDE DEF d
  <2>2. m \in Nat
    BY <2>1
  <2> HIDE DEF m
  <2>3. n \in Nat
    BY <2>2
  <2>4. Removed(b, x, f, s) = n \div 1000000
    BY <1>1 DEF Removed, m, d
  <2> HIDE DEF n
  <2> QED
    BY <2>3, <2>4
<1>2. CASE ~(x < b)
  BY <1>2 DEF Removed
<1> QED
  BY <1>1, <1>2

\* More water with less of a nutrient in it: no less of the nutrient is removed.
LEMMA RemovedAscends ==
  ASSUME NEW b \in Int, NEW x \in Int, NEW y \in Int, NEW f \in Nat, NEW g \in Nat, NEW s \in Nat,
         x <= y, f >= g
  PROVE  Removed(b, x, f, s) >= Removed(b, y, g, s)
<1>1. Removed(b, x, f, s) \in Nat /\ Removed(b, y, g, s) \in Nat
  BY RemovedIsNatural
<1>2. CASE y < b
  <2> DEFINE d == b - x
             e == b - y
             m == d * f
             l == e * g
             h == e * f
  <2>1. d \in Nat /\ e \in Nat /\ e <= d
    BY <1>2
  <2>2. x < b
    BY <1>2
  <2>3. /\ Removed(b, x, f, s) = (m * s) \div 1000000
        /\ Removed(b, y, g, s) = (l * s) \div 1000000
    BY <1>2, <2>2 DEF Removed
  <2> HIDE DEF d, e
  <2>4. h <= m
    BY <2>1, ProductsAscend
  <2>5. l <= h
    <3>1. e * g = g * e /\ e * f = f * e
      BY <2>1
    <3>2. g * e <= f * e
      BY <2>1, ProductsAscend
    <3> QED
      BY <3>1, <3>2
  <2>6. m \in Nat /\ l \in Nat /\ h \in Nat
    BY <2>1
  <2> HIDE DEF m, l, h
  <2>7. l <= m
    BY <2>4, <2>5, <2>6
  <2>8. l * s <= m * s /\ l * s \in Int /\ m * s \in Int
    BY <2>6, <2>7, ProductsAscend
  <2> DEFINE u == l * s
             v == m * s
  <2>9. u <= v /\ u \in Int /\ v \in Int
    BY <2>8
  <2> HIDE DEF u, v
  <2>10. u \div 1000000 <= v \div 1000000
    BY <2>9
  <2> QED
    BY <2>3, <2>10 DEF u, v
<1>3. CASE ~(y < b)
  <2>1. Removed(b, y, g, s) = 0
    BY <1>3 DEF Removed
  <2> QED
    BY <1>1, <2>1
<1> QED
  BY <1>2, <1>3

\* The penalty leaves something of the credits, and cleaner water has no larger one.
LEMMA PenaltyDescends ==
  ASSUME NEW c, FormulaOK(c), NEW m \in [Parameter -> Int], NEW l \in [Parameter -> Int],
         NEW t \in Int, AsGood(c, m, l)
  PROVE  /\ Penalty(c, m, t) \in Nat /\ Penalty(c, m, t) <= 7000
         /\ Penalty(c, l, t) \in Nat /\ Penalty(c, l, t) <= 7000
         /\ Penalty(c, m, t) <= Penalty(c, l, t)
<1> DEFINE acid(x) == x.ph < c.minPh \/ x.ph > c.maxPh
           p1(x) == IF acid(x) THEN 2000 ELSE 0
           p2(x) == IF x.turbidity > c.maxTurbidity THEN 2000 ELSE 0
           p3(x) == IF x.oxygen < c.minOxygen THEN 2000 ELSE 0
           p4(x) == IF x.temperature > t THEN 1000 ELSE 0
<1>1. ASSUME NEW x \in [Parameter -> Int]
      PROVE  /\ x.ph \in Int /\ x.turbidity \in Int /\ x.oxygen \in Int /\ x.temperature \in Int
             /\ Penalty(c, x, t) = p1(x) + p2(x) + p3(x) + p4(x)
  <2>1. Penalty(c, x, t) = p1(x) + p2(x) + p3(x) + p4(x)
    BY DEF Penalty
  <2> HIDE DEF p1, p2, p3, p4
  <2>2. /\ x["ph"] \in Int /\ x["turbidity"] \in Int /\ x["oxygen"] \in Int
        /\ x["temperature"] \in Int
    BY DEF Parameter
  <2> QED
    BY <2>1, <2>2
<1>2. /\ m.ph \in Int /\ m.turbidity \in Int /\ m.oxygen \in Int /\ m.temperature \in Int
      /\ Penalty(c, m, t) = p1(m) + p2(m) + p3(m) + p4(m)
  BY <1>1
<1>3. /\ l.ph \in Int /\ l.turbidity \in Int /\ l.oxygen \in Int /\ l.temperature \in Int
      /\ Penalty(c, l, t) = p1(l) + p2(l) + p3(l) + p4(l)
  BY <1>1
<1>4. /\ c.minPh \in Int /\ c.maxPh \in Int /\ c.maxTurbidity \in Int /\ c.minOxygen \in Int
  BY DEF FormulaOK
<1>5. p1(m) <= p1(l)
  <2>1. acid(m) => acid(l)
    BY <1>2, <1>3, <1>4 DEF AsGood, Clean
  <2> HIDE DEF acid
  <2> QED
    BY <2>1
<1>6. p2(m) <= p2(l)
  BY <1>2, <1>3, <1>4 DEF AsGood
<1>7. p3(m) <= p3(l)
  BY <1>2, <1>3, <1>4 DEF AsGood
<1>8. p4(m) <= p4(l)
  BY <1>2, <1>3, <1>4 DEF AsGood
<1>9. /\ p1(m) \in Nat /\ p2(m) \in Nat /\ p3(m) \in Nat /\ p4(m) \in Nat
      /\ p1(l) \in Nat /\ p2(l) \in Nat /\ p3(l) \in Nat /\ p4(l) \in Nat
      /\ p1(m) <= 2000 /\ p2(m) <= 2000 /\ p3(m) <= 2000 /\ p4(m) <= 1000
      /\ p1(l) <= 2000 /\ p2(l) <= 2000 /\ p3(l) <= 2000 /\ p4(l) <= 1000
  OBVIOUS
<1> DEFINE x == Penalty(c, m, t)
           y == Penalty(c, l, t)
<1>10. x = p1(m) + p2(m) + p3(m) + p4(m) /\ y = p1(l) + p2(l) + p3(l) + p4(l)
  BY <1>2, <1>3
<1> HIDE DEF p1, p2, p3, p4, x, y
<1>11. x \in Nat /\ y \in Nat /\ x <= 7000 /\ y <= 7000
  BY <1>9, <1>10
<1>12. x <= y
  BY <1>5, <1>6, <1>7, <1>8, <1>9, <1>10
<1> QED
  BY <1>11, <1>12 DEF x, y

\* The same of one water: it is as good as itself.
LEMMA PenaltyBounded ==
  ASSUME NEW c, FormulaOK(c), NEW m \in [Parameter -> Int], NEW t \in Int
  PROVE  Penalty(c, m, t) \in Nat /\ Penalty(c, m, t) <= 7000
<1>1. \A p \in Parameter : m[p] \in Int
  OBVIOUS
<1>2. AsGood(c, m, m)
  <2>1. /\ m["flow"] \in Int /\ m["nitrogen"] \in Int /\ m["phosphorus"] \in Int
        /\ m["turbidity"] \in Int /\ m["oxygen"] \in Int /\ m["temperature"] \in Int
    BY <1>1 DEF Parameter
  <2> QED
    BY <2>1 DEF AsGood
<1> QED
  BY <1>2, PenaltyDescends

LEMMA VolumetricAscends ==
  ASSUME NEW f \in Nat, NEW g \in Nat, f >= g
  PROVE  /\ Volumetric(f) \in Nat /\ Volumetric(g) \in Nat
         /\ Volumetric(f) >= Volumetric(g)
BY DEF Volumetric

\* No result is less than nothing, whatever the rates; with rates that are not
\* negative, cleaner water earns no less.
LEMMA TotalIsNatural ==
  ASSUME NEW c, FormulaOK(c), NEW b, BaselinesOK(b), NEW m \in [Parameter -> Int], m.flow >= 0
  PROVE  Finalization(c, m, b).total \in Nat
<1> DEFINE nRemoved == Removed(b.nitrogen, m.nitrogen, m.flow, c.seconds)
           pRemoved == Removed(b.phosphorus, m.phosphorus, m.flow, c.seconds)
           vol == Volumetric(m.flow)
           gross == Gross(c, nRemoved, pRemoved, vol)
           penalty == Penalty(c, m, b.temperature)
           product == gross * (10000 - penalty)
           net == product \div 10000
<1>1. Finalization(c, m, b).total = IF net < 0 THEN 0 ELSE net
  BY DEF Finalization
<1>2. m.flow \in Nat /\ m.nitrogen \in Int /\ m.phosphorus \in Int
  <2>1. m["flow"] \in Int /\ m["nitrogen"] \in Int /\ m["phosphorus"] \in Int
    BY DEF Parameter
  <2> QED
    BY <2>1
<1>3. /\ b.nitrogen \in Int /\ b.phosphorus \in Int /\ b.temperature \in Int
      /\ c.seconds \in Nat /\ c.perKgN \in Int /\ c.perKgP \in Int
  BY DEF FormulaOK, BaselinesOK
<1>4. nRemoved \in Nat
  BY <1>2, <1>3, RemovedIsNatural
<1>5. pRemoved \in Nat
  BY <1>2, <1>3, RemovedIsNatural
<1>6. vol \in Nat
  BY <1>2, VolumetricAscends
<1>7. penalty \in Nat /\ penalty <= 7000
  <2> DEFINE t == b.temperature
  <2>1. t \in Int
    BY <1>3
  <2> HIDE DEF t
  <2>2. Penalty(c, m, t) \in Nat /\ Penalty(c, m, t) <= 7000
    BY <2>1, PenaltyBounded
  <2> QED
    BY <2>2 DEF t
<1> HIDE DEF nRemoved, pRemoved, vol, penalty
<1>8. gross \in Int
  BY <1>3, <1>4, <1>5, <1>6 DEF Gross
<1> HIDE DEF gross
<1>9. product \in Int
  BY <1>7, <1>8
<1> HIDE DEF product
<1>10. net \in Int
  BY <1>9
<1> HIDE DEF net
<1> QED
  BY <1>1, <1>10

LEMMA TotalAscends ==
  ASSUME NEW c, FormulaOK(c), c.perKgN >= 0, c.perKgP >= 0, NEW b, BaselinesOK(b),
         NEW m \in [Parameter -> Int], m.flow >= 0,
         NEW l \in [Parameter -> Int], l.flow >= 0, AsGood(c, m, l)
  PROVE  Finalization(c, m, b).total >= Finalization(c, l, b).total
<1> DEFINE n(x) == Removed(b.nitrogen, x.nitrogen, x.flow, c.seconds)
           p(x) == Removed(b.phosphorus, x.phosphorus, x.flow, c.seconds)
           v(x) == Volumetric(x.flow)
           gross(x) == Gross(c, n(x), p(x), v(x))
           rest(x) == 10000 - Penalty(c, x, b.temperature)
           net(x) == (gross(x) * rest(x)) \div 10000
<1>1. \A x : Finalization(c, x, b).total = IF net(x) < 0 THEN 0 ELSE net(x)
  BY DEF Finalization
<1>2. /\ m.flow \in Nat /\ m.nitrogen \in Int /\ m.phosphorus \in Int
      /\ l.flow \in Nat /\ l.nitrogen \in Int /\ l.phosphorus \in Int
  <2>1. /\ m["flow"] \in Int /\ m["nitrogen"] \in Int /\ m["phosphorus"] \in Int
        /\ l["flow"] \in Int /\ l["nitrogen"] \in Int /\ l["phosphorus"] \in Int
    BY DEF Parameter
  <2> QED
    BY <2>1
<1>3. /\ b.nitrogen \in Int /\ b.phosphorus \in Int /\ b.temperature \in Int
      /\ c.seconds \in Nat /\ c.perKgN \in Nat /\ c.perKgP \in Nat
  BY DEF FormulaOK, BaselinesOK
<1>4. m.flow >= l.flow /\ m.nitrogen <= l.nitrogen /\ m.phosphorus <= l.phosphorus
  BY DEF AsGood
<1>5. n(m) \in Nat /\ n(l) \in Nat /\ n(l) <= n(m)
  <2>1. n(m) \in Nat
    BY <1>2, <1>3, RemovedIsNatural
  <2>2. n(l) \in Nat
    BY <1>2, <1>3, RemovedIsNatural
  <2>3. n(m) >= n(l)
    BY <1>2, <1>3, <1>4, RemovedAscends
  <2> HIDE DEF n
  <2> QED
    BY <2>1, <2>2, <2>3
<1>6. p(m) \in Nat /\ p(l) \in Nat /\ p(l) <= p(m)
  <2>1. p(m) \in Nat
    BY <1>2, <1>3, RemovedIsNatural
  <2>2. p(l) \in Nat
    BY <1>2, <1>3, RemovedIsNatural
  <2>3. p(m) >= p(l)
    BY <1>2, <1>3, <1>4, RemovedAscends
  <2> HIDE DEF p
  <2> QED
    BY <2>1, <2>2, <2>3
<1>7. v(m) \in Nat /\ v(l) \in Nat /\ v(l) <= v(m)
  <2>1. v(m) \in Nat /\ v(l) \in Nat /\ v(m) >= v(l)
    BY <1>2, <1>4, VolumetricAscends
  <2> HIDE DEF v
  <2> QED
    BY <2>1
<1>8. rest(m) \in Nat /\ rest(l) \in Nat /\ rest(l) <= rest(m)
  <2> DEFINE t == b.temperature
             x == Penalty(c, m, t)
             y == Penalty(c, l, t)
  <2>1. t \in Int
    BY <1>3
  <2> HIDE DEF t
  <2>2. x \in Nat /\ y \in Nat /\ x <= 7000 /\ y <= 7000 /\ x <= y
    BY <2>1, PenaltyDescends
  <2>3. rest(m) = 10000 - x /\ rest(l) = 10000 - y
    BY DEF t
  <2> HIDE DEF x, y, rest
  <2> QED
    BY <2>2, <2>3
<1> HIDE DEF n, p, v, rest
<1>9. gross(m) \in Nat /\ gross(l) \in Nat /\ gross(l) <= gross(m)
  <2> DEFINE a1 == n(m) * c.perKgN
             a2 == n(l) * c.perKgN
             b1 == p(m) * c.perKgP
             b2 == p(l) * c.perKgP
  <2>1. a1 \in Nat /\ a2 \in Nat /\ b1 \in Nat /\ b2 \in Nat
    BY <1>3, <1>5, <1>6
  <2>2. a2 <= a1
    BY <1>3, <1>5, ProductsAscend
  <2>3. b2 <= b1
    BY <1>3, <1>6, ProductsAscend
  <2>4. gross(m) = a1 + b1 + v(m) /\ gross(l) = a2 + b2 + v(l)
    BY DEF Gross
  <2> HIDE DEF a1, a2, b1, b2, gross
  <2> QED
    BY <1>7, <2>1, <2>2, <2>3, <2>4
<1> HIDE DEF gross
<1>10. net(m) \in Int /\ net(l) \in Int /\ net(l) <= net(m)
  <2> DEFINE x == gross(m) * rest(m)
             y == gross(l) * rest(l)
             z == gross(m) * rest(l)
  <2>1. y <= z
    BY <1>8, <1>9, ProductsAscend
  <2>2. z <= x
    <3>1. rest(l) * gross(m) <= rest(m) * gross(m)
      BY <1>8, <1>9, ProductsAscend
    <3>2. z = rest(l) * gross(m) /\ x = rest(m) * gross(m)
      BY <1>8, <1>9
    <3> QED
      BY <3>1, <3>2
  <2>3. x \in Int /\ y \in Int /\ z \in Int
    BY <1>8, <1>9
  <2> HIDE DEF x, y, z
  <2>4. y <= x
    BY <2>1, <2>2, <2>3
  <2>5. y \div 10000 \in Int /\ x \div 10000 \in Int /\ y \div 10000 <= x \div 10000
    BY <2>3, <2>4
  <2> QED
    BY <2>5 DEF x, y
<1> HIDE DEF net
<1> QED
  BY <1>1, <1>10

--------------------------------------------------------------------------------
(***************************************************************************)
(* Minting.  A finalization that mints is one more way of issuing: what    *)
(* the token's proofs say of an issue holds of it.                         *)
(***************************************************************************)
LEMMA SumOfOneMore ==
  ASSUME NEW n \in Nat, NEW f, DOMAIN f = 1 .. n, NEW g, DOMAIN g = 1 .. n + 1,
         \A i \in 1 .. n : f[i] \in Int /\ g[i] = f[i], g[n + 1] \in Int
  PROVE  /\ Total(f) \in Int
         /\ Total(g) = Total(f) + g[n + 1]
<1> DEFINE m == n + 1
<1>1. IsFiniteSet(1 .. n) /\ m \notin 1 .. n /\ 1 .. m = (1 .. n) \cup {m}
  <2>1. IsFiniteSet(1 .. n)
    BY FS_Interval
  <2>2. m \notin 1 .. n /\ 1 .. m = (1 .. n) \cup {m}
    OBVIOUS
  <2> QED
    BY <2>1, <2>2
<1>2. g[m] \in Int /\ DOMAIN g = 1 .. m
  OBVIOUS
<1> HIDE DEF m
<1>3. SumFunctionOnSet(g, (1 .. n) \cup {m}) = g[m] + SumFunctionOnSet(g, 1 .. n)
  <2>1. \A i \in (1 .. n) \cup {m} : g[i] \in Int
    BY <1>2
  <2> QED
    BY <1>1, <2>1, SumInsert
<1>4. SumFunctionOnSet(g, 1 .. n) = SumFunctionOnSet(f, 1 .. n)
  BY <1>1, SumAgrees
<1>5. SumFunctionOnSet(f, 1 .. n) \in Int
  BY <1>1, SumProperties
<1>6. Total(g) = SumFunctionOnSet(g, 1 .. m)
  BY <1>2 DEF Total, SumFunction
<1>7. Total(f) = SumFunctionOnSet(f, 1 .. n)
  BY DEF Total, SumFunction
<1>8. Total(g) = g[m] + Total(f) /\ Total(f) \in Int
  BY <1>1, <1>3, <1>4, <1>5, <1>6, <1>7, Zenon
<1>9. Total(g) = Total(f) + g[m]
  BY <1>2, <1>8
<1> QED
  BY <1>8, <1>9 DEF m

LEMMA SumOfTwo ==
  ASSUME NEW f, DOMAIN f = 1 .. 2, f[1] \in Int, f[2] \in Int
  PROVE  Total(f) = f[1] + f[2]
<1>1. IsFiniteSet({}) /\ IsFiniteSet({1}) /\ 1 .. 2 = {1} \cup {2} /\ 1 \notin {} /\ 2 \notin {1}
  <2>1. IsFiniteSet({}) /\ IsFiniteSet({1})
    BY FS_EmptySet, FS_Singleton, Zenon
  <2>2. 1 .. 2 = {1} \cup {2}
    OBVIOUS
  <2>3. 1 \notin {} /\ 2 \notin {1}
    OBVIOUS
  <2> QED
    BY <2>1, <2>2, <2>3, Zenon
<1>2. SumFunctionOnSet(f, {1} \cup {2}) = f[2] + SumFunctionOnSet(f, {1})
  <2>1. \A y \in {1} \cup {2} : f[y] \in Int
    OBVIOUS
  <2> QED
    BY <1>1, <2>1, SumInsert
<1>3. SumFunctionOnSet(f, {1}) = f[1] + SumFunctionOnSet(f, {})
  <2>1. {1} \ {1} = {} /\ \A y \in {1} : f[y] \in Int
    OBVIOUS
  <2>2. \A y \in {1} : SumFunctionOnSet(f, {1}) = f[y] + SumFunctionOnSet(f, {1} \ {y})
    BY <1>1, <2>1, SumProperties
  <2> QED
    BY <2>1, <2>2
<1>4. SumFunctionOnSet(f, {}) = 0
  BY <1>1, SumProperties
<1>5. Total(f) = SumFunctionOnSet(f, 1 .. 2)
  BY DEF Total, SumFunction
<1>6. Total(f) = f[2] + SumFunctionOnSet(f, {1})
  BY <1>1, <1>2, <1>5, Zenon
<1>7. SumFunctionOnSet(f, {1}) = f[1]
  BY <1>3, <1>4
<1> QED
  BY <1>6, <1>7

\* Two shares, credited one after the other.
LEMMA SharesCredited ==
  ASSUME NEW b \in [Address -> Nat], NEW x \in Address, NEW y \in Address,
         NEW m \in Nat, NEW n \in Nat
  PROVE  LET shares == << [to |-> x, amount |-> m], [to |-> y, amount |-> n] >>
         IN  /\ Credited(b, shares) \in [Address -> Nat]
             /\ Total(Credited(b, shares)) = Total(b) + m + n
<1> DEFINE shares == << [to |-> x, amount |-> m], [to |-> y, amount |-> n] >>
           part(a) == [i \in DOMAIN shares |-> IF shares[i].to = a THEN shares[i].amount ELSE 0]
           c == [b EXCEPT ![x] = b[x] + m]
           d == [c EXCEPT ![y] = c[y] + n]
<1>1. /\ DOMAIN shares = 1 .. 2
      /\ shares[1].to = x /\ shares[1].amount = m /\ shares[2].to = y /\ shares[2].amount = n
  OBVIOUS
<1> HIDE DEF shares
<1>2. ASSUME NEW a \in Address
      PROVE  PaidTo(shares, a) = (IF x = a THEN m ELSE 0) + (IF y = a THEN n ELSE 0)
  <2>1. DOMAIN part(a) = 1 .. 2
    BY <1>1
  <2>2. part(a)[1] = (IF x = a THEN m ELSE 0) /\ part(a)[2] = (IF y = a THEN n ELSE 0)
    BY <1>1
  <2>3. PaidTo(shares, a) = Total(part(a))
    BY DEF PaidTo
  <2> HIDE DEF part
  <2>4. Total(part(a)) = part(a)[1] + part(a)[2]
    BY <2>1, <2>2, SumOfTwo
  <2> QED
    BY <2>2, <2>3, <2>4
<1>3. c \in [Address -> Nat] /\ c[x] = b[x] + m /\ \A a \in Address : a # x => c[a] = b[a]
  OBVIOUS
<1> HIDE DEF c
<1>4. d \in [Address -> Nat] /\ d[y] = c[y] + n /\ \A a \in Address : a # y => d[a] = c[a]
  BY <1>3
<1>5. \A a \in Address : d[a] = b[a] + PaidTo(shares, a)
  <2> TAKE a \in Address
  <2>1. b[a] \in Nat /\ b[x] \in Nat
    OBVIOUS
  <2>2. c[a] = b[a] + (IF x = a THEN m ELSE 0)
    BY <1>3, <2>1
  <2>3. d[a] = c[a] + (IF y = a THEN n ELSE 0)
    BY <1>3, <1>4
  <2> QED
    BY <1>2, <2>1, <2>2, <2>3
<1>6. Credited(b, shares) = d
  BY <1>4, <1>5 DEF Credited
<1>7. Total(c) = Total(b) + m
  <2>1. b[x] + m \in Int /\ b[x] \in Int /\ Total(b) \in Int
    BY TotalIsInt
  <2>2. Total(c) = Total(b) + (b[x] + m) - b[x]
    BY <2>1, OneBalance DEF c
  <2> QED
    BY <2>1, <2>2
<1>8. Total(d) = Total(c) + n
  <2>1. c[y] + n \in Int /\ c[y] \in Int /\ Total(c) \in Int
    BY <1>3, TotalIsInt
  <2>2. Total(d) = Total(c) + (c[y] + n) - c[y]
    BY <1>3, <2>1, OneBalance
  <2> HIDE DEF d
  <2> QED
    BY <2>1, <2>2
<1> HIDE DEF d
<1>9. Total(b) \in Int
  BY TotalIsInt
<1>10. Total(d) = Total(b) + m + n
  BY <1>7, <1>8, <1>9
<1> QED
  BY <1>4, <1>6, <1>10 DEF shares

LEMMA SplitIssues ==
  ASSUME TypeOK, NEW net \in Nat, NEW fee \in Nat, net + fee > 0,
         project.beneficiary \in Address, formula.treasury \in Address, MintSplit(net, fee)
  PROVE  TypeOK' /\ Issued
<1> DEFINE shares == << [to |-> project.beneficiary, amount |-> net],
                        [to |-> formula.treasury, amount |-> fee] >>
           n == net + fee
<1>0. /\ RolesOK /\ HoldingsOK /\ TotalsOK /\ balance \in [Address -> Nat]
      /\ totalSupply \in Int /\ everMinted \in Nat /\ bridgedToEvm \in Nat /\ maxSupply \in Nat
  BY DEF TypeOK, RolesOK, HoldingsOK, TotalsOK
<1>1. /\ ~paused
      /\ UnderCap(totalSupply + bridgedToEvm + net + fee)
      /\ balance' = Credited(balance, shares)
      /\ totalSupply' = totalSupply + net + fee
      /\ everMinted' = everMinted + net + fee
      /\ UNCHANGED <<roles, maxSupply, paused, allowance, expiration, totalRetired,
                     totalBurned, bridgedToEvm, certs, ledger>>
  BY DEF MintSplit
<1>2. /\ Credited(balance, shares) \in [Address -> Nat]
      /\ Total(Credited(balance, shares)) = Total(balance) + net + fee
  BY <1>0, SharesCredited
<1> HIDE DEF shares
<1>3. n \in Nat \ {0} /\ Total(balance) \in Int
  BY <1>0, TotalIsInt
<1>4. /\ totalSupply' = totalSupply + n /\ everMinted' = everMinted + n
      /\ Total(balance') = Total(balance) + n
  BY <1>0, <1>1, <1>2, <1>3
<1>5. UnderCap(totalSupply')
  BY <1>0, <1>1 DEF UnderCap
<1>6. bridgedToEvm' <= bridgedToEvm
  BY <1>0, <1>1
<1>7. HoldingsOK'
  BY <1>0, <1>1, <1>2 DEF HoldingsOK
<1>8. TotalsOK'
  <2>1. totalSupply' \in Int /\ everMinted' \in Nat
    BY <1>0, <1>1
  <2>2. /\ totalRetired' = totalRetired /\ totalBurned' = totalBurned
        /\ bridgedToEvm' = bridgedToEvm /\ certs' = certs
    BY <1>1
  <2> QED
    BY <1>0, <2>1, <2>2 DEF TotalsOK
<1>9. RolesOK'
  BY <1>0, <1>1, Untouched
<1>10. TypeOK'
  BY <1>7, <1>8, <1>9 DEF TypeOK
<1> HIDE DEF n
<1>11. Issued
  BY <1>1, <1>3, <1>4, <1>5, <1>6 DEF Issued
<1> QED
  BY <1>10, <1>11

--------------------------------------------------------------------------------
(***************************************************************************)
(* The results.  Each is what the formula makes of its own readings, and   *)
(* together they claim no more than the token counts as ever minted.       *)
(***************************************************************************)
ConfigOK(q) ==
  /\ q.beneficiary \in Address
  /\ \A p \in DOMAIN DefaultBaselines : q[p] \in Int

BaselinesOf(q) == IF q = NoProject THEN DefaultBaselines ELSE ResolvedBaselines(q)

\* A verdict as finalize_window gives it.
Earned(v) ==
  /\ IsWindow(v.readings) /\ FormulaOK(v.formula) /\ BaselinesOK(BaselinesOf(v.project))
  /\ v.result = Finalization(v.formula, Medians(v.readings), BaselinesOf(v.project))
  /\ v.minted \in Nat /\ v.fee \in Nat
  /\ v.minted + v.fee <= v.result.total
  /\ v.fee * 10000 <= (v.minted + v.fee) * v.formula.feeBps

Claimed(vs) == Total([i \in DOMAIN vs |-> vs[i].minted + vs[i].fee])

MintingIInv ==
  /\ TypeOK /\ SupplyInvariant
  /\ FormulaOK(formula)
  /\ project # NoProject => ConfigOK(project)
  /\ \E S : verdicts \in Seq(S)
  /\ \A i \in DOMAIN verdicts : Earned(verdicts[i])
  /\ Claimed(verdicts) <= everMinted

LEMMA BaselinesTyped ==
  ASSUME NEW q, q # NoProject => ConfigOK(q)
  PROVE  BaselinesOK(BaselinesOf(q))
<1>1. DOMAIN DefaultBaselines = {"nitrogen", "phosphorus", "temperature"}
  BY DEF DefaultBaselines
<1>2. /\ DefaultBaselines["nitrogen"] \in Int /\ DefaultBaselines["phosphorus"] \in Int
      /\ DefaultBaselines["temperature"] \in Int
  BY DEF DefaultBaselines
<1>3. CASE q = NoProject
  BY <1>2, <1>3 DEF BaselinesOf, BaselinesOK
<1>4. CASE q # NoProject
  <2> DEFINE b == ResolvedBaselines(q)
  <2>1. \A p \in DOMAIN DefaultBaselines :
          b[p] = IF q[p] = 0 THEN DefaultBaselines[p] ELSE q[p]
    BY DEF ResolvedBaselines
  <2>2. \A p \in {"nitrogen", "phosphorus", "temperature"} : q[p] \in Int
    BY <1>1, <1>4 DEF ConfigOK
  <2> HIDE DEF b
  <2>3. b["nitrogen"] \in Int
    BY <1>1, <1>2, <2>1, <2>2
  <2>4. b["phosphorus"] \in Int
    BY <1>1, <1>2, <2>1, <2>2
  <2>5. b["temperature"] \in Int
    BY <1>1, <1>2, <2>1, <2>2
  <2>6. BaselinesOK(b)
    BY <2>3, <2>4, <2>5 DEF BaselinesOK
  <2> QED
    BY <1>4, <2>6 DEF BaselinesOf, b
<1> QED
  BY <1>3, <1>4

LEMMA WindowsHold ==
  ASSUME NEW readings \in Windows, \A i \in DOMAIN readings : ValidReading(readings[i])
  PROVE  IsWindow(readings)
<1>0. MaxReadings \in Nat /\ \A k \in DOMAIN Sensed : Sensed[k] \in [Parameter -> Int]
  BY MintingAssumption
<1>1. PICK f \in UNION {[1 .. n -> DOMAIN Sensed] : n \in 1 .. MaxReadings} :
        readings = [i \in DOMAIN f |-> Sensed[f[i]]]
  BY DEF Windows
<1>2. PICK n \in 1 .. MaxReadings : f \in [1 .. n -> DOMAIN Sensed]
  BY <1>1
<1>3. n \in Nat \ {0} /\ DOMAIN f = 1 .. n /\ \A i \in 1 .. n : f[i] \in DOMAIN Sensed
  BY <1>0, <1>2
<1>4. \A i \in 1 .. n : Sensed[f[i]] \in [Parameter -> Int]
  BY <1>0, <1>3
<1>5. /\ readings = [i \in 1 .. n |-> Sensed[f[i]]]
      /\ DOMAIN readings = 1 .. n /\ \A i \in 1 .. n : readings[i] = Sensed[f[i]]
  BY <1>1, <1>3
<1>6. \A i \in 1 .. n : readings[i] \in Readings
  BY <1>4, <1>5 DEF Readings
<1>7. readings \in [1 .. n -> Readings]
  BY <1>5, <1>6
<1> QED
  BY <1>3, <1>7 DEF IsWindow

\* Clamping leaves no more than what was earned.
LEMMA ClampedIsEarned ==
  ASSUME TypeOK, NEW credits \in Nat
  PROVE  Mintable(credits) \in Nat /\ Mintable(credits) <= credits
<1>1. maxSupply \in Nat /\ totalSupply \in Int
  BY DEF TypeOK, RolesOK, TotalsOK
<1> QED
  BY <1>1 DEF Mintable

LEMMA FeeIsShare ==
  ASSUME FormulaOK(formula), NEW amount \in Nat
  PROVE  /\ Fee(amount) \in Nat /\ Fee(amount) <= amount
         /\ Fee(amount) * 10000 <= amount * formula.feeBps
<1> DEFINE b == formula.feeBps
           x == amount * b
           q == x \div 10000
<1>1. b \in Nat /\ b <= 10000
  BY DEF FormulaOK
<1>2. Fee(amount) = q
  BY DEF Fee
<1> HIDE DEF b
<1>3. x \in Nat /\ x <= amount * 10000
  <2>1. b * amount <= 10000 * amount
    BY <1>1, ProductsAscend
  <2> QED
    BY <1>1, <2>1
<1>4. x = amount * b
  OBVIOUS
<1> HIDE DEF x
<1>5. q \in Nat /\ q * 10000 <= x
  BY <1>3
<1> HIDE DEF q
<1>6. q <= amount
  BY <1>3, <1>5
<1> QED
  BY <1>2, <1>4, <1>5, <1>6 DEF b

LEMMA ClaimGrows ==
  ASSUME NEW vs, NEW S, vs \in Seq(S), NEW v, v.minted \in Nat, v.fee \in Nat,
         \A i \in DOMAIN vs : vs[i].minted \in Nat /\ vs[i].fee \in Nat
  PROVE  /\ Claimed(vs) \in Int
         /\ Claimed(Append(vs, v)) = Claimed(vs) + (v.minted + v.fee)
         /\ Append(vs, v) \in Seq(S \cup {v})
         /\ \A i \in DOMAIN Append(vs, v) :
              Append(vs, v)[i] = v \/ (i \in DOMAIN vs /\ Append(vs, v)[i] = vs[i])
<1> DEFINE n == Len(vs)
           ws == Append(vs, v)
           f == [i \in DOMAIN vs |-> vs[i].minted + vs[i].fee]
           g == [i \in DOMAIN ws |-> ws[i].minted + ws[i].fee]
<1>1. n \in Nat /\ DOMAIN vs = 1 .. n
  BY LenProperties
<1>2. vs \in Seq(S \cup {v})
  BY SeqMonotonic
<1>3. /\ ws \in Seq(S \cup {v}) /\ Len(ws) = n + 1 /\ ws[n + 1] = v
      /\ \A i \in 1 .. n : ws[i] = vs[i]
  BY <1>2, AppendProperties
<1>4. DOMAIN ws = 1 .. n + 1
  BY <1>1, <1>3, LenProperties
<1> HIDE DEF ws, n
<1>5. DOMAIN f = 1 .. n /\ DOMAIN g = 1 .. n + 1
  BY <1>1, <1>4
<1>6. \A i \in 1 .. n : f[i] \in Int /\ g[i] = f[i]
  <2> TAKE i \in 1 .. n
  <2>1. i \in 1 .. n + 1
    BY <1>1
  <2>2. f[i] = vs[i].minted + vs[i].fee /\ vs[i].minted \in Nat /\ vs[i].fee \in Nat
    BY <1>1
  <2>3. g[i] = ws[i].minted + ws[i].fee /\ ws[i] = vs[i]
    BY <1>3, <1>4, <2>1
  <2> HIDE DEF f, g
  <2> QED
    BY <2>2, <2>3
<1>7. g[n + 1] = v.minted + v.fee
  <2>1. n + 1 \in 1 .. n + 1
    BY <1>1
  <2> QED
    BY <1>3, <1>4, <2>1
<1> HIDE DEF f, g
<1>8. Total(f) \in Int /\ Total(g) = Total(f) + g[n + 1]
  <2>1. g[n + 1] \in Int
    BY <1>7
  <2> QED
    BY <1>1, <1>5, <1>6, <2>1, SumOfOneMore
<1>9. ASSUME NEW i \in DOMAIN ws PROVE ws[i] = v \/ (i \in DOMAIN vs /\ ws[i] = vs[i])
  <2>1. i \in 1 .. n \/ i = n + 1
    BY <1>1, <1>4
  <2> QED
    BY <1>1, <1>3, <2>1
<1> QED
  BY <1>3, <1>7, <1>8, <1>9 DEF ws, f, g, Claimed

LEMMA MintingStarts == MintingInit => MintingIInv
<1> SUFFICES ASSUME MintingInit PROVE MintingIInv
  OBVIOUS
<1>1. TypeOK /\ SupplyInvariant
  BY TypesInit, SupplyInit DEF MintingInit
<1>2. FormulaOK(formula)
  BY MintingAssumption DEF MintingInit, FormulaOK, Accepted
<1>3. project = NoProject /\ verdicts = <<>>
  BY DEF MintingInit
<1>4. Claimed(verdicts) = 0
  <2> DEFINE f == [i \in DOMAIN verdicts |-> verdicts[i].minted + verdicts[i].fee]
  <2>1. DOMAIN f = {}
    BY <1>3
  <2>2. SumFunctionOnSet(f, {}) = 0
    <3>1. IsFiniteSet({})
      BY FS_EmptySet
    <3> HIDE DEF f
    <3> QED
      BY <3>1, SumProperties
  <2> QED
    BY <2>1, <2>2 DEF Claimed, Total, SumFunction
<1>5. everMinted = 0
  BY DEF MintingInit, Init
<1>6. \E S : verdicts \in Seq(S)
  <2>1. verdicts \in Seq({})
    BY <1>3
  <2> QED
    BY <2>1
<1>7. \A i \in DOMAIN verdicts : Earned(verdicts[i])
  BY <1>3
<1> QED
  BY <1>1, <1>2, <1>3, <1>4, <1>5, <1>6, <1>7 DEF MintingIInv

\* What finalizing adds is a result that was earned, with its credits issued.
LEMMA FinalizeKeeps ==
  ASSUME MintingIInv, NEW readings \in Windows, Finalize(readings)
  PROVE  MintingIInv' /\ Effect
<1> DEFINE medians == Medians(readings)
           result == Finalization(formula, medians, Baselines)
           amount == IF project = NoProject THEN 0 ELSE Mintable(result.total)
           fee == Fee(amount)
           net == amount - fee
           v == Verdict(readings, result, net, fee)
<1>1. /\ \A i \in DOMAIN readings : ValidReading(readings[i])
      /\ verdicts' = Append(verdicts, v)
      /\ formula' = formula /\ project' = project
      /\ \/ amount = 0 /\ UNCHANGED vars
         \/ amount > 0 /\ MintSplit(net, fee)
  BY DEF Finalize
<1>2. /\ TypeOK /\ SupplyInvariant /\ FormulaOK(formula)
      /\ project # NoProject => ConfigOK(project)
      /\ \A i \in DOMAIN verdicts : Earned(verdicts[i])
      /\ Claimed(verdicts) <= everMinted
  BY DEF MintingIInv
<1>3. IsWindow(readings)
  BY <1>1, WindowsHold
<1>4. Baselines = BaselinesOf(project) /\ BaselinesOK(BaselinesOf(project))
  BY <1>2, BaselinesTyped DEF Baselines, BaselinesOf
<1>5. medians \in [Parameter -> Int] /\ medians.flow >= 0
  BY <1>3, MediansWithin
<1>6. result = Finalization(formula, medians, BaselinesOf(project))
  BY <1>4
<1>7. v = [ readings |-> readings, formula |-> formula, project |-> project,
            result |-> result, minted |-> net, fee |-> fee ]
  BY DEF Verdict
<1> HIDE DEF result
<1>8. result.total \in Nat
  <2> HIDE DEF medians
  <2>1. Finalization(formula, medians, BaselinesOf(project)).total \in Nat
    BY <1>2, <1>4, <1>5, TotalIsNatural
  <2> QED
    BY <1>6, <2>1
<1>9. amount \in Nat /\ amount <= result.total
  <2> DEFINE t == result.total
  <2>1. t \in Nat
    BY <1>8
  <2> HIDE DEF t
  <2>2. Mintable(t) \in Nat /\ Mintable(t) <= t
    BY <1>2, <2>1, ClampedIsEarned
  <2> QED
    BY <2>1, <2>2 DEF t
<1> HIDE DEF amount
<1>10. fee \in Nat /\ fee <= amount /\ fee * 10000 <= amount * formula.feeBps
  BY <1>2, <1>9, FeeIsShare
<1> HIDE DEF fee
<1>11. net \in Nat /\ net + fee = amount
  BY <1>9, <1>10
<1> HIDE DEF net, v, medians
<1>12. Earned(v)
  <2>1. /\ v.readings = readings /\ v.formula = formula /\ v.project = project
        /\ v.result = result /\ v.minted = net /\ v.fee = fee
    BY <1>7
  <2>2. v.result = Finalization(v.formula, Medians(v.readings), BaselinesOf(v.project))
    BY <1>6, <2>1 DEF medians
  <2>3. /\ v.minted \in Nat /\ v.fee \in Nat /\ v.minted + v.fee <= v.result.total
        /\ v.fee * 10000 <= (v.minted + v.fee) * v.formula.feeBps
    BY <1>9, <1>10, <1>11, <2>1
  <2> QED
    BY <1>2, <1>3, <1>4, <2>1, <2>2, <2>3 DEF Earned
<1>13. v.minted = net /\ v.fee = fee
  BY <1>7
<1>14. PICK S : verdicts \in Seq(S)
  BY DEF MintingIInv
<1>15. /\ Claimed(verdicts) \in Int
       /\ Claimed(Append(verdicts, v)) = Claimed(verdicts) + (v.minted + v.fee)
       /\ Append(verdicts, v) \in Seq(S \cup {v})
       /\ \A i \in DOMAIN Append(verdicts, v) :
            \/ Append(verdicts, v)[i] = v
            \/ i \in DOMAIN verdicts /\ Append(verdicts, v)[i] = verdicts[i]
  <2>1. \A i \in DOMAIN verdicts : verdicts[i].minted \in Nat /\ verdicts[i].fee \in Nat
    BY <1>2 DEF Earned
  <2>2. v.minted \in Nat /\ v.fee \in Nat
    BY <1>10, <1>11, <1>13
  <2> QED
    BY <1>14, <2>1, <2>2, ClaimGrows
<1>16. everMinted \in Nat
  BY <1>2, Quantities
<1>17. TypeOK' /\ SupplyInvariant' /\ Effect /\ everMinted' = everMinted + amount
  <2>1. CASE amount = 0 /\ UNCHANGED vars
    <3>1. TypeOK' /\ Effect
      BY <1>2, <2>1, TypesKept, StepEffect
    <3>2. everMinted' = everMinted
      BY <2>1 DEF vars, totals
    <3> QED
      BY <1>2, <1>16, <2>1, <3>1, <3>2, SupplyKept
  <2>2. CASE amount > 0 /\ MintSplit(net, fee)
    <3>1. project # NoProject
      BY <2>2 DEF amount
    <3>2. project.beneficiary \in Address /\ formula.treasury \in Address
      BY <1>2, <3>1 DEF ConfigOK, FormulaOK
    <3>3. TypeOK' /\ Issued
      BY <1>2, <1>10, <1>11, <2>2, <3>2, SplitIssues
    <3>4. Effect /\ SupplyInvariant'
      <4>1. Effect
        BY <3>3 DEF Effect
      <4> QED
        BY <1>2, <3>3, <4>1, SupplyKept
    <3>5. everMinted' = everMinted + net + fee
      BY <2>2 DEF MintSplit
    <3> QED
      BY <1>10, <1>11, <1>16, <3>3, <3>4, <3>5
  <2> QED
    BY <1>1, <2>1, <2>2
<1>18. \A i \in DOMAIN (verdicts') : Earned(verdicts'[i])
  BY <1>1, <1>2, <1>12, <1>15
<1>19. Claimed(verdicts') <= everMinted'
  <2>1. Claimed(verdicts') = Claimed(verdicts) + (v.minted + v.fee)
    BY <1>1, <1>15
  <2>2. v.minted + v.fee = amount
    BY <1>11, <1>13
  <2> QED
    BY <1>2, <1>9, <1>15, <1>16, <1>17, <2>1, <2>2
<1>20. \E T : verdicts' \in Seq(T)
  BY <1>1, <1>15
<1>21. FormulaOK(formula') /\ (project' # NoProject => ConfigOK(project'))
  BY <1>1, <1>2
<1> QED
  BY <1>17, <1>18, <1>19, <1>20, <1>21 DEF MintingIInv

LEMMA MintingKept ==
  ASSUME MintingIInv, [MintingNext]_mintingVars
  PROVE  MintingIInv' /\ Effect
<1>1. ASSUME NEW readings \in Windows, Finalize(readings)
      PROVE  MintingIInv' /\ Effect
  BY <1>1, FinalizeKeeps
<1>2. ASSUME [Next]_vars, verdicts' = verdicts, FormulaOK(formula'),
             project' # NoProject => ConfigOK(project')
      PROVE  MintingIInv' /\ Effect
  <2>1. TypeOK /\ SupplyInvariant /\ TypeOK' /\ Effect
    BY <1>2, TypesKept, StepEffect DEF MintingIInv
  <2>2. SupplyInvariant'
    BY <2>1, SupplyKept
  <2>3. everMinted' >= everMinted
    <3>1. everMinted \in Nat
      BY <2>1, Quantities
    <3> QED
      BY <2>1, <3>1 DEF Effect, Quiet, Issued, Burned, Retired, Transferred, totals
  <2>4. Claimed(verdicts') <= everMinted'
    <3>1. everMinted \in Nat /\ everMinted' \in Nat /\ Claimed(verdicts) \in Int
      <4>1. everMinted \in Nat /\ everMinted' \in Nat
        BY <2>1 DEF TypeOK, TotalsOK
      <4>2. Claimed(verdicts) \in Int
        <5> DEFINE v == [minted |-> 0, fee |-> 0]
        <5>1. PICK S : verdicts \in Seq(S)
          BY DEF MintingIInv
        <5>2. \A i \in DOMAIN verdicts : verdicts[i].minted \in Nat /\ verdicts[i].fee \in Nat
          BY DEF MintingIInv, Earned
        <5>3. v.minted \in Nat /\ v.fee \in Nat
          OBVIOUS
        <5> HIDE DEF v
        <5> QED
          BY <5>1, <5>2, <5>3, ClaimGrows
      <4> QED
        BY <4>1, <4>2
    <3>2. Claimed(verdicts') = Claimed(verdicts) /\ Claimed(verdicts) <= everMinted
      BY <1>2 DEF MintingIInv
    <3> QED
      BY <2>3, <3>1, <3>2
  <2>5. \E S : verdicts' \in Seq(S)
    BY <1>2 DEF MintingIInv
  <2>6. \A i \in DOMAIN (verdicts') : Earned(verdicts'[i])
    BY <1>2 DEF MintingIInv
  <2> QED
    BY <1>2, <2>1, <2>2, <2>4, <2>5, <2>6 DEF MintingIInv
<1>3. FormulaOK(formula) /\ (project # NoProject => ConfigOK(project))
  BY DEF MintingIInv
<1>4. ASSUME NEW c \in Formulas, UpdateFormula(c) PROVE MintingIInv' /\ Effect
  <2>1. FormulaOK(c)
    BY <1>4, MintingAssumption DEF UpdateFormula, Accepted, FormulaOK
  <2> QED
    BY <1>2, <1>3, <1>4, <2>1 DEF UpdateFormula
<1>5. ASSUME NEW q \in ProjectConfigs, SetProjectConfig(q) PROVE MintingIInv' /\ Effect
  <2>1. ConfigOK(q)
    BY MintingAssumption DEF ConfigOK
  <2> QED
    BY <1>2, <1>3, <1>5, <2>1 DEF SetProjectConfig
<1>6. CASE Next /\ UNCHANGED <<formula, project, verdicts>>
  BY <1>2, <1>3, <1>6
<1>7. CASE UNCHANGED mintingVars
  BY <1>2, <1>3, <1>7 DEF mintingVars
<1> QED
  BY <1>1, <1>4, <1>5, <1>6, <1>7 DEF MintingNext

\* In every reachable state each result is what the formula makes of a window of
\* valid readings, under the configuration and the baselines it was finalized
\* with, and the results together claim no more than was ever minted.
THEOREM MintingInvariant == MintingSpec => []MintingIInv
<1>1. MintingIInv /\ [MintingNext]_mintingVars => MintingIInv'
  BY MintingKept
<1> QED
  BY <1>1, MintingStarts, PTL DEF MintingSpec

\* Over all results, credits_minted and protocol_fee_minted are credits the token
\* issued, however often the cap, the configuration and the baselines change.
THEOREM OnlyMintedIsClaimed == MintingSpec => []ResultsClaimOnlyMinted
<1>1. MintingIInv => ResultsClaimOnlyMinted
  BY DEF MintingIInv, Claimed, ResultsClaimOnlyMinted
<1> QED
  BY <1>1, MintingInvariant, PTL

\* Clamping and the rounding of the fee leave every result within what its
\* readings earned, and the treasury within its share.
THEOREM SharesWithinEarnings == MintingSpec => []SharesStayWithinEarnings
<1>1. MintingIInv => SharesStayWithinEarnings
  BY DEF MintingIInv, Earned, SharesStayWithinEarnings
<1> QED
  BY <1>1, MintingInvariant, PTL

\* A minority of the readings moves no median of a result beyond what one of the
\* others measured, for any number of readings and any values.  How many oracles
\* stand behind them is another matter: see ResultsSpreadOut in OracleWindowProofs.
THEOREM MedianFollowsMajority == MintingSpec => []MajorityBoundsMedians
<1>1. MintingIInv => MajorityBoundsMedians
  <2> SUFFICES ASSUME MintingIInv, NEW i \in DOMAIN verdicts
               PROVE  LET readings == verdicts[i].readings
                          medians == Medians(readings)
                      IN  \A most \in SUBSET DOMAIN readings :
                            2 * Cardinality(most) > Len(readings) =>
                              \A p \in Parameter :
                                /\ \E k \in most : readings[k][p] <= medians[p]
                                /\ \E k \in most : readings[k][p] >= medians[p]
    BY DEF MajorityBoundsMedians
  <2>1. IsWindow(verdicts[i].readings)
    BY DEF MintingIInv, Earned
  <2> QED
    BY <2>1, MediansWithin
<1> QED
  BY <1>1, MintingInvariant, PTL

\* Cleaner water earns no less, through the medians' and the formula's divisions,
\* floors and thresholds, for any configuration whose rates are not negative.
THEOREM CleanerNoLess == MintingSpec => []CleanerWaterEarnsNoLess
<1>1. MintingIInv => CleanerWaterEarnsNoLess
  <2> SUFFICES ASSUME MintingIInv, NEW i \in DOMAIN verdicts, NEW j \in DOMAIN verdicts,
                      verdicts[i].formula = verdicts[j].formula,
                      verdicts[i].project = verdicts[j].project,
                      verdicts[i].formula.perKgN >= 0, verdicts[i].formula.perKgP >= 0,
                      AsGood(verdicts[i].formula, Medians(verdicts[i].readings),
                                                  Medians(verdicts[j].readings))
               PROVE  verdicts[i].result.total >= verdicts[j].result.total
    BY DEF CleanerWaterEarnsNoLess
  <2> DEFINE c == verdicts[i].formula
             b == BaselinesOf(verdicts[i].project)
             m == Medians(verdicts[i].readings)
             l == Medians(verdicts[j].readings)
  <2>1. Earned(verdicts[i]) /\ Earned(verdicts[j])
    BY DEF MintingIInv
  <2>2. /\ verdicts[i].result = Finalization(c, m, b)
        /\ verdicts[j].result = Finalization(c, l, b)
        /\ FormulaOK(c) /\ BaselinesOK(b)
    BY <2>1 DEF Earned
  <2>3. m \in [Parameter -> Int] /\ m.flow >= 0
    BY <2>1, MediansWithin DEF Earned
  <2>4. l \in [Parameter -> Int] /\ l.flow >= 0
    BY <2>1, MediansWithin DEF Earned
  <2>5. c.perKgN >= 0 /\ c.perKgP >= 0 /\ AsGood(c, m, l)
    OBVIOUS
  <2> HIDE DEF c, b, m, l
  <2>6. Finalization(c, m, b).total >= Finalization(c, l, b).total
    BY <2>2, <2>3, <2>4, <2>5, TotalAscends
  <2> QED
    BY <2>2, <2>6
<1> QED
  BY <1>1, MintingInvariant, PTL

\* What the token promises of its supply it keeps with the oracle as its minter:
\* the counters are conserved, somebody holds what circulates and the credits on
\* the EVM chain were burned.
THEOREM SupplySafeUnderOracle == MintingSpec => []SupplyInvariant
<1>1. MintingIInv => SupplyInvariant
  BY DEF MintingIInv
<1> QED
  BY <1>1, MintingInvariant, PTL

\* And it implements the supply ledger it promises: to it, a finalization is one
\* issue of the credits of both shares.
THEOREM RefinementUnderOracle == MintingSpec => ImplementsSupplyLedger
<1>1. MintingInit => Supply!Init
  BY LedgerInit DEF MintingInit
<1>2. MintingIInv /\ [MintingNext]_mintingVars => [Supply!Next]_Supply!supply
  BY MintingKept, LedgerStep DEF MintingIInv
<1> QED
  BY <1>1, <1>2, MintingInvariant, PTL DEF MintingSpec, ImplementsSupplyLedger, Supply!Spec

\* No finalization lifts the supply above the cap, and none gets through a pause.
THEOREM CapAndPauseUnderOracle == MintingSpec => MintsRespectCap /\ PauseFreezes
<1>1. MintingIInv /\ [MintingNext]_mintingVars =>
        /\ [everMinted' > everMinted => UnderCap(totalSupply')]_vars
        /\ [Frozen]_vars
  BY MintingKept, CapHoldsEffect, PauseHoldsEffect DEF MintingIInv
<1> QED
  BY <1>1, MintingInvariant, PTL DEF MintingSpec, MintsRespectCap, PauseFreezes, Frozen
================================================================================
