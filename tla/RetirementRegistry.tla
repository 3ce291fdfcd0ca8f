--------------------------- MODULE RetirementRegistry ---------------------------
(***************************************************************************)
(* contracts/retirement_registry: the public record of retired credits,    *)
(* written by the credit tokens and by the registry's admin, and read in   *)
(* pages by retiree or by project.                                         *)
(*                                                                         *)
(* The admin is set once by initialize and no call replaces it.            *)
(***************************************************************************)
EXTENDS Integers, FiniteSets, Functions, Selections

CONSTANTS
  RegistryAdmin,  \* the admin named to initialize
  Callers,        \* addresses that call the registry or are authorized on it
  Retirees,       \* addresses credits are retired by
  Projects,       \* project ids
  Retirements,    \* amounts recorded
  MaxTotal        \* i128::MAX

ASSUME RegistryAssumption ==
  /\ RegistryAdmin \in Callers
  /\ Retirements \subseteq Int
  /\ MaxTotal \in Nat

VARIABLES
  records,        \* DataKey::Record(1), Record(2), ...; RecordCount is the length
  totalRecorded,  \* DataKey::TotalRetired
  authorized,     \* the addresses whose DataKey::AuthorizedCaller is true
  byRetiree,      \* DataKey::RetireeIndex(r, 0), ...; RetireeCount(r) is the length
  byProject       \* DataKey::ProjectIndex(p, 0), ...; ProjectCount(p) is the length

registryVars == <<records, totalRecorded, authorized, byRetiree, byProject>>

NextId == Len(records) + 1

SetAuthorizedCaller(admin, caller, allowed) ==
  /\ admin = RegistryAdmin
  /\ authorized' = IF allowed THEN authorized \cup {caller} ELSE authorized \ {caller}
  /\ UNCHANGED <<records, totalRecorded, byRetiree, byProject>>

Filed(index, key) == [index EXCEPT ![key] = Append(@, NextId)]

\* Mutant: TotalRetired is saved from the amount alone.
RecordForgettingTotal(caller, retiree, project, amount) ==
  /\ caller = RegistryAdmin \/ caller \in authorized
  /\ amount > 0
  /\ totalRecorded + amount <= MaxTotal
  /\ records' = Append(records, [retiree |-> retiree, project |-> project,
                                 token |-> caller, amount |-> amount])
  /\ byRetiree' = Filed(byRetiree, retiree)
  /\ byProject' = Filed(byProject, project)
  /\ totalRecorded' = amount
  /\ UNCHANGED authorized

\* Mutant: the record is stored under RecordCount, over the one before it.
RecordOverwriting(caller, retiree, project, amount) ==
  /\ caller = RegistryAdmin \/ caller \in authorized
  /\ amount > 0
  /\ totalRecorded + amount <= MaxTotal
  /\ LET new == [retiree |-> retiree, project |-> project,
                 token |-> caller, amount |-> amount]
     IN  records' = IF records = <<>> THEN <<new>>
                                      ELSE [records EXCEPT ![Len(records)] = new]
  /\ byRetiree' = Filed(byRetiree, retiree)
  /\ byProject' = Filed(byProject, project)
  /\ totalRecorded' = totalRecorded + amount
  /\ UNCHANGED authorized

\* The record's credit_token is whoever calls.
RecordRetirement(caller, retiree, project, amount) ==
  /\ caller = RegistryAdmin \/ caller \in authorized
  /\ amount > 0
  /\ totalRecorded + amount <= MaxTotal
  /\ records' = Append(records, [retiree |-> retiree, project |-> project,
                                 token |-> caller, amount |-> amount])
  /\ byRetiree' = Filed(byRetiree, retiree)
  /\ byProject' = Filed(byProject, project)
  /\ totalRecorded' = totalRecorded + amount
  /\ UNCHANGED authorized

\* Mutant: the page ends at the limit, whatever its offset.
PageEndingAtLimit(index, offset, limit) ==
  LET last == IF limit < Len(index) THEN limit ELSE Len(index)
  IN  [i \in 1 .. last - offset |-> records[index[offset + i]]]

\* The page of an index that starts at a zero-based offset.
Page(index, offset, limit) ==
  LET last == IF offset + limit < Len(index) THEN offset + limit ELSE Len(index)
  IN  [i \in 1 .. last - offset |-> records[index[offset + i]]]

GetRetirementsByRetiree(retiree, offset, limit) == Page(byRetiree[retiree], offset, limit)
GetRetirementsByProject(project, offset, limit) == Page(byProject[project], offset, limit)

--------------------------------------------------------------------------------
RegistryInit ==
  /\ records = <<>>
  /\ totalRecorded = 0
  /\ authorized = {}
  /\ byRetiree = [r \in Retirees |-> <<>>]
  /\ byProject = [p \in Projects |-> <<>>]

RegistryNext ==
  \E caller \in Callers :
    \/ \E c \in Callers, allowed \in BOOLEAN : SetAuthorizedCaller(caller, c, allowed)
    \/ \E r \in Retirees, p \in Projects, n \in Retirements : RecordRetirement(caller, r, p, n)

RegistrySpec == RegistryInit /\ [][RegistryNext]_registryVars

--------------------------------------------------------------------------------
Records == [retiree : Retirees, project : Projects, token : Callers, amount : Nat \ {0}]

RegistryTypeOK ==
  /\ records \in Seq(Records)
  /\ totalRecorded \in Nat
  /\ authorized \subseteq Callers
  /\ byRetiree \in [Retirees -> Seq(1 .. Len(records))]
  /\ byProject \in [Projects -> Seq(1 .. Len(records))]

\* TotalRetired is the sum of what the records say was retired.
RecordsAddUp ==
  SumFunction([i \in DOMAIN records |-> records[i].amount]) = totalRecorded

Those(key, field) == Chosen(records, {r \in Range(records) : r[field] = key})

Cut(s, offset, limit) ==
  SubSeq(s, offset + 1, IF offset + limit < Len(s) THEN offset + limit ELSE Len(s))

\* The pages read from the two indexes, cut anywhere, are what a scan of all the
\* records finds: none is missed, repeated, reordered or filed under another.
PagesAreTheRecords ==
  \A offset, limit \in 0 .. Len(records) :
    /\ \A r \in Retirees : GetRetirementsByRetiree(r, offset, limit)
                           = Cut(Those(r, "retiree"), offset, limit)
    /\ \A p \in Projects : GetRetirementsByProject(p, offset, limit)
                           = Cut(Those(p, "project"), offset, limit)

\* SPEC section 5, invariant 5: records are append-only.
RecordsAreAppendOnly ==
  [][ /\ Len(records') >= Len(records)
      /\ SubSeq(records', 1, Len(records)) = records ]_registryVars
================================================================================
