---------------------------- MODULE RetirementTrail ----------------------------
(***************************************************************************)
(* A credit token and the retirement registry it is linked to: retire      *)
(* calls record_retirement inside the token's own transaction, so that the *)
(* two contracts move together or not at all.  Other tokens appear as      *)
(* callers of the registry.                                                *)
(***************************************************************************)
EXTENDS CreditToken, RetirementRegistry

CONSTANTS
  Token,     \* the token's own address
  Registry,  \* the registry's address
  Project    \* the project id in the token's metadata

ASSUME TrailAssumption ==
  /\ Registries \subseteq {Registry}
  /\ Retirees = Address
  /\ Token \in Callers \ {RegistryAdmin}
  /\ Project \in Projects
  /\ Amounts \subseteq Retirements

trailVars == <<vars, registryVars>>

\* Mutant: the registry is told of the retirement and fails, and the token goes on.
RetireIgnoringFailure(holder, amount) ==
  \/ /\ registry = NoAddress
     /\ Retire(holder, amount, NoRecord)
     /\ UNCHANGED registryVars
  \/ /\ registry = Registry
     /\ Retire(holder, amount, NextId)
     /\ \/ RecordRetirement(Token, holder, Project, amount)
        \/ /\ Token \notin authorized
           /\ UNCHANGED registryVars

\* retire, and the registry's answer to it when one is linked.
RetireRecorded(holder, amount) ==
  \/ /\ registry = NoAddress
     /\ Retire(holder, amount, NoRecord)
     /\ UNCHANGED registryVars
  \/ /\ registry = Registry
     /\ Retire(holder, amount, NextId)
     /\ RecordRetirement(Token, holder, Project, amount)

\* The token's other calls never reach the registry.
TokenOnly ==
  /\ UNCHANGED registryVars
  /\ \/ \E caller \in Address :
          \/ Administer(caller)
          \/ Issue(caller)
          \/ Move(caller)
          \/ \E from \in Address, n \in Amounts : \/ Burn(caller, from, n)
                                                  \/ BurnWithReason(caller, from, n)
     \/ CloseLedger

\* The registry's admin and other tokens record retirements too.
RegistryOnly ==
  /\ UNCHANGED vars
  /\ \E caller \in Callers \ {Token} :
       \/ \E c \in Callers, allowed \in BOOLEAN : SetAuthorizedCaller(caller, c, allowed)
       \/ \E r \in Retirees, p \in Projects, n \in Retirements :
            RecordRetirement(caller, r, p, n)

TrailInit == Init /\ RegistryInit

TrailNext ==
  \/ \E holder \in Address, n \in Amounts : RetireRecorded(holder, n)
  \/ TokenOnly
  \/ RegistryOnly

TrailSpec == TrailInit /\ [][TrailNext]_trailVars

--------------------------------------------------------------------------------
\* The certificates that name a record, in the order they were issued, are the
\* records of this token in the order they were filed: same retiree, same
\* amount, the record's id on the certificate, and none missing on either side.
CertificatesMatchRecords ==
  LET ids == Chosen([i \in DOMAIN records |-> i],
                    {i \in DOMAIN records : records[i].token = Token})
      recorded == Chosen(certs, {c \in Range(certs) : c.record # NoRecord})
  IN  recorded = [k \in DOMAIN ids |-> Certificate(records[ids[k]].retiree,
                                                   records[ids[k]].amount, ids[k])]

\* While the link to the registry is in place and the token is not authorized
\* there, nobody can retire.
NoRetirementOffTheRecord ==
  [][ registry # NoAddress /\ Token \notin authorized
      => UNCHANGED <<certs, totalRetired>> ]_trailVars
================================================================================
