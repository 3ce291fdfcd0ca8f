---------------------------- MODULE ProjectDirectory ----------------------------
(***************************************************************************)
(* contracts/credit_factory and contracts/project_registry, and what they  *)
(* take from contracts/shared: two directories of the same projects.  The  *)
(* factory passes what it does on to the registry, if one is set, in the   *)
(* same transaction; the registry can also be called directly.             *)
(*                                                                         *)
(* Both identify a project by a hash of its details and of their own       *)
(* number of projects.  The hash is one to one: an id is the pair.         *)
(***************************************************************************)
EXTENDS Integers, FiniteSets, SequencesExt

CONSTANTS
  FactoryAdmin,   \* the admin named to the factory's initialize
  RegistryAdmin,  \* the admin named to the registry's initialize
  Factory,        \* the factory's own address
  Owner,          \* addresses that own projects
  Delegates,      \* addresses named to set_authorized_caller
  Details,        \* project details, valid or not
  NewStatuses,    \* statuses named to updates, recognised or not
  Minter,         \* minters named to register_project
  NoMinter,       \* stands for none
  MaxProjects     \* most projects in either directory (a bound of the model)

\* The lengths, coordinates and area of a project are in range or not.
Detail == [what : {d.what : d \in Details}, named : BOOLEAN, located : BOOLEAN, sized : BOOLEAN]

ASSUME DirectoryAssumption ==
  /\ Details \subseteq Detail
  /\ NewStatuses \subseteq STRING
  /\ Factory \notin Owner
  /\ MaxProjects \in Nat

VARIABLES
  registrySet,   \* whether the factory's DataKey::ProjectRegistry is set
  projects,      \* the factory's Project entries, by id
  factoryCount,  \* the factory's ProjectCount
  tokens,        \* the credit tokens the factory deployed: their minter, by id
  entries,       \* the registry's Project entries, by id
  index,         \* ProjectIdAt; its length is the registry's ProjectCount
  authorized     \* the addresses whose AuthorizedCaller is true

factoryVars == <<registrySet, projects, factoryCount, tokens>>
registryVars == <<entries, index, authorized>>
directoryVars == <<factoryVars, registryVars>>

--------------------------------------------------------------------------------
Status == {"registered", "active", "completed", "suspended"}

\* is_valid_status_transition, of recognised statuses that differ.
Transition == { <<"registered", "active">>, <<"active", "completed">>,
                <<"active", "suspended">>, <<"completed", "active">>,
                <<"suspended", "registered">> }

\* A project may be given the status it has, which changes nothing.
CanBecome(old, new) == new \in Status /\ (old = new \/ <<old, new>> \in Transition)

\* Mutant: the number of projects is not hashed.
ProjectIdOfDetails(count, d) == <<0, d>>

\* generate_project_id.
ProjectId(count, d) == <<count, d>>

Registered(owner) == [owner |-> owner, status |-> "registered"]

\* A directory with `project' under `id', in place of what was there.
With(directory, id, project) ==
  [i \in DOMAIN directory \cup {id} |-> IF i = id THEN project ELSE directory[i]]

--------------------------------------------------------------------------------
MayRegister(caller) == caller = RegistryAdmin \/ caller \in authorized

\* project_registry.register.  Coordinates are not checked, nor is the id free.
Register(caller, d, owner) ==
  LET id == ProjectId(Len(index), d)
  IN  /\ Len(index) < MaxProjects
      /\ MayRegister(caller)
      /\ d.named
      /\ d.sized
      /\ entries' = With(entries, id, Registered(owner))
      /\ index' = Append(index, id)
      /\ UNCHANGED authorized

UpdateStatus(caller, id, status) ==
  /\ MayRegister(caller)
  /\ id \in DOMAIN entries
  /\ CanBecome(entries[id].status, status)
  /\ entries' = [entries EXCEPT ![id].status = status]
  /\ UNCHANGED <<index, authorized>>

UpdateOwner(caller, id, new) ==
  /\ id \in DOMAIN entries
  /\ MayRegister(caller) \/ caller = entries[id].owner
  /\ entries' = [entries EXCEPT ![id].owner = new]
  /\ UNCHANGED <<index, authorized>>

SetAuthorizedCaller(caller, who, value) ==
  /\ caller = RegistryAdmin
  /\ authorized' = IF value THEN authorized \cup {who} ELSE authorized \ {who}
  /\ UNCHANGED <<entries, index>>

--------------------------------------------------------------------------------
\* What the factory has the registry do as well, if one is set.
Passed(call) == IF registrySet THEN call ELSE UNCHANGED registryVars

SetProjectRegistry(caller, value) ==
  /\ caller = FactoryAdmin
  /\ registrySet' = value
  /\ UNCHANGED <<projects, factoryCount, tokens, registryVars>>

\* Deploys and initializes a token, and may name its minter.  The token's address
\* follows from the id, so that only an id that is new gets one.
RegisterProject(caller, d, owner, minter) ==
  LET id == ProjectId(factoryCount, d)
  IN  /\ factoryCount < MaxProjects
      /\ caller = FactoryAdmin
      /\ d.named
      /\ d.located
      /\ d.sized
      /\ id \notin DOMAIN projects
      /\ Passed(Register(Factory, d, owner))
      /\ projects' = With(projects, id, Registered(owner))
      /\ tokens' = With(tokens, id, minter)
      /\ factoryCount' = factoryCount + 1
      /\ UNCHANGED registrySet

UpdateProjectStatus(caller, id, status) ==
  /\ caller = FactoryAdmin
  /\ Passed(UpdateStatus(Factory, id, status))
  /\ id \in DOMAIN projects
  /\ CanBecome(projects[id].status, status)
  /\ projects' = [projects EXCEPT ![id].status = status]
  /\ UNCHANGED <<registrySet, factoryCount, tokens>>

\* Mutant: the registry is not told.
UpdateProjectOwnerAlone(caller, id, new) ==
  /\ id \in DOMAIN projects
  /\ caller = FactoryAdmin \/ caller = projects[id].owner
  /\ UNCHANGED registryVars
  /\ projects' = [projects EXCEPT ![id].owner = new]
  /\ UNCHANGED <<registrySet, factoryCount, tokens>>

UpdateProjectOwner(caller, id, new) ==
  /\ id \in DOMAIN projects
  /\ caller = FactoryAdmin \/ caller = projects[id].owner
  /\ Passed(UpdateOwner(Factory, id, new))
  /\ projects' = [projects EXCEPT ![id].owner = new]
  /\ UNCHANGED <<registrySet, factoryCount, tokens>>

--------------------------------------------------------------------------------
DirectoryInit ==
  /\ registrySet = FALSE
  /\ projects = <<>>
  /\ factoryCount = 0
  /\ tokens = <<>>
  /\ entries = <<>>
  /\ index = <<>>
  /\ authorized = {}

Ids == {ProjectId(n, d) : n \in 0 .. MaxProjects - 1, d \in Details}
Callers == {FactoryAdmin, RegistryAdmin} \cup Owner

\* The factory is a caller of the registry only within its own calls.
DirectoryNext ==
  \E caller \in Callers :
    \/ \E value \in BOOLEAN : SetProjectRegistry(caller, value)
    \/ \E d \in Details, o \in Owner, m \in Minter \cup {NoMinter} :
         RegisterProject(caller, d, o, m)
    \/ \E id \in Ids, s \in NewStatuses : UpdateProjectStatus(caller, id, s)
    \/ \E id \in Ids, o \in Owner : UpdateProjectOwner(caller, id, o)
    \/ /\ UNCHANGED factoryVars
       /\ \/ \E d \in Details, o \in Owner : Register(caller, d, o)
          \/ \E id \in Ids, s \in NewStatuses : UpdateStatus(caller, id, s)
          \/ \E id \in Ids, o \in Owner : UpdateOwner(caller, id, o)
          \/ \E who \in Delegates, value \in BOOLEAN :
               SetAuthorizedCaller(caller, who, value)

DirectorySpec == DirectoryInit /\ [][DirectoryNext]_directoryVars

--------------------------------------------------------------------------------
Project == [owner : Owner, status : Status]

\* Both directories hold projects with recognised statuses, the factory one for
\* every number up to its count and each with a token of its own.
DirectoryTypeOK ==
  /\ registrySet \in BOOLEAN
  /\ factoryCount \in Nat
  /\ Cardinality(DOMAIN projects) = factoryCount
  /\ DOMAIN tokens = DOMAIN projects
  /\ \A id \in DOMAIN projects : projects[id] \in Project
  /\ \A id \in DOMAIN tokens : tokens[id] \in Minter \cup {NoMinter}
  /\ \A id \in DOMAIN entries : entries[id] \in Project
  /\ index \in Seq(DOMAIN entries)
  /\ authorized \subseteq Delegates

\* Listing the registry shows every project once: registering the same details
\* again, or a call that does nothing, neither hides a project nor doubles one.
RegistryListsEveryProject ==
  /\ IsInjective(index)
  /\ Range(index) = DOMAIN entries

\* The two directories say the same.
Agree == projects = entries /\ factoryCount = Len(index)

\* "A failed cross-contract call reverts the entire transaction": whatever a
\* factory with a registry does to directories that agree leaves them agreeing,
\* ids included, whichever of the two would refuse the call.
FactoryKeepsAgreement ==
  [][ Agree /\ registrySet /\ projects' # projects => Agree' ]_directoryVars

\* "preventing ghost projects (token deployed but no registry entry)": a project
\* the factory registers while a registry is set has an entry there.
NoGhostProjects ==
  [][ \A id \in DOMAIN projects' \ DOMAIN projects :
        registrySet => id \in DOMAIN entries' ]_directoryVars
================================================================================
