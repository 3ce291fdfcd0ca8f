------------------------- MODULE ProjectDirectoryProofs -------------------------
(***************************************************************************)
(* Proofs about ProjectDirectory, for every set of owners, details,        *)
(* statuses and delegates and every number of projects.                    *)
(***************************************************************************)
EXTENDS ProjectDirectory, SequenceTheorems, FiniteSetTheorems, TLAPS

\* What a directory with one project more, or changed, contains.
LEMMA WithEntry ==
  ASSUME NEW f, NEW id, NEW v
  PROVE  /\ DOMAIN With(f, id, v) = DOMAIN f \cup {id}
         /\ With(f, id, v)[id] = v
         /\ \A i \in DOMAIN f \ {id} : With(f, id, v)[i] = f[i]
BY DEF With

\* A step of the registry registers, changes the entry of a project it has, or
\* changes the delegates, and the factory makes it do nothing else.
LEMMA RegistrySteps ==
  ASSUME [DirectoryNext]_directoryVars
  PROVE  \/ \E caller : \E d \in Details, o \in Owner : Register(caller, d, o)
         \/ /\ \E id \in DOMAIN entries : \/ \E s \in Status : entries' = [entries EXCEPT ![id].status = s]
                                          \/ \E o \in Owner : entries' = [entries EXCEPT ![id].owner = o]
            /\ UNCHANGED <<index, authorized>>
         \/ \E who \in Delegates, value \in BOOLEAN :
              /\ authorized' = IF value THEN authorized \cup {who} ELSE authorized \ {who}
              /\ UNCHANGED <<entries, index>>
         \/ UNCHANGED registryVars
<1> DEFINE Changed == /\ \E id \in DOMAIN entries :
                           \/ \E s \in Status : entries' = [entries EXCEPT ![id].status = s]
                           \/ \E o \in Owner : entries' = [entries EXCEPT ![id].owner = o]
                      /\ UNCHANGED <<index, authorized>>
<1>1. ASSUME NEW caller, NEW id, NEW s, UpdateStatus(caller, id, s)
      PROVE  Changed
  BY <1>1 DEF UpdateStatus, CanBecome
<1>2. ASSUME NEW caller, NEW id, NEW o \in Owner, UpdateOwner(caller, id, o)
      PROVE  Changed
  BY <1>2 DEF UpdateOwner
<1>3. ASSUME NEW caller, NEW who \in Delegates, NEW value \in BOOLEAN,
             SetAuthorizedCaller(caller, who, value)
      PROVE  /\ authorized' = IF value THEN authorized \cup {who} ELSE authorized \ {who}
             /\ UNCHANGED <<entries, index>>
  BY <1>3 DEF SetAuthorizedCaller
<1>4. ASSUME NEW caller, NEW value, SetProjectRegistry(caller, value)
      PROVE  UNCHANGED registryVars
  BY <1>4 DEF SetProjectRegistry
<1>5. ASSUME NEW caller, NEW d, NEW o, NEW m, RegisterProject(caller, d, o, m)
      PROVE  Register(Factory, d, o) \/ UNCHANGED registryVars
  BY <1>5 DEF RegisterProject, Passed
<1>6. ASSUME NEW caller, NEW id, NEW s, UpdateProjectStatus(caller, id, s)
      PROVE  UpdateStatus(Factory, id, s) \/ UNCHANGED registryVars
  BY <1>6 DEF UpdateProjectStatus, Passed
<1>7. ASSUME NEW caller, NEW id, NEW o, UpdateProjectOwner(caller, id, o)
      PROVE  UpdateOwner(Factory, id, o) \/ UNCHANGED registryVars
  BY <1>7 DEF UpdateProjectOwner, Passed
<1>8. UNCHANGED directoryVars => UNCHANGED registryVars
  BY DEF directoryVars
<1> DEFINE New == \E caller : \E d \in Details, o \in Owner : Register(caller, d, o)
           Named == \E who \in Delegates, value \in BOOLEAN :
                      /\ authorized' = IF value THEN authorized \cup {who} ELSE authorized \ {who}
                      /\ UNCHANGED <<entries, index>>
           Idle == UNCHANGED registryVars
           Goal == New \/ Changed \/ Named \/ Idle
<1> HIDE DEF Changed
<1>9. ASSUME NEW caller, NEW d \in Details, NEW o \in Owner, Register(caller, d, o)
      PROVE  Goal
  BY <1>9
<1> HIDE DEF Goal
<1>10. ASSUME NEW caller, NEW d \in Details, NEW o \in Owner, NEW m, RegisterProject(caller, d, o, m)
       PROVE  Goal
  <2>1. Register(Factory, d, o) \/ UNCHANGED registryVars
    BY <1>5, <1>10
  <2>2. UNCHANGED registryVars => Goal
    BY DEF Goal
  <2> QED
    BY <1>9, <2>1, <2>2
<1>11. ASSUME NEW caller, NEW id, NEW s, UpdateProjectStatus(caller, id, s) \/ UpdateStatus(caller, id, s)
       PROVE  Goal
  <2>1. Changed \/ UNCHANGED registryVars
    BY <1>1, <1>6, <1>11
  <2> QED
    BY <2>1 DEF Goal
<1>12. ASSUME NEW caller, NEW id, NEW o \in Owner,
              UpdateProjectOwner(caller, id, o) \/ UpdateOwner(caller, id, o)
       PROVE  Goal
  <2>1. Changed \/ UNCHANGED registryVars
    BY <1>2, <1>7, <1>12
  <2> QED
    BY <2>1 DEF Goal
<1>13. ASSUME NEW caller, NEW who \in Delegates, NEW value \in BOOLEAN,
              SetAuthorizedCaller(caller, who, value)
       PROVE  Goal
  BY <1>3, <1>13 DEF Goal
<1>14. ASSUME Idle PROVE Goal
  BY <1>14 DEF Goal
<1>15. Goal
  BY <1>4, <1>8, <1>9, <1>10, <1>11, <1>12, <1>13, <1>14 DEF DirectoryNext
<1> QED
  BY <1>15 DEF Goal, Changed

--------------------------------------------------------------------------------
(***************************************************************************)
(* The registry's list.                                                    *)
(***************************************************************************)

\* The list is in the order of the numbers hashed into the ids, and its elements are
\* the ids of the entries.
ListedInOrder ==
  /\ index \in Seq(DOMAIN entries)
  /\ \A i \in 1 .. Len(index) : \E d \in Details : index[i] = ProjectId(i - 1, d)
  /\ \A id \in DOMAIN entries : \E i \in 1 .. Len(index) : index[i] = id

LEMMA RegisterKeepsOrder ==
  ASSUME ListedInOrder, NEW caller, NEW d \in Details, NEW o, Register(caller, d, o)
  PROVE  ListedInOrder'
<1> DEFINE n == Len(index)
           id == ProjectId(n, d)
<1>1. /\ index \in Seq(DOMAIN entries)
      /\ n \in Nat
      /\ \A i \in 1 .. n : \E x \in Details : index[i] = ProjectId(i - 1, x)
      /\ \A j \in DOMAIN entries : \E i \in 1 .. n : index[i] = j
  BY LenProperties DEF ListedInOrder
<1>2. index' = Append(index, id) /\ DOMAIN entries' = DOMAIN entries \cup {id}
  <2>1. index' = Append(index, id) /\ entries' = With(entries, id, Registered(o))
    BY DEF Register
  <2>2. DOMAIN With(entries, id, Registered(o)) = DOMAIN entries \cup {id}
    BY WithEntry
  <2> QED
    BY <2>1, <2>2
<1>3. index \in Seq(DOMAIN entries')
  <2>1. DOMAIN entries \subseteq DOMAIN entries'
    BY <1>2
  <2> QED
    BY <1>1, <2>1, SeqMonotonic
<1>4. id \in DOMAIN entries'
  BY <1>2
<1>5. /\ index' \in Seq(DOMAIN entries')
      /\ Len(index') = n + 1
      /\ \A i \in 1 .. n : index'[i] = index[i]
      /\ index'[n + 1] = id
  BY <1>2, <1>3, <1>4, AppendProperties
<1>6. ASSUME NEW i \in 1 .. Len(index')
      PROVE  \E x \in Details : index'[i] = ProjectId(i - 1, x)
  <2>1. CASE i \in 1 .. n
    BY <1>1, <1>5, <2>1
  <2>2. CASE i = n + 1
    <3>1. i - 1 = n
      BY <1>1, <2>2
    <3> QED
      BY <1>5, <2>2, <3>1
  <2> HIDE DEF id
  <2> QED
    BY <1>1, <1>5, <2>1, <2>2
<1>7. ASSUME NEW j \in DOMAIN entries'
      PROVE  \E i \in 1 .. Len(index') : index'[i] = j
  <2>1. n + 1 \in 1 .. Len(index') /\ 1 .. n \subseteq 1 .. Len(index')
    BY <1>1, <1>5
  <2> HIDE DEF n, id
  <2> QED
    BY <1>1, <1>2, <1>5, <2>1
<1> QED
  BY <1>5, <1>6, <1>7 DEF ListedInOrder

LEMMA OrderInductive ==
  ASSUME ListedInOrder, [DirectoryNext]_directoryVars
  PROVE  ListedInOrder'
<1>1. CASE DOMAIN entries' = DOMAIN entries /\ index' = index
  BY <1>1 DEF ListedInOrder
<1>2. ASSUME \E id \in DOMAIN entries : \/ \E s : entries' = [entries EXCEPT ![id].status = s]
                                        \/ \E o : entries' = [entries EXCEPT ![id].owner = o]
      PROVE  DOMAIN entries' = DOMAIN entries
  BY <1>2
<1>3. UNCHANGED registryVars => entries' = entries /\ index' = index
  BY DEF registryVars
<1> QED
  BY <1>1, <1>2, <1>3, RegistrySteps, RegisterKeepsOrder

\* Every entry of the registry is listed once, and nothing else is: registering equal
\* details again gives them another id, because the number of projects is hashed.
THEOREM ListedOnce == DirectorySpec => []RegistryListsEveryProject
<1>1. DirectoryInit => ListedInOrder
  <2> SUFFICES ASSUME DirectoryInit PROVE ListedInOrder
    OBVIOUS
  <2>1. index = <<>> /\ entries = <<>> /\ DOMAIN entries = {}
    BY DEF DirectoryInit
  <2>2. Len(<<>>) = 0 /\ index \in Seq(DOMAIN entries)
    BY <2>1, EmptySeq
  <2> QED
    BY <2>1, <2>2 DEF ListedInOrder
<1>2. ListedInOrder /\ [DirectoryNext]_directoryVars => ListedInOrder'
  BY OrderInductive
<1>3. ListedInOrder => RegistryListsEveryProject
  <2> SUFFICES ASSUME ListedInOrder PROVE RegistryListsEveryProject
    OBVIOUS
  <2>1. /\ DOMAIN index = 1 .. Len(index)
        /\ \A i \in 1 .. Len(index) : index[i] \in DOMAIN entries
    BY LenProperties, ElementOfSeq DEF ListedInOrder
  <2>2. \A i, j \in 1 .. Len(index) : index[i] = index[j] => i = j
    <3> SUFFICES ASSUME NEW i \in 1 .. Len(index), NEW j \in 1 .. Len(index),
                        index[i] = index[j]
                 PROVE  i = j
      OBVIOUS
    <3>1. PICK x \in Details : index[i] = <<i - 1, x>>
      BY DEF ListedInOrder, ProjectId
    <3>2. PICK y \in Details : index[j] = <<j - 1, y>>
      BY DEF ListedInOrder, ProjectId
    <3>3. <<i - 1, x>>[1] = i - 1 /\ <<j - 1, y>>[1] = j - 1
      OBVIOUS
    <3>4. i - 1 = j - 1
      BY <3>1, <3>2, <3>3
    <3>5. i \in Int /\ j \in Int
      OBVIOUS
    <3> QED
      BY <3>4, <3>5
  <2>3. IsInjective(index)
    BY <2>1, <2>2 DEF IsInjective
  <2>4. Range(index) = DOMAIN entries
    BY <2>1 DEF Range, ListedInOrder
  <2> QED
    BY <2>3, <2>4 DEF RegistryListsEveryProject
<1> QED
  BY <1>1, <1>2, <1>3, PTL DEF DirectorySpec

--------------------------------------------------------------------------------
(***************************************************************************)
(* The two directories.                                                    *)
(***************************************************************************)

\* Directories that agree still do after any call of the factory that changes one,
\* as long as it has a registry: what the registry refuses fails the whole call.
THEOREM AgreementKept == DirectorySpec => FactoryKeepsAgreement
<1>1. DirectoryInit => ListedInOrder
  BY EmptySeq DEF DirectoryInit, ListedInOrder
<1>2. ListedInOrder /\ [DirectoryNext]_directoryVars => ListedInOrder'
  BY OrderInductive
<1>3. ListedInOrder /\ [DirectoryNext]_directoryVars
      => [Agree /\ registrySet /\ projects' # projects => Agree']_directoryVars
  <2> SUFFICES ASSUME ListedInOrder, [DirectoryNext]_directoryVars, Agree, registrySet,
                      projects' # projects
               PROVE  Agree'
    OBVIOUS
  <2>1. /\ projects = entries /\ factoryCount = Len(index)
        /\ index \in Seq(DOMAIN entries)
        /\ Len(index) \in Nat
    BY LenProperties DEF Agree, ListedInOrder
  <2>2. ASSUME NEW caller, NEW d \in Details, NEW o, NEW m, RegisterProject(caller, d, o, m)
        PROVE  Agree'
    <3> DEFINE id == ProjectId(factoryCount, d)
    <3>1. /\ projects' = With(projects, id, Registered(o))
          /\ factoryCount' = factoryCount + 1
          /\ entries' = With(entries, ProjectId(Len(index), d), Registered(o))
          /\ index' = Append(index, ProjectId(Len(index), d))
      BY <2>2 DEF RegisterProject, Passed, Register
    <3>2. projects' = entries'
      BY <2>1, <3>1
    <3>3. Len(index') = Len(index) + 1
      <4> DEFINE T == DOMAIN entries \cup {id}
      <4>1. index \in Seq(T)
        BY <2>1, SeqMonotonic
      <4>2. id \in T /\ index' = Append(index, id)
        BY <2>1, <3>1
      <4> HIDE DEF T, id
      <4> QED
        BY <4>1, <4>2, AppendProperties
    <3> QED
      BY <2>1, <3>1, <3>2, <3>3 DEF Agree
  <2>3. ASSUME NEW caller, NEW id, NEW s, UpdateProjectStatus(caller, id, s)
        PROVE  Agree'
    BY <2>1, <2>3 DEF UpdateProjectStatus, Passed, UpdateStatus, Agree
  <2>4. ASSUME NEW caller, NEW id, NEW o, UpdateProjectOwner(caller, id, o)
        PROVE  Agree'
    BY <2>1, <2>4 DEF UpdateProjectOwner, Passed, UpdateOwner, Agree
  <2>5. ASSUME NEW caller, NEW value, SetProjectRegistry(caller, value)
        PROVE  projects' = projects
    BY <2>5 DEF SetProjectRegistry
  <2>6. UNCHANGED factoryVars => projects' = projects
    BY DEF factoryVars
  <2>7. UNCHANGED directoryVars => UNCHANGED factoryVars
    BY DEF directoryVars
  <2> QED
    BY <2>2, <2>3, <2>4, <2>5, <2>6, <2>7 DEF DirectoryNext
<1> QED
  BY <1>1, <1>2, <1>3, PTL DEF DirectorySpec, FactoryKeepsAgreement
================================================================================
