\* Two projects with equal details, two owners, and direct calls to the registry.
SPECIFICATION DirectorySpec
CONSTANTS
  lake = lake
  FactoryAdmin = adm
  RegistryAdmin = reg
  Factory = factory
  Owner = {x, y}
  Delegates = {factory}
  Details <- SomeDetails
  NewStatuses <- SomeStatuses
  Minter = {oracle}
  NoMinter = none
  MaxProjects = 2
INVARIANTS
  RegistryListsEveryProject
PROPERTIES
  FactoryKeepsAgreement
CHECK_DEADLOCK FALSE
