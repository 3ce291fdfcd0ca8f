\* A token linked to a registry that other callers use too.
SPECIFICATION TrailSpec
CONSTANTS
  NoAddress = NoAddress
  NoRecord = NoRecord
  Deployer = a
  Amounts = {1}
  Caps = {}
  Delays = {}
  Expirations = {}
  RecordIds = {}
  Admins = {}
  Minters = {}
  Guardians = {}
  Bridges = {}
  Registries = {reg}
  Grants = {}
  MaxBatch = 1
  MaxLedger = 1
  MaxAmount = 2
  Address = {a, reg}
  RegistryAdmin = adm
  Callers = {adm, token}
  Retirees = {a, reg}
  Projects = {p}
  Retirements = {1}
  MaxTotal = 3
  Token = token
  Registry = reg
  Project = p
INVARIANTS
  RecordsAddUp
  PagesAreTheRecords
  CertificatesMatchRecords
PROPERTIES
  RecordsAreAppendOnly
  NoRetirementOffTheRecord
CHECK_DEADLOCK FALSE
