\* Finalizations of a capped token, with a fee that rounds down.
SPECIFICATION MintingSpec
CONSTANTS
  a = a
  o = o
  NoAddress = NoAddress
  NoRecord = NoRecord
  Deployer = a
  Delays = {}
  Expirations = {}
  RecordIds = {}
  Admins = {}
  Minters = {o}
  Guardians = {}
  Bridges = {a}
  Registries = {}
  Grants = {}
  MaxBatch = 0
  MaxLedger = 1
  Verifier = o
  Address = {a, o}
  Amounts = {}
  Caps = {5}
  MaxAmount = 12
  MaxI128 = 3000000
  Sensed <- Samples
  MaxReadings = 3
  Formulas <- Rated
  ProjectConfigs <- OwnBaselines
  NoProject = none
  MaxResults = 2
INVARIANTS
  ResultsClaimOnlyMinted
  SharesStayWithinEarnings
  MajorityBoundsMedians
  CleanerWaterEarnsNoLess
CHECK_DEADLOCK FALSE
