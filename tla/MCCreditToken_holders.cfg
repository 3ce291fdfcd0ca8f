\* Do the balances add up to the supply?
SPECIFICATION Spec
CONSTANTS
  a = a
  b = b
  NoAddress = NoAddress
  NoRecord = NoRecord
  Deployer = a
  Amounts = {1}
  Caps = {}
  Delays = {}
  Expirations = {}
  RecordIds = {}
  Admins = {}
  Minters = {}
  Guardians = {}
  Bridges = {}
  Registries = {}
  Grants = {}
  MaxBatch = 1
  MaxLedger = 1
  MaxAmount = 2
  Address = {a, b}
INVARIANTS
  HoldersHoldSupply
CHECK_DEADLOCK FALSE
