\* Every way credits are minted, moved and destroyed, with one admin and bridges that
\* replace each other.
SPECIFICATION HistorySpec
CONSTANTS
  a = a
  b = b
  NoAddress = NoAddress
  NoRecord = NoRecord
  Deployer = a
  Amounts <- EdgeAmounts
  Caps = {}
  Delays = {}
  Expirations = {}
  RecordIds = {}
  Admins = {}
  Minters = {b}
  Guardians = {}
  Bridges = {a, b}
  Registries = {}
  Grants = {}
  MaxBatch = 2
  MaxLedger = 1
  MaxAmount = 3
  Address = {a, b}
INVARIANTS
  TypeOK
  SupplyConservation
  HeldCoversSupply
  BridgesBringBackWhatTheySent
  CertificatesAccountForRetired
PROPERTIES
  GapOnlyFromPayingOneself
CHECK_DEADLOCK FALSE
