\* Cap, pause, guardian, allowances and admin handovers, with a bridge.
SPECIFICATION Spec
CONSTANTS
  a = a
  b = b
  NoAddress = NoAddress
  NoRecord = NoRecord
  Deployer = a
  Amounts = {1}
  Caps = {0, 1}
  Delays = {1}
  Expirations = {0, 2}
  RecordIds = {}
  Admins = {b}
  Minters = {}
  Guardians = {b}
  Bridges = {a}
  Registries = {}
  Grants <- AdminApprovesOther
  MaxBatch = 1
  MaxLedger = 2
  MaxAmount = 2
  Address = {a, b}
PROPERTIES
  MintsRespectCap
  PauseFreezes
  HandoverUsesUpProposal
  ImplementsSupplyLedger
CHECK_DEADLOCK FALSE
