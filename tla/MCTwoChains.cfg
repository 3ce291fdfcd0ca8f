\* A user on either chain, two relayers of whom one is faulty, one transfer each way.
SPECIFICATION FairChainsSpec
CONSTANTS
  u = u
  br = br
  x = x
  r = r
  s = s
  f = f
  here = here
  other = other
  NoAddress = NoAddress
  NoRecord = NoRecord
  Deployer = u
  Amounts = {1}
  Caps = {}
  Delays = {}
  Expirations = {}
  RecordIds = {}
  Admins = {}
  Minters = {br}
  Guardians = {}
  Bridges = {br}
  Registries = {}
  Grants = {}
  MaxBatch = 0
  MaxLedger = 1
  MaxAmount = 2
  Address = {u, br}
  Token = tok
  BridgeAddress = br
  BridgeAdmin = u
  BridgeGovernance = u
  BridgeTokens = {tok}
  EvmToken = here
  EvmRecipients = {x, zero}
  FirstRelayers <- Duo
  RelayerLists <- Lists
  MaxDeposits = 2
  EvmAddress = {x, zero}
  ZeroAddress = zero
  EvmContract = here
  EvmAdmin = x
  EvmGovernance = x
  EvmRelayers = {r, f}
  EvmThreshold = 2
  EvmAmounts = {1}
  EvmGrants <- SelfGrant
  StellarTargets <- Targets
  NoTarget = none
  MaxEvmDeposits = 2
  Faulty = {f}
  Foreign <- ElseWhere
  Forged <- Fakes

  
PROPERTIES
  
  SentCreditsArrive
CHECK_DEADLOCK FALSE
