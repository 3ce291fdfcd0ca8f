\* One project, two oracles, both ways of reporting, under a changing quorum and a
\* pause guardian.
SPECIFICATION OracleSpec
CONSTANTS
  gold = gold
  Oracle = {o1, o2}
  OracleAdmins = {adm, gov}
  FirstAdmin = adm
  WindowAdmins = {guard}
  StakingToken = {gold}
  InitialConfig <- Double
  Configs <- Quorums
  HardLimit = 2
  StakeAmounts = {}
  Purse = 0
  MaxClock = 3
  Project = {p}
  MaxNonce = 2
INVARIANTS
  WindowTypeOK
  NoncesSpentOnce
  MedianBufferFits
  OneReadingPerPath
PROPERTIES
  QuorumIsKept
CHECK_DEADLOCK FALSE
