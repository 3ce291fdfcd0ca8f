\* Does claiming pay back the tokens that were unstaked?
SPECIFICATION StakingSpec
CONSTANTS
  gold = gold
  silver = silver
  Oracle = {o1, o2}
  OracleAdmins = {adm}
  FirstAdmin = adm
  StakingToken = {gold, silver}
  InitialConfig <- Small
  Configs <- Changes
  HardLimit = 2
  StakeAmounts <- EdgeAmounts
  Purse = 2
  MaxClock = 3
PROPERTIES
  ClaimPaysUnstaked
CHECK_DEADLOCK FALSE
