\* Missed reveals, slashes, unstakes and claims of two tokens; two projects compete
\* for one open window.
SPECIFICATION OracleSpec
CONSTANTS
  gold = gold
  Oracle = {o1, o2}
  OracleAdmins = {adm}
  FirstAdmin = adm
  WindowAdmins = {}
  StakingToken = {gold}
  InitialConfig <- Quick
  Configs = {}
  HardLimit = 2
  StakeAmounts = {1, 2}
  Purse = 2
  MaxClock = 3
  Project = {p, q}
  MaxNonce = 1
SYMMETRY Alike
INVARIANTS
  StakesAreBacked
  IndexedProjectsAreOpen
CHECK_DEADLOCK FALSE
