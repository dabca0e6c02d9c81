\* DREAM with staggered counters (dream_policy 1, dream_k 1, dream_th 3)
\* and the lazy DRFM policy on two bank groups of one bank: each counter is
\* shared by both banks, all-bank DRFM (dream_mitig runs).  Same-bank
\* refresh (REFsb/PREsb) spans both groups; reads and writes to one address
\* exercise HasRWDependency.
CONSTANTS
  Rows = {0, 1}
  Cols = {0}
  ReqTypes = {"READ", "WRITE"}
  RfmMode = 0
  RfmTh = 2
  RfmRaaDecrement = 1
  RefRaaDecrement = 1
  DrfmMode = 3
  DrfmQSize = 1
  DrfmQTh = 2
  DreamMode = 1
  MintMode = 0
  MintWindow = 1
  ParaMode = 0
  GrapheneMode = 0
  GrapheneTh = 1
  GrapheneEntries = 1
  HydraMode = 0
  HydraTh = 1
  HydraGctSize = 1
  HydraGctTh = 1
  RowsRefreshed = 1
  RccSets = 1
  RccWays = 1
  HydraWbqSize = 1
  ParaAlways = FALSE
  BankGroups = 2
  BanksPerGroup = 1
  DreamPolicy = 1
  DreamTh = 3
  DreamK = 1
  DreamReset = 1
  DreamPrevEnable = FALSE
  Refchunks = 1
  Fgr = FALSE
  MoatMode = 0
  MoatTh = 1
  AlertMode = 0
  AboDelayActs = 0
  DrfmPolicy = 1
  QueueSize = 2
  RefreshCmd = "REFsb"
  MaxReqs = 3
  MaxRefreshes = 1
SPECIFICATION Spec
INVARIANTS NoAbruptExit DreamNoEscape
PROPERTIES RequestsServed RefreshServed
