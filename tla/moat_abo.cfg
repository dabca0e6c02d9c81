\* MOAT with PRAC counters and the ABO alert flow: all-bank RFM from the RAA
\* counter and from the alert back-off, all-bank refresh, two banks, three rows.
CONSTANTS
  Rows = {0, 1, 2}
  Cols = {0}
  ReqTypes = {"READ"}
  RfmMode = 2
  RfmTh = 2
  RfmRaaDecrement = 1
  RefRaaDecrement = 1
  DrfmMode = 0
  DrfmQSize = 1
  DrfmQTh = 2
  DreamMode = 0
  MintMode = 0
  MintWindow = 1
  ParaMode = 0
  GrapheneMode = 0
  GrapheneTh = 1
  GrapheneEntries = 1
  HydraMode = 0
  HydraTh = 1
  HydraGctSize = 1
  HydraGctTh = 1
  RowsRefreshed = 1
  RccSets = 1
  RccWays = 1
  HydraWbqSize = 1
  ParaAlways = FALSE
  BankGroups = 1
  BanksPerGroup = 2
  DreamPolicy = 0
  DreamTh = 1
  DreamK = 1
  DreamReset = 1
  DreamPrevEnable = FALSE
  Refchunks = 1
  Fgr = FALSE
  MoatMode = 1
  MoatTh = 2
  AlertMode = 1
  AboDelayActs = 1
  DrfmPolicy = 0
  QueueSize = 2
  RefreshCmd = "REFab"
  MaxReqs = 3
  MaxRefreshes = 1
SPECIFICATION Spec
INVARIANTS NoAbruptExit AlertNotLost
PROPERTIES RequestsServed RefreshServed

