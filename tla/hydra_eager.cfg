\* Hydra with one GCT group, a one-way RCC, a one-entry sampler, eager policy, DRFMb.
CONSTANTS
  Rows = {0, 1}
  Cols = {0}
  ReqTypes = {"READ"}
  RfmMode = 0
  RfmTh = 2
  RfmRaaDecrement = 1
  RefRaaDecrement = 1
  DrfmMode = 1
  DrfmQSize = 1
  DrfmQTh = 2
  DreamMode = 0
  MintMode = 0
  MintWindow = 1
  ParaMode = 0
  GrapheneMode = 0
  GrapheneTh = 1
  GrapheneEntries = 1
  HydraMode = 1
  HydraTh = 2
  HydraGctSize = 1
  HydraGctTh = 1
  RowsRefreshed = 1
  RccSets = 1
  RccWays = 1
  HydraWbqSize = 1
  ParaAlways = FALSE
  BankGroups = 1
  BanksPerGroup = 2
  DreamPolicy = 0
  DreamTh = 1
  DreamK = 1
  DreamReset = 1
  DreamPrevEnable = FALSE
  Refchunks = 1
  Fgr = FALSE
  MoatMode = 0
  MoatTh = 1
  AlertMode = 0
  AboDelayActs = 0
  DrfmPolicy = 0
  QueueSize = 2
  RefreshCmd = "REFab"
  MaxReqs = 5
  MaxRefreshes = 1
SPECIFICATION Spec
INVARIANTS NoAbruptExit HydraCountsSound
PROPERTIES RequestsServed DrfmCompletes RefreshServed
