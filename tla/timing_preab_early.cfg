SPECIFICATION Spec
CONSTANTS
  BankGroups = 2
  BanksPerGroup = 2
  Burst = 1
  AL = 0
  RL = 2
  WL = 1
  WriteDelay = 2
  tCCD_S = 1
  tCCD_L = 2
  tRTRS = 1
  tRTP = 1
  tWR = 2
  tWTR_S = 1
  tWTR_L = 2
  tRCD = 1
  tRAS = 2
  tRP = 2
  tRC = 4
  tRRD_S = 1
  tRRD_L = 2
  tPPD = 1
  tFAW = 9
  tRFC = 3
  PpdProtocol = FALSE
INVARIANT IssuedOnTime
