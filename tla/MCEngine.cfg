CONSTANTS
  None = None
  BadRow = BadRow
  MissingFile = MissingFile
  NoPaths = NoPaths
  DayLen = 2
  Cut = 1
  M5Len = 1
  Opens <- MCOpens
  EvalStart = 8
  RecentCap = 2
  PriorCap = 2
  Configs <- MCConfigs
  Inputs <- MCInputs
SPECIFICATION FairEngineSpec
INVARIANT HistoryIsDelivered
PROPERTIES
  CadenceHolds
  RunEnds
CHECK_DEADLOCK FALSE
