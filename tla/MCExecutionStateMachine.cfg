CONSTANTS
  None = None
  DayLen = 2
  Cut = 1
  M5Len = 1
  Opens <- MCOpens
  EvalStart = 8
  RecentCap = 2
  PriorCap = 3
  Configs <- MCConfigs
SPECIFICATION Spec
INVARIANTS
  TypeOK
  ViewsInSync
  AtMostCap
  PendingMatchesOpen
  WeekendFlat
  NoLookahead
PROPERTIES
  RefusedCandleInert
  NoSilentDrop
CHECK_DEADLOCK FALSE
