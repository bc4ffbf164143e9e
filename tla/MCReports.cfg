CONSTANTS
  NoNumber = NoNumber
  NoStamp = NoStamp
  One = 4
  Grid = 2
  Tolerance = 2
  Logs <- MCLogs
  Tables <- MCTables
SPECIFICATION ReportsSpec
INVARIANTS
  TypeOK
  DrawdownIsDeepest
  ReportIsConsistent
  ReportIsDated
  ToolsAgree
  BreakdownsAddUp
  MatchWithinRounding
CHECK_DEADLOCK FALSE
