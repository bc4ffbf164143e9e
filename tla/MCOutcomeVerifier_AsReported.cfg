CONSTANTS
  NoTime = NoTime
  Limit = 2
  M5Files <- MCM5Files
  Logs <- MCLogs
SPECIFICATION Spec
INVARIANTS
  NoStopFirst
CHECK_DEADLOCK FALSE
