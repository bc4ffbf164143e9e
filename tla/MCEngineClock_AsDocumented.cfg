CONSTANTS
  DayLen = 3
  Cut = 2
  M5Len = 1
  Horizon = 70
  MaxGap = 30
SPECIFICATION Spec
INVARIANT CrossingAsDocumented
CHECK_DEADLOCK FALSE
