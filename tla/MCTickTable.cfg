SPECIFICATION TickSpec
CONSTANTS
  Million = 3
  MsPerSecond = 3
  MaxTicks = 4
  NoPrice = NoPrice
  NotMade = NotMade
  Milliseconds <- MCMilliseconds
  Quotes <- MCQuotes
INVARIANTS TrueSequence OneSecondAgrees
CHECK_DEADLOCK FALSE
