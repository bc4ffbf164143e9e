CONSTANTS
  NoSnapshot = NoSnapshot
  Objects <- MCObjects
  Frozen <- MCFrozen
  PositiveInts = {"1", "2", "true"}
  Requests <- MCRequests
  Sources <- MCSources
  Loadable <- MCLoadable
  HasM5 <- MCHasM5
  Timestamps <- MCTimestamps
  BaseNames <- MCBaseNames
  SinkNames <- MCSinkNames
  CommandLines <- MCCommandLines
  RunDirectory = "run"
  RunConfig = "mine.json"
  OtherFiles <- MCOtherFiles
  Preset <- Base
SPECIFICATION VerifierSpec
INVARIANTS
  SinksAreSeparate
CHECK_DEADLOCK FALSE
