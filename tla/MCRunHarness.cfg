CONSTANTS
  NoSnapshot = NoSnapshot
  Objects <- MCObjects
  Frozen <- MCFrozen
  PositiveInts = {"1", "2", "true"}
  Requests <- MCRequests
  Sources <- MCSources
  Loadable <- MCLoadable
  HasM5 <- MCHasM5
  Timestamps <- MCTimestamps
  BaseNames <- MCBaseNames
  SinkNames <- MCSinkNames
  CommandLines <- MCCommandLines
  RunDirectory = "run"
  RunConfig = "mine.json"
  OtherFiles <- MCOtherFiles
  Preset <- Base
SPECIFICATION VerifierSpec
INVARIANTS
  TypeOK
  NothingWrittenUntilAgreed
  SnapshotReproduces
  StartIsSettled
  DefaultStartIsDead
  FilesKeptApart
  UntouchedRunVerifies
  MatchMeansSameSettings
CHECK_DEADLOCK FALSE
