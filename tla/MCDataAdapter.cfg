CONSTANTS
  BadRow = BadRow
  MissingFile = MissingFile
  NoPaths = NoPaths
  OpenTimes = {1, 2, 3}
  Inputs <- MCInputs
SPECIFICATION FairSpec
INVARIANTS
  Chronological
  LoadComplete
PROPERTIES
  ImplementsStream
  ReachesEOF
CHECK_DEADLOCK FALSE
