CONSTANT MaxRows = 4
SPECIFICATION Spec
INVARIANTS
  TypeOK
  AckedDurable
  ReadyHasHeaders
  ClosedIsComplete
PROPERTY AppendOnly
CHECK_DEADLOCK FALSE
