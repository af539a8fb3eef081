CONSTANTS
  LastRegister = 9
  Delta = 5
  MaxOffset = 32767
  EdgeImmediates <- MCEdgeImmediates
  SmallImmediate = 256
  Starts <- MCStarts
SPECIFICATION Spec
INVARIANTS TypeOK OnlyEdgesAreWide
PROPERTIES OffsetsDrift
CHECK_DEADLOCK FALSE
