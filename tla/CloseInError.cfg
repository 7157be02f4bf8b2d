SPECIFICATION Spec
CONSTANTS
  NIOBUF = 2
  IOBUFLEN = 2
  MINDIRECT = 6
  MaxRecords = 4
  Places = {0, 1, 3, 5}
  Lengths = {1, 3, 6}
  MaxCalls = 4
  Faults = FALSE
INVARIANT PositionedAtEOF
CHECK_DEADLOCK FALSE
