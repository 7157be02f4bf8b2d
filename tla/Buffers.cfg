SPECIFICATION Spec
CONSTANTS
  NIOBUF = 2
  IOBUFLEN = 2
  MINDIRECT = 6
  MaxRecords = 4
  Places = {0, 1, 3, 5}
  Lengths = {1, 5, 6}
  MaxCalls = 3
  Faults = TRUE
INVARIANTS TypeOK RecordsOnce PositionKnown
PROPERTIES ImplementsByteFile FlushStores ErrorIsKept ReadsSucceed
CHECK_DEADLOCK FALSE
