SPECIFICATION Spec
CONSTANTS
  Inputs <- FileInputs
  Garbage <- OddHeaders
  Capacity = 4
  Faults = FALSE
  MaxRuns = 1
  ShortMax = 3
  IntMax = 15
  Blank = Blank
INVARIANTS
  TypeOK
  HdusDescribeFirstHeader
  SampleInBuffer
  OffsTelescopes
  RowPerSubint
  RowsHoldTheirSamples
PROPERTIES
  Terminates
  Converts
\* A run ends.
CHECK_DEADLOCK FALSE
