SPECIFICATION Spec
CONSTANTS
  Inputs <- GrowingInputs
  Garbage <- ZeroHeader
  Capacity = 4
  Faults = FALSE
  MaxRuns = 1
  ShortMax = 32767
  IntMax = 1000
  Blank = Blank
INVARIANTS
  EveryRowIsNumbered
\* A run ends.
CHECK_DEADLOCK FALSE
