SPECIFICATION Spec
CONSTANTS
  Inputs <- OddInputs
  Garbage <- ZeroHeader
  Capacity = 4
  Faults = FALSE
  MaxRuns = 1
  ShortMax = 32767
  IntMax = 1000
  Blank = Blank
INVARIANTS
  DataIsInitialised
\* A run ends.
CHECK_DEADLOCK FALSE
