SPECIFICATION Spec
CONSTANTS
  Inputs <- RefinementInputs
  Garbage <- ZeroHeader
  Capacity = 2
  Faults = TRUE
  MaxRuns = 2
  ShortMax = 32767
  IntMax = 1000
  Blank = Blank
INVARIANTS
  ExitOkMeansComplete
PROPERTIES
  ImplementsPsrFits
  GoesOnAsPsrFits
  ErrorIsFinal
  CompleteIsKept
\* A run ends.
CHECK_DEADLOCK FALSE
