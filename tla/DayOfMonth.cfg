SPECIFICATION Spec
CONSTANTS
  Days <- ObservedDays
  Times <- EdgeTimes
  MaxGap = 1
INVARIANTS
  DateIsADate
\* The last of the days has no successor.
CHECK_DEADLOCK FALSE
