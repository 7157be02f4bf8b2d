SPECIFICATION Spec
CONSTANTS
  Days <- ObservedDays
  Times <- EdgeTimes
  MaxGap = 1
INVARIANTS
  DateIsRight
  StartTimesAgree
PROPERTIES
  LaterSortsLater
\* The last of the days has no successor.
CHECK_DEADLOCK FALSE
