------------------------------- MODULE Calendar -------------------------------
(***************************************************************************)
(* The Gregorian calendar, by its rules: what a date is and how many days  *)
(* lie between two of them.  ManageMJD is measured against it.             *)
(***************************************************************************)
EXTENDS Integers, Sequences

IsLeap(y) == y % 4 = 0 /\ (y % 100 # 0 \/ y % 400 = 0)

DaysIn(y, m) ==
  IF m = 2 THEN (IF IsLeap(y) THEN 29 ELSE 28)
  ELSE IF m \in {4, 6, 9, 11} THEN 30 ELSE 31

IsDate(y, m, d) == m \in 1 .. 12 /\ d \in 1 .. DaysIn(y, m)

\* The days of year y before month m.
DaysBefore(y, m) ==
  << 0, 31, 59, 90, 120, 151, 181, 212, 243, 273, 304, 334 >>[m]
    + (IF m > 2 /\ IsLeap(y) THEN 1 ELSE 0)

\* The Modified Julian Day of a date; a day of the month beyond its last one
\* counts on into the next month.  Day 0 is 17 November 1858.
DayNumber(y, m, d) ==
  365 * (y - 1) + (y - 1) \div 4 - (y - 1) \div 100 + (y - 1) \div 400
    + DaysBefore(y, m) + d - 678576
=============================================================================
