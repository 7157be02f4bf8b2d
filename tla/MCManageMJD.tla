----------------------------- MODULE MCManageMJD -----------------------------
(***************************************************************************)
(* Days for TLC: every day of the years in which the kinds of century year *)
(* and of leap year end and begin, and of years with PROF files.           *)
(***************************************************************************)
EXTENDS ManageMJD

\* 1 January of a year.
NewYear(y) == DayNumber(y, 1, 1)

YearsOf(y, n) == NewYear(y) - 1 .. NewYear(y + n)

ObservedDays ==
  YearsOf(1900, 1) \cup YearsOf(2000, 1) \cup YearsOf(2016, 2) \cup YearsOf(2100, 1)

\* Midnight and the seconds around it and noon, with and without a fraction,
\* and a whole hour, minute and second.
EdgeTimes == {0, 1, 2, 7200, 7320, 7324, 7325, HalfDay - 1, HalfDay, HalfDay + 1,
              2 * HalfDay - 2, 2 * HalfDay - 1}
=============================================================================
