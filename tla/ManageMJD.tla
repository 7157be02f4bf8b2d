------------------------------ MODULE ManageMJD ------------------------------
(***************************************************************************)
(* The date conversion: class ManageMJD of Source/mjder.hpp, and the start *)
(* time keywords primaryHeader of Source/pfits.hpp writes from the same    *)
(* two numbers of the PROF header, the day (mjd) and the second of the day *)
(* (fract).                                                                *)
(*                                                                         *)
(* Time is counted in half seconds, a half standing for any fraction.  The *)
(* code computes in double precision.  A Julian date is then off by some   *)
(* 40 microseconds, which matters to nothing computed from it: it is exact *)
(* at midnight and at noon.  The time of day is computed from the fraction *)
(* of the day alone and is off by less than a tenth of a nanosecond, but   *)
(* its hours, minutes and seconds are cut off, and a whole second that     *)
(* comes out a little below is cut to the second before.  So of a computed *)
(* time the model keeps on which side of the exact one it lies.            *)
(*                                                                         *)
(* A behaviour is a sequence of observations, each later than the one      *)
(* before, that are converted one after the other.                         *)
(***************************************************************************)
EXTENDS Calendar

CONSTANTS
  Days,   \* the days (MJD) of observations
  Times,  \* their times of day, in half seconds
  MaxGap  \* bound: the days between two observations

HalfDay == 86400

ASSUME DaysAssumption == Days \subseteq Nat

ASSUME TimesAssumption ==
  \A t \in Times : t \in Nat /\ t < 2 * HalfDay

ASSUME MaxGapAssumption == MaxGap \in Nat

VARIABLES
  im, fm,                  \* the observation, as in the PROF header
  year, month, day,        \* ManageMJD's fields
  hours, minutes, seconds,
  stt_imjd, stt_smjd       \* the keywords STT_IMJD and STT_SMJD

mjdVars == <<im, fm, year, month, day, hours, minutes, seconds, stt_imjd, stt_smjd>>

-----------------------------------------------------------------------------
(* The date *)

\* The integral part of jd = im + fm + 2400000.5, and whether its fraction F is
\* at least one half: it is in the morning.
IntegralPart(i, f) == 2400000 + i + (IF f >= HalfDay THEN 1 ELSE 0)

Rounding(f) == IF f >= HalfDay THEN 0 ELSE 1

\* Broken form of GregorianA: century years that are leap years too many.
GregorianAEveryCentury(I) == I + 1 + (4 * I - 7468865) \div 146097

\* alpha and A.
GregorianA(I) ==
  LET alpha == (4 * I - 7468865) \div 146097
  IN  IF I > 2299160 THEN I + 1 + alpha - alpha \div 4 ELSE I

BOf(I) == GregorianA(I) + 1524

COf(I) == (20 * BOf(I) - 2442) \div 7305

DOf(I) == (1461 * COf(I)) \div 4

EOf(I) == (10000 * (BOf(I) - DOf(I))) \div 306001

\* Broken form of DayOf: the fraction of the day is truncated.
DayOfTruncated(i, f) ==
  LET I == IntegralPart(i, f)
  IN  BOf(I) - DOf(I) - (306001 * EOf(I)) \div 10000

\* round(B - D + F - trunc(30.6001 * E)): F is rounded with the day.
DayOf(i, f) ==
  LET I == IntegralPart(i, f)
  IN  BOf(I) - DOf(I) - (306001 * EOf(I)) \div 10000 + Rounding(f)

MonthOf(i, f) ==
  LET E == EOf(IntegralPart(i, f)) IN IF E < 14 THEN E - 1 ELSE E - 13

YearOf(i, f) ==
  LET C == COf(IntegralPart(i, f))
  IN  IF MonthOf(i, f) > 2 THEN C - 4716 ELSE C - 4715

-----------------------------------------------------------------------------
(* The time of day *)

\* A double that was computed for n half seconds is a little below (side -1),
\* exactly (0) or a little above (1) that.  fmjd = fm / 86400 has an end in
\* binary only for multiples of 675 half seconds.
Fmjd(f) == [n : {f}, side : IF f % 675 = 0 THEN {0} ELSE {-1, 1}]

\* The product of x with 24 or 60, unit being what is one then.  Rounding keeps
\* what is exact, does not cross a whole number, as those are doubles, and keeps
\* a fraction that is below one below what it is multiplied by (limit).
Product(x, unit, limit) ==
  [n : {x.n},
   side : IF x.side = 0 \/ (x.n = limit /\ x.side = -1) THEN {x.side}
          ELSE IF x.n % unit = 0 THEN {0, x.side} ELSE {-1, 0, 1}]

\* modf: the whole number and the fraction that is left.
Whole(x, unit) == (IF x.side = -1 THEN x.n - 1 ELSE x.n) \div unit

Fraction(x, unit) == [x EXCEPT !.n = x.n - Whole(x, unit) * unit]

Hour(f) == UNION {Product(x, 7200, 2 * HalfDay) : x \in Fmjd(f)}

\* Broken form of Minute: the minutes of the whole day.
MinuteOfDay(hour) == Product(hour, 120, 7200)

Minute(hour) == Product(Fraction(hour, 7200), 120, 7200)

Second(minute) == Product(Fraction(minute, 120), 2, 120)

\* The hours, minutes and seconds that may come out.
Clock(f) ==
  UNION {UNION {{<< Whole(hour, 7200), Whole(minute, 120), Whole(second, 2) >> :
                   second \in Second(minute)} :
                minute \in Minute(hour)} :
         hour \in Hour(f)}

-----------------------------------------------------------------------------
(* ManageMJD mm(mjd, fract), its getDateTime, and the keywords *)

Convert(i, f) ==
  /\ im' = i
  /\ fm' = f
  /\ year' = YearOf(i, f)
  /\ month' = MonthOf(i, f)
  /\ day' = DayOf(i, f)
  /\ \E t \in Clock(f) : hours' = t[1] /\ minutes' = t[2] /\ seconds' = t[3]
  /\ stt_imjd' = i
  /\ stt_smjd' = f \div 2

Init ==
  /\ im \in Days
  /\ fm \in Times
  /\ year = YearOf(im, fm)
  /\ month = MonthOf(im, fm)
  /\ day = DayOf(im, fm)
  /\ \E t \in Clock(fm) : hours = t[1] /\ minutes = t[2] /\ seconds = t[3]
  /\ stt_imjd = im
  /\ stt_smjd = fm \div 2

\* The next observation is converted; it begins later.
Next ==
  \E i \in (im .. im + MaxGap) \cap Days, f \in Times :
    /\ i = im => f > fm
    /\ Convert(i, f)

Spec == Init /\ [][Next]_mjdVars

-----------------------------------------------------------------------------
(* What the program relies on *)

\* DATE-OBS is the day of the observation.  In the morning the algorithm has
\* the day before and rounding adds one to the day of the month; on the first
\* of a month that is the last day of the month before plus one, which is right
\* as a count of days and otherwise no date (see DateIsADate).
DateIsRight ==
  /\ DayNumber(year, month, day) = im
  /\ \/ IsDate(year, month, day)
     \/ fm < HalfDay /\ day > 1 /\ IsDate(year, month, day - 1)

\* DATE-OBS and the start time keywords say the same time of day but for one
\* second: the seconds got by repeated modf of a quotient that was rounded are
\* those got by a cast, or, when the observation began with a second, perhaps
\* the one before, with the minute and the hour it belongs to.
StartTimesAgree ==
  /\ \/ stt_smjd = 3600 * hours + 60 * minutes + seconds
     \/ /\ fm % 2 = 0 /\ fm # 0
        /\ stt_smjd = 3600 * hours + 60 * minutes + seconds + 1
  /\ hours \in 0 .. 23 /\ minutes \in 0 .. 59 /\ seconds \in 0 .. 59

Later(after, before) ==
  \E k \in 1 .. 6 :
    /\ after[k] > before[k]
    /\ \A j \in 1 .. k - 1 : after[j] = before[j]

\* Later observations have later dates: sorting files by DATE-OBS sorts them by
\* time, also across noon, the ends of months and years, and with the odd dates.
\* Observations that begin within a second may have the same date, but never in
\* the wrong order.
LaterSortsLater ==
  [][LET before == << year, month, day, hours, minutes, seconds >>
         after  == << year', month', day', hours', minutes', seconds' >>
     IN  \/ Later(after, before)
         \/ after = before /\ 2 * HalfDay * (im' - im) + fm' - fm <= 2]_mjdVars

-----------------------------------------------------------------------------
(* What the repository says and the code does not do *)

\* DATE-OBS is a UTC date YYYY-MM-DDThh:mm:ss.
DateIsADate == IsDate(year, month, day)
=============================================================================
