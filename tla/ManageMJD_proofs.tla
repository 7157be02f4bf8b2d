--------------------------- MODULE ManageMJD_proofs ---------------------------
(***************************************************************************)
(* The date and the time of day in DATE-OBS, for every day from 1858 on and *)
(* every time of day.                                                      *)
(***************************************************************************)
EXTENDS ManageMJD, TLAPS

\* A time of day as DATE-OBS may have it for half second f.
Told(f, h, m, s) ==
  /\ h \in 0 .. 23 /\ m \in 0 .. 59 /\ s \in 0 .. 59
  /\ \/ f \div 2 = 3600 * h + 60 * m + s
     \/ f % 2 = 0 /\ f # 0 /\ f \div 2 = 3600 * h + 60 * m + s + 1

Double == [n : Nat, side : {-1, 0, 1}]

\* A double computed for a number of half seconds below limit.
Below(x, limit) ==
  IF x.side = -1 THEN x.n >= 1 /\ x.n <= limit ELSE x.n < limit

\* A product stays below the limit.
LEMMA ProductBelow ==
  ASSUME NEW unit \in Nat \ {0}, NEW limit \in Nat, NEW x \in Double, Below(x, limit),
         NEW y \in Product(x, unit, limit)
  PROVE  y \in Double /\ y.n = x.n /\ Below(y, limit)
<1> DEFINE n == x.n
           before == x.side
           after == y.side
           aligned == n % unit = 0
<1>0. n \in Nat /\ before \in {-1, 0, 1}
  BY SMT DEF Double
<1>1. /\ y.n = n
      /\ y = [n |-> y.n, side |-> after]
      /\ after \in IF before = 0 \/ (n = limit /\ before = -1) THEN {before}
                   ELSE IF aligned THEN {0, before} ELSE {-1, 0, 1}
  BY SMT DEF Product
<1>2. IF before = -1 THEN n >= 1 /\ n <= limit ELSE n < limit
  BY SMT DEF Below
<1>3. n = 0 => aligned
  BY SMT
<1> HIDE DEF n, before, after, aligned
<1>4. after \in {-1, 0, 1}
  BY <1>0, <1>1, SMT
<1>5. IF after = -1 THEN n >= 1 /\ n <= limit ELSE n < limit
  <2>1. n = 0 => after # -1
    <3>1. n = 0 => before \in {0, 1} /\ before # -1
      BY <1>0, <1>2, SMT
    <3> QED BY <1>1, <1>3, <3>1, SMT
  <2>2. n = limit => after = -1
    <3>1. n = limit => before = -1
      BY <1>0, <1>2, SMT
    <3> QED BY <1>1, <3>1, SMT
  <2>3. n <= limit
    BY <1>0, <1>2, SMT
  <2> QED BY <1>0, <2>1, <2>2, <2>3, SMT
<1> QED BY <1>0, <1>1, <1>4, <1>5, SMT DEF Below, Double, n, after

\* modf takes a double apart into less than k whole ones and less than a unit.
LEMMA ModfIs ==
  ASSUME NEW k \in Nat, NEW unit \in {2, 120, 7200}, NEW limit \in Nat, limit = k * unit,
         NEW x \in Double, Below(x, limit)
  PROVE  /\ Whole(x, unit) \in 0 .. k - 1
         /\ Fraction(x, unit) \in Double
         /\ Below(Fraction(x, unit), unit)
         /\ x.n = Whole(x, unit) * unit + Fraction(x, unit).n
         /\ Fraction(x, unit).side = x.side
<1> DEFINE n == x.n
           side == x.side
           w == Whole(x, unit)
<1>1. n \in Nat /\ side \in {-1, 0, 1}
      /\ (IF side = -1 THEN n \in 1 .. k * unit ELSE n < k * unit)
  BY SMT DEF Below, Double
<1>2. w = (IF side = -1 THEN n - 1 ELSE n) \div unit
  BY SMT DEF Whole
<1>3. /\ Fraction(x, unit).n = n - w * unit
      /\ Fraction(x, unit).side = side
      /\ Fraction(x, unit) = [n |-> n - w * unit, side |-> side]
  BY SMT DEF Fraction, Double
<1> HIDE DEF n, side, w
<1>4. CASE side = -1
  <2>1. n - 1 \in Nat /\ n - 1 < k * unit /\ w = (n - 1) \div unit
    BY <1>1, <1>2, <1>4, SMT
  <2>2. w \in 0 .. k - 1 /\ n - w * unit \in 1 .. unit
    BY <2>1, <1>1, SMT
  <2> QED BY <1>1, <1>3, <1>4, <2>2, SMT DEF Below, Double, n, w, side
<1>5. CASE side # -1
  <2>1. n < k * unit /\ w = n \div unit
    BY <1>1, <1>2, <1>5, SMT
  <2>2. w \in 0 .. k - 1 /\ n - w * unit \in 0 .. unit - 1
    BY <2>1, <1>1, SMT
  <2> QED BY <1>1, <1>3, <1>5, <2>2, SMT DEF Below, Double, n, w, side
<1> QED BY <1>4, <1>5

\* Whatever the roundings, cutting off hours, minutes and seconds one after the
\* other gives the second of the day, or for a whole second the one before.
LEMMA ClockIsTold ==
  ASSUME NEW f \in Nat, f < 2 * HalfDay, NEW t \in Clock(f)
  PROVE  Told(f, t[1], t[2], t[3])
<1>1. PICK hour, minute, second :
        /\ hour \in Hour(f) /\ minute \in Minute(hour) /\ second \in Second(minute)
        /\ t = << Whole(hour, 7200), Whole(minute, 120), Whole(second, 2) >>
  BY SMT DEF Clock
<1>2. hour \in Double /\ hour.n = f /\ Below(hour, 172800)
  <2>1. PICK x \in Fmjd(f) : hour \in Product(x, 7200, 172800)
    BY <1>1, SMT DEF Hour, HalfDay
  <2>2. x \in Double /\ x.n = f /\ (f = 0 => x.side = 0)
    BY <2>1, SMT DEF Fmjd, Double
  <2>3. Below(x, 172800)
    <3>1. f < 172800
      BY SMT DEF HalfDay
    <3>2. x.side = -1 => f # 0
      BY <2>2, SMT
    <3>3. f # 0 => f >= 1 /\ f <= 172800
      BY <3>1, SMT
    <3> QED BY <2>2, <3>1, <3>2, <3>3, SMT DEF Below
  <2> QED BY <2>1, <2>2, <2>3, ProductBelow, SMT
<1> DEFINE H == Whole(hour, 7200)
           x == Fraction(hour, 7200)
           M == Whole(minute, 120)
           y == Fraction(minute, 120)
           S == Whole(second, 2)
           r == second.n
           late == second.side = -1
<1>3. H \in 0 .. 23 /\ x \in Double /\ Below(x, 7200) /\ hour.n = H * 7200 + x.n
  <2> DEFINE k == 24
             unit == 7200
             limit == 172800
  <2>1. k \in Nat /\ unit \in {2, 120, 7200} /\ limit \in Nat /\ limit = k * unit
    BY SMT
  <2>2. hour \in Double /\ Below(hour, limit)
    BY <1>2, SMT
  <2> HIDE DEF k, unit, limit
  <2>3. /\ Whole(hour, unit) \in 0 .. k - 1
        /\ Fraction(hour, unit) \in Double /\ Below(Fraction(hour, unit), unit)
        /\ hour.n = Whole(hour, unit) * unit + Fraction(hour, unit).n
    BY <2>1, <2>2, ModfIs, SMT
  <2> USE DEF k, unit, limit
  <2> QED BY <2>3, SMT
<1>4. minute \in Double /\ minute.n = x.n /\ Below(minute, 7200)
  <2>1. minute \in Product(x, 120, 7200)
    BY <1>1, SMT DEF Minute
  <2> HIDE DEF x
  <2> QED BY <1>3, <2>1, ProductBelow, SMT
<1>5. M \in 0 .. 59 /\ y \in Double /\ Below(y, 120) /\ minute.n = M * 120 + y.n
  <2> DEFINE k == 60
             unit == 120
             limit == 7200
  <2>1. k \in Nat /\ unit \in {2, 120, 7200} /\ limit \in Nat /\ limit = k * unit
    BY SMT
  <2>2. minute \in Double /\ Below(minute, limit)
    BY <1>4, SMT
  <2> HIDE DEF k, unit, limit
  <2>3. /\ Whole(minute, unit) \in 0 .. k - 1
        /\ Fraction(minute, unit) \in Double /\ Below(Fraction(minute, unit), unit)
        /\ minute.n = Whole(minute, unit) * unit + Fraction(minute, unit).n
    BY <2>1, <2>2, ModfIs, SMT
  <2> USE DEF k, unit, limit
  <2> QED BY <2>3, SMT
<1>6. second \in Double /\ r = y.n /\ Below(second, 120)
  <2>1. second \in Product(y, 2, 120)
    BY <1>1, SMT DEF Second
  <2> HIDE DEF y
  <2> QED BY <1>5, <2>1, ProductBelow, SMT
<1>7. S \in 0 .. 59
  <2> DEFINE k == 60
             unit == 2
             limit == 120
  <2>1. k \in Nat /\ unit \in {2, 120, 7200} /\ limit \in Nat /\ limit = k * unit
    BY SMT
  <2>2. second \in Double /\ Below(second, limit)
    BY <1>6, SMT
  <2> HIDE DEF k, unit, limit
  <2>3. /\ Whole(second, unit) \in 0 .. k - 1
        /\ Fraction(second, unit) \in Double /\ Below(Fraction(second, unit), unit)
        /\ second.n = Whole(second, unit) * unit + Fraction(second, unit).n
    BY <2>1, <2>2, ModfIs, SMT
  <2> USE DEF k, unit, limit
  <2> QED BY <2>3, SMT
<1>8. r \in Nat /\ S = (IF late THEN r - 1 ELSE r) \div 2 /\ (late => r \in 1 .. 120)
  BY <1>6, SMT DEF Below, Double, Whole
<1>9. f = H * 7200 + M * 120 + r
  <2>1. x.n \in Nat /\ y.n \in Nat
    BY <1>3, <1>5, SMT DEF Double
  <2> HIDE DEF H, x, M, y, r
  <2> QED BY <1>2, <1>3, <1>4, <1>5, <1>6, <2>1, SMT
<1>10. t[1] = H /\ t[2] = M /\ t[3] = S
  BY <1>1, SMT
<1> HIDE DEF H, x, M, y, S, r, late
<1>11. \/ f \div 2 = 3600 * H + 60 * M + S
       \/ f % 2 = 0 /\ f # 0 /\ f \div 2 = 3600 * H + 60 * M + S + 1
  <2>1. CASE ~late
    BY <1>3, <1>5, <1>8, <1>9, <2>1, SMT
  <2>2. CASE late
    BY <1>3, <1>5, <1>8, <1>9, <2>2, SMT
  <2> QED BY <2>1, <2>2
<1> QED BY <1>3, <1>5, <1>7, <1>10, <1>11, SMT DEF Told

-----------------------------------------------------------------------------
(* The day.  I is counted in Gregorian cycles of 400 years q, centuries a,   *)
(* years z and days u, all of which begin in March: the quotients of the     *)
(* algorithm are these numbers, shifted.                                     *)

\* I is day t of century a of cycle q; its day in the count of the algorithm,
\* in which every century has 36525 days, is B.
InCentury(I, q, a, t, B) ==
  /\ q \in Nat /\ a \in 0 .. 3 /\ t \in Nat /\ t <= 36524
  /\ a # 3 => t <= 36523
  /\ I = 1867217 + 146097 * q + 36524 * a + t
  /\ B = 1868742 + 146100 * q + 36525 * a + t

\* I is day u of year z of century a of cycle q, a year that ends in February;
\* the 366th day there is only when the next calendar year is a leap year.
InYear(I, q, a, z, u) ==
  /\ q \in Nat /\ a \in 0 .. 3 /\ z \in Nat /\ z <= 99 /\ u \in Nat /\ u <= 365
  /\ u = 365 => z % 4 = 3 /\ (z = 99 => a = 3)
  /\ I = 1867217 + 146097 * q + 36524 * a + 365 * z + (z \div 4) + u

\* The centuries: the alpha of the algorithm counts Gregorian ones, and with
\* its correction they all have 36525 days.
LEMMA Centuries ==
  ASSUME NEW I \in Nat, I >= 2400000
  PROVE  \E q, a, t : InCentury(I, q, a, t, BOf(I))
<1> DEFINE x == 4 * I - 7468865
           alpha == x \div 146097
           s == x % 146097
           q == alpha \div 4
           a == alpha % 4
           t == I - 1867217 - 146097 * q - 36524 * a
<1>1. x \in Nat /\ I > 2299160 /\ x = 4 * I - 7468865
  BY SMT
<1>2. BOf(I) = I + 1525 + alpha - q
  BY <1>1, SMT DEF BOf, GregorianA
<1> HIDE DEF x
<1>3. alpha \in Nat /\ s \in Nat /\ s < 146097 /\ x = 146097 * alpha + s
  BY <1>1, SMT
<1> HIDE DEF alpha, s
<1>4. q \in Nat /\ a \in 0 .. 3 /\ alpha = 4 * q + a
  BY <1>3, SMT
<1>5. t = I - 1867217 - 146097 * q - 36524 * a
  OBVIOUS
<1> HIDE DEF q, a, t
<1>6. t \in Int /\ 4 * t = s + a - 3
  BY <1>1, <1>3, <1>4, <1>5, SMT
<1>7. t \in Nat /\ t <= 36524 /\ (a # 3 => t <= 36523)
  BY <1>3, <1>4, <1>6, SMT
<1>8. I = 1867217 + 146097 * q + 36524 * a + t
  BY <1>4, <1>5, <1>6, SMT
<1>9. BOf(I) = 1868742 + 146100 * q + 36525 * a + t
  BY <1>2, <1>4, <1>7, <1>8, SMT
<1>10. InCentury(I, q, a, t, BOf(I))
  BY <1>4, <1>7, <1>8, <1>9, SMT DEF InCentury
<1> QED BY <1>10

\* The years of a century.
LEMMA Years ==
  ASSUME NEW I \in Nat, I >= 2400000
  PROVE  \E q, a, z, u : /\ InYear(I, q, a, z, u)
                         /\ COf(I) = 5116 + 400 * q + 100 * a + z
                         /\ BOf(I) - DOf(I) = 123 + u
<1>0. PICK q, a, t : InCentury(I, q, a, t, BOf(I))
  BY Centuries, SMT
<1>1. /\ q \in Nat /\ a \in 0 .. 3 /\ t \in Nat /\ t <= 36524
      /\ a # 3 => t <= 36523
      /\ I = 1867217 + 146097 * q + 36524 * a + t
      /\ BOf(I) = 1868742 + 146100 * q + 36525 * a + t
  BY <1>0, SMT DEF InCentury
<1> DEFINE z == (20 * t + 18) \div 7305
           v == z \div 4
           w == z % 4
           u == t - 365 * z - v
<1>2. z \in Nat /\ z <= 99 /\ 7305 * z <= 20 * t + 18 /\ 20 * t + 18 < 7305 * z + 7305
  BY <1>1, SMT
<1>3. COf(I) = 5116 + 400 * q + 100 * a + z
  BY <1>1, SMT DEF COf
<1> HIDE DEF z
<1>4. v \in Nat /\ v <= 24 /\ w \in 0 .. 3 /\ z = 4 * v + w
  BY <1>2, SMT
<1>5. DOf(I) = 1868619 + 146100 * q + 36525 * a + 365 * z + v
  BY <1>1, <1>2, <1>3, SMT DEF DOf
<1>6. u = t - 365 * z - v
  OBVIOUS
<1> HIDE DEF v, w, u
<1>7. u \in Nat /\ u <= 365 /\ (u = 365 => w = 3 /\ (z = 99 => a = 3))
  BY <1>1, <1>2, <1>4, <1>6, SMT
<1>8. BOf(I) - DOf(I) = 123 + u
  BY <1>1, <1>2, <1>4, <1>5, <1>6, SMT
<1>9. I = 1867217 + 146097 * q + 36524 * a + 365 * z + v + u
  BY <1>1, <1>2, <1>4, <1>6, SMT
<1>10. InYear(I, q, a, z, u)
  BY <1>1, <1>2, <1>7, <1>9, SMT DEF InYear, v, w
<1> QED BY <1>3, <1>8, <1>10, SMT

-----------------------------------------------------------------------------
(* The calendar *)

\* The leap years up to year n.
LeapDays(n) == n \div 4 - n \div 100 + n \div 400

\* Division by k counts the multiples of k.
LEMMA Multiples ==
  ASSUME NEW y \in Nat
  PROVE  /\ y \div 4 = (y - 1) \div 4 + (IF y % 4 = 0 THEN 1 ELSE 0)
         /\ y \div 100 = (y - 1) \div 100 + (IF y % 100 = 0 THEN 1 ELSE 0)
         /\ y \div 400 = (y - 1) \div 400 + (IF y % 400 = 0 THEN 1 ELSE 0)
         /\ y % 400 = 0 => y % 100 = 0
         /\ y % 100 = 0 => y % 4 = 0
<1>1. y \div 4 = (y - 1) \div 4 + (IF y % 4 = 0 THEN 1 ELSE 0)
  BY SMT
<1>2. y \div 100 = (y - 1) \div 100 + (IF y % 100 = 0 THEN 1 ELSE 0)
  BY SMT
<1>3. y \div 400 = (y - 1) \div 400 + (IF y % 400 = 0 THEN 1 ELSE 0)
  BY SMT
<1>4. y % 400 = 0 => y % 100 = 0
  BY SMT
<1>5. y % 100 = 0 => y % 4 = 0
  BY SMT
<1> QED BY <1>1, <1>2, <1>3, <1>4, <1>5

LEMMA LeapStep ==
  ASSUME NEW y \in Nat
  PROVE  /\ LeapDays(y) \in Int /\ LeapDays(y - 1) \in Int
         /\ LeapDays(y) = LeapDays(y - 1) + (IF IsLeap(y) THEN 1 ELSE 0)
<1>1. LeapDays(y) \in Int /\ LeapDays(y - 1) \in Int
  BY SMT DEF LeapDays
<1>2. LeapDays(y) = LeapDays(y - 1) + (IF IsLeap(y) THEN 1 ELSE 0)
  <2> DEFINE a == (y - 1) \div 4
             b == (y - 1) \div 100
             c == (y - 1) \div 400
  <2>1. a \in Int /\ b \in Int /\ c \in Int
    BY SMT
  <2>2. LeapDays(y - 1) = a - b + c
    BY DEF LeapDays
  <2>3. /\ y \div 4 = a + (IF y % 4 = 0 THEN 1 ELSE 0)
        /\ y \div 100 = b + (IF y % 100 = 0 THEN 1 ELSE 0)
        /\ y \div 400 = c + (IF y % 400 = 0 THEN 1 ELSE 0)
        /\ y % 400 = 0 => y % 100 = 0
        /\ y % 100 = 0 => y % 4 = 0
    BY Multiples
  <2> HIDE DEF a, b, c
  <2> QED BY <2>1, <2>2, <2>3, SMT DEF LeapDays, IsLeap
<1> QED BY <1>1, <1>2

\* The days of an ordinary year before a month.
Before(m) == << 0, 31, 59, 90, 120, 151, 181, 212, 243, 273, 304, 334 >>[m]

\* The days up to a date, and to one in the next year, counted from March.
CountFromMarch(y, m, d) == 365 * y + LeapDays(y) + Before(m) + d - 678941

CountToFebruary(y, m, d) == 365 * y + LeapDays(y) + Before(m) + d - 678576

\* From March on the leap day of the year itself counts.
LEMMA DayNumberFromMarch ==
  ASSUME NEW y \in Nat, y >= 1, NEW m \in 3 .. 12, NEW d \in Int
  PROVE  DayNumber(y, m, d) = CountFromMarch(y, m, d)
<1>1. Before(m) \in Int
  BY SMT DEF Before
<1>2. DaysBefore(y, m) = Before(m) + (IF IsLeap(y) THEN 1 ELSE 0)
  BY SMT DEF DaysBefore, Before
<1>3. DayNumber(y, m, d) = 365 * (y - 1) + LeapDays(y - 1) + DaysBefore(y, m) + d - 678576
  BY SMT DEF DayNumber, LeapDays
<1> QED BY <1>1, <1>2, <1>3, LeapStep, SMT DEF CountFromMarch

LEMMA DayNumberToFebruary ==
  ASSUME NEW y \in Nat, NEW m \in 1 .. 2, NEW d \in Int
  PROVE  DayNumber(y + 1, m, d) = CountToFebruary(y, m, d)
<1>1. Before(m) \in Int
  BY SMT DEF Before
<1>2. DaysBefore(y + 1, m) = Before(m)
  BY SMT DEF DaysBefore, Before
<1>3. y + 1 - 1 = y
  BY SMT
<1>4. DayNumber(y + 1, m, d) = 365 * y + LeapDays(y) + DaysBefore(y + 1, m) + d - 678576
  BY <1>3, SMT DEF DayNumber, LeapDays
<1> QED BY <1>1, <1>2, <1>4, SMT DEF CountToFebruary

\* The months of a year from March on: what the algorithm has for each, the
\* days of the year before it, and its length.
Month(E, first, length, u, N) ==
  /\ (10000 * N) \div 306001 = E
  /\ N - (306001 * E) \div 10000 = u - first + 1
  /\ first <= u /\ u < first + length

LEMMA MonthTable ==
  ASSUME NEW u \in Nat, u <= 365, NEW N \in Nat, N = 123 + u
  PROVE  \/ Month(4, 0, 31, u, N) \/ Month(5, 31, 30, u, N) \/ Month(6, 61, 31, u, N)
         \/ Month(7, 92, 30, u, N) \/ Month(8, 122, 31, u, N) \/ Month(9, 153, 31, u, N)
         \/ Month(10, 184, 30, u, N) \/ Month(11, 214, 31, u, N) \/ Month(12, 245, 30, u, N)
         \/ Month(13, 275, 31, u, N) \/ Month(14, 306, 31, u, N) \/ Month(15, 337, 29, u, N)
<1>1. CASE 0 <= u /\ u <= 30
  BY <1>1, SMT DEF Month
<1>2. CASE 31 <= u /\ u <= 60
  BY <1>2, SMT DEF Month
<1>3. CASE 61 <= u /\ u <= 91
  BY <1>3, SMT DEF Month
<1>4. CASE 92 <= u /\ u <= 121
  BY <1>4, SMT DEF Month
<1>5. CASE 122 <= u /\ u <= 152
  BY <1>5, SMT DEF Month
<1>6. CASE 153 <= u /\ u <= 183
  BY <1>6, SMT DEF Month
<1>7. CASE 184 <= u /\ u <= 213
  BY <1>7, SMT DEF Month
<1>8. CASE 214 <= u /\ u <= 244
  BY <1>8, SMT DEF Month
<1>9. CASE 245 <= u /\ u <= 274
  BY <1>9, SMT DEF Month
<1>10. CASE 275 <= u /\ u <= 305
  BY <1>10, SMT DEF Month
<1>11. CASE 306 <= u /\ u <= 336
  BY <1>11, SMT DEF Month
<1>12. CASE 337 <= u /\ u <= 365
  BY <1>12, SMT DEF Month
<1> QED BY <1>1, <1>2, <1>3, <1>4, <1>5, <1>6, <1>7, <1>8, <1>9, <1>10, <1>11, <1>12, SMT

\* I is day u of the year that begins in March of y.
InMarchYear(I, y, u) ==
  y \in Nat /\ y >= 1 /\ u \in Nat /\ 365 * y + LeapDays(y) + u = I - 1721120

\* The years in which the days of a March year lie.
LEMMA YearOfDay ==
  ASSUME NEW I \in Nat, NEW q, NEW a, NEW z, NEW u, InYear(I, q, a, z, u),
         NEW y, y = 400 + 400 * q + 100 * a + z
  PROVE  /\ InMarchYear(I, y, u)
         /\ u = 365 => IsLeap(y + 1)
<1>1. /\ q \in Nat /\ a \in 0 .. 3 /\ z \in Nat /\ z <= 99 /\ u \in Nat /\ u <= 365
      /\ u = 365 => z % 4 = 3 /\ (z = 99 => a = 3)
      /\ I = 1867217 + 146097 * q + 36524 * a + 365 * z + (z \div 4) + u
  BY SMT DEF InYear
<1>2. y \in Nat /\ y >= 1
  BY <1>1, SMT
<1>3. y \div 4 = 100 + 100 * q + 25 * a + (z \div 4) /\ y \div 100 = 4 + 4 * q + a
      /\ y \div 400 = 1 + q
  BY <1>1, SMT
<1>4. 365 * y + LeapDays(y) + u = I - 1721120
  BY <1>1, <1>2, <1>3, SMT DEF LeapDays
<1>5. ASSUME u = 365 PROVE IsLeap(y + 1)
  <2>1. (y + 1) % 4 = 0
    BY <1>1, <1>5, SMT
  <2>2. CASE z = 99
    <3>1. a = 3 /\ y + 1 = 400 * (q + 2)
      BY <1>1, <1>5, <2>2, SMT
    <3>2. (y + 1) % 400 = 0
      BY <1>1, <3>1, SMT
    <3> QED BY <2>1, <3>2 DEF IsLeap
  <2>3. CASE z # 99
    <3>1. (y + 1) % 100 = z + 1
      BY <1>1, <2>3, SMT
    <3>2. z + 1 # 0
      BY <1>1, SMT
    <3> QED BY <2>1, <3>1, <3>2 DEF IsLeap
  <2> QED BY <2>2, <2>3
<1> QED BY <1>1, <1>2, <1>4, <1>5, SMT DEF InMarchYear

\* The date the algorithm has for I, without the rounding.
DayAt(I) == BOf(I) - DOf(I) - (306001 * EOf(I)) \div 10000

MonthAt(I) == IF EOf(I) < 14 THEN EOf(I) - 1 ELSE EOf(I) - 13

YearAt(I) == IF MonthAt(I) > 2 THEN COf(I) - 4716 ELSE COf(I) - 4715

IsDateOf(y, m, d, I) ==
  /\ y \in Nat /\ m \in 1 .. 12 /\ d \in Nat /\ d >= 1 /\ d <= DaysIn(y, m)
  /\ DayNumber(y, m, d) = I - 2400001

LEMMA FromMarch ==
  ASSUME NEW I \in Nat, NEW y, NEW u, InMarchYear(I, y, u),
         NEW m \in 3 .. 12, NEW first \in Nat, first = Before(m) - 59,
         first <= u, u < first + DaysIn(y, m),
         NEW d \in Int, d = u - first + 1
  PROVE  IsDateOf(y, m, d, I)
<1>0. y \in Nat /\ y >= 1 /\ u \in Nat /\ 365 * y + LeapDays(y) + u = I - 1721120
  BY SMT DEF InMarchYear
<1>1. Before(m) \in Int /\ LeapDays(y) \in Int /\ DaysIn(y, m) \in Int
  BY <1>0, LeapStep, SMT DEF Before, DaysIn
<1>2. DayNumber(y, m, d) = I - 2400001
  <2>1. DayNumber(y, m, d) = CountFromMarch(y, m, d)
    BY <1>0, DayNumberFromMarch, SMT
  <2> QED BY <1>0, <1>1, <2>1, SMT DEF CountFromMarch
<1> QED BY <1>0, <1>1, <1>2, SMT DEF IsDateOf

LEMMA ToFebruary ==
  ASSUME NEW I \in Nat, NEW y, NEW u, InMarchYear(I, y, u),
         NEW m \in 1 .. 2, NEW first \in Nat, first = Before(m) + 306,
         first <= u, u < first + DaysIn(y + 1, m),
         NEW d \in Int, d = u - first + 1
  PROVE  IsDateOf(y + 1, m, d, I)
<1>0. y \in Nat /\ y >= 1 /\ u \in Nat /\ 365 * y + LeapDays(y) + u = I - 1721120
  BY SMT DEF InMarchYear
<1>1. Before(m) \in Int /\ LeapDays(y) \in Int /\ DaysIn(y + 1, m) \in Int
  BY <1>0, LeapStep, SMT DEF Before, DaysIn
<1>2. DayNumber(y + 1, m, d) = I - 2400001
  <2>1. DayNumber(y + 1, m, d) = CountToFebruary(y, m, d)
    BY <1>0, DayNumberToFebruary, SMT
  <2> QED BY <1>0, <1>1, <2>1, SMT DEF CountToFebruary
<1> QED BY <1>0, <1>1, <1>2, SMT DEF IsDateOf

\* The algorithm computes the date, for every day from 1858 on.
LEMMA DateOfDay ==
  ASSUME NEW I \in Nat, I >= 2400000
  PROVE  IsDateOf(YearAt(I), MonthAt(I), DayAt(I), I)
<1>1. PICK q, a, z, u : /\ InYear(I, q, a, z, u)
                        /\ COf(I) = 5116 + 400 * q + 100 * a + z
                        /\ BOf(I) - DOf(I) = 123 + u
  BY Years, SMT
<1>2. q \in Nat /\ a \in 0 .. 3 /\ z \in Nat /\ u \in Nat /\ u <= 365
  BY <1>1, SMT DEF InYear
<1> DEFINE y == 400 + 400 * q + 100 * a + z
           N == 123 + u
<1>3. /\ InMarchYear(I, y, u)
      /\ u = 365 => IsLeap(y + 1)
  BY <1>1, YearOfDay, SMT
<1>4. COf(I) - 4716 = y /\ COf(I) - 4715 = y + 1
  BY <1>1, <1>2, SMT
<1>5. EOf(I) = (10000 * N) \div 306001 /\ DayAt(I) = N - (306001 * EOf(I)) \div 10000
  BY <1>1, SMT DEF EOf, DayAt
<1>6. N = 123 + u
  BY SMT
<1> HIDE DEF y, N
<1>7. ASSUME NEW m \in 3 .. 12, NEW first \in Nat, first = Before(m) - 59,
             Month(m + 1, first, DaysIn(y, m), u, N)
      PROVE  IsDateOf(YearAt(I), MonthAt(I), DayAt(I), I)
  <2>1. EOf(I) = m + 1 /\ DayAt(I) = u - first + 1 /\ first <= u /\ u < first + DaysIn(y, m)
    BY <1>5, <1>7, SMT DEF Month
  <2>2. MonthAt(I) = m /\ YearAt(I) = y
    BY <1>4, <2>1, SMT DEF MonthAt, YearAt
  <2>3. DayAt(I) \in Int
    BY <1>2, <2>1, SMT
  <2> QED BY <1>2, <1>3, <1>7, <2>1, <2>2, <2>3, FromMarch, SMT
<1>8. ASSUME NEW m \in 1 .. 2, NEW first \in Nat, first = Before(m) + 306, NEW length,
             Month(m + 13, first, length, u, N), u < first + DaysIn(y + 1, m)
      PROVE  IsDateOf(YearAt(I), MonthAt(I), DayAt(I), I)
  <2>1. EOf(I) = m + 13 /\ DayAt(I) = u - first + 1 /\ first <= u
    BY <1>5, <1>8, SMT DEF Month
  <2>2. MonthAt(I) = m /\ YearAt(I) = y + 1
    BY <1>4, <2>1, SMT DEF MonthAt, YearAt
  <2>3. DayAt(I) \in Int
    BY <1>2, <2>1, SMT
  <2> QED BY <1>2, <1>3, <1>8, <2>1, <2>2, <2>3, ToFebruary, SMT
<1>9. CASE Month(4, 0, 31, u, N)
  <2>1. 3 + 1 = 4 /\ 0 = Before(3) - 59 /\ DaysIn(y, 3) = 31 /\ 0 \in Nat /\ 3 \in 3 .. 12
    BY SMT DEF Before, DaysIn
  <2> QED BY <1>7, <1>9, <2>1, SMT
<1>10. CASE Month(5, 31, 30, u, N)
  <2>1. 4 + 1 = 5 /\ 31 = Before(4) - 59 /\ DaysIn(y, 4) = 30 /\ 31 \in Nat /\ 4 \in 3 .. 12
    BY SMT DEF Before, DaysIn
  <2> QED BY <1>7, <1>10, <2>1, SMT
<1>11. CASE Month(6, 61, 31, u, N)
  <2>1. 5 + 1 = 6 /\ 61 = Before(5) - 59 /\ DaysIn(y, 5) = 31 /\ 61 \in Nat /\ 5 \in 3 .. 12
    BY SMT DEF Before, DaysIn
  <2> QED BY <1>7, <1>11, <2>1, SMT
<1>12. CASE Month(7, 92, 30, u, N)
  <2>1. 6 + 1 = 7 /\ 92 = Before(6) - 59 /\ DaysIn(y, 6) = 30 /\ 92 \in Nat /\ 6 \in 3 .. 12
    BY SMT DEF Before, DaysIn
  <2> QED BY <1>7, <1>12, <2>1, SMT
<1>13. CASE Month(8, 122, 31, u, N)
  <2>1. 7 + 1 = 8 /\ 122 = Before(7) - 59 /\ DaysIn(y, 7) = 31 /\ 122 \in Nat /\ 7 \in 3 .. 12
    BY SMT DEF Before, DaysIn
  <2> QED BY <1>7, <1>13, <2>1, SMT
<1>14. CASE Month(9, 153, 31, u, N)
  <2>1. 8 + 1 = 9 /\ 153 = Before(8) - 59 /\ DaysIn(y, 8) = 31 /\ 153 \in Nat /\ 8 \in 3 .. 12
    BY SMT DEF Before, DaysIn
  <2> QED BY <1>7, <1>14, <2>1, SMT
<1>15. CASE Month(10, 184, 30, u, N)
  <2>1. 9 + 1 = 10 /\ 184 = Before(9) - 59 /\ DaysIn(y, 9) = 30 /\ 184 \in Nat /\ 9 \in 3 .. 12
    BY SMT DEF Before, DaysIn
  <2> QED BY <1>7, <1>15, <2>1, SMT
<1>16. CASE Month(11, 214, 31, u, N)
  <2>1. 10 + 1 = 11 /\ 214 = Before(10) - 59 /\ DaysIn(y, 10) = 31 /\ 214 \in Nat /\ 10 \in 3 .. 12
    BY SMT DEF Before, DaysIn
  <2> QED BY <1>7, <1>16, <2>1, SMT
<1>17. CASE Month(12, 245, 30, u, N)
  <2>1. 11 + 1 = 12 /\ 245 = Before(11) - 59 /\ DaysIn(y, 11) = 30 /\ 245 \in Nat /\ 11 \in 3 .. 12
    BY SMT DEF Before, DaysIn
  <2> QED BY <1>7, <1>17, <2>1, SMT
<1>18. CASE Month(13, 275, 31, u, N)
  <2>1. 12 + 1 = 13 /\ 275 = Before(12) - 59 /\ DaysIn(y, 12) = 31 /\ 275 \in Nat /\ 12 \in 3 .. 12
    BY SMT DEF Before, DaysIn
  <2> QED BY <1>7, <1>18, <2>1, SMT
<1>19. CASE Month(14, 306, 31, u, N)
  <2>1. 1 + 13 = 14 /\ 306 = Before(1) + 306 /\ DaysIn(y + 1, 1) = 31 /\ 306 \in Nat
    BY SMT DEF Before, DaysIn
  <2>2. u < 306 + DaysIn(y + 1, 1)
    BY <1>19, <2>1, SMT DEF Month
  <2> QED BY <1>8, <1>19, <2>1, <2>2, SMT
<1>20. CASE Month(15, 337, 29, u, N)
  <2>1. 2 + 13 = 15 /\ 337 = Before(2) + 306 /\ 337 \in Nat
    BY SMT DEF Before
  <2>2. u < 337 + DaysIn(y + 1, 2)
    BY <1>2, <1>3, <1>20, SMT DEF Month, DaysIn
  <2> QED BY <1>8, <1>20, <2>1, <2>2, SMT
<1> QED BY <1>2, <1>6, MonthTable, <1>9, <1>10, <1>11, <1>12, <1>13, <1>14, <1>15, <1>16, <1>17, <1>18, <1>19, <1>20, SMT

-----------------------------------------------------------------------------
\* DATE-OBS and the start time keywords differ by a second at most and only for
\* an observation that begins with a second, for every time of day and however
\* the quotient and the products come to be rounded.
THEOREM StartTimesAlwaysAgree == Spec => []StartTimesAgree
<1>0. ASSUME NEW f \in Times, NEW t \in Clock(f)
      PROVE  Told(f, t[1], t[2], t[3])
  BY TimesAssumption, ClockIsTold, Zenon
<1>1. Init => StartTimesAgree
  <2> SUFFICES ASSUME Init PROVE StartTimesAgree
    OBVIOUS
  <2>1. Told(fm, hours, minutes, seconds) /\ stt_smjd = fm \div 2
    BY <1>0, Zenon DEF Init
  <2> QED
    BY <2>1, SMT DEF StartTimesAgree, Told
<1>2. StartTimesAgree /\ [Next]_mjdVars => StartTimesAgree'
  <2> SUFFICES ASSUME StartTimesAgree, [Next]_mjdVars PROVE StartTimesAgree'
    OBVIOUS
  <2>1. CASE Next
    <3>1. PICK i \in Days, f \in Times : Convert(i, f)
      BY <2>1, Zenon DEF Next
    <3>2. fm' = f /\ Told(f, hours', minutes', seconds') /\ stt_smjd' = f \div 2
      BY <1>0, <3>1, Zenon DEF Convert
    <3> QED
      BY <3>2, SMT DEF StartTimesAgree, Told
  <2>2. CASE UNCHANGED mjdVars
    BY <2>2, SMT DEF mjdVars, StartTimesAgree
  <2> QED
    BY <2>1, <2>2
<1> QED
  BY <1>1, <1>2, PTL DEF Spec

-----------------------------------------------------------------------------
(* The date of an observation *)

\* The days before a year.
YearStart(y) == 365 * (y - 1) + LeapDays(y - 1) - 678576

\* The days of a month are counted on.
LEMMA DayNumberIs ==
  ASSUME NEW y \in Nat, NEW m \in 1 .. 12, NEW d \in Int
  PROVE  /\ DayNumber(y, m, d) = YearStart(y) + DaysBefore(y, m) + d
         /\ YearStart(y) \in Int /\ DaysBefore(y, m) \in Int /\ DaysIn(y, m) \in Int
<1>1. YearStart(y) \in Int
  BY SMT DEF YearStart, LeapDays
<1>2. DaysBefore(y, m) \in Int /\ DaysIn(y, m) \in Int
  BY SMT DEF DaysBefore, DaysIn
<1>3. DayNumber(y, m, d) = YearStart(y) + DaysBefore(y, m) + d
  <2> DEFINE a == (y - 1) \div 4
             b == (y - 1) \div 100
             c == (y - 1) \div 400
  <2>1. a \in Int /\ b \in Int /\ c \in Int
    BY SMT
  <2>2. YearStart(y) = 365 * (y - 1) + (a - b + c) - 678576
    BY SMT DEF YearStart, LeapDays
  <2>3. DayNumber(y, m, d) = 365 * (y - 1) + a - b + c + DaysBefore(y, m) + d - 678576
    BY SMT DEF DayNumber
  <2> HIDE DEF a, b, c
  <2> QED BY <1>2, <2>1, <2>2, <2>3, SMT
<1> QED BY <1>1, <1>2, <1>3

\* The date of day i, when r is added to the day of the month.
IsRounded(y, m, d, i, r) ==
  /\ y \in Nat /\ m \in 1 .. 12 /\ d \in Nat
  /\ r < d /\ d <= r + DaysIn(y, m)
  /\ DayNumber(y, m, d) = i

LEMMA DateOfObservation ==
  ASSUME NEW i \in Nat, NEW f \in Nat
  PROVE  /\ IsRounded(YearOf(i, f), MonthOf(i, f), DayOf(i, f), i, Rounding(f))
         /\ Rounding(f) \in {0, 1} /\ (f >= HalfDay => Rounding(f) = 0)
<1> DEFINE I == IntegralPart(i, f)
<1>1. Rounding(f) \in {0, 1} /\ (f >= HalfDay => Rounding(f) = 0)
  BY SMT DEF Rounding
<1>2. I \in Nat /\ I >= 2400000 /\ I - 2400001 = i - Rounding(f)
  BY SMT DEF IntegralPart, Rounding, HalfDay
<1>3. YearOf(i, f) = YearAt(I) /\ MonthOf(i, f) = MonthAt(I) /\ DayOf(i, f) = DayAt(I) + Rounding(f)
  BY SMT DEF YearOf, MonthOf, DayOf, YearAt, MonthAt, DayAt
<1> HIDE DEF I
<1>4. IsDateOf(YearAt(I), MonthAt(I), DayAt(I), I)
  BY <1>2, DateOfDay, SMT
<1>5. /\ YearAt(I) \in Nat /\ MonthAt(I) \in 1 .. 12 /\ DayAt(I) \in Nat /\ DayAt(I) >= 1
      /\ DayAt(I) <= DaysIn(YearAt(I), MonthAt(I))
      /\ DayNumber(YearAt(I), MonthAt(I), DayAt(I)) = i - Rounding(f)
  BY <1>2, <1>4, SMT DEF IsDateOf
<1>6. DayNumber(YearAt(I), MonthAt(I), DayAt(I) + Rounding(f)) = i
  <2> DEFINE e == DayAt(I) + Rounding(f)
  <2>1. e \in Int /\ e = DayAt(I) + Rounding(f)
    BY <1>1, <1>5, SMT
  <2> HIDE DEF e
  <2>2. DayAt(I) \in Int
    BY <1>5, SMT
  <2>3. /\ DayNumber(YearAt(I), MonthAt(I), e)
             = YearStart(YearAt(I)) + DaysBefore(YearAt(I), MonthAt(I)) + e
        /\ DayNumber(YearAt(I), MonthAt(I), DayAt(I))
             = YearStart(YearAt(I)) + DaysBefore(YearAt(I), MonthAt(I)) + DayAt(I)
        /\ YearStart(YearAt(I)) \in Int /\ DaysBefore(YearAt(I), MonthAt(I)) \in Int
    BY <1>5, <2>1, <2>2, DayNumberIs, Zenon
  <2>4. DayNumber(YearAt(I), MonthAt(I), e) = i
    BY <1>1, <1>5, <2>1, <2>2, <2>3, SMT
  <2> QED BY <2>1, <2>4, Zenon
<1>7. DaysIn(YearAt(I), MonthAt(I)) \in Nat
  BY SMT DEF DaysIn
<1> QED BY <1>1, <1>3, <1>5, <1>6, <1>7, SMT DEF IsRounded

\* The fields are those of the observation.
Converted ==
  /\ im \in Nat /\ fm \in Nat
  /\ year = YearOf(im, fm) /\ month = MonthOf(im, fm) /\ day = DayOf(im, fm)
  /\ fm < 2 * HalfDay /\ Told(fm, hours, minutes, seconds)

LEMMA InitConverts == Init => Converted
BY DaysAssumption, TimesAssumption, ClockIsTold, Zenon DEF Init, Converted

LEMMA NextConverts == Converted /\ [Next]_mjdVars => Converted'
<1> SUFFICES ASSUME Converted, [Next]_mjdVars PROVE Converted'
  OBVIOUS
<1>1. CASE Next
  <2>1. PICK i \in Days, f \in Times : Convert(i, f)
    BY <1>1, Zenon DEF Next
  <2>2. i \in Nat /\ f \in Nat /\ f < 2 * HalfDay
    BY DaysAssumption, TimesAssumption, Zenon
  <2>3. Told(f, hours', minutes', seconds')
    BY <2>1, <2>2, ClockIsTold, Zenon DEF Convert
  <2> QED BY <2>1, <2>2, <2>3, SMT DEF Convert, Converted, HalfDay
<1>2. CASE UNCHANGED mjdVars
  BY <1>2, Zenon DEF mjdVars, Converted
<1> QED BY <1>1, <1>2

\* DATE-OBS is the day of the observation, or the day before plus one, for every
\* day from 1858 on and not only in the years the run has.
THEOREM DateIsAlwaysRight == Spec => []DateIsRight
<1>1. Converted => DateIsRight
  <2> SUFFICES ASSUME Converted PROVE DateIsRight
    OBVIOUS
  <2> DEFINE r == Rounding(fm)
  <2>1. /\ IsRounded(year, month, day, im, r)
        /\ r \in {0, 1} /\ (fm >= HalfDay => r = 0)
    BY DateOfObservation, Zenon DEF Converted
  <2> HIDE DEF r
  <2>2. /\ year \in Nat /\ month \in 1 .. 12 /\ day \in Nat
        /\ r < day /\ day <= r + DaysIn(year, month)
        /\ DayNumber(year, month, day) = im
    BY <2>1, SMT DEF IsRounded
  <2>3. DaysIn(year, month) \in Nat
    BY SMT DEF DaysIn
  <2>4. CASE r = 0
    BY <2>2, <2>3, <2>4, SMT DEF DateIsRight, IsDate
  <2>5. CASE r = 1
    <3>1. fm < HalfDay
      BY <2>1, <2>5, SMT DEF Converted, HalfDay
    <3>2. day > 1 /\ day - 1 \in 1 .. DaysIn(year, month)
      BY <2>2, <2>3, <2>5, SMT
    <3> QED BY <2>2, <3>1, <3>2, Zenon DEF DateIsRight, IsDate
  <2> QED BY <2>1, <2>4, <2>5
<1> QED BY <1>1, InitConverts, NextConverts, PTL DEF Spec

-----------------------------------------------------------------------------
(* The order of dates *)

\* A month ends before a later one of the same year begins, and no later than
\* the year.
LEMMA MonthsInOrder ==
  ASSUME NEW y \in Nat, NEW m \in 1 .. 12
  PROVE  /\ DaysBefore(y, m) \in Nat /\ DaysIn(y, m) \in Nat
         /\ \A n \in 1 .. 12 : m < n => DaysBefore(y, m) + DaysIn(y, m) <= DaysBefore(y, n)
         /\ DaysBefore(y, m) + DaysIn(y, m) <= 365 + (IF IsLeap(y) THEN 1 ELSE 0)
<1>1. CASE IsLeap(y)
  BY <1>1, SMT DEF DaysBefore, DaysIn
<1>2. CASE ~IsLeap(y)
  BY <1>2, SMT DEF DaysBefore, DaysIn
<1> QED BY <1>1, <1>2

LEMMA YearsInOrder ==
  ASSUME NEW x \in Nat, NEW y \in Nat, x < y
  PROVE  /\ YearStart(x) \in Int /\ YearStart(y) \in Int
         /\ YearStart(x) + 365 + (IF IsLeap(x) THEN 1 ELSE 0) <= YearStart(y)
<1> DEFINE k == y - 1
<1>1. k \in Nat /\ k >= x
  BY SMT
<1> HIDE DEF k
<1>2. 365 * x + LeapDays(x) <= 365 * k + LeapDays(k)
  BY <1>1, SMT DEF LeapDays
<1>3. LeapDays(x) \in Int /\ LeapDays(x - 1) \in Int /\ LeapDays(k) \in Int
  BY <1>1, SMT DEF LeapDays
<1> QED BY <1>1, <1>2, <1>3, LeapStep, SMT DEF YearStart, k

\* Day i is one that month m of year y has begun on, and day k one that month n
\* of year x still lasts on.
Begun(y, m, i) ==
  /\ y \in Nat /\ m \in 1 .. 12 /\ YearStart(y) \in Int /\ DaysBefore(y, m) \in Int
  /\ YearStart(y) + DaysBefore(y, m) < i

Lasts(x, n, k) ==
  /\ x \in Nat /\ n \in 1 .. 12
  /\ YearStart(x) \in Int /\ DaysBefore(x, n) \in Int /\ DaysIn(x, n) \in Int
  /\ k <= YearStart(x) + DaysBefore(x, n) + DaysIn(x, n)

\* A month that lasts until a day is none of those before one that has begun.
LEMMA NotBefore ==
  ASSUME NEW y, NEW m, NEW i \in Int, Begun(y, m, i),
         NEW x, NEW n, NEW k \in Int, Lasts(x, n, k), i <= k
  PROVE  x > y \/ (x = y /\ n >= m)
<1>1. y \in Nat /\ m \in 1 .. 12 /\ x \in Nat /\ n \in 1 .. 12
  BY Zenon DEF Begun, Lasts
<1>2. ~(x < y)
  <2> SUFFICES ASSUME x < y PROVE FALSE
    OBVIOUS
  <2>1. YearStart(x) + 365 + (IF IsLeap(x) THEN 1 ELSE 0) <= YearStart(y)
    BY <1>1, YearsInOrder, SMT
  <2>2. DaysBefore(x, n) + DaysIn(x, n) <= 365 + (IF IsLeap(x) THEN 1 ELSE 0)
    BY <1>1, MonthsInOrder, ZenonT(40)
  <2>3. DaysBefore(y, m) \in Nat
    BY <1>1, MonthsInOrder, ZenonT(40)
  <2> QED BY <2>1, <2>2, <2>3, SMT DEF Begun, Lasts
<1>3. ~(x = y /\ n < m)
  <2> SUFFICES ASSUME x = y, n < m PROVE FALSE
    OBVIOUS
  <2>1. DaysBefore(x, n) + DaysIn(x, n) <= DaysBefore(x, m)
    BY <1>1, MonthsInOrder, ZenonT(40)
  <2> QED BY <2>1, SMT DEF Begun, Lasts
<1> QED BY <1>1, <1>2, <1>3, SMT

\* A rounded date, in the count of days.
OnDay(y, m, d, i, r) ==
  /\ y \in Nat /\ m \in 1 .. 12 /\ d \in Nat
  /\ i = YearStart(y) + DaysBefore(y, m) + d
  /\ Begun(y, m, i) /\ Lasts(y, m, i - r)

LEMMA RoundedOnDay ==
  ASSUME NEW y, NEW m, NEW d, NEW i \in Nat, NEW r \in {0, 1}, IsRounded(y, m, d, i, r)
  PROVE  OnDay(y, m, d, i, r)
<1>1. /\ y \in Nat /\ m \in 1 .. 12 /\ d \in Nat
      /\ r < d /\ d <= r + DaysIn(y, m)
      /\ DayNumber(y, m, d) = i
  BY Zenon DEF IsRounded
<1>2. d \in Int /\ d >= 1
  BY <1>1, SMT
<1>3. /\ DayNumber(y, m, d) = YearStart(y) + DaysBefore(y, m) + d
      /\ YearStart(y) \in Int /\ DaysBefore(y, m) \in Int /\ DaysIn(y, m) \in Int
  BY <1>1, <1>2, DayNumberIs, Zenon
<1> QED BY <1>1, <1>2, <1>3, SMT DEF OnDay, Begun, Lasts

\* The later date, and the later time of day.
LaterDate(y, m, d, x, n, e) ==
  x > y \/ (x = y /\ n > m) \/ (x = y /\ n = m /\ e > d)

LaterTime(a, b, c, p, q, r) ==
  p > a \/ (p = a /\ q > b) \/ (p = a /\ q = b /\ r > c)

\* Of two days the later one has the later date.
LEMMA DatesInOrder ==
  ASSUME NEW y, NEW m, NEW d, NEW i \in Nat, NEW r \in {0, 1}, IsRounded(y, m, d, i, r),
         NEW x, NEW n, NEW e, NEW j \in Nat, NEW s \in {0, 1}, IsRounded(x, n, e, j, s),
         i < j
  PROVE  LaterDate(y, m, d, x, n, e)
<1>1. OnDay(y, m, d, i, r) /\ OnDay(x, n, e, j, s)
  BY RoundedOnDay, Zenon
<1> DEFINE k == j - s
<1>2. k \in Int /\ i \in Int /\ i <= k
  BY SMT
<1>3. Begun(y, m, i) /\ Lasts(x, n, k)
  BY <1>1, Zenon DEF OnDay
<1> HIDE DEF k
<1>4. x > y \/ (x = y /\ n >= m)
  BY <1>2, <1>3, NotBefore, Zenon
<1>5. x = y /\ n = m => e > d
  BY <1>1, SMT DEF OnDay, Lasts
<1>6. x \in Nat /\ y \in Nat /\ m \in 1 .. 12 /\ n \in 1 .. 12
  BY <1>1, Zenon DEF OnDay
<1> QED BY <1>4, <1>5, <1>6, SMT DEF LaterDate

\* Noon does not turn the date back: that of the afternoon is the same, or the
\* first of a month where the morning had a day too many.
LEMMA NoonInOrder ==
  ASSUME NEW y, NEW m, NEW d, NEW i \in Nat, IsRounded(y, m, d, i, 1),
         NEW x, NEW n, NEW e, IsRounded(x, n, e, i, 0)
  PROVE  LaterDate(y, m, d, x, n, e) \/ (x = y /\ n = m /\ e = d)
<1>1. OnDay(y, m, d, i, 1) /\ OnDay(x, n, e, i, 0)
  <2>1. 0 \in {0, 1} /\ 1 \in {0, 1}
    OBVIOUS
  <2> QED BY <2>1, RoundedOnDay, Zenon
<1>2. i \in Int /\ i <= i /\ i - 0 = i
  BY SMT
<1>3. Begun(y, m, i) /\ Lasts(x, n, i)
  BY <1>1, <1>2, Zenon DEF OnDay
<1>4. x > y \/ (x = y /\ n >= m)
  BY <1>2, <1>3, NotBefore, Zenon
<1>5. x = y /\ n = m => e = d
  BY <1>1, SMT DEF OnDay, Lasts
<1>6. x \in Nat /\ y \in Nat /\ m \in 1 .. 12 /\ n \in 1 .. 12
  BY <1>1, Zenon DEF OnDay
<1> QED BY <1>4, <1>5, <1>6, SMT DEF LaterDate

\* What is later by date, or of the same date by time, is later.
LEMMA Lexicographic ==
  ASSUME NEW y, NEW m, NEW d, NEW a, NEW b, NEW c,
         NEW x, NEW n, NEW e, NEW p, NEW q, NEW r,
         \/ LaterDate(y, m, d, x, n, e)
         \/ x = y /\ n = m /\ e = d /\ LaterTime(a, b, c, p, q, r)
  PROVE  Later(<< x, n, e, p, q, r >>, << y, m, d, a, b, c >>)
<1> DEFINE before == << y, m, d, a, b, c >>
           after  == << x, n, e, p, q, r >>
<1>1. /\ before[1] = y /\ before[2] = m /\ before[3] = d
      /\ before[4] = a /\ before[5] = b /\ before[6] = c
      /\ after[1] = x /\ after[2] = n /\ after[3] = e
      /\ after[4] = p /\ after[5] = q /\ after[6] = r
  OBVIOUS
<1> HIDE DEF before, after
<1> DEFINE Goal == \E k \in 1 .. 6 : /\ after[k] > before[k]
                                     /\ \A j \in 1 .. k - 1 : after[j] = before[j]
<1>2. x > y => Goal
  <2>1. 1 \in 1 .. 6 /\ \A j \in 1 .. 1 - 1 : FALSE
    BY SMT
  <2> QED BY <1>1, <2>1, Zenon
<1>3. x = y /\ n > m => Goal
  <2>1. 2 \in 1 .. 6 /\ \A j \in 1 .. 2 - 1 : j = 1
    BY SMT
  <2> QED BY <1>1, <2>1, Zenon
<1>4. x = y /\ n = m /\ e > d => Goal
  <2>1. 3 \in 1 .. 6 /\ \A j \in 1 .. 3 - 1 : j = 1 \/ j = 2
    BY SMT
  <2> QED BY <1>1, <2>1, Zenon
<1>5. x = y /\ n = m /\ e = d /\ p > a => Goal
  <2>1. 4 \in 1 .. 6 /\ \A j \in 1 .. 4 - 1 : j = 1 \/ j = 2 \/ j = 3
    BY SMT
  <2> QED BY <1>1, <2>1, Zenon
<1>6. x = y /\ n = m /\ e = d /\ p = a /\ q > b => Goal
  <2>1. 5 \in 1 .. 6 /\ \A j \in 1 .. 5 - 1 : j = 1 \/ j = 2 \/ j = 3 \/ j = 4
    BY SMT
  <2> QED BY <1>1, <2>1, Zenon
<1>7. x = y /\ n = m /\ e = d /\ p = a /\ q = b /\ r > c => Goal
  <2>1. 6 \in 1 .. 6 /\ \A j \in 1 .. 6 - 1 : j = 1 \/ j = 2 \/ j = 3 \/ j = 4 \/ j = 5
    BY SMT
  <2> QED BY <1>1, <2>1, Zenon
<1>8. Goal
  BY <1>2, <1>3, <1>4, <1>5, <1>6, <1>7, Zenon DEF LaterDate, LaterTime
<1> QED BY <1>8, Zenon DEF before, after, Later

\* The second of the day.
SecondOfDay(h, m, s) == 3600 * h + 60 * m + s

\* A later second is a later time.
LEMMA MoreSeconds ==
  ASSUME NEW a \in 0 .. 23, NEW b \in 0 .. 59, NEW c \in 0 .. 59,
         NEW p \in 0 .. 23, NEW q \in 0 .. 59, NEW r \in 0 .. 59,
         SecondOfDay(a, b, c) < SecondOfDay(p, q, r)
  PROVE  LaterTime(a, b, c, p, q, r)
<1>1. p >= a
  BY SMT DEF SecondOfDay
<1>2. p = a => q >= b
  BY SMT DEF SecondOfDay
<1>3. p = a /\ q = b => r > c
  BY SMT DEF SecondOfDay
<1> QED BY <1>1, <1>2, <1>3, SMT DEF LaterTime

\* A later half second of the day has a later time, or the same when it is the
\* next or the one after that.
LEMMA TimesInOrder ==
  ASSUME NEW f \in Nat, NEW g \in Nat, f < g,
         NEW a, NEW b, NEW c, Told(f, a, b, c),
         NEW p, NEW q, NEW r, Told(g, p, q, r)
  PROVE  \/ LaterTime(a, b, c, p, q, r)
         \/ a = p /\ b = q /\ c = r /\ g <= f + 2
<1>1. /\ a \in 0 .. 23 /\ b \in 0 .. 59 /\ c \in 0 .. 59
      /\ p \in 0 .. 23 /\ q \in 0 .. 59 /\ r \in 0 .. 59
  BY SMT DEF Told
<1> DEFINE S == SecondOfDay(a, b, c)
           T == SecondOfDay(p, q, r)
<1>2. S \in Int /\ T \in Int
  BY <1>1, SMT DEF SecondOfDay
<1>3. /\ f \div 2 = S \/ (f % 2 = 0 /\ f \div 2 = S + 1)
      /\ g \div 2 = T \/ (g % 2 = 0 /\ g \div 2 = T + 1)
  BY SMT DEF Told, SecondOfDay
<1> HIDE DEF S, T
<1>4. S <= f \div 2 /\ T >= (g - 1) \div 2 /\ T <= g \div 2
  BY <1>2, <1>3, SMT
<1>5. S <= T /\ (S = T => g <= f + 2)
  BY <1>2, <1>4, SMT
<1>6. CASE S < T
  BY <1>1, <1>6, MoreSeconds, Zenon DEF S, T
<1>7. CASE S = T
  <2>1. a = p /\ b = q /\ c = r
    <3>1. SecondOfDay(a, b, c) = SecondOfDay(p, q, r)
      BY <1>7, Zenon DEF S, T
    <3>2. a = p
      BY <1>1, <3>1, SMT DEF SecondOfDay
    <3>3. b = q
      BY <1>1, <3>1, <3>2, SMT DEF SecondOfDay
    <3>4. c = r
      BY <1>1, <3>1, <3>2, <3>3, SMT DEF SecondOfDay
    <3> QED BY <3>2, <3>3, <3>4
  <2> QED BY <1>5, <1>7, <2>1, Zenon
<1> QED BY <1>2, <1>5, <1>6, <1>7, SMT

\* Observation (j, g) has a later date than (i, f), or the same date and, being of
\* the same day, a later time of day.
Follows(i, f, j, g) ==
  \/ LaterDate(YearOf(i, f), MonthOf(i, f), DayOf(i, f),
               YearOf(j, g), MonthOf(j, g), DayOf(j, g))
  \/ /\ YearOf(j, g) = YearOf(i, f) /\ MonthOf(j, g) = MonthOf(i, f)
     /\ DayOf(j, g) = DayOf(i, f)
     /\ i = j /\ f < g

\* Of two observations the later one follows.
LEMMA ObservationsInOrder ==
  ASSUME NEW i \in Nat, NEW f \in Nat, f < 2 * HalfDay,
         NEW j \in Nat, NEW g \in Nat, g < 2 * HalfDay,
         i < j \/ (i = j /\ f < g)
  PROVE  Follows(i, f, j, g)
<1>1. /\ IsRounded(YearOf(i, f), MonthOf(i, f), DayOf(i, f), i, Rounding(f))
      /\ Rounding(f) \in {0, 1}
      /\ IsRounded(YearOf(j, g), MonthOf(j, g), DayOf(j, g), j, Rounding(g))
      /\ Rounding(g) \in {0, 1}
  BY DateOfObservation, Zenon
<1>2. CASE i < j
  BY <1>1, <1>2, DatesInOrder, Zenon DEF Follows
<1>3. CASE i = j /\ f < g
  <2>2. \/ IntegralPart(i, f) = IntegralPart(j, g) /\ Rounding(f) = Rounding(g)
        \/ Rounding(f) = 1 /\ Rounding(g) = 0
    BY <1>3, SMT DEF IntegralPart, Rounding, HalfDay
  <2>3. CASE IntegralPart(i, f) = IntegralPart(j, g) /\ Rounding(f) = Rounding(g)
    <3>1. /\ YearOf(j, g) = YearOf(i, f) /\ MonthOf(j, g) = MonthOf(i, f)
          /\ DayOf(j, g) = DayOf(i, f)
      BY <2>3, SMT DEF YearOf, MonthOf, DayOf
    <3> QED BY <1>3, <3>1, Zenon DEF Follows
  <2>4. CASE Rounding(f) = 1 /\ Rounding(g) = 0
    <3>1. /\ IsRounded(YearOf(i, f), MonthOf(i, f), DayOf(i, f), i, 1)
          /\ IsRounded(YearOf(j, g), MonthOf(j, g), DayOf(j, g), i, 0)
      BY <1>1, <1>3, <2>4, Zenon
    <3>2. \/ LaterDate(YearOf(i, f), MonthOf(i, f), DayOf(i, f),
                       YearOf(j, g), MonthOf(j, g), DayOf(j, g))
          \/ /\ YearOf(j, g) = YearOf(i, f) /\ MonthOf(j, g) = MonthOf(i, f)
             /\ DayOf(j, g) = DayOf(i, f)
      BY <3>1, NoonInOrder, ZenonT(40)
    <3> QED BY <1>3, <3>2, Zenon DEF Follows
  <2> QED BY <2>2, <2>3, <2>4
<1> QED BY <1>2, <1>3

\* Sorting by DATE-OBS sorts by time: the later of two observations has the
\* later date, for every day and every time of day, whole seconds included; those
\* that begin within one second may have the same date, and none has an earlier.
THEOREM LaterAlwaysSortsLater == Spec => LaterSortsLater
<1> DEFINE before == << year, month, day, hours, minutes, seconds >>
           after  == << year', month', day', hours', minutes', seconds' >>
           Step == \/ Later(after, before)
                   \/ after = before /\ 2 * HalfDay * (im' - im) + fm' - fm <= 2
<1>1. Converted /\ [Next]_mjdVars => [Step]_mjdVars
  <2> SUFFICES ASSUME Converted, Next PROVE Step
    OBVIOUS
  <2>1. PICK i \in (im .. im + MaxGap) \cap Days, f \in Times :
               /\ i = im => f > fm
               /\ Convert(i, f)
    BY Zenon DEF Next
  <2>2. i \in Nat /\ f \in Nat /\ f < 2 * HalfDay /\ i \in im .. im + MaxGap
    BY <2>1, DaysAssumption, TimesAssumption, Zenon
  <2>3. im \in Nat /\ fm \in Nat /\ fm < 2 * HalfDay /\ Told(fm, hours, minutes, seconds)
    BY Zenon DEF Converted
  <2>4. im < i \/ (im = i /\ fm < f)
    <3>1. im < i \/ im = i
      BY <2>2, <2>3, MaxGapAssumption, SMT
    <3>2. im = i => fm < f
      BY <2>1, <2>2, <2>3, SMT
    <3> QED BY <3>1, <3>2
  <2>5. Told(f, hours', minutes', seconds') /\ im' = i /\ fm' = f
    BY <2>1, <2>2, ClockIsTold, Zenon DEF Convert
  <2>6. \/ LaterDate(year, month, day, year', month', day')
        \/ /\ year' = year /\ month' = month /\ day' = day
           /\ im = i /\ fm < f
    <3>1. Follows(im, fm, i, f)
      BY <2>2, <2>3, <2>4, ObservationsInOrder, Zenon
    <3> QED BY <2>1, <3>1, Zenon DEF Follows, Converted, Convert
  <2>7. CASE LaterDate(year, month, day, year', month', day')
    BY <2>7, Lexicographic, SMT
  <2>8. CASE /\ year' = year /\ month' = month /\ day' = day
             /\ im = i /\ fm < f
    <3>1. \/ LaterTime(hours, minutes, seconds, hours', minutes', seconds')
          \/ hours' = hours /\ minutes' = minutes /\ seconds' = seconds /\ f <= fm + 2
      BY <2>2, <2>3, <2>5, <2>8, TimesInOrder, SMT
    <3>2. CASE LaterTime(hours, minutes, seconds, hours', minutes', seconds')
      BY <2>8, <3>2, Lexicographic, SMT
    <3>3. CASE hours' = hours /\ minutes' = minutes /\ seconds' = seconds /\ f <= fm + 2
      <4>1. after = before
        BY <2>8, <3>3, Zenon
      <4>2. 2 * HalfDay * (im' - im) + fm' - fm <= 2
        BY <2>2, <2>3, <2>5, <2>8, <3>3, SMT DEF HalfDay
      <4> QED BY <4>1, <4>2
    <3> QED BY <3>1, <3>2, <3>3
  <2> QED BY <2>6, <2>7, <2>8
<1> QED BY <1>1, InitConverts, NextConverts, PTL DEF Spec, LaterSortsLater
=============================================================================
