----------------------------- MODULE BucketsProofs ---------------------------
(***************************************************************************)
(* Theorems about the time buckets: the calendar of buckets.rs is the one  *)
(* of postgres for every time and year, so the boundaries of an answer are *)
(* consecutive date_trunc starts; and which requests lose no block.        *)
(***************************************************************************)
EXTENDS Buckets, ArithmeticProofs

------------------------------------------------------------------------------
(* Leap years, and the days of the code's calendar by month. *)

\* Leap years up to y, and the days before the March that opens year y.
Leaps(y) == y \div 4 - y \div 100 + y \div 400
MarchDays(y) == 365 * y + Leaps(y)

\* Counts of leap years and of days are numbers.
LEMMA LeapsType == ASSUME NEW y \in Int PROVE Leaps(y) \in Int /\ MarchDays(y) \in Int
BY DEF Leaps, MarchDays

\* From one year to the next the count goes up by the leap day.
LEMMA LeapsStep ==
  ASSUME NEW y \in Int
  PROVE  Leaps(y) - Leaps(y - 1) = IF IsLeap(y) THEN 1 ELSE 0
BY DEF IsLeap, Leaps

\* Year y is year r of era e, an era being four hundred years.
InEra(y, e, r) == e \in Int /\ r \in 0 .. 399 /\ y = e * 400 + r

\* Every year lies in one era.
LEMMA EraOf == ASSUME NEW y \in Int PROVE InEra(y, y \div 400, y % 400)
BY Division DEF InEra

\* The days before a year, by era and year of the era, as MonthStart adds them up.
LEMMA EraDays ==
  ASSUME NEW y \in Int, NEW e, NEW r, InEra(y, e, r)
  PROVE  /\ y \div 400 = e /\ y % 400 = r
         /\ MarchDays(y) = 146097 * e + 365 * r + r \div 4 - r \div 100
<1> DEFINE a == r \div 4
           b == r % 4
           c == r \div 100
           f == r % 100
<1>1. e \in Int /\ r \in 0 .. 399 /\ y = e * 400 + r
  BY DEF InEra
<1>2. /\ a \in Int /\ b \in 0 .. 3 /\ r = 4 * a + b
      /\ c \in Int /\ f \in 0 .. 99 /\ r = 100 * c + f
  BY <1>1, Division
<1> HIDE DEF a, b, c, f
<1>3. y \div 4 = 100 * e + a
  <2>1. y = (100 * e + a) * 4 + b /\ 100 * e + a \in Int
    BY <1>1, <1>2
  <2> QED BY <1>2, <2>1, DivisionOf
<1>4. y \div 100 = 4 * e + c
  <2>1. y = (4 * e + c) * 100 + f /\ 4 * e + c \in Int
    BY <1>1, <1>2
  <2> QED BY <1>2, <2>1, DivisionOf
<1>5. y \div 400 = e /\ y % 400 = r
  BY <1>1, DivisionOf
<1>6. MarchDays(y) = 365 * y + (y \div 4 - y \div 100 + y \div 400)
  BY DEF MarchDays, Leaps
<1>7. MarchDays(y) = 146097 * e + 365 * r + a - c
  BY <1>1, <1>2, <1>3, <1>4, <1>5, <1>6
<1> QED
  BY <1>5, <1>7 DEF a, c

\* The days before a month, months being counted from the March of the year 0.
MonthDays == <<0, 31, 61, 92, 122, 153, 184, 214, 245, 275, 306, 337>>
DaysBefore(k) == MarchDays(k \div 12) + MonthDays[(k % 12) + 1]

\* The days before a month of the year, by the formula of the code and by table.
LEMMA MonthDaysIs ==
  ASSUME NEW m \in 0 .. 11
  PROVE  MonthDays[m + 1] = (153 * m + 2) \div 5 /\ MonthDays[m + 1] \in 0 .. 337
BY DEF MonthDays

\* The days before a month are a number.
LEMMA DaysBeforeType == ASSUME NEW k \in Int PROVE DaysBefore(k) \in Int
<1>1. k \div 12 \in Int /\ k % 12 \in 0 .. 11
  BY Division
<1>2. MonthDays[(k % 12) + 1] \in Int
  BY <1>1, MonthDaysIs
<1>3. MarchDays(k \div 12) \in Int
  BY <1>1, LeapsType
<1> QED
  BY <1>2, <1>3 DEF DaysBefore

\* epoch_seconds_from_civil of the first of a month, in days.
LEMMA MonthStartIs ==
  ASSUME NEW k \in Int
  PROVE  MonthStart(k + 2) = (DaysBefore(k) - 719468) * Day
<1> DEFINE y == k \div 12
           m == k % 12
           e == y \div 400
           r == y % 400
<1>1. (k + 2) - 2 = k /\ y \in Int /\ m \in 0 .. 11
  BY Division
<1>2. InEra(y, e, r)
  BY <1>1, EraOf
<1>3. MonthStart(k + 2) =
        (e * 146097 + r * 365 + r \div 4 - r \div 100 + (153 * m + 2) \div 5 - 719468) * Day
  BY <1>1 DEF MonthStart
<1>4. DaysBefore(k) = MarchDays(y) + MonthDays[m + 1]
  BY DEF DaysBefore
<1> HIDE DEF y, m, e, r
<1>5. MonthDays[m + 1] = (153 * m + 2) \div 5 /\ MonthDays[m + 1] \in Int
  BY <1>1, MonthDaysIs
<1>6. MarchDays(y) = 146097 * e + 365 * r + r \div 4 - r \div 100
  BY <1>1, <1>2, EraDays
<1>7. r \div 4 \in Int /\ r \div 100 \in Int /\ e \in Int /\ r \in Int
  BY <1>2 DEF InEra
<1>8. e * 146097 + r * 365 + r \div 4 - r \div 100 + (153 * m + 2) \div 5 - 719468
        = DaysBefore(k) - 719468
  BY <1>4, <1>5, <1>6, <1>7
<1> QED
  BY <1>3, <1>8

\* Where the next month begins: a year that begins in March ends with the leap
\* day of the next.
LEMMA NextMonth ==
  ASSUME NEW k \in Int
  PROVE  DaysBefore(k + 1) =
           IF k % 12 < 11 THEN MarchDays(k \div 12) + MonthDays[(k % 12) + 2]
           ELSE MarchDays(k \div 12) + 365 + (IF IsLeap(k \div 12 + 1) THEN 1 ELSE 0)
<1> DEFINE y == k \div 12
           m == k % 12
<1>1. y \in Int /\ m \in 0 .. 11 /\ k = y * 12 + m
  BY Division
<1> HIDE DEF y, m
<1>2. CASE m < 11
  <2>1. k + 1 = y * 12 + (m + 1) /\ m + 1 \in 0 .. 11
    BY <1>1, <1>2
  <2>2. (k + 1) \div 12 = y /\ (k + 1) % 12 = m + 1
    BY <1>1, <2>1, DivisionOf
  <2>3. (m + 1) + 1 = m + 2
    BY <1>1
  <2> QED BY <1>2, <2>2, <2>3 DEF DaysBefore, y, m
<1>3. CASE m = 11
  <2>1. k + 1 = (y + 1) * 12 + 0
    BY <1>1, <1>3
  <2>2. (k + 1) \div 12 = y + 1 /\ (k + 1) % 12 = 0
    BY <1>1, <2>1, DivisionOf
  <2>3. DaysBefore(k + 1) = MarchDays(y + 1) + MonthDays[1]
    BY <2>2 DEF DaysBefore
  <2>4. MarchDays(y + 1) = MarchDays(y) + 365 + (IF IsLeap(y + 1) THEN 1 ELSE 0)
    <3>1. (y + 1) - 1 = y
      BY <1>1
    <3>2. Leaps(y + 1) - Leaps(y) = IF IsLeap(y + 1) THEN 1 ELSE 0
      BY <1>1, <3>1, LeapsStep
    <3>3. Leaps(y + 1) \in Int /\ Leaps(y) \in Int
      BY <1>1, LeapsType
    <3> QED BY <1>1, <3>2, <3>3 DEF MarchDays
  <2>5. MonthDays[1] = 0 /\ MarchDays(y + 1) \in Int
    BY <1>1, LeapsType DEF MonthDays
  <2>6. DaysBefore(k + 1) = MarchDays(y) + 365 + (IF IsLeap(y + 1) THEN 1 ELSE 0)
    BY <2>3, <2>4, <2>5
  <2> QED BY <1>3, <2>6 DEF y, m
<1> QED
  BY <1>1, <1>2, <1>3

\* A month has 28 to 31 days.
LEMMA MonthLength ==
  ASSUME NEW k \in Int
  PROVE  DaysBefore(k + 1) - DaysBefore(k) \in 28 .. 31
<1> DEFINE y == k \div 12
           m == k % 12
<1>1. y \in Int /\ m \in 0 .. 11
  BY Division
<1>2. DaysBefore(k) = MarchDays(y) + MonthDays[m + 1] /\ MarchDays(y) \in Int
  BY <1>1, LeapsType DEF DaysBefore
<1>3. DaysBefore(k + 1) =
        IF m < 11 THEN MarchDays(y) + MonthDays[m + 2]
        ELSE MarchDays(y) + 365 + (IF IsLeap(y + 1) THEN 1 ELSE 0)
  BY NextMonth
<1> HIDE DEF y, m
<1> QED
  BY <1>1, <1>2, <1>3 DEF MonthDays

------------------------------------------------------------------------------
(* The day, the year and the month that civil_from_epoch_seconds finds. *)

\* The year of a day in an era.
DayOfEra(c, a, b, doy) == 36524 * c + 1461 * a + 365 * b + doy
YearOfDay(doe) == (doe - doe \div 1460 + doe \div 36524 - doe \div 146096) \div 365

\* The year of the era that the code finds for day z of the era is the one the day is in.
LEMMA YearOfEra ==
  ASSUME NEW c \in Int, 0 <= c, c <= 3, NEW a \in Int, 0 <= a, a <= 24,
         NEW b \in Int, 0 <= b, b <= 3, NEW doy \in Int, 0 <= doy, doy <= 365,
         doy = 365 => b = 3 /\ (a < 24 \/ c = 3)
  PROVE  /\ 0 <= DayOfEra(c, a, b, doy) /\ DayOfEra(c, a, b, doy) < 146097
         /\ YearOfDay(DayOfEra(c, a, b, doy)) = 100 * c + 4 * a + b
<1> DEFINE doe == DayOfEra(c, a, b, doy)
           over == 365 * b + doy + 24 * c + a
           g == IF over >= 1460 THEN 1 ELSE 0
<1>0. doe \in Int /\ doe = 36524 * c + 1461 * a + 365 * b + doy
  BY DEF DayOfEra
<1> HIDE DEF doe
<1>1. 0 <= doe /\ doe < 146097
  BY <1>0
<1>2. doe \div 36524 - doe \div 146096 = c
  <2>1. CASE doe = 146096
    <3>1. c = 3
      BY <1>0, <2>1
    <3>2. doe \div 36524 = 4
      BY <1>0, <2>1, QuotientIs
    <3>3. doe \div 146096 = 1
      BY <1>0, <2>1, QuotientIs
    <3> QED BY <3>1, <3>2, <3>3
  <2>2. CASE doe # 146096
    <3>1. c * 36524 <= doe /\ doe < (c + 1) * 36524
      BY <1>0, <2>2
    <3>2. doe \div 36524 = c
      BY <1>0, <3>1, QuotientIs
    <3>3. 0 * 146096 <= doe /\ doe < (0 + 1) * 146096
      BY <1>0, <1>1, <2>2
    <3>4. doe \div 146096 = 0
      BY <1>0, <3>3, QuotientIs
    <3> QED BY <3>2, <3>4
  <2> QED BY <2>1, <2>2
<1>3. g \in Int /\ 1460 * g <= over /\ over < 1460 * g + 1460 /\ 0 <= doy - g /\ doy - g < 365
  OBVIOUS
<1>4. doe \div 1460 = 25 * c + a + g
  <2>1. doe = 1460 * (25 * c + a) + over /\ over \in Int
    BY <1>0
  <2> HIDE DEF over, g
  <2> DEFINE w == 25 * c + a + g
  <2>2. w \in Int /\ w * 1460 <= doe /\ doe < (w + 1) * 1460
    BY <1>3, <2>1
  <2> HIDE DEF w
  <2>3. doe \div 1460 = w
    BY <1>0, <2>2, QuotientIs
  <2> QED BY <2>3 DEF w
<1> HIDE DEF g
<1>5. doe - doe \div 1460 + doe \div 36524 - doe \div 146096
        = 365 * (100 * c + 4 * a + b) + (doy - g)
  <2>1. doe \div 36524 \in Int /\ doe \div 146096 \in Int
    BY <1>0
  <2> QED BY <1>0, <1>2, <1>3, <1>4, <2>1
<1> DEFINE n == doe - doe \div 1460 + doe \div 36524 - doe \div 146096
           yoe == 100 * c + 4 * a + b
<1>6. yoe \in Int /\ n \in Int /\ n = 365 * yoe + (doy - g)
  BY <1>0, <1>3, <1>5
<1> HIDE DEF n, yoe
<1>7. yoe * 365 <= n /\ n < (yoe + 1) * 365
  BY <1>3, <1>6
<1>8. n \div 365 = yoe
  BY <1>6, <1>7, QuotientIs
<1> QED
  BY <1>1, <1>8 DEF n, yoe, doe, YearOfDay

\* The parts of a year in its era.
LEMMA PartsOfEra ==
  ASSUME NEW r \in 0 .. 399
  PROVE  \E c \in 0 .. 3, a \in 0 .. 24, b \in 0 .. 3 :
           r = 100 * c + 4 * a + b /\ r \div 4 = 25 * c + a /\ r \div 100 = c
<1> DEFINE c == r \div 100
           f == r % 100
           a == f \div 4
           b == f % 4
<1>1. c \in 0 .. 3 /\ f \in 0 .. 99 /\ r = c * 100 + f
  BY Division
<1> HIDE DEF c, f
<1>2. a \in 0 .. 24 /\ b \in 0 .. 3 /\ f = a * 4 + b
  BY <1>1, Division
<1> HIDE DEF a, b
<1>3. r = (25 * c + a) * 4 + b /\ 25 * c + a \in Int
  BY <1>1, <1>2
<1>4. r \div 4 = 25 * c + a
  <2> DEFINE w == 25 * c + a
  <2>1. w \in Int /\ w * 4 <= r /\ r < (w + 1) * 4
    BY <1>1, <1>2, <1>3
  <2> HIDE DEF w
  <2>2. r \div 4 = w
    BY <2>1, QuotientIs
  <2> QED BY <2>2 DEF w
<1>5. r = 100 * c + 4 * a + b
  BY <1>1, <1>2
<1> QED
  BY <1>1, <1>2, <1>4, <1>5 DEF c

\* What makes the year after one a leap year.
LEMMA NextIsLeap ==
  ASSUME NEW e \in Int, NEW c \in 0 .. 3, NEW a \in 0 .. 24, NEW b \in 0 .. 3,
         NEW y, y = e * 400 + (100 * c + 4 * a + b), IsLeap(y + 1)
  PROVE  b = 3 /\ (a < 24 \/ c = 3)
<1>1. (y + 1) % 4 = 0
  BY DEF IsLeap
<1>2. b = 3
  <2>1. ASSUME b < 3 PROVE FALSE
    <3>1. /\ y + 1 = (100 * e + 25 * c + a) * 4 + (b + 1)
          /\ 100 * e + 25 * c + a \in Int /\ b + 1 \in 0 .. 3
      BY <2>1
    <3>2. (y + 1) % 4 = b + 1
      BY <3>1, DivisionOf
    <3> QED BY <1>1, <2>1, <3>2
  <2> QED BY <2>1
<1>3. ASSUME a = 24, c < 3 PROVE FALSE
  <2>1. /\ y + 1 = (4 * e + c + 1) * 100 + 0 /\ 4 * e + c + 1 \in Int
        /\ y + 1 = e * 400 + 100 * (c + 1) /\ 100 * (c + 1) \in 0 .. 399
    BY <1>2, <1>3
  <2>2. (y + 1) % 100 = 0
    BY <2>1, DivisionOf
  <2>3. (y + 1) % 400 = 100 * (c + 1)
    BY <2>1, DivisionOf
  <2> QED BY <2>2, <2>3 DEF IsLeap
<1> QED
  BY <1>2, <1>3

\* Where a day lies in its year.
DayOfYear(k, z) == z - MarchDays(k \div 12)

\* The day of the year the code computes is the distance from the first of March.
LEMMA DayOfYearIs ==
  ASSUME NEW k \in Int, NEW z \in Int, DaysBefore(k) <= z, z < DaysBefore(k + 1)
  PROVE  /\ DayOfYear(k, z) \in Int /\ 0 <= DayOfYear(k, z) /\ DayOfYear(k, z) <= 365
         /\ DayOfYear(k, z) = 365 => IsLeap(k \div 12 + 1)
         /\ (5 * DayOfYear(k, z) + 2) \div 153 = k % 12
<1> DEFINE doy == DayOfYear(k, z)
           y == k \div 12
           m == k % 12
<1>1. y \in Int /\ m \in 0 .. 11 /\ k = y * 12 + m
  BY Division
<1>2. DaysBefore(k) = MarchDays(y) + MonthDays[m + 1] /\ MarchDays(y) \in Int
  BY <1>1, LeapsType DEF DaysBefore
<1>3. DaysBefore(k + 1) =
        IF m < 11 THEN MarchDays(y) + MonthDays[m + 2]
        ELSE MarchDays(y) + 365 + (IF IsLeap(y + 1) THEN 1 ELSE 0)
  BY <1>1, NextMonth
<1>0. doy = z - MarchDays(y)
  BY DEF DayOfYear
<1> HIDE DEF y, m, doy
<1>4. MonthDays[m + 1] <= doy /\ doy \in Int
  BY <1>0, <1>1, <1>2 DEF MonthDays
<1>5. doy < IF m < 11 THEN MonthDays[m + 2] ELSE 365 + (IF IsLeap(y + 1) THEN 1 ELSE 0)
  BY <1>0, <1>1, <1>2, <1>3 DEF MonthDays
<1>6. 0 <= doy /\ doy <= 365 /\ (doy = 365 => IsLeap(y + 1))
  BY <1>1, <1>4, <1>5 DEF MonthDays
<1> DEFINE n == 5 * doy + 2
<1>7. n \in Int /\ m * 153 <= n /\ n < (m + 1) * 153
  BY <1>1, <1>4, <1>5 DEF MonthDays
<1> HIDE DEF n
<1>8. n \div 153 = m
  BY <1>1, <1>7, QuotientIs
<1> QED
  BY <1>4, <1>6, <1>8 DEF y, m, n, doy

\* The era the code finds for a day is that of its year.
LEMMA EraOfDay ==
  ASSUME NEW z \in Int, NEW e \in Int, NEW d \in Int, z = e * 146097 + d, 0 <= d, d < 146097
  PROVE  z \div 146097 = e /\ z % 146097 = d
OBVIOUS

\* MonthOf, of days since March 1 of the year 0.
MonthOfDay(z) ==
  LET doe == z % 146097
      yoe == YearOfDay(doe)
      doy == doe - (365 * yoe + yoe \div 4 - yoe \div 100)
  IN  12 * (yoe + 400 * (z \div 146097)) + (5 * doy + 2) \div 153 + 2

\* The calendar of the code: a day between the starts of two months is in the
\* first.
LEMMA MonthOfDayIs ==
  ASSUME NEW k \in Int, NEW z \in Int, DaysBefore(k) <= z, z < DaysBefore(k + 1)
  PROVE  MonthOfDay(z) = k + 2
<1> DEFINE y == k \div 12
           m == k % 12
           e == y \div 400
           r == y % 400
           doy == DayOfYear(k, z)
           doe == z % 146097
           yoe == YearOfDay(doe)
           day == doe - (365 * yoe + yoe \div 4 - yoe \div 100)
<1>1. y \in Int /\ m \in 0 .. 11 /\ k = y * 12 + m
  BY Division
<1>2. InEra(y, e, r)
  BY <1>1, EraOf
<1>3. MonthOfDay(z) = 12 * (yoe + 400 * (z \div 146097)) + (5 * day + 2) \div 153 + 2
  BY DEF MonthOfDay
<1>5. /\ doy \in Int /\ 0 <= doy /\ doy <= 365 /\ (doy = 365 => IsLeap(y + 1))
      /\ (5 * doy + 2) \div 153 = m
  BY DayOfYearIs
<1>6. MarchDays(y) = 146097 * e + 365 * r + r \div 4 - r \div 100 /\ MarchDays(y) \in Int
  BY <1>1, <1>2, EraDays, LeapsType
<1>7. z = MarchDays(y) + doy
  BY <1>1, <1>6 DEF DayOfYear
<1> HIDE DEF y, m, e, r, doy
<1>8. e \in Int /\ r \in 0 .. 399 /\ y = e * 400 + r
  BY <1>2 DEF InEra
<1>9. PICK c \in 0 .. 3, a \in 0 .. 24, b \in 0 .. 3 :
        r = 100 * c + 4 * a + b /\ r \div 4 = 25 * c + a /\ r \div 100 = c
  BY <1>8, PartsOfEra
<1>a. /\ c \in Int /\ 0 <= c /\ c <= 3 /\ a \in Int /\ 0 <= a /\ a <= 24
      /\ b \in Int /\ 0 <= b /\ b <= 3
  OBVIOUS
<1> DEFINE d == DayOfEra(c, a, b, doy)
<1>10. d \in Int /\ z = e * 146097 + d
  <2>1. c \in Int /\ a \in Int /\ b \in Int /\ doy \in Int /\ e \in Int
    BY <1>5, <1>8, <1>a
  <2>2. MarchDays(y) = 146097 * e + (36524 * c + 1461 * a + 365 * b)
    BY <1>6, <1>8, <1>9
  <2>3. d = 36524 * c + 1461 * a + 365 * b + doy
    BY DEF DayOfEra
  <2> HIDE DEF d
  <2> QED BY <1>7, <2>1, <2>2, <2>3
<1>11. doy = 365 => b = 3 /\ (a < 24 \/ c = 3)
  <2>1. y = e * 400 + (100 * c + 4 * a + b)
    BY <1>8, <1>9
  <2> QED BY <1>5, <1>8, <2>1, NextIsLeap
<1>12. /\ 0 <= d /\ d < 146097
       /\ YearOfDay(d) = 100 * c + 4 * a + b
  BY <1>5, <1>a, <1>11, YearOfEra
<1> HIDE DEF d
<1>13. z \div 146097 = e /\ doe = d
  BY <1>8, <1>10, <1>12, EraOfDay
<1>14. yoe = r
  BY <1>9, <1>12, <1>13
<1>15. day = doy
  <2>1. /\ MarchDays(y) = 146097 * e + (365 * r + r \div 4 - r \div 100)
        /\ r \div 4 \in Int /\ r \div 100 \in Int
    BY <1>6, <1>8, <1>9
  <2>2. d = (365 * r + r \div 4 - r \div 100) + doy
    BY <1>5, <1>7, <1>8, <1>10, <2>1
  <2>3. day = d - (365 * r + r \div 4 - r \div 100)
    BY <1>13, <1>14
  <2> QED BY <1>5, <1>8, <2>1, <2>2, <2>3
<1> HIDE DEF yoe, day, doe
<1>16. MonthOfDay(z) = 12 * (r + 400 * e) + m + 2
  BY <1>3, <1>5, <1>13, <1>14, <1>15
<1> QED
  BY <1>1, <1>8, <1>16

\* Leap years, counted one by one.
LEMMA LeapYearsIs ==
  ASSUME NEW from \in Int, NEW until \in Int, from <= until
  PROVE  LeapYears(from, until) = Leaps(until - 1) - Leaps(from - 1)
<1> DEFINE n == until - from
           S == {i \in Nat : LeapYears(from, from + i) = Leaps(from + i - 1) - Leaps(from - 1)}
           Years(i) == {k \in from .. from + i - 1 : IsLeap(k)}
<1>1. 0 \in S
  <2>1. Years(0) = {}
    OBVIOUS
  <2>2. LeapYears(from, from + 0) = 0
    BY <2>1, FS_EmptySet DEF LeapYears
  <2>3. Leaps(from + 0 - 1) = Leaps(from - 1) /\ Leaps(from - 1) \in Int
    BY LeapsType
  <2> QED BY <2>2, <2>3
<1>2. ASSUME NEW i \in S PROVE i + 1 \in S
  <2>1. i \in Nat /\ LeapYears(from, from + i) = Leaps(from + i - 1) - Leaps(from - 1)
    OBVIOUS
  <2> DEFINE y == from + i
  <2>2. y \in Int /\ from + (i + 1) - 1 = y /\ from + i - 1 = y - 1 /\ from + (i + 1) = y + 1
    BY <2>1
  <2>3. Leaps(y) - Leaps(y - 1) = IF IsLeap(y) THEN 1 ELSE 0
    BY <2>2, LeapsStep
  <2>4. Leaps(y) \in Int /\ Leaps(y - 1) \in Int /\ Leaps(from - 1) \in Int
    BY <2>2, LeapsType
  <2>5. IsFiniteSet(Years(i)) /\ Cardinality(Years(i)) = LeapYears(from, y)
    <3>1. IsFiniteSet(from .. y - 1)
      BY <2>2, FS_Interval
    <3>2. IsFiniteSet(Years(i))
      BY <3>1, FS_Subset
    <3> QED BY <3>2 DEF LeapYears
  <2>6. Cardinality(Years(i + 1)) = LeapYears(from, y + 1)
    BY <2>2 DEF LeapYears
  <2>7. y \notin Years(i)
    BY <2>2
  <2>8. CASE IsLeap(y)
    <3>1. Years(i + 1) = Years(i) \cup {y}
      BY <2>1, <2>2, <2>8
    <3> HIDE DEF Years
    <3>2. Cardinality(Years(i + 1)) = Cardinality(Years(i)) + 1
      BY <2>5, <2>7, <3>1, FS_AddElement
    <3>3. LeapYears(from, y + 1) = Leaps(y) - Leaps(from - 1)
      BY <2>1, <2>2, <2>3, <2>4, <2>5, <2>6, <2>8, <3>2
    <3> QED BY <2>1, <2>2, <3>3
  <2>9. CASE ~IsLeap(y)
    <3>1. Years(i + 1) = Years(i)
      BY <2>1, <2>2, <2>9
    <3> HIDE DEF Years
    <3>3. LeapYears(from, y + 1) = Leaps(y) - Leaps(from - 1)
      BY <2>1, <2>2, <2>3, <2>4, <2>5, <2>6, <2>9, <3>1
    <3> QED BY <2>1, <2>2, <3>3
  <2> QED BY <2>8, <2>9
<1> HIDE DEF S
<1>3. n \in S
  <2>0. n \in Nat
    OBVIOUS
  <2> HIDE DEF n
  <2>1. S \in SUBSET Nat
    BY DEF S
  <2> QED BY <1>1, <1>2, <2>0, <2>1, NaturalInduction
<1>4. LeapYears(from, from + n) = Leaps(from + n - 1) - Leaps(from - 1)
  BY <1>3 DEF S
<1>5. from + n = until
  OBVIOUS
<1> QED
  BY <1>4, <1>5

\* The days before a year of postgres' calendar, counted with the leap years of the code.
LEMMA DaysBeforeYearIs ==
  ASSUME NEW y \in Int
  PROVE  DaysBeforeYear(y) = 365 * y + Leaps(y - 1) - 719527
<1>1. Leaps(1969) = 477 /\ Leaps(y - 1) \in Int
  BY LeapsType DEF Leaps
<1>2. ASSUME NEW a \in Int, NEW b \in Int, b <= a PROVE LeapYears(a, b) = 0
  <2>1. {k \in a .. b - 1 : IsLeap(k)} = {}
    BY <1>2
  <2> QED BY <2>1, FS_EmptySet DEF LeapYears
<1>3. CASE 1970 <= y
  <2>1. LeapYears(1970, y) = Leaps(y - 1) - Leaps(1970 - 1)
    BY <1>3, LeapYearsIs
  <2>2. LeapYears(y, 1970) = 0 /\ 1970 - 1 = 1969
    BY <1>2, <1>3
  <2> QED BY <1>1, <2>1, <2>2 DEF DaysBeforeYear
<1>4. CASE y < 1970
  <2>1. LeapYears(y, 1970) = Leaps(1970 - 1) - Leaps(y - 1)
    BY <1>4, LeapYearsIs
  <2>2. LeapYears(1970, y) = 0 /\ 1970 - 1 = 1969
    BY <1>2, <1>4
  <2> QED BY <1>1, <2>1, <2>2 DEF DaysBeforeYear
<1> QED
  BY <1>3, <1>4

------------------------------------------------------------------------------
(* The first days of postgres' months are those of the code. *)

\* The calendar of postgres, in the months of the code: both have the same
\* first days.
LEMMA FirstDayIs ==
  ASSUME NEW n \in Int
  PROVE  FirstDay(n) = DaysBefore(n + 23638) - 719468
<1> DEFINE p == n \div 12
           m == n % 12
           y == 1970 + p
           k == n + 23638
<1>1. p \in Int /\ m \in 0 .. 11 /\ n = p * 12 + m
  BY Division
<1>2. FirstDay(n) = DaysBeforeYear(y) + DaysBeforeMonth[m + 1]
                      + (IF m >= 2 /\ IsLeap(y) THEN 1 ELSE 0)
  BY DEF FirstDay
<1>3. y \in Int /\ y - 1 \in Int /\ k \in Int
  BY <1>1
<1>4. DaysBeforeYear(y) = 365 * y + Leaps(y - 1) - 719527 /\ Leaps(y - 1) \in Int
  BY <1>3, DaysBeforeYearIs, LeapsType
<1> HIDE DEF p, m
<1>5. CASE m < 2
  <2>1. k = (y - 1) * 12 + (m + 10) /\ m + 10 \in 0 .. 11
    BY <1>1, <1>5
  <2>2. k \div 12 = y - 1 /\ k % 12 = m + 10
    <3> DEFINE q == y - 1
               s == m + 10
    <3>1. q \in Int /\ s \in 0 .. 11 /\ k = q * 12 + s
      BY <1>3, <2>1
    <3> HIDE DEF k, q, s
    <3>2. k \div 12 = q /\ k % 12 = s
      BY <3>1, DivisionOf
    <3> QED BY <3>2 DEF q, s
  <2>3. (m + 10) + 1 = m + 11
    BY <1>1
  <2> HIDE DEF k, y
  <2>4. DaysBefore(k) = 365 * (y - 1) + Leaps(y - 1) + MonthDays[m + 11]
    BY <2>2, <2>3 DEF DaysBefore, MarchDays
  <2>5. DaysBeforeMonth[m + 1] = MonthDays[m + 11] - 306 /\ MonthDays[m + 11] \in Int
    BY <1>1, <1>5 DEF DaysBeforeMonth, MonthDays
  <2>6. FirstDay(n) = DaysBeforeYear(y) + DaysBeforeMonth[m + 1]
    BY <1>1, <1>2, <1>3, <1>4, <1>5, <2>5
  <2>7. FirstDay(n) = DaysBefore(k) - 719468
    BY <1>3, <1>4, <2>4, <2>5, <2>6
  <2> QED BY <2>7 DEF k
<1>6. CASE m >= 2
  <2>1. k = y * 12 + (m - 2) /\ m - 2 \in 0 .. 11
    BY <1>1, <1>6
  <2>2. k \div 12 = y /\ k % 12 = m - 2
    <3> DEFINE q == y
               s == m - 2
    <3>1. q \in Int /\ s \in 0 .. 11 /\ k = q * 12 + s
      BY <1>3, <2>1
    <3> HIDE DEF k, q, s
    <3>2. k \div 12 = q /\ k % 12 = s
      BY <3>1, DivisionOf
    <3> QED BY <3>2 DEF q, s
  <2>3. (m - 2) + 1 = m - 1
    BY <1>1
  <2> HIDE DEF k, y
  <2>4. DaysBefore(k) = 365 * y + Leaps(y) + MonthDays[m - 1]
    BY <2>2, <2>3 DEF DaysBefore, MarchDays
  <2>5. DaysBeforeMonth[m + 1] = MonthDays[m - 1] + 59 /\ MonthDays[m - 1] \in Int
    BY <1>1, <1>6 DEF DaysBeforeMonth, MonthDays
  <2>6. Leaps(y) - Leaps(y - 1) = (IF IsLeap(y) THEN 1 ELSE 0) /\ Leaps(y) \in Int
    BY <1>3, LeapsStep, LeapsType
  <2>7. FirstDay(n) = DaysBeforeYear(y) + DaysBeforeMonth[m + 1] + (IF IsLeap(y) THEN 1 ELSE 0)
    BY <1>1, <1>2, <1>6
  <2>8. FirstDay(n) = DaysBefore(k) - 719468
    BY <1>3, <1>4, <2>4, <2>5, <2>6, <2>7
  <2> QED BY <2>8 DEF k
<1> QED
  BY <1>1, <1>5, <1>6

\* The months follow each other, 28 to 31 days apart.
LEMMA MonthsFollow ==
  ASSUME NEW n \in Int
  PROVE  /\ FirstDay(n) \in Int
         /\ FirstDay(n) + 28 <= FirstDay(n + 1) /\ FirstDay(n + 1) <= FirstDay(n) + 31
<1>1. n + 23638 \in Int /\ (n + 1) + 23638 = (n + 23638) + 1
  OBVIOUS
<1>2. FirstDay(n) = DaysBefore(n + 23638) - 719468
  BY FirstDayIs
<1>3. FirstDay(n + 1) = DaysBefore((n + 23638) + 1) - 719468
  BY <1>1, FirstDayIs
<1> DEFINE k == n + 23638
<1> HIDE DEF k
<1>4. /\ FirstDay(n) = DaysBefore(k) - 719468 /\ FirstDay(n + 1) = DaysBefore(k + 1) - 719468
      /\ k \in Int
  BY <1>1, <1>2, <1>3 DEF k
<1>5. /\ DaysBefore(k + 1) - DaysBefore(k) \in 28 .. 31
      /\ DaysBefore(k) \in Int /\ DaysBefore(k + 1) \in Int
  BY <1>4, MonthLength, DaysBeforeType
<1> QED
  BY <1>4, <1>5

\* January 1970 begins on day 0.
LEMMA FirstDayZero == FirstDay(0) = 0
<1>1. 0 \div 12 = 0 /\ 0 % 12 = 0 /\ 1970 + 0 = 1970
  OBVIOUS
<1>2. DaysBeforeYear(1970) = 365 * 1970 + Leaps(1969) - 719527
  <2>1. 1970 - 1 = 1969
    OBVIOUS
  <2> QED BY <2>1, DaysBeforeYearIs
<1>3. Leaps(1969) = 477
  BY DEF Leaps
<1>4. DaysBeforeMonth[0 + 1] = 0
  BY DEF DaysBeforeMonth
<1> QED
  BY <1>1, <1>2, <1>3, <1>4 DEF FirstDay

\* From month i to a later one there are at least 28 days a month, at most 31.
LEMMA MonthsApart ==
  ASSUME NEW i \in Int, NEW j \in Int, i <= j
  PROVE  FirstDay(i) + 28 * (j - i) <= FirstDay(j) /\ FirstDay(j) <= FirstDay(i) + 31 * (j - i)
<1> DEFINE S == {n \in Nat : /\ FirstDay(i) + 28 * n <= FirstDay(i + n)
                             /\ FirstDay(i + n) <= FirstDay(i) + 31 * n}
           d == j - i
<1>1. 0 \in S
  <2>1. i + 0 = i /\ FirstDay(i) \in Int
    BY MonthsFollow
  <2> QED BY <2>1
<1>2. ASSUME NEW n \in S PROVE n + 1 \in S
  <2>1. /\ n \in Nat /\ FirstDay(i) + 28 * n <= FirstDay(i + n)
        /\ FirstDay(i + n) <= FirstDay(i) + 31 * n
    OBVIOUS
  <2>2. i + n \in Int /\ i + (n + 1) = (i + n) + 1
    BY <2>1
  <2>3. /\ FirstDay(i + n) \in Int /\ FirstDay(i + n) + 28 <= FirstDay(i + (n + 1))
        /\ FirstDay(i + (n + 1)) <= FirstDay(i + n) + 31
    BY <2>2, MonthsFollow
  <2>4. FirstDay(i) \in Int /\ FirstDay(i + (n + 1)) \in Int
    BY <2>1, MonthsFollow
  <2> QED BY <2>1, <2>3, <2>4
<1>3. d \in Nat /\ i + d = j
  OBVIOUS
<1> HIDE DEF S, d
<1>4. d \in S
  <2>1. S \in SUBSET Nat
    BY DEF S
  <2> QED BY <1>1, <1>2, <1>3, <2>1, NaturalInduction
<1>5. FirstDay(i) + 28 * d <= FirstDay(j) /\ FirstDay(j) <= FirstDay(i) + 31 * d
  BY <1>3, <1>4 DEF S
<1> QED
  BY <1>5 DEF d

\* Every day lies in a month, in one only, and the model looks for it where it
\* is.
LEMMA MonthExists ==
  ASSUME NEW d \in Int
  PROVE  \E n \in Int : FirstDay(n) <= d /\ d < FirstDay(n + 1)
<1> DEFINE D == IF d < 0 THEN -d ELSE d
           S == {i \in Nat : d < FirstDay(i - D)}
<1>1. D \in Nat /\ -D <= d /\ d <= D
  OBVIOUS
<1> HIDE DEF D
<1>2. FirstDay(0 - D) <= d
  <2>1. FirstDay(0 - D) + 28 * (0 - (0 - D)) <= FirstDay(0) /\ FirstDay(0 - D) \in Int
    BY <1>1, MonthsApart, MonthsFollow
  <2> QED BY <1>1, <2>1, FirstDayZero
<1>3. d < FirstDay(D + 1)
  <2>1. FirstDay(0) + 28 * ((D + 1) - 0) <= FirstDay(D + 1) /\ FirstDay(D + 1) \in Int
    BY <1>1, MonthsApart, MonthsFollow
  <2> QED BY <1>1, <2>1, FirstDayZero
<1>4. 2 * D + 1 \in S
  <2>1. (2 * D + 1) - D = D + 1 /\ 2 * D + 1 \in Nat
    BY <1>1
  <2> QED BY <1>3, <2>1
<1>5. PICK i \in S : \A j \in S : i <= j
  <2>1. S \in SUBSET Nat
    OBVIOUS
  <2> HIDE DEF S
  <2> QED BY <1>4, <2>1, LeastNatural
<1>6. i \in Nat /\ d < FirstDay(i - D) /\ i # 0
  <2>1. i \in Nat /\ d < FirstDay(i - D)
    OBVIOUS
  <2>2. FirstDay(0 - D) \in Int
    BY <1>1, MonthsFollow
  <2> QED BY <1>2, <2>1, <2>2
<1>7. i - 1 \in Nat /\ i - 1 \notin S
  BY <1>5, <1>6
<1> DEFINE n == (i - 1) - D
<1>8. n \in Int /\ n + 1 = i - D
  BY <1>1, <1>6
<1>9. FirstDay(n) <= d
  <2>1. ~(d < FirstDay(n))
    BY <1>7
  <2>2. FirstDay(n) \in Int
    BY <1>8, MonthsFollow
  <2> HIDE DEF n
  <2> QED BY <2>1, <2>2
<1> HIDE DEF n
<1> QED
  BY <1>6, <1>8, <1>9

\* A day lies in one month only.
LEMMA MonthUnique ==
  ASSUME NEW d \in Int, NEW m \in Int, NEW n \in Int,
         FirstDay(m) <= d, d < FirstDay(m + 1), FirstDay(n) <= d, d < FirstDay(n + 1)
  PROVE  m = n
<1>1. ASSUME NEW a \in Int, NEW b \in Int, FirstDay(a) <= d, d < FirstDay(b + 1) PROVE a <= b
  <2>1. SUFFICES ASSUME b + 1 <= a PROVE FALSE
    BY <1>1
  <2>2. FirstDay(b + 1) + 28 * (a - (b + 1)) <= FirstDay(a)
    BY <2>1, MonthsApart
  <2>3. FirstDay(b + 1) \in Int /\ FirstDay(a) \in Int
    BY MonthsFollow
  <2> QED BY <1>1, <2>1, <2>2, <2>3
<1>2. m <= n
  BY <1>1
<1>3. n <= m
  BY <1>1
<1> QED
  BY <1>2, <1>3

\* MonthNumber finds the month of a time, after 1970 and before.
LEMMA MonthNumberIs ==
  ASSUME NEW tm \in Int, NEW n \in Int, FirstDay(n) <= tm \div Day, tm \div Day < FirstDay(n + 1)
  PROVE  MonthNumber(tm) = n
<1> DEFINE d == tm \div Day
           months == d \div 31 .. d \div 28 \cup d \div 28 .. d \div 31
<1>1. d \in Int
  BY DEF Day
<1>2. FirstDay(n) <= d /\ d < FirstDay(n + 1)
  OBVIOUS
<1>3. MonthNumber(tm) = CHOOSE k \in months : FirstDay(k) <= d /\ d < FirstDay(k + 1)
  BY DEF MonthNumber
<1> HIDE DEF d
<1>4. n \in months
  <2>1. d \div 28 \in Int /\ d \div 31 \in Int
    BY <1>1
  <2>2. /\ (d \div 28) * 28 <= d /\ d < (d \div 28 + 1) * 28
        /\ (d \div 31) * 31 <= d /\ d < (d \div 31 + 1) * 31
    BY <1>1, QuotientBrackets
  <2>3. FirstDay(n) \in Int /\ FirstDay(n + 1) \in Int
    BY MonthsFollow
  <2>4. CASE n >= 0
    <3>1. /\ FirstDay(0) + 28 * (n - 0) <= FirstDay(n)
          /\ FirstDay(n + 1) <= FirstDay(0) + 31 * ((n + 1) - 0)
      BY <2>4, MonthsApart
    <3>2. 28 * n <= d /\ d < 31 * (n + 1)
      BY <1>1, <1>2, <2>3, <3>1, FirstDayZero
    <3> QED BY <1>1, <2>1, <2>2, <2>4, <3>2
  <2>5. CASE n < 0
    <3>1. /\ FirstDay(0) <= FirstDay(n) + 31 * (0 - n)
          /\ FirstDay(n + 1) + 28 * (0 - (n + 1)) <= FirstDay(0)
      BY <2>5, MonthsApart
    <3>2. 31 * n <= d /\ d < 28 * (n + 1)
      BY <1>1, <1>2, <2>3, <3>1, FirstDayZero
    <3> QED BY <1>1, <2>1, <2>2, <2>5, <3>2
  <2> QED BY <2>4, <2>5
<1>5. months \subseteq Int
  BY <1>1
<1> HIDE DEF months
<1>6. \A k \in months : FirstDay(k) <= d /\ d < FirstDay(k + 1) => k = n
  BY <1>1, <1>2, <1>5, MonthUnique
<1> QED
  BY <1>2, <1>3, <1>4, <1>6

\* MonthOf and MonthStart of a time and a number.
LEMMA MonthOfIs ==
  ASSUME NEW tm \in Int, NEW n \in Int, FirstDay(n) <= tm \div Day, tm \div Day < FirstDay(n + 1)
  PROVE  MonthOf(tm) = n + 23640
<1> DEFINE d == tm \div Day
           k == n + 23638
<1>1. d \in Int /\ k \in Int /\ (n + 1) + 23638 = k + 1
  BY DEF Day
<1>2. FirstDay(n) <= d /\ d < FirstDay(n + 1)
  OBVIOUS
<1>3. MonthOf(tm) = MonthOfDay(d + 719468)
  BY DEF MonthOf, MonthOfDay, YearOfDay
<1>4. FirstDay(n) = DaysBefore(k) - 719468
  BY FirstDayIs
<1>5. FirstDay(n + 1) = DaysBefore(k + 1) - 719468
  <2>1. FirstDay(n + 1) = DaysBefore((n + 1) + 23638) - 719468
    BY FirstDayIs
  <2> QED BY <1>1, <2>1
<1> HIDE DEF d
<1> DEFINE z == d + 719468
<1>6. z \in Int /\ DaysBefore(k) <= z /\ z < DaysBefore(k + 1)
  <2>1. DaysBefore(k) \in Int /\ DaysBefore(k + 1) \in Int
    BY <1>1, DaysBeforeType
  <2> HIDE DEF k
  <2> QED BY <1>1, <1>2, <1>4, <1>5, <2>1
<1>7. MonthOf(tm) = MonthOfDay(z)
  BY <1>3
<1>8. MonthOfDay(z) = k + 2
  <2> HIDE DEF z, k
  <2> QED BY <1>1, <1>6, MonthOfDayIs
<1> QED
  BY <1>7, <1>8

\* MonthStart is the first day of postgres' month.
LEMMA MonthStartOf ==
  ASSUME NEW n \in Int
  PROVE  MonthStart(n + 23640) = FirstDay(n) * Day
<1> DEFINE k == n + 23638
<1>1. k \in Int /\ k + 2 = n + 23640
  OBVIOUS
<1>2. FirstDay(n) = DaysBefore(k) - 719468
  BY FirstDayIs
<1> HIDE DEF k
<1>3. MonthStart(k + 2) = (DaysBefore(k) - 719468) * Day
  BY <1>1, MonthStartIs
<1> QED
  BY <1>1, <1>2, <1>3

------------------------------------------------------------------------------
(* The intervals of every kind. *)

\* Comparing days is comparing seconds.
LEMMA DayBrackets ==
  ASSUME NEW tm \in Int, NEW a \in Int
  PROVE  /\ tm \div Day \in Int
         /\ (a <= tm \div Day <=> a * Day <= tm) /\ (tm \div Day < a <=> tm < a * Day)
<1>1. tm \div 86400 \in Int /\ (tm \div 86400) * 86400 <= tm /\ tm < (tm \div 86400 + 1) * 86400
  BY QuotientBrackets
<1> DEFINE d == tm \div 86400
<1>2. d = tm \div Day
  BY DEF Day
<1> HIDE DEF d
<1>3. d \in Int /\ d * 86400 <= tm /\ tm < (d + 1) * 86400
  BY <1>1 DEF d
<1>4. (a <= d <=> a * 86400 <= tm) /\ (d < a <=> tm < a * 86400)
  BY <1>3
<1> QED
  BY <1>2, <1>3, <1>4 DEF Day

\* The month a time lies in, in both calendars.
LEMMA MonthIn ==
  ASSUME NEW tm \in Int
  PROVE  /\ MonthNumber(tm) \in Int /\ MonthOf(tm) = MonthNumber(tm) + 23640
         /\ FirstDay(MonthNumber(tm)) * Day <= tm /\ tm < FirstDay(MonthNumber(tm) + 1) * Day
<1>1. tm \div Day \in Int
  BY DayBrackets
<1>2. PICK n \in Int : FirstDay(n) <= tm \div Day /\ tm \div Day < FirstDay(n + 1)
  BY <1>1, MonthExists
<1>3. MonthNumber(tm) = n /\ MonthOf(tm) = n + 23640
  BY <1>2, MonthNumberIs, MonthOfIs
<1>4. FirstDay(n) \in Int /\ FirstDay(n + 1) \in Int
  BY MonthsFollow
<1> QED
  BY <1>2, <1>3, <1>4, DayBrackets

CalendarKinds == {"month", "quarter", "year"}

\* The calendar intervals by months and longest length.
LEMMA Steps ==
  ASSUME NEW i \in CalendarKinds
  PROVE  /\ i \notin Fixed /\ i # "week"
         /\ \/ MonthStep(i) = 1 /\ MaxDuration(i) = 31 * 86400 /\ i # "year"
            \/ MonthStep(i) = 3 /\ MaxDuration(i) = 93 * 86400 /\ i # "year"
            \/ MonthStep(i) = 12 /\ MaxDuration(i) = 366 * 86400 /\ i = "year"
<1>1. i = "month" \/ i = "quarter" \/ i = "year"
  BY DEF CalendarKinds
<1>2. i \notin Fixed /\ i # "week"
  BY <1>1 DEF Fixed
<1>3. CASE i = "month"
  <2>1. MaxDuration(i) = 31 * Day
    BY <1>2, <1>3 DEF MaxDuration
  <2>2. MonthStep(i) = 1
    BY <1>3 DEF MonthStep
  <2>3. MaxDuration(i) = 31 * 86400
    BY <2>1 DEF Day
  <2>4. i # "year"
    BY <1>3
  <2> QED BY <1>2, <2>2, <2>3, <2>4
<1>4. CASE i = "quarter"
  <2>1. MaxDuration(i) = 3 * 31 * Day
    BY <1>2, <1>4 DEF MaxDuration
  <2>2. MonthStep(i) = 3
    BY <1>4 DEF MonthStep
  <2>3. MaxDuration(i) = 93 * 86400
    BY <2>1 DEF Day
  <2>4. i # "year"
    BY <1>4
  <2> QED BY <1>2, <2>2, <2>3, <2>4
<1>5. CASE i = "year"
  <2>1. MaxDuration(i) = 366 * Day
    BY <1>2, <1>5 DEF MaxDuration
  <2>2. MonthStep(i) = 12
    BY <1>5 DEF MonthStep
  <2>3. MaxDuration(i) = 366 * 86400
    BY <2>1 DEF Day
  <2>4. i = "year"
    BY <1>5
  <2> QED BY <1>2, <2>2, <2>3, <2>4
<1> QED
  BY <1>1, <1>3, <1>4, <1>5

\* A fixed interval has one length.
LEMMA FixedSteps ==
  ASSUME NEW i \in Fixed
  PROVE  /\ MaxDuration(i) = MinDuration(i) /\ MinDuration(i) \in Nat \ {0}
         /\ i = "week" => MinDuration(i) = 7 * Day
<1>1. i = "5min" \/ i = "hour" \/ i = "day" \/ i = "week"
  BY DEF Fixed
<1>2. i # "month" /\ i # "quarter" /\ i # "year"
  BY <1>1
<1>3. MaxDuration(i) = MinDuration(i)
  BY <1>2 DEF MaxDuration
<1>4. CASE i = "5min"
  BY <1>3, <1>4 DEF MinDuration
<1>5. CASE i = "hour"
  BY <1>3, <1>5 DEF MinDuration
<1>6. CASE i = "day"
  BY <1>3, <1>6 DEF MinDuration, Day
<1>7. CASE i = "week"
  BY <1>3, <1>7 DEF MinDuration, Day
<1> QED
  BY <1>1, <1>4, <1>5, <1>6, <1>7

\* The first and the last month of a quarter or a year.
LEMMA StepBrackets ==
  ASSUME NEW s \in {1, 3, 12}, NEW m \in Int, NEW n \in Int
  PROVE  m \div s \in Int /\ (n * s <= m /\ m < (n + 1) * s <=> m \div s = n)
<1>1. s \in Nat \ {0}
  OBVIOUS
<1> QED
  BY <1>1, QuotientBrackets, QuotientIs

\* Twelve months, whichever comes first, are 365 or 366 days.
LEMMA YearLength ==
  ASSUME NEW n \in Int
  PROVE  FirstDay(n) + 365 <= FirstDay(n + 12) /\ FirstDay(n + 12) <= FirstDay(n) + 366
<1> DEFINE k == n + 23638
           y == k \div 12
           m == k % 12
           l == k + 12
<1>1. k \in Int /\ l \in Int /\ n + 12 + 23638 = l
  OBVIOUS
<1>2. FirstDay(n) = DaysBefore(k) - 719468
  BY FirstDayIs
<1>3. FirstDay(n + 12) = DaysBefore(l) - 719468
  <2>1. n + 12 \in Int
    OBVIOUS
  <2>2. FirstDay(n + 12) = DaysBefore(n + 12 + 23638) - 719468
    BY <2>1, FirstDayIs
  <2> QED BY <1>1, <2>2
<1> HIDE DEF k
<1>4. y \in Int /\ m \in 0 .. 11 /\ k = y * 12 + m
  BY <1>1, Division
<1>5. DaysBefore(k) = MarchDays(y) + MonthDays[m + 1]
  BY DEF DaysBefore
<1> DEFINE z == y + 1
<1> HIDE DEF y, m, l
<1>6. z \in Int /\ l = z * 12 + m /\ z - 1 = y
  BY <1>1, <1>4 DEF l
<1> HIDE DEF z
<1>7. l \div 12 = z /\ l % 12 = m
  BY <1>1, <1>4, <1>6, DivisionOf
<1>8. DaysBefore(l) = MarchDays(z) + MonthDays[m + 1]
  BY <1>7 DEF DaysBefore
<1>9. MarchDays(y) + 365 <= MarchDays(z) /\ MarchDays(z) <= MarchDays(y) + 366
  <2>1. Leaps(z) - Leaps(y) = (IF IsLeap(z) THEN 1 ELSE 0) /\ Leaps(z) \in Int /\ Leaps(y) \in Int
    BY <1>4, <1>6, LeapsStep, LeapsType
  <2>2. MarchDays(y) = 365 * y + Leaps(y) /\ MarchDays(z) = 365 * z + Leaps(z)
    BY DEF MarchDays
  <2> QED BY <1>4, <1>6, <2>1, <2>2
<1>10. MarchDays(y) \in Int /\ MarchDays(z) \in Int /\ MonthDays[m + 1] \in Int
  BY <1>4, <1>6, LeapsType, MonthDaysIs
<1> QED
  BY <1>2, <1>3, <1>5, <1>8, <1>9, <1>10

\* The starts of the intervals of a kind ascend, no further apart than the
\* longest of them.
LEMMA IntervalsFollow ==
  ASSUME NEW i \in Intervals, NEW n \in Int
  PROVE  /\ StartOf(i, n) \in Int /\ StartOf(i, n) < StartOf(i, n + 1)
         /\ StartOf(i, n + 1) <= StartOf(i, n) + MaxDuration(i) /\ MaxDuration(i) \in Nat \ {0}
<1>1. CASE i \in Fixed
  <2> DEFINE l == MinDuration(i)
  <2>1. l \in Nat \ {0} /\ MaxDuration(i) = l /\ (i = "week" => l = 604800)
    BY <1>1, FixedSteps DEF Day
  <2> HIDE DEF l
  <2>2. (n + 1) * l = n * l + l /\ n * l \in Int
    BY <2>1
  <2>3. CASE i = "week"
    <3>1. StartOf(i, n) = n * 604800 - 259200 /\ StartOf(i, n + 1) = (n + 1) * 604800 - 259200
      BY <2>3 DEF StartOf, Day
    <3> QED BY <2>1, <2>3, <3>1
  <2>4. CASE i # "week"
    <3>1. StartOf(i, n) = n * l /\ StartOf(i, n + 1) = (n + 1) * l
      BY <1>1, <2>4 DEF StartOf, l
    <3> QED BY <2>1, <2>2, <3>1
  <2> QED BY <2>3, <2>4
<1>2. CASE i \in CalendarKinds
  <2> DEFINE s == MonthStep(i)
             a == n * s
             b == (n + 1) * s
  <2>1. StartOf(i, n) = FirstDay(a) * Day /\ StartOf(i, n + 1) = FirstDay(b) * Day
    BY <1>2, Steps DEF StartOf
  <2>2. \/ s = 1 /\ MaxDuration(i) = 31 * 86400
        \/ s = 3 /\ MaxDuration(i) = 93 * 86400
        \/ s = 12 /\ MaxDuration(i) = 366 * 86400
    BY <1>2, Steps
  <2> HIDE DEF s
  <2>3. a \in Int /\ b \in Int /\ b = a + s /\ a <= b /\ (s = 12 => a = n * 12 /\ b = (n + 1) * 12)
    BY <2>2
  <2>4. s = 12 => FirstDay(b) <= FirstDay(a) + 366
    <3>1. s = 12 => b = a + 12
      BY <2>3
    <3> HIDE DEF a, b
    <3> QED BY <2>3, <3>1, YearLength
  <2> HIDE DEF a, b
  <2>5. FirstDay(a) \in Int /\ FirstDay(b) \in Int
    BY <2>3, MonthsFollow
  <2>6. FirstDay(a) + 28 * (b - a) <= FirstDay(b) /\ FirstDay(b) <= FirstDay(a) + 31 * (b - a)
    BY <2>3, MonthsApart
  <2>7. StartOf(i, n) = FirstDay(a) * 86400 /\ StartOf(i, n + 1) = FirstDay(b) * 86400
    BY <2>1 DEF Day
  <2> QED BY <2>2, <2>3, <2>4, <2>5, <2>6, <2>7
<1> QED
  BY <1>1, <1>2 DEF Intervals, CalendarKinds

\* A time lies in the interval with its number, and in no other.
LEMMA NumberBrackets ==
  ASSUME NEW i \in Intervals, NEW tm \in Int
  PROVE  /\ Number(i, tm) \in Int
         /\ StartOf(i, Number(i, tm)) <= tm /\ tm < StartOf(i, Number(i, tm) + 1)
<1>1. CASE i = "week"
  <2> DEFINE q == (tm + 259200) \div 604800
  <2>1. q \in Int /\ q * 604800 <= tm + 259200 /\ tm + 259200 < (q + 1) * 604800
    BY QuotientBrackets
  <2>2. Number(i, tm) = q
    BY <1>1 DEF Number, Day
  <2> HIDE DEF q
  <2>3. StartOf(i, q) = q * 604800 - 259200 /\ StartOf(i, q + 1) = (q + 1) * 604800 - 259200
    BY <1>1, <2>1 DEF StartOf, Day
  <2> QED BY <2>1, <2>2, <2>3
<1>2. CASE i \in Fixed /\ i # "week"
  <2> DEFINE l == MinDuration(i)
             q == tm \div l
  <2>1. l \in Nat \ {0}
    BY <1>2, FixedSteps
  <2>2. q \in Int /\ q * l <= tm /\ tm < (q + 1) * l
    BY <2>1, QuotientBrackets
  <2>3. Number(i, tm) = q /\ StartOf(i, q) = q * l /\ StartOf(i, q + 1) = (q + 1) * l
    BY <1>2 DEF Number, StartOf
  <2> HIDE DEF q, l
  <2> QED BY <2>2, <2>3
<1>3. CASE i \in CalendarKinds
  <2> DEFINE s == MonthStep(i)
             m == MonthNumber(tm)
             n == m \div s
  <2>1. /\ m \in Int /\ FirstDay(m) * Day <= tm /\ tm < FirstDay(m + 1) * Day
    BY MonthIn
  <2>2. s \in {1, 3, 12}
    BY <1>3, Steps
  <2>3. /\ Number(i, tm) = n /\ StartOf(i, n) = FirstDay(n * s) * Day
        /\ StartOf(i, n + 1) = FirstDay((n + 1) * s) * Day
    BY <1>3, Steps DEF Number, StartOf
  <2> HIDE DEF m, s
  <2>4. n \in Int /\ n * s <= m /\ m < (n + 1) * s
    BY <2>1, <2>2, StepBrackets
  <2> DEFINE a == n * s
             b == (n + 1) * s
  <2>5. a \in Int /\ b \in Int /\ a <= m /\ m + 1 <= b
    BY <2>1, <2>2, <2>4
  <2>6. StartOf(i, n) = FirstDay(a) * Day /\ StartOf(i, n + 1) = FirstDay(b) * Day
    BY <2>3
  <2> HIDE DEF n, a, b
  <2>7. /\ FirstDay(a) + 28 * (m - a) <= FirstDay(m)
        /\ FirstDay(m + 1) + 28 * (b - (m + 1)) <= FirstDay(b)
    <3>1. FirstDay(a) + 28 * (m - a) <= FirstDay(m)
      BY <2>1, <2>5, MonthsApart
    <3> DEFINE k == m + 1
    <3>2. k \in Int /\ k <= b
      BY <2>1, <2>5
    <3> HIDE DEF k
    <3>3. FirstDay(k) + 28 * (b - k) <= FirstDay(b)
      BY <2>5, <3>2, MonthsApart
    <3> QED BY <3>1, <3>3 DEF k
  <2>8. FirstDay(a) \in Int /\ FirstDay(b) \in Int /\ FirstDay(m) \in Int /\ FirstDay(m + 1) \in Int
    BY <2>1, <2>5, MonthsFollow
  <2>9. FirstDay(a) <= FirstDay(m) /\ FirstDay(m + 1) <= FirstDay(b)
    BY <2>1, <2>5, <2>7, <2>8
  <2>10. StartOf(i, n) <= tm /\ tm < StartOf(i, n + 1)
    BY <2>1, <2>6, <2>8, <2>9 DEF Day
  <2> QED BY <2>3, <2>4, <2>10
<1> QED
  BY <1>1, <1>2, <1>3 DEF Intervals, CalendarKinds

\* From the start of one interval to that of a later one.
LEMMA StartsAscend ==
  ASSUME NEW i \in Intervals, NEW a \in Int, NEW b \in Int, a <= b
  PROVE  /\ StartOf(i, a) <= StartOf(i, b)
         /\ StartOf(i, b) <= StartOf(i, a) + (b - a) * MaxDuration(i)
         /\ a < b => StartOf(i, a) < StartOf(i, b)
<1> DEFINE M == MaxDuration(i)
           S == {n \in Nat : /\ StartOf(i, a) <= StartOf(i, a + n)
                             /\ StartOf(i, a + n) <= StartOf(i, a) + n * M
                             /\ n > 0 => StartOf(i, a) < StartOf(i, a + n)}
           d == b - a
<1>1. StartOf(i, a) \in Int /\ M \in Nat
  BY IntervalsFollow
<1> HIDE DEF M
<1>2. 0 \in S
  <2>1. a + 0 = a /\ 0 * M = 0
    BY <1>1
  <2> QED BY <1>1, <2>1
<1>3. ASSUME NEW n \in S PROVE n + 1 \in S
  <2>1. /\ n \in Nat /\ StartOf(i, a) <= StartOf(i, a + n)
        /\ StartOf(i, a + n) <= StartOf(i, a) + n * M
    OBVIOUS
  <2>2. a + n \in Int /\ a + (n + 1) = (a + n) + 1
    BY <2>1
  <2> DEFINE u == StartOf(i, a + n)
             v == StartOf(i, a + (n + 1))
             w == StartOf(i, a)
             p == n * M
  <2>3. u \in Int /\ u < v /\ v <= u + M
    BY <2>2, IntervalsFollow DEF M
  <2>4. v \in Int /\ p \in Int /\ (n + 1) * M = p + M
    <3>1. a + (n + 1) \in Int
      BY <2>1
    <3> QED BY <1>1, <2>1, <3>1, IntervalsFollow
  <2>5. w <= u /\ u <= w + p /\ w \in Int
    BY <1>1, <2>1
  <2> HIDE DEF u, v, w, p
  <2>6. w <= v /\ v <= w + (p + M) /\ w < v
    BY <1>1, <2>3, <2>4, <2>5
  <2> QED BY <2>1, <2>4, <2>6 DEF v, w
<1>4. d \in Nat /\ a + d = b /\ (a < b => d > 0)
  OBVIOUS
<1> HIDE DEF S, d
<1>5. d \in S
  <2>1. S \in SUBSET Nat
    BY DEF S
  <2> QED BY <1>2, <1>3, <1>4, <2>1, NaturalInduction
<1>6. /\ StartOf(i, a) <= StartOf(i, b) /\ StartOf(i, b) <= StartOf(i, a) + d * M
      /\ a < b => StartOf(i, a) < StartOf(i, b)
  BY <1>4, <1>5 DEF S
<1> QED
  BY <1>6 DEF d, M

\* The number of the interval of a time, by the starts of intervals.
LEMMA NumberIs ==
  ASSUME NEW i \in Intervals, NEW tm \in Int, NEW n \in Int
  PROVE  /\ n <= Number(i, tm) <=> StartOf(i, n) <= tm
         /\ Number(i, tm) = n <=> StartOf(i, n) <= tm /\ tm < StartOf(i, n + 1)
<1> DEFINE m == Number(i, tm)
<1>1. m \in Int /\ StartOf(i, m) <= tm /\ tm < StartOf(i, m + 1)
  BY NumberBrackets
<1> HIDE DEF m
<1>2. \A k \in Int : StartOf(i, k) \in Int
  BY IntervalsFollow
<1>3. \A k \in Int : k <= m => StartOf(i, k) <= tm
  <2>1. ASSUME NEW k \in Int, k <= m PROVE StartOf(i, k) <= tm
    <3>1. StartOf(i, k) <= StartOf(i, m)
      BY <1>1, <2>1, StartsAscend
    <3> QED BY <1>1, <1>2, <3>1
  <2> QED BY <2>1
<1>4. \A k \in Int : ~(k <= m) => ~(StartOf(i, k) <= tm)
  <2>1. ASSUME NEW k \in Int, m + 1 <= k PROVE ~(StartOf(i, k) <= tm)
    <3>1. StartOf(i, m + 1) <= StartOf(i, k) /\ StartOf(i, m + 1) \in Int
      BY <1>1, <1>2, <2>1, StartsAscend
    <3> QED BY <1>1, <1>2, <3>1
  <2> QED BY <1>1, <2>1
<1>5. n <= m <=> StartOf(i, n) <= tm
  BY <1>3, <1>4
<1>6. n + 1 <= m <=> StartOf(i, n + 1) <= tm
  BY <1>3, <1>4
<1>7. m = n <=> n <= m /\ ~(n + 1 <= m)
  BY <1>1
<1>8. StartOf(i, n + 1) \in Int
  BY <1>2
<1>9. m = n <=> StartOf(i, n) <= tm /\ tm < StartOf(i, n + 1)
  BY <1>5, <1>6, <1>7, <1>8
<1> QED
  BY <1>5, <1>9 DEF m

\* truncate is date_trunc.
LEMMA TruncateIs ==
  ASSUME NEW i \in Intervals, NEW tm \in Int
  PROVE  Truncate(i, tm) = StartOf(i, Number(i, tm))
<1>1. CASE i = "week"
  BY <1>1, FixedSteps DEF Truncate, Number, StartOf, Fixed, Day
<1>2. CASE i \in Fixed /\ i # "week"
  <2>1. MinDuration(i) \in Nat \ {0}
    BY <1>2, FixedSteps
  <2>2. (tm + 0) = tm /\ tm \div MinDuration(i) \in Int
    BY <2>1
  <2>3. (tm \div MinDuration(i)) * MinDuration(i) \in Int
    BY <2>1, <2>2
  <2>4. Truncate(i, tm) = ((tm + 0) \div MinDuration(i)) * MinDuration(i) - 0
    BY <1>2 DEF Truncate
  <2>5. /\ Number(i, tm) = tm \div MinDuration(i)
        /\ StartOf(i, Number(i, tm)) = Number(i, tm) * MinDuration(i)
    BY <1>2 DEF Number, StartOf
  <2> QED BY <2>2, <2>3, <2>4, <2>5
<1>3. CASE i \in CalendarKinds
  <2> DEFINE s == MonthStep(i)
             m == MonthNumber(tm)
             n == m \div s
  <2>1. m \in Int /\ MonthOf(tm) = m + 23640
    BY MonthIn
  <2>2. s \in {1, 3, 12}
    BY <1>3, Steps
  <2>3. Number(i, tm) = n /\ StartOf(i, n) = FirstDay(n * s) * Day
    BY <1>3, Steps DEF Number, StartOf
  <2>4. Truncate(i, tm) = MonthStart((MonthOf(tm) \div s) * s)
    BY <1>3, Steps DEF Truncate
  <2> HIDE DEF m, s
  <2>5. n \in Int
    BY <2>1, <2>2
  <2>6. ((m + 23640) \div s) * s = n * s + 23640 /\ n * s \in Int
    <3>1. CASE s = 1
      BY <2>1, <3>1
    <3>2. CASE s = 3
      BY <2>1, <3>2
    <3>3. CASE s = 12
      BY <2>1, <3>3
    <3> QED BY <2>2, <3>1, <3>2, <3>3
  <2>7. MonthStart(n * s + 23640) = FirstDay(n * s) * Day
    BY <2>6, MonthStartOf
  <2> QED BY <2>1, <2>3, <2>4, <2>5, <2>6, <2>7
<1> QED
  BY <1>1, <1>2, <1>3 DEF Intervals, CalendarKinds

\* advance goes to the next start.
LEMMA AdvanceIs ==
  ASSUME NEW i \in Intervals, NEW n \in Int
  PROVE  Advance(i, StartOf(i, n)) = StartOf(i, n + 1)
<1>1. CASE i = "week"
  BY <1>1 DEF Advance, StartOf, Fixed, Day, MinDuration
<1>2. CASE i \in Fixed /\ i # "week"
  <2>1. MinDuration(i) \in Nat \ {0}
    BY <1>2, FixedSteps
  <2>2. n * MinDuration(i) + MinDuration(i) = (n + 1) * MinDuration(i)
    BY <2>1
  <2> QED BY <1>2, <2>2 DEF Advance, StartOf
<1>3. CASE i \in CalendarKinds
  <2> DEFINE s == MonthStep(i)
             m == n * s
             tm == FirstDay(m) * Day
  <2>1. s \in {1, 3, 12}
    BY <1>3, Steps
  <2>2. StartOf(i, n) = tm /\ StartOf(i, n + 1) = FirstDay((n + 1) * s) * Day
    BY <1>3, Steps DEF StartOf
  <2>3. Advance(i, tm) = MonthStart(MonthOf(tm) + s)
    BY <1>3, Steps DEF Advance
  <2> HIDE DEF s
  <2>4. m \in Int /\ (n + 1) * s = m + s /\ s \in Int /\ m + s \in Int
    BY <2>1
  <2> HIDE DEF m
  <2>5. FirstDay(m) \in Int /\ FirstDay(m + 1) \in Int /\ FirstDay(m) < FirstDay(m + 1)
    BY <2>4, MonthsFollow
  <2>6. tm \in Int /\ tm \div Day = FirstDay(m)
    <3>1. Day \in Nat \ {0} /\ tm \in Int /\ tm = FirstDay(m) * Day + 0 /\ 0 \in 0 .. Day - 1
      BY <2>5 DEF Day
    <3> QED BY <2>5, <3>1, DivisionOf
  <2> HIDE DEF tm
  <2>7. MonthOf(tm) = m + 23640
    BY <2>4, <2>5, <2>6, MonthOfIs
  <2>8. MonthOf(tm) + s = (m + s) + 23640
    BY <2>4, <2>7
  <2>9. MonthStart((m + s) + 23640) = FirstDay(m + s) * Day
    BY <2>4, MonthStartOf
  <2> QED BY <2>2, <2>3, <2>4, <2>8, <2>9
<1> QED
  BY <1>1, <1>2, <1>3 DEF Intervals, CalendarKinds

------------------------------------------------------------------------------
(* Runs of consecutive boundaries, and what trimming leaves of one. *)

\* The starts of consecutive intervals, beginning with number n.
IsRun(i, ts, n) == ts \in Seq(Int) /\ \A k \in 1 .. Len(ts) : ts[k] = StartOf(i, n + k - 1)

\* A run goes on with the start of the next interval.
LEMMA RunAppend ==
  ASSUME NEW i \in Intervals, NEW n \in Int, NEW ts, IsRun(i, ts, n)
  PROVE  /\ IsRun(i, Append(ts, StartOf(i, n + Len(ts))), n)
         /\ Len(Append(ts, StartOf(i, n + Len(ts)))) = Len(ts) + 1
<1> DEFINE b == StartOf(i, n + Len(ts))
           us == Append(ts, b)
<1>1. ts \in Seq(Int) /\ Len(ts) \in Nat /\ n + Len(ts) \in Int
  BY DEF IsRun
<1>2. b \in Int
  BY <1>1, IntervalsFollow
<1> HIDE DEF b
<1>3. us \in Seq(Int) /\ Len(us) = Len(ts) + 1
  BY <1>1, <1>2
<1>4. ASSUME NEW k \in 1 .. Len(us) PROVE us[k] = StartOf(i, n + k - 1)
  <2>1. CASE k <= Len(ts)
    <3>1. us[k] = ts[k]
      BY <1>1, <1>2, <2>1
    <3> QED BY <1>1, <2>1, <3>1 DEF IsRun
  <2>2. CASE k = Len(ts) + 1
    <3>1. us[k] = b /\ n + k - 1 = n + Len(ts)
      BY <1>1, <1>2, <2>2
    <3> QED BY <3>1 DEF b
  <2> QED BY <1>1, <1>3, <2>1, <2>2
<1> HIDE DEF us
<1>5. IsRun(i, us, n)
  BY <1>3, <1>4 DEF IsRun
<1> QED
  BY <1>3, <1>5 DEF us, b

\* A part of a run is a run.
LEMMA RunPart ==
  ASSUME NEW i \in Intervals, NEW n \in Int, NEW ts, IsRun(i, ts, n),
         NEW f \in Nat \ {0}, NEW l \in Nat, f <= l, l <= Len(ts)
  PROVE  IsRun(i, SubSeq(ts, f, l), n + f - 1) /\ Len(SubSeq(ts, f, l)) = l - f + 1
<1> DEFINE us == SubSeq(ts, f, l)
<1>1. ts \in Seq(Int) /\ Len(ts) \in Nat
  BY DEF IsRun
<1>2. us \in Seq(Int) /\ Len(us) = l - f + 1
  BY <1>1
<1>3. ASSUME NEW k \in 1 .. l - f + 1 PROVE us[k] = StartOf(i, (n + f - 1) + k - 1)
  <2>1. us[k] = ts[f + k - 1] /\ f + k - 1 \in 1 .. Len(ts)
    BY <1>1
  <2>2. ts[f + k - 1] = StartOf(i, n + (f + k - 1) - 1)
    BY <2>1 DEF IsRun
  <2>3. n + (f + k - 1) - 1 = (n + f - 1) + k - 1
    OBVIOUS
  <2> QED BY <2>1, <2>2, <2>3
<1> HIDE DEF us
<1>4. IsRun(i, us, n + f - 1)
  BY <1>2, <1>3 DEF IsRun
<1> QED
  BY <1>2, <1>4 DEF us

\* What lies between two boundaries of a run, by numbers of intervals.
LEMMA RunHolds ==
  ASSUME NEW i \in Intervals, NEW n \in Int, NEW ts, IsRun(i, ts, n),
         NEW k \in 1 .. Len(ts), NEW x \in Int
  PROVE  /\ ts[k] \in Int
         /\ (ts[k] <= x <=> n + k - 1 <= Number(i, x)) /\ (x < ts[k] <=> Number(i, x) < n + k - 1)
<1> DEFINE m == n + k - 1
           p == Number(i, x)
<1>1. ts[k] = StartOf(i, m)
  BY DEF IsRun
<1>2. k \in Int
  BY DEF IsRun
<1>3. m \in Int /\ p \in Int /\ StartOf(i, m) \in Int
  <2>1. m \in Int
    BY <1>2
  <2> QED BY <2>1, NumberBrackets, IntervalsFollow
<1>4. m <= p <=> StartOf(i, m) <= x
  BY <1>3, NumberIs
<1> HIDE DEF m, p
<1>5. ts[k] \in Int /\ (ts[k] <= x <=> m <= p) /\ (x < ts[k] <=> p < m)
  BY <1>1, <1>3, <1>4
<1> QED
  BY <1>5 DEF m, p

\* What restrict leaves, and that it drops nothing between the ends of the chain.
LEMMA RestrictedIs ==
  ASSUME NEW ts \in Seq(Int), Len(ts) >= 2, chain.now \in Int, chain.first \in Int
  PROVE  \E f \in Nat \ {0}, l \in Nat :
           /\ f < l /\ l <= Len(ts) /\ Restricted(ts) = SubSeq(ts, f, l)
           /\ l = Len(ts) \/ chain.now < ts[l]
           /\ f = 1 \/ ts[f] < chain.first
<1> DEFINE N == Len(ts)
           Last(n) == /\ n = 2 \/ ts[n - 1] <= chain.now
                      /\ \A m \in n + 1 .. N : chain.now < ts[m - 1]
           First(l, n) == /\ n = l - 1 \/ ts[n + 1] >= chain.first
                          /\ \A m \in 1 .. n - 1 : ts[m + 1] < chain.first
           l == CHOOSE n \in 2 .. N : Last(n)
           f == CHOOSE n \in 1 .. l - 1 : First(l, n)
<1>0. N \in Nat /\ N >= 2 /\ \A k \in 1 .. N : ts[k] \in Int
  OBVIOUS
<1>1. \E n \in 2 .. N : Last(n)
  <2> DEFINE S == {j \in Nat : j <= N - 2 /\ (N - j = 2 \/ ts[N - j - 1] <= chain.now)}
  <2>1. N - 2 \in S
    BY <1>0
  <2>2. PICK j \in S : \A j2 \in S : j <= j2
    <3>1. S \in SUBSET Nat
      OBVIOUS
    <3> HIDE DEF S
    <3> QED BY <2>1, <3>1, LeastNatural
  <2> DEFINE n == N - j
  <2>3. j \in Nat /\ n \in 2 .. N /\ (n = 2 \/ ts[n - 1] <= chain.now)
    BY <1>0
  <2>4. ASSUME NEW m \in n + 1 .. N PROVE chain.now < ts[m - 1]
    <3> DEFINE j2 == N - m
    <3>1. j2 \in Nat /\ j2 < j /\ N - j2 = m /\ m # 2 /\ m - 1 \in 1 .. N /\ j2 <= N - 2
      BY <1>0, <2>3
    <3>2. j2 \notin S
      <4>1. ~(j <= j2)
        BY <2>3, <3>1
      <4> HIDE DEF S, j2
      <4> QED BY <2>2, <4>1
    <3>3. ~(ts[m - 1] <= chain.now)
      BY <3>1, <3>2
    <3>4. ts[m - 1] \in Int
      <4> HIDE DEF S, j2
      <4> QED BY <1>0, <3>1
    <3> HIDE DEF S, j2, n, N
    <3> QED BY <3>3, <3>4
  <2> QED BY <2>3, <2>4
<1>2. l \in 2 .. N /\ Last(l)
  <2> HIDE DEF Last, N
  <2> QED BY <1>1
<1>3. \E n \in 1 .. l - 1 : First(l, n)
  <2> HIDE DEF l
  <2> DEFINE S == {j \in Nat : j \in 1 .. l - 1 /\ (j = l - 1 \/ ts[j + 1] >= chain.first)}
  <2>1. l - 1 \in S
    BY <1>0, <1>2
  <2>2. PICK n \in S : \A m \in S : n <= m
    <3>1. S \in SUBSET Nat
      OBVIOUS
    <3> HIDE DEF S
    <3> QED BY <2>1, <3>1, LeastNatural
  <2>3. n \in 1 .. l - 1 /\ (n = l - 1 \/ ts[n + 1] >= chain.first)
    OBVIOUS
  <2>4. ASSUME NEW m \in 1 .. n - 1 PROVE ts[m + 1] < chain.first
    <3>1. m \in Nat /\ m < n /\ m \in 1 .. l - 1 /\ m # l - 1 /\ m + 1 \in 1 .. N
      BY <1>0, <1>2, <2>3
    <3>2. m \notin S
      <4>1. ~(n <= m)
        BY <2>3, <3>1
      <4> HIDE DEF S
      <4> QED BY <2>2, <4>1
    <3>3. ~(ts[m + 1] >= chain.first)
      BY <3>1, <3>2
    <3> QED BY <1>0, <3>1, <3>3
  <2> QED BY <2>3, <2>4
<1>4. f \in 1 .. l - 1 /\ First(l, f)
  <2> HIDE DEF First, l
  <2> QED BY <1>3
<1>5. Restricted(ts) = SubSeq(ts, f, l)
  BY DEF Restricted
<1> HIDE DEF l, f
<1>6. f \in Nat \ {0} /\ l \in Nat /\ f < l /\ l <= N
  BY <1>0, <1>2, <1>4
<1>7. l = N \/ chain.now < ts[l]
  <2>1. l < N => l + 1 \in l + 1 .. N /\ (l + 1) - 1 = l
    BY <1>0, <1>6
  <2>2. l < N => chain.now < ts[(l + 1) - 1]
    BY <1>2, <2>1
  <2> QED BY <1>0, <1>6, <2>1, <2>2
<1>8. f = 1 \/ ts[f] < chain.first
  <2>1. f # 1 => f - 1 \in 1 .. f - 1 /\ (f - 1) + 1 = f
    BY <1>6
  <2>2. f # 1 => ts[(f - 1) + 1] < chain.first
    BY <1>4, <2>1
  <2> QED BY <2>1, <2>2
<1> QED
  BY <1>5, <1>6, <1>7, <1>8

\* A run keeps its numbers when it is clamped to the chain: an interval that
\* some time between the first and the newest block lies in stays.
LEMMA RestrictedKeeps ==
  ASSUME NEW i \in Intervals, NEW n \in Int, NEW ts, IsRun(i, ts, n), Len(ts) >= 2,
         chain.now \in Int, chain.first \in Int
  PROVE  LET us == Restricted(ts) IN
         \E a \in Int :
           /\ IsRun(i, us, a) /\ Len(us) >= 2 /\ n <= a /\ a + Len(us) <= n + Len(ts)
           /\ \/ us[Len(us)] = ts[Len(ts)]
              \/ chain.now < us[Len(us)]
           /\ \A x \in Int :
                /\ chain.first <= x /\ x <= chain.now
                /\ n <= Number(i, x) /\ Number(i, x) < n + Len(ts) - 1
                => a <= Number(i, x) /\ Number(i, x) < a + Len(us) - 1
<1> DEFINE us == Restricted(ts)
<1>1. ts \in Seq(Int) /\ Len(ts) \in Nat
  BY DEF IsRun
<1>2. PICK f \in Nat \ {0}, l \in Nat :
         /\ f < l /\ l <= Len(ts) /\ us = SubSeq(ts, f, l)
         /\ l = Len(ts) \/ chain.now < ts[l]
         /\ f = 1 \/ ts[f] < chain.first
  BY <1>1, RestrictedIs
<1> HIDE DEF us
<1> DEFINE a == n + f - 1
<1>3. IsRun(i, us, a) /\ Len(us) = l - f + 1
  BY <1>1, <1>2, RunPart
<1>4. us[Len(us)] = ts[l]
  <2>1. Len(us) \in 1 .. l - f + 1 /\ f + Len(us) - 1 = l
    BY <1>2, <1>3
  <2> QED BY <1>1, <1>2, <2>1
<1>5. ASSUME NEW x \in Int, chain.first <= x, x <= chain.now,
             n <= Number(i, x), Number(i, x) < n + Len(ts) - 1
      PROVE  a <= Number(i, x) /\ Number(i, x) < a + Len(us) - 1
  <2> DEFINE p == Number(i, x)
  <2>1. p \in Int
    BY NumberBrackets
  <2>2. f \in 1 .. Len(ts) /\ l \in 1 .. Len(ts)
    BY <1>1, <1>2
  <2>3. ts[f] \in Int /\ (ts[f] <= x <=> n + f - 1 <= p)
    BY <2>2, RunHolds
  <2>4. ts[l] \in Int /\ (x < ts[l] <=> p < n + l - 1)
    BY <2>2, RunHolds
  <2>5. n <= p /\ p < n + Len(ts) - 1
    BY <1>5
  <2> HIDE DEF p
  <2>6. n + f - 1 <= p
    BY <1>2, <1>5, <2>1, <2>3, <2>5
  <2>7. p < n + l - 1
    BY <1>1, <1>2, <1>5, <2>1, <2>4, <2>5
  <2>8. a <= p /\ p < a + Len(us) - 1
    BY <1>2, <1>3, <2>1, <2>6, <2>7
  <2> QED BY <2>8 DEF p
<1>6. a \in Int /\ Len(us) >= 2 /\ n <= a /\ a + Len(us) <= n + Len(ts)
  BY <1>1, <1>2, <1>3
<1>7. us[Len(us)] = ts[Len(ts)] \/ chain.now < us[Len(us)]
  BY <1>2, <1>4
<1> HIDE DEF a
<1> QED
  BY <1>3, <1>5, <1>6, <1>7 DEF us

\* The first c intervals of a run, and the last.
LEMMA FirstOfIs ==
  ASSUME NEW i \in Intervals, NEW n \in Int, NEW ts, IsRun(i, ts, n), Len(ts) >= 2,
         NEW c \in Nat \ {0}
  PROVE  LET us == FirstOf(ts, c) IN
         /\ IsRun(i, us, n) /\ Len(us) >= 2 /\ Len(us) <= c + 1 /\ Len(us) <= Len(ts)
         /\ Len(us) = Len(ts) \/ Len(us) = c + 1
<1> DEFINE us == FirstOf(ts, c)
           l == IF Len(ts) < c + 1 THEN Len(ts) ELSE c + 1
<1>1. Len(ts) \in Nat /\ us = SubSeq(ts, 1, l)
  BY DEF IsRun, FirstOf
<1>2. l \in Nat /\ 2 <= l /\ l <= Len(ts) /\ l <= c + 1 /\ (l = Len(ts) \/ l = c + 1)
  BY <1>1
<1> HIDE DEF l, us
<1>3. IsRun(i, us, n + 1 - 1) /\ Len(us) = l - 1 + 1
  BY <1>1, <1>2, RunPart
<1>4. n + 1 - 1 = n
  OBVIOUS
<1>5. IsRun(i, us, n)
  BY <1>3, <1>4
<1>6. Len(us) = l
  BY <1>2, <1>3
<1> QED
  BY <1>2, <1>5, <1>6 DEF us

\* The last c intervals of a run.
LEMMA LastOfIs ==
  ASSUME NEW i \in Intervals, NEW n \in Int, NEW ts, IsRun(i, ts, n), Len(ts) >= 2,
         NEW c \in Nat \ {0}
  PROVE  LET us == LastOf(ts, c) IN
         \E a \in Int :
           /\ IsRun(i, us, a) /\ Len(us) >= 2 /\ Len(us) <= c + 1 /\ us[Len(us)] = ts[Len(ts)]
           /\ n <= a /\ a + Len(us) = n + Len(ts) /\ (a = n \/ a = n + Len(ts) - 1 - c)
<1> DEFINE us == LastOf(ts, c)
           f == IF Len(ts) < c + 1 THEN 1 ELSE Len(ts) - c
           a == n + f - 1
<1>1. ts \in Seq(Int) /\ Len(ts) \in Nat /\ us = SubSeq(ts, f, Len(ts))
  BY DEF IsRun, LastOf
<1>2. f \in Nat \ {0} /\ f < Len(ts) /\ Len(ts) - f <= c /\ (f = 1 \/ f = Len(ts) - c)
  BY <1>1
<1> HIDE DEF f, us
<1>3. IsRun(i, us, a) /\ Len(us) = Len(ts) - f + 1
  BY <1>1, <1>2, RunPart
<1>4. us[Len(us)] = ts[Len(ts)]
  <2>1. Len(us) \in 1 .. Len(ts) - f + 1 /\ f + Len(us) - 1 = Len(ts)
    BY <1>1, <1>2, <1>3
  <2> QED BY <1>1, <1>2, <2>1
<1>5. /\ a \in Int /\ Len(us) >= 2 /\ Len(us) <= c + 1
      /\ n <= a /\ a + Len(us) = n + Len(ts) /\ (a = n \/ a = n + Len(ts) - 1 - c)
  <2> DEFINE N == Len(ts)
             M == Len(us)
  <2>1. N \in Nat /\ M = N - f + 1
    BY <1>1, <1>3
  <2>2. f < N /\ N - f <= c /\ (f = 1 \/ f = N - c)
    BY <1>2
  <2> HIDE DEF N, M
  <2>3. a \in Int /\ M >= 2 /\ M <= c + 1 /\ n <= a /\ a + M = n + N
    BY <1>2, <2>1, <2>2
  <2>4. a = n \/ a = n + N - 1 - c
    BY <1>2, <2>1, <2>2
  <2> QED BY <2>3, <2>4 DEF N, M
<1> HIDE DEF a
<1> QED
  BY <1>3, <1>4, <1>5 DEF us

\* Which of the intervals n .. n + length - 2 of a run the request asks for.
Wanted(n, length, p) ==
  /\ n <= p /\ p < n + length - 1
  /\ query.count = None => p < n + MaxIntervalCount
  /\ query.count # None /\ query.from # None => p < n + query.count
  /\ query.count # None /\ query.from = None => n + length - 1 - query.count <= p

\* Trimming keeps all of them that hold a block time.
LEMMA TrimmedKeeps ==
  ASSUME NEW i \in Intervals, NEW n \in Int, NEW ts, IsRun(i, ts, n), Len(ts) >= 2,
         chain.now \in Int, chain.first \in Int,
         query.count = None \/ query.count \in Nat \ {0}
  PROVE  LET us == Trimmed(ts) IN
         \E a \in Int :
           /\ IsRun(i, us, a) /\ Len(us) >= 2
           /\ Len(us) <= Or(query.count, MaxIntervalCount) + 1
           /\ query.count # None /\ query.from = None =>
                us[Len(us)] = ts[Len(ts)] \/ chain.now < us[Len(us)]
           /\ \A x \in Int :
                chain.first <= x /\ x <= chain.now /\ Wanted(n, Len(ts), Number(i, x))
                => a <= Number(i, x) /\ Number(i, x) < a + Len(us) - 1
<1> DEFINE us == Trimmed(ts)
           c == query.count
           N == Len(ts)
           Limit == MaxIntervalCount
<1>1. N \in Nat /\ Limit \in Nat \ {0} /\ (c # None => c \in Nat \ {0})
  BY BucketsAssumption DEF IsRun
<1>p. \A x \in Int : Number(i, x) \in Int
  BY NumberBrackets
<1>2. CASE c = None
  <2> DEFINE vs == FirstOf(ts, Limit)
  <2>1. /\ IsRun(i, vs, n) /\ Len(vs) >= 2 /\ Len(vs) <= Limit + 1 /\ Len(vs) <= N
        /\ Len(vs) = N \/ Len(vs) = Limit + 1
    BY <1>1, FirstOfIs
  <2>2. us = Restricted(vs) /\ Or(c, Limit) = Limit
    BY <1>2 DEF Trimmed, Or
  <2> HIDE DEF vs, us
  <2>3. PICK a \in Int :
          /\ IsRun(i, us, a) /\ Len(us) >= 2 /\ n <= a /\ a + Len(us) <= n + Len(vs)
          /\ \A x \in Int :
               /\ chain.first <= x /\ x <= chain.now
               /\ n <= Number(i, x) /\ Number(i, x) < n + Len(vs) - 1
               => a <= Number(i, x) /\ Number(i, x) < a + Len(us) - 1
    BY <2>1, <2>2, RestrictedKeeps
  <2>4. Len(us) \in Nat /\ Len(vs) \in Nat
    BY <2>1, <2>3 DEF IsRun
  <2>5. ASSUME NEW x \in Int, Wanted(n, N, Number(i, x))
        PROVE  n <= Number(i, x) /\ Number(i, x) < n + Len(vs) - 1
    <3> DEFINE p == Number(i, x)
    <3>1. p \in Int /\ n <= p /\ p < n + N - 1 /\ p < n + Limit
      BY <1>2, <1>p, <2>5 DEF Wanted
    <3> HIDE DEF p, N, Limit
    <3>2. n <= p /\ p < n + Len(vs) - 1
      BY <1>1, <2>1, <2>4, <3>1
    <3> QED BY <3>2 DEF p
  <2>6. Len(us) <= Limit + 1
    BY <1>1, <2>1, <2>3, <2>4
  <2> QED BY <1>2, <2>2, <2>3, <2>5, <2>6 DEF us
<1>3. CASE c # None
  <2> DEFINE vs == Restricted(ts)
  <2>1. PICK b \in Int :
          /\ IsRun(i, vs, b) /\ Len(vs) >= 2 /\ n <= b /\ b + Len(vs) <= n + N
          /\ vs[Len(vs)] = ts[N] \/ chain.now < vs[Len(vs)]
          /\ \A x \in Int :
               /\ chain.first <= x /\ x <= chain.now
               /\ n <= Number(i, x) /\ Number(i, x) < n + N - 1
               => b <= Number(i, x) /\ Number(i, x) < b + Len(vs) - 1
    BY RestrictedKeeps
  <2>2. Or(c, Limit) = c /\ c \in Nat \ {0}
    BY <1>1, <1>3 DEF Or
  <2> HIDE DEF vs, us
  <2>3. Len(vs) \in Nat
    BY <2>1 DEF IsRun
  <2>4. CASE query.from # None
    <3>1. us = FirstOf(vs, c)
      BY <1>3, <2>4 DEF Trimmed, vs, us
    <3>2. /\ IsRun(i, us, b) /\ Len(us) >= 2 /\ Len(us) <= c + 1 /\ Len(us) <= Len(vs)
          /\ Len(us) = Len(vs) \/ Len(us) = c + 1
      BY <2>1, <2>2, <3>1, FirstOfIs
    <3>3. Len(us) \in Nat
      BY <3>2 DEF IsRun
    <3>4. ASSUME NEW x \in Int, chain.first <= x, x <= chain.now, Wanted(n, N, Number(i, x))
          PROVE  b <= Number(i, x) /\ Number(i, x) < b + Len(us) - 1
      <4>1. b <= Number(i, x) /\ Number(i, x) < b + Len(vs) - 1
        BY <2>1, <3>4 DEF Wanted
      <4>2. Number(i, x) < n + c
        BY <1>3, <2>4, <3>4 DEF Wanted
      <4>3. Number(i, x) \in Int
        BY <1>p
      <4> HIDE DEF c
      <4> QED BY <2>1, <2>2, <2>3, <3>2, <3>3, <4>1, <4>2, <4>3
    <3> QED BY <2>2, <2>4, <3>2, <3>4 DEF us
  <2>5. CASE query.from = None
    <3>1. us = LastOf(vs, c)
      BY <1>3, <2>5 DEF Trimmed, vs, us
    <3>2. PICK a \in Int :
            /\ IsRun(i, us, a) /\ Len(us) >= 2 /\ Len(us) <= c + 1 /\ us[Len(us)] = vs[Len(vs)]
            /\ b <= a /\ a + Len(us) = b + Len(vs) /\ (a = b \/ a = b + Len(vs) - 1 - c)
      <4> HIDE DEF c
      <4> DEFINE ws == LastOf(vs, c)
      <4>1. \E a \in Int :
              /\ IsRun(i, ws, a) /\ Len(ws) >= 2 /\ Len(ws) <= c + 1
              /\ ws[Len(ws)] = vs[Len(vs)]
              /\ b <= a /\ a + Len(ws) = b + Len(vs) /\ (a = b \/ a = b + Len(vs) - 1 - c)
        BY <2>1, <2>2, LastOfIs
      <4>2. ws = us
        BY <3>1
      <4> HIDE DEF ws
      <4> QED BY <4>1, <4>2
    <3>3. Len(us) \in Nat
      BY <3>2 DEF IsRun
    <3>4. ASSUME NEW x \in Int, chain.first <= x, x <= chain.now, Wanted(n, N, Number(i, x))
          PROVE  a <= Number(i, x) /\ Number(i, x) < a + Len(us) - 1
      <4>1. b <= Number(i, x) /\ Number(i, x) < b + Len(vs) - 1
        BY <2>1, <3>4 DEF Wanted
      <4>2. n + N - 1 - c <= Number(i, x)
        BY <1>3, <2>5, <3>4 DEF Wanted
      <4>3. Number(i, x) \in Int
        BY <1>p
      <4> DEFINE p == Number(i, x)
                 V == Len(vs)
                 U == Len(us)
      <4>4. p \in Int /\ b <= p /\ p < b + V - 1 /\ n + N - 1 - c <= p
        BY <4>1, <4>2, <4>3
      <4>5. /\ V \in Nat /\ U \in Nat /\ b + V <= n + N
            /\ a + U = b + V /\ (a = b \/ a = b + V - 1 - c)
        BY <2>1, <2>3, <3>2, <3>3
      <4> HIDE DEF c, N, p, U, V
      <4>6. a <= p /\ p < a + U - 1
        BY <1>1, <2>1, <2>2, <3>2, <4>4, <4>5
      <4> QED BY <4>6 DEF p, U
    <3>5. us[Len(us)] = ts[N] \/ chain.now < us[Len(us)]
      BY <2>1, <3>2
    <3> QED BY <2>2, <3>2, <3>4, <3>5 DEF us
  <2> QED BY <2>4, <2>5
<1> QED
  BY <1>2, <1>3

------------------------------------------------------------------------------
(* What was promised, and the walk that finds it. *)

Asks == [interval : Asked \cup {None}, from : Times \cup {None},
         to : Times \cup {None}, count : Counts \cup {None}]

\* What a request that is not refused asks for.
LEMMA WindowIs ==
  ASSUME query \in Asks, chain \in Chains, query.interval # None, ~Refused
  PROVE  /\ query.interval \in Intervals /\ chain.first \in Int /\ chain.now \in Int
         /\ WindowFrom \in Int /\ WindowUntil \in Int /\ WindowFrom < WindowUntil
         /\ query.count = None \/ (query.count \in Nat \ {0} /\ query.count <= MaxIntervalCount)
         /\ query.count # None =>
              WindowUntil = WindowFrom + query.count * MaxDuration(query.interval)
<1> DEFINE i == query.interval
           c == query.count
           M == MaxDuration(i)
<1>1. i \in Intervals /\ chain.first \in Int /\ chain.now \in Int
  BY BucketsAssumption DEF Asks
<1>2. M \in Nat \ {0}
  <2>1. StartOf(i, 0) \in Int /\ M \in Nat \ {0}
    BY <1>1, IntervalsFollow
  <2> QED BY <2>1
<1>3. /\ query.from = None \/ query.from \in Int
      /\ query.to = None \/ query.to \in Int
      /\ c = None \/ c \in Int
  BY BucketsAssumption DEF Asks
<1>4. c = None \/ (c \in Nat \ {0} /\ c <= MaxIntervalCount)
  <2>1. c = None \/ c \in 1 .. MaxIntervalCount
    BY DEF Refused
  <2>2. MaxIntervalCount \in Nat
    BY BucketsAssumption
  <2> HIDE DEF c
  <2> QED BY <2>1, <2>2
<1>5. c # None => c * M \in Int
  BY <1>2, <1>4
<1>6. Or(query.from, chain.first) \in Int /\ Or(query.to, chain.now) \in Int
  BY <1>1, <1>3 DEF Or
<1>7. c # None => Span = c * M
  BY DEF Span
<1> DEFINE s == c * M
<1> HIDE DEF M, c, s
<1>8. WindowFrom \in Int /\ WindowUntil \in Int
  <2>1. c # None => s \in Int /\ Span = s
    BY <1>5, <1>7 DEF s
  <2> QED BY <1>3, <1>6, <2>1 DEF WindowFrom, WindowUntil, c
<1>9. WindowFrom < WindowUntil
  BY <1>8 DEF Refused
<1>10. c # None => WindowUntil = WindowFrom + s
  <2>1. c # None => s \in Int /\ Span = s
    BY <1>5, <1>7 DEF s
  <2>2. c # None /\ query.from # None => WindowFrom = query.from /\ WindowUntil = query.from + Span
    BY DEF WindowFrom, WindowUntil, c, Or
  <2>3. c # None /\ query.from = None =>
          WindowFrom = Or(query.to, chain.now) - Span /\ WindowUntil = Or(query.to, chain.now)
    BY DEF WindowFrom, WindowUntil, c
  <2> QED BY <1>3, <1>6, <2>1, <2>2, <2>3
<1> QED
  BY <1>1, <1>4, <1>8, <1>9, <1>10 DEF c, s, M

\* The intervals of the window are no more than the walk has room for. A count
\* without from asks for room for that many of the longest intervals, which
\* holds more of the shorter ones.
WindowWalked ==
  query.count # None /\ query.from = None =>
    Number(query.interval, WindowUntil - 1) - Number(query.interval, WindowFrom)
      <= MaxIntervalCount + 2

\* Where the walk is.
Walked ==
  LET n == Number(query.interval, WindowFrom)
  IN  /\ IsRun(query.interval, timestamps, n)
      /\ t = StartOf(query.interval, n + Len(timestamps))
      /\ Len(timestamps) <= MaxIntervalCount + 3
      /\ Len(timestamps) > 0 => timestamps[Len(timestamps)] < WindowUntil

\* When the walk is over, what was promised is among what was found.
LEMMA PromisedWanted ==
  ASSUME query \in Asks, chain \in Chains, query.interval # None, ~Refused, Walked, ~More,
         WindowWalked, NEW p \in Promised
  PROVE  p \in Int /\ Wanted(Number(query.interval, WindowFrom), Len(timestamps) + 1, p)
<1> DEFINE i == query.interval
           c == query.count
           M == MaxDuration(i)
           n == Number(i, WindowFrom)
           to == Number(i, WindowUntil - 1)
           L == Len(timestamps)
           Limit == MaxIntervalCount
<1>1. /\ i \in Intervals /\ WindowFrom \in Int /\ WindowUntil \in Int
      /\ c = None \/ (c \in Nat \ {0} /\ c <= Limit)
      /\ c # None => WindowUntil = WindowFrom + c * M
  BY WindowIs
<1>2. n \in Int /\ to \in Int /\ L \in Nat /\ Limit \in Nat \ {0}
  <2>1. L \in Nat
    BY DEF Walked, IsRun
  <2>2. WindowUntil - 1 \in Int
    BY <1>1
  <2> QED BY <1>1, <2>1, <2>2, NumberBrackets, BucketsAssumption
<1>3. t = StartOf(i, n + L) /\ (L > 0 => timestamps[L] = StartOf(i, n + L - 1))
  <2>1. L > 0 => L \in 1 .. L
    BY <1>2
  <2> QED BY <2>1 DEF Walked, IsRun
<1> HIDE DEF n, to, L
<1>4. n + L <= to <=> StartOf(i, n + L) <= WindowUntil - 1
  BY <1>1, <1>2, NumberIs DEF to
<1>5. n + L - 1 <= to <=> StartOf(i, n + L - 1) <= WindowUntil - 1
  BY <1>1, <1>2, NumberIs DEF to
<1>6. StartOf(i, n + L) \in Int /\ StartOf(i, n + L - 1) \in Int
  BY <1>1, <1>2, IntervalsFollow
\* Either every interval of the window was found or there was no room for more.
<1>7. n + L > to \/ L > Limit + 2
  <2>1. ~(t < WindowUntil) \/ ~(L <= Limit + 2)
    BY DEF More, L
  <2> QED BY <1>1, <1>2, <1>3, <1>4, <1>6, <2>1
<1>8. L > 0 => n + L - 1 <= to
  <2>1. L > 0 => timestamps[L] < WindowUntil
    BY DEF Walked, L
  <2> QED BY <1>1, <1>3, <1>5, <1>6, <2>1
<1>9. n <= to
  <2>1. StartOf(i, n) <= WindowFrom /\ StartOf(i, n) \in Int
    BY <1>1, <1>2, NumberBrackets, IntervalsFollow DEF n
  <2>2. StartOf(i, n) <= WindowUntil - 1
    <3>1. WindowFrom < WindowUntil
      BY WindowIs
    <3> QED BY <1>1, <2>1, <3>1
  <2> QED BY <1>1, <1>2, <2>2, NumberIs DEF to
<1>10. Promised =
         IF c = None THEN n .. IF to < n + Limit THEN to ELSE n + Limit - 1
         ELSE IF query.from # None THEN n .. n + c - 1
         ELSE to - c + 1 .. to
  BY DEF Promised, n, to
<1>11. p \in Int
  BY <1>1, <1>2, <1>10
<1>12. CASE c = None
  <2>1. n <= p /\ p <= to /\ p < n + Limit
    BY <1>2, <1>10, <1>11, <1>12
  <2>2. p < n + (L + 1) - 1
    BY <1>2, <1>7, <1>11, <2>1
  <2> QED BY <1>11, <1>12, <2>1, <2>2 DEF Wanted, n, L
\* The longest intervals there are, as many as asked for, fit in the window.
<1>13. c # None => StartOf(i, n + c) <= WindowUntil /\ StartOf(i, n + c) \in Int
  <2> SUFFICES ASSUME c # None PROVE StartOf(i, n + c) <= WindowUntil /\ StartOf(i, n + c) \in Int
    OBVIOUS
  <2> DEFINE e == n + c
             s == c * M
  <2>1. c \in Nat \ {0} /\ e \in Int /\ n <= e /\ e - n = c
    BY <1>1, <1>2
  <2>2. M \in Nat \ {0}
    BY <1>1, <1>2, IntervalsFollow
  <2>3. s \in Int /\ WindowUntil = WindowFrom + s
    <3> HIDE DEF c, M
    <3> QED BY <1>1, <2>1, <2>2
  <2> HIDE DEF e
  <2>4. StartOf(i, e) <= StartOf(i, n) + (e - n) * M
    BY <1>1, <1>2, <2>1, StartsAscend
  <2>5. StartOf(i, n) <= WindowFrom /\ StartOf(i, n) \in Int /\ StartOf(i, e) \in Int
    BY <1>1, <1>2, <2>1, NumberBrackets, IntervalsFollow DEF n
  <2>6. StartOf(i, e) <= StartOf(i, n) + s
    BY <2>1, <2>4
  <2> HIDE DEF s
  <2>7. StartOf(i, e) <= WindowUntil
    BY <1>1, <2>3, <2>5, <2>6
  <2> QED BY <2>5, <2>7 DEF e
<1>14. c # None => n + c <= to + 1
  <2> SUFFICES ASSUME c # None, n + c >= to + 2 PROVE FALSE
    <3> HIDE DEF c
    <3> QED BY <1>1, <1>2
  <2>1. c \in Int
    BY <1>1
  <2> DEFINE e == n + c
             u == to + 1
  <2>2. e \in Int /\ u \in Int /\ u < e
    <3> HIDE DEF c
    <3> QED BY <1>2, <2>1
  <2>3. StartOf(i, e) <= WindowUntil /\ StartOf(i, e) \in Int
    BY <1>13
  <2>4. WindowUntil - 1 < StartOf(i, u) /\ StartOf(i, u) \in Int
    BY <1>1, <1>2, <2>2, NumberBrackets, IntervalsFollow DEF to
  <2> HIDE DEF e, u
  <2>5. StartOf(i, u) < StartOf(i, e)
    BY <1>1, <2>2, StartsAscend
  <2> QED BY <1>1, <2>3, <2>4, <2>5
<1>15. CASE c # None /\ query.from # None
  <2>1. c \in Nat \ {0} /\ c <= Limit /\ n <= p /\ p < n + c
    <3>1. c \in Nat \ {0} /\ c <= Limit
      BY <1>1, <1>15
    <3>2. p \in n .. n + c - 1
      BY <1>10, <1>15
    <3> HIDE DEF c
    <3> QED BY <1>2, <1>11, <3>1, <3>2
  <2>2. c <= L
    <3> HIDE DEF c
    <3> QED BY <1>2, <1>7, <1>14, <1>15, <2>1
  <2>3. p < n + (L + 1) - 1
    <3> HIDE DEF c
    <3> QED BY <1>2, <1>11, <2>1, <2>2
  <2> QED BY <1>11, <1>15, <2>1, <2>3 DEF Wanted, n, L
<1>16. CASE c # None /\ query.from = None
  <2>1. c \in Nat \ {0} /\ to - c + 1 <= p /\ p <= to
    <3>1. c \in Nat \ {0}
      BY <1>1, <1>16
    <3>2. p \in to - c + 1 .. to
      BY <1>10, <1>16
    <3> HIDE DEF c
    <3> QED BY <1>2, <1>11, <3>1, <3>2
  <2>2. to - n <= Limit + 2
    BY <1>16 DEF WindowWalked, n, to
  <2> HIDE DEF c
  <2>3. n + L > to
    BY <1>2, <1>7, <2>2
  <2>4. n + L <= to + 1
    BY <1>2, <1>8, <1>9
  <2>5. n <= p
    BY <1>2, <1>11, <1>14, <1>16, <2>1
  <2>6. p < n + (L + 1) - 1 /\ n + (L + 1) - 1 - c <= p
    BY <1>2, <1>11, <2>1, <2>3, <2>4
  <2> QED BY <1>11, <1>16, <2>5, <2>6 DEF Wanted, n, L, c
<1> QED
  BY <1>12, <1>15, <1>16

\* Every block time in a promised interval is between the ends of the answer.
Covered ==
  \A x \in Int :
    /\ chain.first <= x /\ x <= chain.now
    /\ Number(query.interval, x) \in Promised
    => timestamps[1] <= x /\ x < timestamps[Len(timestamps)]

\* The boundaries of an answer.
AnswerIsRun ==
  /\ \E a \in Int : IsRun(query.interval, timestamps, a)
  /\ Len(timestamps) \in 2 .. Or(query.count, MaxIntervalCount) + 1

BucketsInv ==
  /\ query \in Asks /\ chain \in Chains
  /\ pc \in {"start", "walk", "done", "error"} /\ t \in Int /\ timestamps \in Seq(Int)
  /\ pc = "start" => timestamps = <<>>
  /\ pc = "walk" => query.interval # None /\ ~Refused /\ Walked
  /\ pc = "done" => Len(timestamps) >= 2 /\ (query.interval = None => Len(timestamps) = 2)
  /\ Answered => ~Refused /\ AnswerIsRun
  /\ Answered /\ WindowWalked => Covered /\ LastAreAnswered

\* The invariant holds at first.
LEMMA BucketsInvInit == Init => BucketsInv
  BY DEF Init, BucketsInv, Asks, Answered

\* The walk starts at the interval that the window begins in.
LEMMA StartKeeps ==
  ASSUME BucketsInv, Start
  PROVE  BucketsInv'
<1> DEFINE i == query.interval
           n == Number(i, WindowFrom)
<1>1. /\ query \in Asks /\ chain \in Chains /\ query.interval # None /\ ~Refused
      /\ timestamps = <<>> /\ timestamps' = timestamps
      /\ query' = query /\ chain' = chain /\ pc' = "walk"
      /\ t' = Truncate(i, WindowFrom)
  BY DEF BucketsInv, Start
<1>2. i \in Intervals /\ WindowFrom \in Int
  BY <1>1, WindowIs
<1>3. n \in Int /\ t' = StartOf(i, n) /\ StartOf(i, n) \in Int
  BY <1>1, <1>2, NumberBrackets, TruncateIs, IntervalsFollow
<1>4. n + Len(timestamps') = n /\ Len(timestamps') = 0 /\ timestamps' \in Seq(Int)
  BY <1>1, <1>3
<1>5. IsRun(i, timestamps', n)
  BY <1>4 DEF IsRun
<1>6. WindowFrom' = WindowFrom /\ WindowUntil' = WindowUntil /\ (Refused <=> Refused')
  BY <1>1 DEF WindowFrom, WindowUntil, Refused, Span
<1>7. Walked'
  <2>1. i' = i /\ n' = n
    BY <1>1, <1>6
  <2>2. 0 <= MaxIntervalCount + 3
    BY BucketsAssumption
  <2> QED BY <1>3, <1>4, <1>5, <2>1, <2>2 DEF Walked
<1> QED
  BY <1>1, <1>3, <1>4, <1>6, <1>7 DEF BucketsInv, Answered

\* A step of the walk adds the next interval.
LEMMA PushBoundaryKeeps ==
  ASSUME BucketsInv, PushBoundary
  PROVE  BucketsInv'
<1> DEFINE i == query.interval
           n == Number(i, WindowFrom)
           L == Len(timestamps)
<1>1. /\ query \in Asks /\ chain \in Chains /\ query.interval # None /\ ~Refused /\ Walked
      /\ timestamps' = Append(timestamps, t) /\ t' = Advance(i, t) /\ More
      /\ query' = query /\ chain' = chain /\ pc' = "walk"
  BY DEF BucketsInv, PushBoundary
<1>2. i \in Intervals /\ WindowFrom \in Int
  BY <1>1, WindowIs
<1>3. /\ n \in Int /\ L \in Nat /\ IsRun(i, timestamps, n) /\ t = StartOf(i, n + L)
  BY <1>1, <1>2, NumberBrackets DEF Walked, IsRun
<1>4. IsRun(i, timestamps', n) /\ Len(timestamps') = L + 1
  BY <1>1, <1>2, <1>3, RunAppend
<1>5. timestamps'[Len(timestamps')] = t /\ timestamps \in Seq(Int) /\ timestamps' \in Seq(Int)
  BY <1>1, <1>3, <1>4 DEF IsRun
<1>6. WindowFrom' = WindowFrom /\ WindowUntil' = WindowUntil /\ (Refused <=> Refused')
  BY <1>1 DEF WindowFrom, WindowUntil, Refused, Span
<1> HIDE DEF n, L
<1>7. t' = StartOf(i, n + (L + 1)) /\ t' \in Int
  <2> DEFINE m == n + L
  <2>1. m \in Int /\ m + 1 = n + (L + 1)
    BY <1>3
  <2> HIDE DEF m
  <2>2. t' = StartOf(i, m + 1) /\ StartOf(i, m + 1) \in Int
    <3>1. t = StartOf(i, m)
      BY <1>3 DEF m
    <3>2. m + 1 \in Int
      BY <2>1
    <3> QED BY <1>1, <1>2, <2>1, <3>1, <3>2, AdvanceIs, IntervalsFollow
  <2> QED BY <2>1, <2>2
<1>8. Walked'
  <2>1. i' = i /\ n' = n
    BY <1>1, <1>6 DEF n
  <2>2. L + 1 <= MaxIntervalCount + 3 /\ t < WindowUntil
    BY <1>1, <1>3, BucketsAssumption DEF More, L
  <2> QED BY <1>4, <1>5, <1>6, <1>7, <2>1, <2>2 DEF Walked, n
<1> QED
  BY <1>1, <1>5, <1>6, <1>7, <1>8 DEF BucketsInv, Answered

\* The answer is trimmed to a run that covers what was promised.
LEMMA FinishKeeps ==
  ASSUME BucketsInv, Finish
  PROVE  BucketsInv'
<1> DEFINE i == query.interval
           n == Number(i, WindowFrom)
           L == Len(timestamps)
           ts == Append(timestamps, t)
           us == Trimmed(ts)
<1>1. /\ query \in Asks /\ chain \in Chains /\ query.interval # None /\ ~Refused /\ Walked
      /\ timestamps' = us /\ t' = t /\ t \in Int /\ ~More
      /\ query' = query /\ chain' = chain /\ pc' = "done"
  BY DEF BucketsInv, Finish
<1>2. /\ i \in Intervals /\ chain.first \in Int /\ chain.now \in Int
      /\ WindowFrom \in Int /\ WindowUntil \in Int /\ WindowFrom < WindowUntil
      /\ query.count = None \/ query.count \in Nat \ {0}
  BY <1>1, WindowIs
<1>3. n \in Int /\ L \in Nat /\ IsRun(i, timestamps, n) /\ t = StartOf(i, n + L)
  BY <1>1, <1>2, NumberBrackets DEF Walked, IsRun
<1>4. IsRun(i, ts, n) /\ Len(ts) = L + 1
  BY <1>2, <1>3, RunAppend
<1>5. ts[Len(ts)] = t
  <2>1. timestamps \in Seq(Int)
    BY <1>3 DEF IsRun
  <2> QED BY <1>1, <1>4, <2>1
<1>6. Len(ts) >= 2
  <2>1. StartOf(i, n) <= WindowFrom /\ StartOf(i, n) \in Int
    BY <1>2, NumberBrackets, IntervalsFollow
  <2>2. L = 0 => t = StartOf(i, n)
    <3>1. L = 0 => n + L = n
      BY <1>3
    <3> QED BY <1>3, <3>1
  <2>3. L = 0 => t < WindowUntil
    BY <1>2, <2>1, <2>2
  <2>4. L # 0
    BY <1>1, <2>3, BucketsAssumption DEF More
  <2> HIDE DEF L, ts
  <2> QED BY <1>3, <1>4, <2>4
<1> HIDE DEF ts, us, n
<1>7. PICK a \in Int :
        /\ IsRun(i, us, a) /\ Len(us) >= 2
        /\ Len(us) <= Or(query.count, MaxIntervalCount) + 1
        /\ query.count # None /\ query.from = None =>
             us[Len(us)] = ts[Len(ts)] \/ chain.now < us[Len(us)]
        /\ \A x \in Int :
             chain.first <= x /\ x <= chain.now /\ Wanted(n, Len(ts), Number(i, x))
             => a <= Number(i, x) /\ Number(i, x) < a + Len(us) - 1
  BY <1>2, <1>3, <1>4, <1>6, TrimmedKeeps DEF us
<1>8. us \in Seq(Int) /\ Len(us) \in Nat
  BY <1>7 DEF IsRun
<1>9. AnswerIsRun'
  <2>1. Or(query.count, MaxIntervalCount) \in Nat
    BY <1>2, BucketsAssumption DEF Or
  <2>2. Len(us) \in 2 .. Or(query.count, MaxIntervalCount) + 1
    BY <1>7, <1>8, <2>1
  <2> QED BY <1>1, <1>7, <2>2 DEF AnswerIsRun, Or
<1>10. /\ WindowFrom' = WindowFrom /\ WindowUntil' = WindowUntil /\ Promised' = Promised
       /\ WindowWalked' <=> WindowWalked
  BY <1>1 DEF WindowFrom, WindowUntil, Span, Promised, WindowWalked, Or
<1>11. ASSUME WindowWalked PROVE Covered'
  <2>1. ASSUME NEW x \in Int, chain.first <= x, x <= chain.now, Number(i, x) \in Promised
        PROVE  us[1] <= x /\ x < us[Len(us)]
    <3> DEFINE p == Number(i, x)
    <3>1. p \in Int /\ Wanted(n, Len(ts), p)
      BY <1>1, <1>4, <1>11, <2>1, PromisedWanted DEF n
    <3>2. a <= p /\ p < a + Len(us) - 1
      BY <1>7, <2>1, <3>1
    <3>3. 1 \in 1 .. Len(us) /\ Len(us) \in 1 .. Len(us)
      BY <1>7, <1>8
    <3>4. us[1] <= x <=> a + 1 - 1 <= p
      BY <1>2, <1>7, <3>3, RunHolds
    <3>5. x < us[Len(us)] <=> p < a + Len(us) - 1
      BY <1>2, <1>7, <3>3, RunHolds
    <3> HIDE DEF p
    <3> QED BY <3>1, <3>2, <3>4, <3>5
  <2> QED BY <1>1, <1>10, <2>1 DEF Covered
<1>12. ASSUME WindowWalked PROVE LastAreAnswered'
  <2> SUFFICES ASSUME query.count # None, query.from = None
               PROVE  us[Len(us)] >= WindowUntil \/ us[Len(us)] > chain.now
    BY <1>1, <1>10 DEF LastAreAnswered, Answered
  <2>1. us[Len(us)] \in Int
    BY <1>7, <1>8
  <2>2. t >= WindowUntil
    <3> DEFINE to == Number(i, WindowUntil - 1)
    <3>1. WindowUntil - 1 \in Int
      BY <1>2
    <3>2. to \in Int
      BY <1>2, <3>1, NumberBrackets
    <3>3. to - n <= MaxIntervalCount + 2
      BY <1>12 DEF WindowWalked, n
    <3>4. n + L <= to <=> StartOf(i, n + L) <= WindowUntil - 1
      BY <1>2, <1>3, <3>1, NumberIs
    <3> HIDE DEF to, L
    <3>5. n + L > to \/ ~(t < WindowUntil)
      <4>1. ~(t < WindowUntil) \/ ~(L <= MaxIntervalCount + 2)
        BY <1>1 DEF More, L
      <4> QED BY <1>3, <3>2, <3>3, <4>1, BucketsAssumption
    <3> QED BY <1>1, <1>2, <1>3, <3>2, <3>4, <3>5
  <2> QED BY <1>2, <1>5, <1>7, <2>1, <2>2
<1>13. Answered' /\ ~Refused'
  BY <1>1 DEF Answered, Refused, WindowFrom, WindowUntil, Span, Or
<1>14. query' \in Asks /\ chain' \in Chains /\ t' \in Int /\ timestamps' \in Seq(Int)
  BY <1>1, <1>8
<1> QED
  BY <1>1, <1>7, <1>8, <1>9, <1>10, <1>11, <1>12, <1>13, <1>14 DEF BucketsInv

\* Every step keeps the invariant.
LEMMA BucketsInvStep == BucketsInv /\ [Next]_vars => BucketsInv'
<1> SUFFICES ASSUME BucketsInv, [Next]_vars PROVE BucketsInv'
  OBVIOUS
<1>1. CASE Refuse
  BY <1>1 DEF BucketsInv, Refuse, Answered
<1>2. CASE OneSpan
  <2>1. Or(query.from, chain.first) \in Int /\ Or(query.to, chain.now) \in Int
    <3>1. chain.first \in Int /\ chain.now \in Int
      BY BucketsAssumption DEF BucketsInv
    <3>2. query.from \in Int \cup {None} /\ query.to \in Int \cup {None}
      BY BucketsAssumption DEF BucketsInv, Asks
    <3> QED BY <3>1, <3>2 DEF Or
  <2>2. timestamps' \in Seq(Int) /\ Len(timestamps') = 2
    BY <1>2, <2>1 DEF OneSpan
  <2>3. ~Answered'
    BY <1>2 DEF OneSpan, Answered
  <2> QED BY <1>2, <2>2, <2>3 DEF BucketsInv, OneSpan
<1>3. CASE Start
  BY <1>3, StartKeeps
<1>4. CASE PushBoundary
  BY <1>4, PushBoundaryKeeps
<1>5. CASE Finish
  BY <1>5, FinishKeeps
<1>6. CASE UNCHANGED vars
  BY <1>6 DEF vars, BucketsInv, Answered, Refused, WindowFrom, WindowUntil, Span, Or, Walked,
              AnswerIsRun, WindowWalked, Covered, LastAreAnswered, Promised
<1> QED
  BY <1>1, <1>2, <1>3, <1>4, <1>5, <1>6 DEF Next

\* The invariant holds always.
LEMMA BucketsInvHolds == Spec => []BucketsInv
<1> QED BY BucketsInvInit, BucketsInvStep, PTL DEF Spec

\* Every answer has two boundaries at least, and no more intervals than asked for
\* (400 without a count), whatever the limit, the times and the chain.
THEOREM BucketTypes == Spec => []TypeOK
<1>1. BucketsInv => TypeOK
  BY DEF BucketsInv, TypeOK, Answered, AnswerIsRun
<1> QED BY <1>1, BucketsInvHolds, PTL

\* Whatever the request, the boundaries of an answer are the starts of
\* consecutive intervals as date_trunc has them, so no group of rows straddles one.
THEOREM BoundariesOfPostgres == Spec => []BoundariesAreDateTrunc
<1>1. BucketsInv => BoundariesAreDateTrunc
  <2> SUFFICES ASSUME BucketsInv, Answered
               PROVE  \A n \in 1 .. Len(timestamps) :
                        timestamps[n] = StartOf(query.interval,
                                          Number(query.interval, timestamps[1]) + n - 1)
    BY DEF BoundariesAreDateTrunc
  <2> DEFINE i == query.interval
  <2>1. i \in Intervals
    BY BucketsAssumption DEF BucketsInv, Answered, Asks
  <2>2. PICK a \in Int : IsRun(i, timestamps, a)
    BY DEF BucketsInv, AnswerIsRun
  <2>3. 1 \in 1 .. Len(timestamps)
    BY DEF BucketsInv, Answered
  <2>4. timestamps[1] = StartOf(i, a)
    <3>1. a + 1 - 1 = a
      OBVIOUS
    <3> QED BY <2>2, <2>3, <3>1 DEF IsRun
  <2>5. StartOf(i, a) \in Int /\ StartOf(i, a) < StartOf(i, a + 1)
    BY <2>1, IntervalsFollow
  <2>6. Number(i, timestamps[1]) = a
    BY <2>1, <2>4, <2>5, NumberIs
  <2> QED BY <2>2, <2>6 DEF IsRun
<1> QED BY <1>1, BucketsInvHolds, PTL

\* No block of a promised interval is lost, when the window has no more intervals
\* than the walk finds; in the case of a count anchored at the end only, for the
\* others this is no condition.
THEOREM PromisedBlocks == Spec => [](WindowWalked => PromisedBlocksCovered)
<1>1. BucketsInv => (WindowWalked => PromisedBlocksCovered)
  <2> SUFFICES ASSUME BucketsInv, WindowWalked, Answered,
                      NEW x \in BlockTimes, Number(query.interval, x) \in Promised
               PROVE  timestamps[1] <= x /\ x < timestamps[Len(timestamps)]
    BY DEF PromisedBlocksCovered
  <2>1. chain.first <= x /\ x <= chain.now
    BY DEF BlockTimes
  <2>2. x \in Int
    <3> DEFINE i == query.interval
    <3>1. i \in Intervals /\ chain.first \in Int /\ chain.now \in Int
      BY BucketsAssumption DEF BucketsInv, Answered, Asks
    <3>2. \A n \in Int : StartOf(i, n) \in Int /\ StartOf(i, n + 1) - 1 \in Int
      BY <3>1, IntervalsFollow
    <3>3. Promised \subseteq Int
      BY DEF Promised
    <3> QED BY <3>1, <3>2, <3>3 DEF BlockTimes
  <2> QED BY <2>1, <2>2 DEF BucketsInv, Covered
<1> QED BY <1>1, BucketsInvHolds, PTL

------------------------------------------------------------------------------
(* Which windows the walk has room for. *)

\* From a month to one any number of years later.
LEMMA YearsApart ==
  ASSUME NEW a \in Int, NEW y \in Nat
  PROVE  FirstDay(a) + 365 * y <= FirstDay(a + 12 * y)
<1> DEFINE S == {n \in Nat : FirstDay(a) + 365 * n <= FirstDay(a + 12 * n)}
<1>1. 0 \in S
  <2>1. a + 12 * 0 = a /\ FirstDay(a) \in Int
    BY MonthsFollow
  <2> QED BY <2>1
<1>2. ASSUME NEW n \in S PROVE n + 1 \in S
  <2> DEFINE m == a + 12 * n
  <2>1. n \in Nat /\ FirstDay(a) + 365 * n <= FirstDay(m) /\ m \in Int
    OBVIOUS
  <2>2. a + 12 * (n + 1) = m + 12 /\ m + 12 \in Int
    BY <2>1
  <2> HIDE DEF m
  <2>3. FirstDay(m) + 365 <= FirstDay(m + 12)
    BY <2>1, YearLength
  <2>4. FirstDay(a) \in Int /\ FirstDay(m) \in Int /\ FirstDay(m + 12) \in Int
    BY <2>1, <2>2, MonthsFollow
  <2>5. FirstDay(a) + 365 * (n + 1) <= FirstDay(m + 12)
    BY <2>1, <2>3, <2>4
  <2> QED BY <2>1, <2>2, <2>5
<1> HIDE DEF S
<1>3. y \in S
  <2>1. S \in SUBSET Nat
    BY DEF S
  <2> QED BY <1>1, <1>2, <2>1, NaturalInduction
<1> QED
  BY <1>3 DEF S

\* Twelve times the seconds that d months, quarters or years hold at least.
TwelveTimes(i, d) == 31536000 * (d * MonthStep(i) - (IF i = "year" THEN 0 ELSE 11))

\* The bound holds from any interval on.
LEMMA CalendarSpan ==
  ASSUME NEW i \in CalendarKinds, NEW a \in Int, NEW d \in Nat
  PROVE  12 * StartOf(i, a) + TwelveTimes(i, d) <= 12 * StartOf(i, a + d)
<1> DEFINE s == MonthStep(i)
           m == d * s
           y == m \div 12
           r == m % 12
           k == a * s
           w == k + 12 * y
<1>1. s \in {1, 3, 12} /\ (i = "year" => s = 12)
  BY Steps
<1>2. StartOf(i, a) = FirstDay(k) * 86400 /\ StartOf(i, a + d) = FirstDay((a + d) * s) * 86400
  BY Steps DEF StartOf, Day
<1> HIDE DEF s
<1>3. m \in Nat /\ k \in Int /\ (a + d) * s = k + m
  BY <1>1
<1>4. i = "year" => m = d * 12 + 0
  BY <1>1
<1> HIDE DEF m, k
<1>5. y \in Int /\ r \in 0 .. 11 /\ m = y * 12 + r
  BY <1>3, Division
<1>6. i = "year" => r = 0
  <2>1. i = "year" => r = 0 /\ y = d
    <3>1. 0 \in 0 .. 12 - 1
      OBVIOUS
    <3> QED BY <1>3, <1>4, <3>1, DivisionOf
  <2> QED BY <2>1
<1> HIDE DEF y, r
<1>7. y \in Nat /\ w \in Int /\ k + m = w + r /\ w + r \in Int /\ w <= w + r
  BY <1>3, <1>5
<1>8. FirstDay(k) + 365 * y <= FirstDay(w)
  BY <1>3, <1>7, YearsApart
<1> HIDE DEF w
<1>9. FirstDay(w) <= FirstDay(w + r)
  <2>1. FirstDay(w) + 28 * ((w + r) - w) <= FirstDay(w + r)
    BY <1>5, <1>7, MonthsApart
  <2>2. FirstDay(w) \in Int /\ FirstDay(w + r) \in Int
    BY <1>7, MonthsFollow
  <2> QED BY <1>5, <1>7, <2>1, <2>2
<1>10. FirstDay(k) \in Int /\ FirstDay(w) \in Int /\ FirstDay(w + r) \in Int
  BY <1>3, <1>7, MonthsFollow
<1> DEFINE e == IF i = "year" THEN 0 ELSE 11
<1>11. e \in Int /\ m - e <= 12 * y
  BY <1>3, <1>5, <1>6
<1> HIDE DEF e
<1> DEFINE u == FirstDay(k)
           v == FirstDay(w + r)
<1>12. u \in Int /\ v \in Int /\ u + 365 * y <= v
  BY <1>7, <1>8, <1>9, <1>10
<1>13. StartOf(i, a) = u * 86400 /\ StartOf(i, a + d) = v * 86400
  BY <1>2, <1>3, <1>7
<1> HIDE DEF u, v
<1>14. 12 * u + 365 * (m - e) <= 12 * v
  BY <1>3, <1>7, <1>11, <1>12
<1>15. 12 * (u * 86400) + 31536000 * (m - e) <= 12 * (v * 86400)
  BY <1>3, <1>11, <1>12, <1>14
<1>16. TwelveTimes(i, d) = 31536000 * (m - e)
  BY DEF m, s, e, TwelveTimes
<1> QED
  BY <1>13, <1>15, <1>16

\* Requests whose window the walk has room for: no count, a count from a time,
\* a fixed interval, and a count that leaves the walk a margin of a year.
Roomy ==
  \/ query.count = None \/ query.from # None
  \/ query.interval \in Fixed
  \/ query.count * 372 <= (MaxIntervalCount - 9) * 365

\* Those windows are walked to the end.
LEMMA RoomyIsWalked ==
  ASSUME query \in Asks, chain \in Chains, query.interval # None, ~Refused, Roomy
  PROVE  WindowWalked
<1> SUFFICES ASSUME query.count # None, query.from = None,
                    Number(query.interval, WindowUntil - 1)
                      - Number(query.interval, WindowFrom) > MaxIntervalCount + 2
             PROVE  FALSE
  <2> DEFINE i == query.interval
  <2>1. i \in Intervals /\ WindowFrom \in Int /\ WindowUntil - 1 \in Int
    BY WindowIs
  <2>2. Number(i, WindowUntil - 1) \in Int /\ Number(i, WindowFrom) \in Int
    BY <2>1, NumberBrackets
  <2>3. MaxIntervalCount \in Nat
    BY BucketsAssumption
  <2> QED BY <2>2, <2>3 DEF WindowWalked
<1> DEFINE i == query.interval
           c == query.count
           Limit == MaxIntervalCount
           M == MaxDuration(i)
           n == Number(i, WindowFrom)
           to == Number(i, WindowUntil - 1)
           a == n + 1
           d == to - a
           x == StartOf(i, a)
           z == StartOf(i, to)
<1>1. /\ i \in Intervals /\ WindowFrom \in Int /\ WindowUntil - 1 \in Int /\ WindowUntil \in Int
      /\ c \in Nat \ {0} /\ c <= Limit /\ WindowUntil = WindowFrom + c * M
  BY WindowIs
<1>2. Limit \in Nat
  BY BucketsAssumption
<1>3. n \in Int /\ to \in Int /\ WindowFrom < StartOf(i, a) /\ StartOf(i, to) <= WindowUntil - 1
  BY <1>1, NumberBrackets
<1>4. M \in Nat \ {0} /\ x \in Int /\ z \in Int
  <2>1. a \in Int
    BY <1>3
  <2> QED BY <1>1, <1>3, <2>1, IntervalsFollow
<1>6. z - x < c * M
  <2> DEFINE p == c * M
  <2>1. p \in Int /\ WindowUntil = WindowFrom + p
    <3> HIDE DEF c, M
    <3> QED BY <1>1, <1>4
  <2>2. WindowFrom < x /\ z <= WindowUntil - 1
    BY <1>3
  <2> HIDE DEF p, x, z
  <2>3. z - x < p
    BY <1>1, <1>4, <2>1, <2>2
  <2> QED BY <2>3 DEF p
<1>7. d \in Nat /\ d >= Limit + 2 /\ a + d = to
  <2>1. to - n > Limit + 2
    OBVIOUS
  <2> HIDE DEF to, n
  <2> QED BY <1>2, <1>3, <2>1
<1>8. a \in Int
  BY <1>3
<1> HIDE DEF a, d, c, to
<1>s. z = StartOf(i, a + d)
  BY <1>7
<1> HIDE DEF x, z
<1>9. CASE i \in Fixed
  <2>1. M = MinDuration(i) /\ Day = 86400
    BY <1>9, FixedSteps DEF Day
  <2>2. z - x = d * M
    <3>1. (a + d) * M = a * M + d * M /\ a * M \in Int /\ d * M \in Int
      BY <1>4, <1>7, <1>8
    <3>2. CASE i = "week"
      <4>1. M = 604800
        BY <1>9, <3>2, FixedSteps DEF Day
      <4>2. \A k \in Int : StartOf(i, k) = k * 604800 - 259200
        BY <3>2 DEF StartOf, Day
      <4>3. x = a * 604800 - 259200 /\ z = (a + d) * 604800 - 259200
        <5>1. a + d \in Int
          BY <1>7, <1>8
        <5> QED BY <1>s, <1>8, <4>2, <5>1 DEF x
      <4> QED BY <1>7, <1>8, <4>1, <4>3
    <3>3. CASE i # "week"
      <4>1. x = a * M /\ z = (a + d) * M
        BY <1>s, <1>9, <2>1, <3>3 DEF StartOf, x
      <4> QED BY <3>1, <4>1
    <3> QED BY <3>2, <3>3
  <2>3. d * M < c * M /\ c < d
    BY <1>1, <1>2, <1>6, <1>7, <2>2
  <2> HIDE DEF M
  <2>4. d * M = c * M + (d - c) * M /\ (d - c) * M \in Nat /\ c * M \in Nat
    <3>1. d - c \in Nat
      BY <1>1, <1>7, <2>3
    <3> QED BY <1>1, <1>4, <1>7, <3>1
  <2> QED BY <2>3, <2>4
<1>10. CASE i \in CalendarKinds
  <2> DEFINE s == MonthStep(i)
             e == IF i = "year" THEN 0 ELSE 11
  <2>1. c * 372 <= (Limit - 9) * 365
    BY <1>10, Steps DEF Roomy, c
  <2>2. 12 * x + TwelveTimes(i, d) <= 12 * z
    <3>1. d \in Nat
      BY <1>7
    <3>2. 12 * StartOf(i, a) + TwelveTimes(i, d) <= 12 * StartOf(i, a + d)
      BY <1>8, <1>10, <3>1, CalendarSpan
    <3> QED BY <1>s, <3>2 DEF x
  <2>m. TwelveTimes(i, d) = 31536000 * (d * s - e)
    BY DEF TwelveTimes
  <2>3. \/ s = 1 /\ e = 11 /\ M = 31 * 86400
        \/ s = 3 /\ e = 11 /\ M = 93 * 86400
        \/ s = 12 /\ e = 0 /\ M = 366 * 86400
    BY <1>10, Steps
  <2> HIDE DEF s, e, M
  <2>4. CASE s = 1 /\ e = 11 /\ M = 31 * 86400
    BY <1>1, <1>2, <1>4, <1>6, <1>7, <2>1, <2>2, <2>m, <2>4
  <2>5. CASE s = 3 /\ e = 11 /\ M = 93 * 86400
    BY <1>1, <1>2, <1>4, <1>6, <1>7, <2>1, <2>2, <2>m, <2>5
  <2>6. CASE s = 12 /\ e = 0 /\ M = 366 * 86400
    BY <1>1, <1>2, <1>4, <1>6, <1>7, <2>1, <2>2, <2>m, <2>6
  <2> QED BY <2>3, <2>4, <2>5, <2>6
<1> QED
  BY <1>1, <1>9, <1>10 DEF Intervals, CalendarKinds

\* No block of a promised interval is lost and the last intervals are answered for
\* every request without a count or with from, every request for a fixed interval,
\* and, for months, quarters and years, every count up to 383 of MAX_INTERVAL_COUNT = 400.
THEOREM LastIntervals == Spec => [](Answered /\ Roomy => PromisedBlocksCovered /\ LastAreAnswered)
<1>1. BucketsInv => (Answered /\ Roomy => WindowWalked)
  BY RoomyIsWalked DEF BucketsInv, Answered
<1>2. BucketsInv => (WindowWalked => LastAreAnswered)
  BY DEF BucketsInv, LastAreAnswered
<1> QED BY <1>1, <1>2, BucketsInvHolds, PromisedBlocks, PTL

=============================================================================
