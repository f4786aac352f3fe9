------------------------------- MODULE Calendar ------------------------------
(***************************************************************************)
(* Calendar arithmetic of midgard-db/src/buckets.rs, in seconds since the  *)
(* epoch, and beside it the calendar of postgres' date_trunc, which the    *)
(* history queries group by.                                               *)
(***************************************************************************)
EXTENDS Integers, FiniteSets

Day == 86400

\* enum Interval
Fixed == {"5min", "hour", "day", "week"}
Intervals == Fixed \cup {"month", "quarter", "year"}

MinDuration(interval) ==
  CASE interval = "5min" -> 300
    [] interval = "hour" -> 3600
    [] interval = "day" -> Day
    [] interval = "week" -> 7 * Day
    [] interval = "month" -> 28 * Day
    [] interval = "quarter" -> 3 * 28 * Day
    [] interval = "year" -> 365 * Day

MaxDuration(interval) ==
  CASE interval \in Fixed -> MinDuration(interval)
    [] interval = "month" -> 31 * Day
    [] interval = "quarter" -> 3 * 31 * Day
    [] interval = "year" -> 366 * Day

\* Months of a calendar step.
MonthStep(interval) ==
  CASE interval = "month" -> 1 [] interval = "quarter" -> 3 [] interval = "year" -> 12

\* civil_from_epoch_seconds, without the day: months since the year 0.
MonthOf(t) ==
  LET z == t \div Day + 719468
      doe == z % 146097
      yoe == (doe - doe \div 1460 + doe \div 36524 - doe \div 146096) \div 365
      doy == doe - (365 * yoe + yoe \div 4 - yoe \div 100)
      march == (5 * doy + 2) \div 153    \* months since March
  IN  12 * (yoe + 400 * (z \div 146097)) + march + 2

\* epoch_seconds_from_civil of the first of a month.
MonthStart(month) ==
  LET y == (month - 2) \div 12           \* the year that began in March
      yoe == y % 400
      doy == (153 * ((month - 2) % 12) + 2) \div 5
  IN  ((y \div 400) * 146097 + yoe * 365 + yoe \div 4 - yoe \div 100 + doy - 719468) * Day

\* truncate
Truncate(interval, t) ==
  LET shift == IF interval = "week" THEN 3 * Day ELSE 0
  IN  IF interval \in Fixed
      THEN ((t + shift) \div MinDuration(interval)) * MinDuration(interval) - shift
      ELSE MonthStart((MonthOf(t) \div MonthStep(interval)) * MonthStep(interval))

\* Mutant: every interval has one length.
AdvanceFixed(interval, t) == t + MaxDuration(interval)

\* advance
Advance(interval, t) ==
  IF interval \in Fixed THEN t + MinDuration(interval)
  ELSE MonthStart(MonthOf(t) + MonthStep(interval))

------------------------------------------------------------------------------
(***************************************************************************)
(* Postgres.  Every interval has a number; the numbers of one kind are     *)
(* consecutive, and date_trunc gives the start of the interval of a time.  *)
(***************************************************************************)
IsLeap(y) == y % 4 = 0 /\ (y % 100 # 0 \/ y % 400 = 0)
LeapYears(from, until) == Cardinality({k \in from .. until - 1 : IsLeap(k)})
DaysBeforeYear(y) == 365 * (y - 1970) + LeapYears(1970, y) - LeapYears(y, 1970)
DaysBeforeMonth == <<0, 31, 59, 90, 120, 151, 181, 212, 243, 273, 304, 334>>

\* First day of the month with this number, 0 being January 1970.
FirstDay(number) ==
  LET y == 1970 + number \div 12
      m == number % 12
  IN  DaysBeforeYear(y) + DaysBeforeMonth[m + 1] + (IF m >= 2 /\ IsLeap(y) THEN 1 ELSE 0)

\* A month has 28 to 31 days, which is where to look for the one of a time.
MonthNumber(t) ==
  LET d == t \div Day
      months == d \div 31 .. d \div 28 \cup d \div 28 .. d \div 31
  IN  CHOOSE n \in months : FirstDay(n) <= d /\ d < FirstDay(n + 1)

\* The number of the interval a time lies in; weeks are counted from the
\* Monday before the epoch.
Number(interval, t) ==
  IF interval = "week" THEN (t + 3 * Day) \div (7 * Day)
  ELSE IF interval \in Fixed THEN t \div MinDuration(interval)
  ELSE MonthNumber(t) \div MonthStep(interval)

StartOf(interval, number) ==
  IF interval = "week" THEN number * 7 * Day - 3 * Day
  ELSE IF interval \in Fixed THEN number * MinDuration(interval)
  ELSE FirstDay(number * MonthStep(interval)) * Day

DateTrunc(interval, t) == StartOf(interval, Number(interval, t))

=============================================================================
