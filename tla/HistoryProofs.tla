---------------------------- MODULE HistoryProofs ----------------------------
(***************************************************************************)
(* For any chain, rows, intervals and requests: an interval of a history   *)
(* has every row of its window, and one that was over when the request     *)
(* came does not change any more; members are who holds units; endpoints   *)
(* agree on what two of them report; and every answer has the shape of its *)
(* body.                                                                   *)
(***************************************************************************)
EXTENDS MCHistory, BucketsProofs

\* A time has passed the start of a second if the second it is in has.
LEMMA SecondPassed ==
  ASSUME NEW n \in Nat, NEW m \in Int
  PROVE  /\ ToSecond(n) \in Nat /\ ToNano(m) \in Int
         /\ m <= ToSecond(n) <=> ToNano(m) <= n
<1> USE TablesAssumption DEF ToSecond, ToNano
<1> DEFINE s == n \div NanosPerSecond
<1>1. s \in Nat /\ s * NanosPerSecond <= n /\ n < (s + 1) * NanosPerSecond
  BY QuotientBrackets
<1> HIDE DEF s
<1>2. m <= s => m * NanosPerSecond <= s * NanosPerSecond
  BY <1>1, ProductGrows
<1>3. s + 1 <= m => (s + 1) * NanosPerSecond <= m * NanosPerSecond
  BY <1>1, ProductGrows
<1>4. /\ m * NanosPerSecond \in Int /\ s * NanosPerSecond \in Int
      /\ (s + 1) * NanosPerSecond \in Int
  BY <1>1
<1>5. m <= s <=> m * NanosPerSecond <= n
  BY <1>1, <1>2, <1>3, <1>4
<1> QED
  BY <1>1, <1>4, <1>5 DEF s

\* Later seconds begin later.
LEMMA NanosAscend ==
  ASSUME NEW x \in Int, NEW y \in Int, x <= y
  PROVE  ToNano(x) \in Int /\ ToNano(y) \in Int /\ ToNano(x) <= ToNano(y)
BY TablesAssumption, ProductGrows DEF ToNano

\* Rounding down to five minutes leaves a second in its interval, since every
\* interval begins on such a mark.
LEMMA RoundedDown ==
  ASSUME NEW i \in Intervals, NEW s \in Int
  PROVE  (s \div 300) * 300 \in Int /\ Number(i, (s \div 300) * 300) = Number(i, s)
<1> DEFINE low == (s \div 300) * 300
           n == Number(i, s)
           start(k) == StartOf(i, k)
<1>1. n \in Int /\ start(n) <= s /\ s < start(n + 1)
  BY NumberBrackets
<1>2. start(n) \in Int /\ start(n + 1) \in Int
  BY <1>1, IntervalsFollow
<1>3. low \in Int /\ low <= s /\ s < low + 300
  BY QuotientBrackets
<1>4. \E k \in Int : start(n) = 300 * k
  <2> HIDE DEF n
  <2>1. CASE i \in Fixed
    <3>1. CASE i = "5min"
      BY <1>1, <3>1 DEF Fixed, StartOf, MinDuration
    <3>2. CASE i = "hour"
      <4>1. start(n) = 300 * (12 * n) /\ 12 * n \in Int
        BY <1>1, <3>2 DEF Fixed, StartOf, MinDuration
      <4> HIDE DEF start
      <4> QED
        BY <4>1
    <3>3. CASE i = "day"
      <4>1. start(n) = 300 * (288 * n) /\ 288 * n \in Int
        BY <1>1, <3>3 DEF Fixed, StartOf, MinDuration, Day
      <4> HIDE DEF start
      <4> QED
        BY <4>1
    <3>4. CASE i = "week"
      <4>1. start(n) = 300 * (2016 * n - 864) /\ 2016 * n - 864 \in Int
        BY <1>1, <3>4 DEF StartOf, Day
      <4> HIDE DEF start
      <4> QED
        BY <4>1
    <3> QED
      BY <2>1, <3>1, <3>2, <3>3, <3>4 DEF Fixed
  <2>2. CASE i \notin Fixed
    <3> DEFINE f == FirstDay(n * MonthStep(i))
    <3>1. n * MonthStep(i) \in Int
      BY <1>1, <2>2 DEF Intervals, Fixed, MonthStep
    <3>2. f \in Int
      BY <3>1, FirstDayIs, DaysBeforeType
    <3>3. start(n) = f * 86400
      BY <2>2 DEF StartOf, Day, Fixed
    <3> HIDE DEF f, start
    <3>4. f * 86400 = 300 * (288 * f) /\ 288 * f \in Int
      BY <3>2
    <3> QED
      BY <3>3, <3>4
  <2> QED
    BY <2>1, <2>2
<1> HIDE DEF low, n, start
<1>5. start(n) <= low
  <2>1. PICK k \in Int : start(n) = 300 * k
    BY <1>4
  <2>2. s \div 300 \in Int /\ low = (s \div 300) * 300
    BY DEF low
  <2> QED
    BY <1>1, <1>3, <2>1, <2>2
<1>6. low < start(n + 1)
  BY <1>1, <1>2, <1>3
<1>7. Number(i, low) = n
  BY <1>1, <1>3, <1>5, <1>6, NumberIs DEF start
<1> QED
  BY <1>3, <1>7 DEF low, n

------------------------------------------------------------------------------
\* Rows and their buckets.

LEMMA TimesOfRows ==
  ASSUME NEW r \in Rows
  PROVE  r.height \in DOMAIN BlockTime /\ At(r) \in Nat
BY TablesAssumption DEF At

\* A row is grouped under an interval if its block came in it.
LEMMA TruncatedIs ==
  ASSUME NEW b, b.interval \in Intervals, NEW r \in Rows, NEW n \in Int
  PROVE  Truncated(b, r) = StartOf(b.interval, n)
           <=> /\ ToNano(StartOf(b.interval, n)) <= At(r)
               /\ At(r) < ToNano(StartOf(b.interval, n + 1))
<1> DEFINE i == b.interval
           s == ToSecond(At(r))
           q == Number(i, s)
<1>1. At(r) \in Nat /\ s \in Nat
  BY TimesOfRows, SecondPassed
<1>2. Truncated(b, r) = StartOf(i, q)
  <2>1. i # "none"
    BY DEF Intervals, Fixed
  <2> QED
    BY <1>1, <2>1, RoundedDown DEF Truncated, DateTrunc
<1> HIDE DEF i, s
<1>3. i \in Intervals
  BY DEF i
<1>4. q \in Int
  BY <1>1, <1>3, NumberBrackets
<1>5. q = n <=> StartOf(i, n) <= s /\ s < StartOf(i, n + 1)
  BY <1>1, <1>3, NumberIs
<1> HIDE DEF q
<1>6. StartOf(i, q) = StartOf(i, n) <=> q = n
  <2>1. q < n => StartOf(i, q) < StartOf(i, n)
    BY <1>3, <1>4, StartsAscend
  <2>2. n < q => StartOf(i, n) < StartOf(i, q)
    BY <1>3, <1>4, StartsAscend
  <2>3. StartOf(i, n) \in Int /\ StartOf(i, q) \in Int
    BY <1>3, <1>4, IntervalsFollow
  <2> QED
    BY <1>4, <2>1, <2>2, <2>3
<1>7. StartOf(i, n) \in Int /\ StartOf(i, n + 1) \in Int
  BY <1>3, IntervalsFollow
<1>8. StartOf(i, n) <= s <=> ToNano(StartOf(i, n)) <= At(r)
  BY <1>1, <1>7, SecondPassed DEF s
<1>9. StartOf(i, n + 1) <= s <=> ToNano(StartOf(i, n + 1)) <= At(r)
  BY <1>1, <1>7, SecondPassed DEF s
<1>10. ToNano(StartOf(i, n + 1)) \in Int
  BY <1>7, NanosAscend
<1>11. s < StartOf(i, n + 1) <=> At(r) < ToNano(StartOf(i, n + 1))
  BY <1>1, <1>7, <1>9, <1>10
<1> QED
  BY <1>2, <1>5, <1>6, <1>8, <1>11 DEF i

\* The boundaries of an answer with an interval, by number.
LEMMA BoundariesByNumber ==
  ASSUME NEW b, IsBuckets(b), b.interval # "none"
  PROVE  /\ b.interval \in Intervals /\ Number(b.interval, b.timestamps[1]) \in Int
         /\ \A j \in 1 .. Len(b.timestamps) :
              b.timestamps[j] = StartOf(b.interval, Number(b.interval, b.timestamps[1]) + j - 1)
<1>1. b.interval \in Intervals /\ b.timestamps \in Seq(Int) /\ Len(b.timestamps) >= 2
  BY DEF IsBuckets
<1>2. b.timestamps[1] \in Int
  BY <1>1
<1>3. Number(b.interval, b.timestamps[1]) \in Int
  BY <1>1, <1>2, NumberBrackets
<1>4. \A j \in 1 .. Len(b.timestamps) :
        b.timestamps[j] = StartOf(b.interval, Number(b.interval, b.timestamps[1]) + j - 1)
  BY Zenon DEF IsBuckets
<1> QED
  BY <1>1, <1>3, <1>4

\* The boundaries of a bucket lie within the range; with an interval they are
\* where postgres' calendar has two neighbouring ones begin.
LEMMA BoundariesOf ==
  ASSUME NEW b, IsBuckets(b), NEW i \in 1 .. Count(b)
  PROVE  /\ b.timestamps[i] \in Int /\ b.timestamps[i + 1] \in Int
         /\ FirstTime(b) \in Int /\ LastTime(b) \in Int
         /\ b.interval # "none" =>
              /\ FirstTime(b) <= b.timestamps[i] /\ b.timestamps[i + 1] <= LastTime(b)
              /\ \E k \in Int : /\ b.timestamps[i] = StartOf(b.interval, k)
                                /\ b.timestamps[i + 1] = StartOf(b.interval, k + 1)
         /\ b.interval = "none" =>
              b.timestamps[i] = FirstTime(b) /\ b.timestamps[i + 1] = LastTime(b)
<1> DEFINE ts == b.timestamps
           n == Len(ts)
<1>1. /\ ts \in Seq(Int) /\ n \in Nat /\ n >= 2
      /\ i \in 1 .. n - 1 /\ \A j \in 1 .. n : ts[j] \in Int
  BY DEF IsBuckets, Count
<1>2. FirstTime(b) = ts[1] /\ LastTime(b) = ts[n]
  BY DEF FirstTime, LastTime
<1>3. CASE b.interval # "none"
  <2> DEFINE f == Number(b.interval, ts[1])
  <2>1. b.interval \in Intervals /\ f \in Int /\ \A j \in 1 .. n : ts[j] = StartOf(b.interval, f + j - 1)
    BY <1>3, BoundariesByNumber
  <2> HIDE DEF ts, n, f
  <2>2. f + (i + 1) - 1 = (f + i - 1) + 1 /\ f + i - 1 \in Int /\ f + n - 1 \in Int
        /\ f + (i + 1) - 1 \in Int /\ f + 1 - 1 \in Int
    BY <1>1, <2>1
  <2>3. ts[i] = StartOf(b.interval, f + i - 1) /\ ts[i + 1] = StartOf(b.interval, f + (i + 1) - 1)
        /\ ts[1] = StartOf(b.interval, f + 1 - 1) /\ ts[n] = StartOf(b.interval, f + n - 1)
    BY <1>1, <2>1
  <2>4. ts[1] <= ts[i]
    <3>1. f + 1 - 1 <= f + i - 1
      BY <1>1, <2>1
    <3> QED
      BY <2>1, <2>2, <2>3, <3>1, StartsAscend
  <2>5. ts[i + 1] <= ts[n]
    <3>1. f + (i + 1) - 1 <= f + n - 1
      BY <1>1, <2>1
    <3> QED
      BY <2>1, <2>2, <2>3, <3>1, StartsAscend
  <2>6. \E k \in Int : ts[i] = StartOf(b.interval, k) /\ ts[i + 1] = StartOf(b.interval, k + 1)
    BY <2>2, <2>3
  <2>7. ts[1] \in Int /\ ts[n] \in Int /\ ts[i] \in Int /\ ts[i + 1] \in Int
    BY <1>1
  <2> QED
    BY <1>2, <1>3, <2>4, <2>5, <2>6, <2>7 DEF ts
<1>4. CASE b.interval = "none"
  <2>1. n = 2
    BY <1>4 DEF IsBuckets
  <2> QED
    BY <1>1, <1>2, <1>4, <2>1
<1> QED
  BY <1>3, <1>4

\* What is looked up for a bucket is every row of its window and no other,
\* though it is selected by nanoseconds and grouped by truncated seconds.
LEMMA GroupIsWindow ==
  ASSUME NEW b, IsBuckets(b), NEW i \in 1 .. Count(b), NEW rows \in SUBSET Rows
  PROVE  Group(b, rows, i) =
           {r \in rows : /\ ToNano(b.timestamps[i]) <= At(r)
                         /\ At(r) < ToNano(b.timestamps[i + 1])}
<1> DEFINE low == b.timestamps[i]
           high == b.timestamps[i + 1]
<1>1. /\ low \in Int /\ high \in Int /\ FirstTime(b) \in Int /\ LastTime(b) \in Int
      /\ b.interval # "none" =>
           /\ FirstTime(b) <= low /\ high <= LastTime(b)
           /\ \E k \in Int : low = StartOf(b.interval, k) /\ high = StartOf(b.interval, k + 1)
      /\ b.interval = "none" => low = FirstTime(b) /\ high = LastTime(b)
  BY BoundariesOf
<1>2. b.interval # "none" => b.interval \in Intervals
  BY DEF IsBuckets
<1>3. Group(b, rows, i) =
        {r \in rows : /\ At(r) >= ToNano(FirstTime(b)) /\ At(r) < ToNano(LastTime(b))
                      /\ Truncated(b, r) = low}
  BY DEF Group, Within, Since
<1> HIDE DEF low, high
<1>4. ASSUME NEW r \in rows
      PROVE  (/\ At(r) >= ToNano(FirstTime(b)) /\ At(r) < ToNano(LastTime(b))
              /\ Truncated(b, r) = low)
             <=> ToNano(low) <= At(r) /\ At(r) < ToNano(high)
  <2>1. At(r) \in Nat
    BY TimesOfRows
  <2>2. CASE b.interval = "none"
    BY <1>1, <2>1, <2>2, TablesAssumption DEF Truncated, ToNano
  <2>3. CASE b.interval # "none"
    <3>1. PICK k \in Int : low = StartOf(b.interval, k) /\ high = StartOf(b.interval, k + 1)
      BY <1>1, <2>3
    <3>2. Truncated(b, r) = low <=> ToNano(low) <= At(r) /\ At(r) < ToNano(high)
      BY <1>2, <2>3, <3>1, TruncatedIs
    <3>3. ToNano(FirstTime(b)) \in Int /\ ToNano(low) \in Int /\ ToNano(FirstTime(b)) <= ToNano(low)
      BY <1>1, <2>3, NanosAscend
    <3>4. ToNano(high) \in Int /\ ToNano(LastTime(b)) \in Int /\ ToNano(high) <= ToNano(LastTime(b))
      BY <1>1, <2>3, NanosAscend
    <3> QED
      BY <2>1, <3>2, <3>3, <3>4
  <2> QED
    BY <2>2, <2>3
<1>5. Group(b, rows, i) = {r \in rows : ToNano(low) <= At(r) /\ At(r) < ToNano(high)}
  BY <1>3, <1>4
<1> QED
  BY <1>5 DEF low, high

\* What generate leaves is what the queries assume of it.
AnswerBuckets ==
  [interval |-> IF query.interval = None THEN "none" ELSE query.interval, timestamps |-> timestamps]

\* Every answer of generate, with an interval of any kind or without one, is fit
\* for the queries: postgres groups their rows by the very boundaries the buckets
\* are looked up with (buckets.rs:177-191).
THEOREM AnswersAreBuckets == Spec => [](pc = "done" => IsBuckets(AnswerBuckets))
<1>1. ASSUME BucketsInv, TypeOK, BoundariesAreDateTrunc, pc = "done"
      PROVE  IsBuckets(AnswerBuckets)
  <2> DEFINE b == AnswerBuckets
  <2>1. b.timestamps = timestamps /\ timestamps \in Seq(Int) /\ Len(timestamps) >= 2
    BY <1>1 DEF TypeOK, AnswerBuckets
  <2>2. CASE query.interval = None
    <3>1. b.interval = "none" /\ Len(timestamps) = 2
      BY <1>1, <2>2 DEF AnswerBuckets, BucketsInv
    <3> QED
      BY <2>1, <3>1 DEF IsBuckets
  <2>3. CASE query.interval # None
    <3>1. b.interval = query.interval /\ query.interval \in Intervals /\ b.interval # "none"
      <4>1. query.interval \in Intervals
        BY <1>1, <2>3, BucketsAssumption DEF BucketsInv, Asks
      <4>2. b.interval = query.interval
        BY <2>3 DEF AnswerBuckets
      <4>3. "none" \notin Intervals
        BY DEF Intervals, Fixed
      <4> QED
        BY <4>1, <4>2, <4>3
    <3>2. \A n \in 1 .. Len(timestamps) :
            timestamps[n] = StartOf(b.interval, Number(b.interval, timestamps[1]) + n - 1)
      BY <1>1, <2>3, <3>1 DEF Answered, BoundariesAreDateTrunc
    <3> HIDE DEF b
    <3>3. IsBuckets(b)
      BY <2>1, <3>1, <3>2 DEF IsBuckets
    <3> QED
      BY <3>3 DEF b
  <2> QED
    BY <2>2, <2>3
<1> QED
  BY <1>1, BucketsInvHolds, BucketTypes, BoundariesOfPostgres, PTL

\* ... also as the properties select them, from one table or from two.
LEMMA GroupOfTable ==
  ASSUME NEW b, IsBuckets(b), NEW i \in 1 .. Count(b), NEW name, NEW seenAt
  PROVE  Group(b, Table(name, seenAt), i) = InWindow({name}, seenAt, Window(b, i))
<1>1. Table(name, seenAt) \in SUBSET Rows
  BY DEF Table
<1> QED
  BY <1>1, GroupIsWindow DEF Table, InWindow, Window, ToNano

LEMMA GroupOfPool ==
  ASSUME NEW b, IsBuckets(b), NEW i \in 1 .. Count(b), NEW name, NEW seenAt, NEW pool
  PROVE  Group(b, OfPool(Table(name, seenAt), pool), i)
           = OfPool(InWindow({name}, seenAt, Window(b, i)), pool)
<1>1. OfPool(Table(name, seenAt), pool) \in SUBSET Rows
  BY DEF Table, OfPool
<1> QED
  BY <1>1, GroupIsWindow DEF Table, InWindow, Window, ToNano, OfPool

LEMMA GroupOfTwo ==
  ASSUME NEW b, IsBuckets(b), NEW i \in 1 .. Count(b), NEW name, NEW other, NEW seenAt, NEW pool
  PROVE  Group(b, OfPool(Table(name, seenAt) \cup Table(other, seenAt), pool), i)
           = OfPool(InWindow({name, other}, seenAt, Window(b, i)), pool)
<1>1. OfPool(Table(name, seenAt) \cup Table(other, seenAt), pool) \in SUBSET Rows
  BY DEF Table, OfPool
<1> QED
  BY <1>1, GroupIsWindow DEF Table, InWindow, Window, ToNano, OfPool

------------------------------------------------------------------------------
\* The buckets part the range.

\* A row of a window of the range is in one of the buckets.
LEMMA EveryRowHasABucket ==
  ASSUME NEW b, IsBuckets(b), NEW r \in Rows,
         ToNano(FirstTime(b)) <= At(r), At(r) < ToNano(LastTime(b))
  PROVE  \E i \in 1 .. Count(b) : Truncated(b, r) = b.timestamps[i]
<1> DEFINE ts == b.timestamps
           n == Len(ts)
           f == Number(b.interval, ts[1])
           s == ToSecond(At(r))
           q == Number(b.interval, s)
<1>1. /\ ts \in Seq(Int) /\ n \in Nat /\ n >= 2 /\ \A j \in 1 .. n : ts[j] \in Int
      /\ Count(b) = n - 1 /\ FirstTime(b) = ts[1] /\ LastTime(b) = ts[n]
  BY DEF IsBuckets, Count, FirstTime, LastTime
<1>2. At(r) \in Nat /\ s \in Nat
  BY TimesOfRows, SecondPassed
<1>3. CASE b.interval = "none"
  <2>1. Truncated(b, r) = ts[1]
    BY <1>1, <1>3 DEF Truncated
  <2>2. 1 \in 1 .. Count(b)
    BY <1>1
  <2> QED
    BY <2>1, <2>2
<1>4. CASE b.interval # "none"
  <2>1. b.interval \in Intervals /\ f \in Int /\ \A j \in 1 .. n : ts[j] = StartOf(b.interval, f + j - 1)
    BY <1>4, BoundariesByNumber
  <2>2. q \in Int
    BY <1>2, <2>1, NumberBrackets
  <2>3. Truncated(b, r) = StartOf(b.interval, q)
    BY <1>2, <1>4, <2>1, RoundedDown DEF Truncated, DateTrunc
  <2>4. ts[1] <= s /\ s < ts[n]
    <3>1. ts[1] \in Int /\ ts[n] \in Int
      BY <1>1
    <3>2. ts[1] <= s <=> ToNano(ts[1]) <= At(r)
      BY <1>2, <3>1, SecondPassed
    <3>3. ToNano(ts[n]) \in Int /\ (ts[n] <= s <=> ToNano(ts[n]) <= At(r))
      BY <1>2, <3>1, SecondPassed
    <3> HIDE DEF ts, n, s
    <3> QED
      BY <1>1, <1>2, <3>1, <3>2, <3>3
  <2>5. ts[1] = StartOf(b.interval, f) /\ ts[n] = StartOf(b.interval, f + n - 1)
    <3> HIDE DEF f, n, ts
    <3>1. f + 1 - 1 = f /\ 1 \in 1 .. n /\ n \in 1 .. n
      BY <1>1, <2>1
    <3> QED
      BY <2>1, <3>1
  <2> HIDE DEF f, n, ts, s
  <2>6. f <= q
    BY <1>2, <2>1, <2>4, <2>5, NumberIs
  <2>7. q < f + n - 1
    <3>1. f + n - 1 \in Int
      BY <1>1, <2>1
    <3>2. f + n - 1 <= q <=> ts[n] <= s
      BY <1>2, <2>1, <2>5, <3>1, NumberIs
    <3>3. ts[n] \in Int
      BY <1>1
    <3> HIDE DEF q
    <3> QED
      BY <1>2, <2>2, <2>4, <3>1, <3>2, <3>3
  <2> HIDE DEF q
  <2>8. q - f + 1 \in 1 .. n - 1 /\ q - f + 1 \in 1 .. n /\ f + (q - f + 1) - 1 = q
    BY <1>1, <2>1, <2>2, <2>6, <2>7
  <2>9. Truncated(b, r) = ts[q - f + 1]
    BY <2>1, <2>3, <2>8
  <2> QED
    BY <1>1, <2>8, <2>9 DEF ts
<1> QED
  BY <1>3, <1>4

\* No two buckets begin at the same time.
LEMMA BucketsAreApart ==
  ASSUME NEW b, IsBuckets(b), NEW i \in 1 .. Count(b), NEW j \in 1 .. Count(b), i # j
  PROVE  b.timestamps[i] # b.timestamps[j]
<1> DEFINE ts == b.timestamps
           n == Len(ts)
           f == Number(b.interval, ts[1])
<1>0. n \in Nat /\ n >= 2 /\ Count(b) = n - 1
  BY DEF IsBuckets, Count
<1>1. i \in 1 .. n /\ j \in 1 .. n /\ n # 2
  <2>1. i \in 1 .. n - 1 /\ j \in 1 .. n - 1
    BY <1>0
  <2> HIDE DEF n
  <2> QED
    BY <1>0, <2>1
<1>2. b.interval # "none"
  BY <1>1 DEF IsBuckets
<1>3. b.interval \in Intervals /\ f \in Int /\ \A m \in 1 .. n : ts[m] = StartOf(b.interval, f + m - 1)
  BY <1>2, BoundariesByNumber
<1> HIDE DEF f, ts, n
<1>4. ts[i] = StartOf(b.interval, f + i - 1) /\ ts[j] = StartOf(b.interval, f + j - 1)
  BY <1>1, <1>3
<1>5. /\ f + i - 1 \in Int /\ f + j - 1 \in Int
      /\ f + i - 1 < f + j - 1 \/ f + j - 1 < f + i - 1
  BY <1>1, <1>3
<1>6. StartOf(b.interval, f + i - 1) \in Int /\ StartOf(b.interval, f + j - 1) \in Int
  BY <1>3, <1>5, IntervalsFollow
<1>7. /\ f + i - 1 < f + j - 1 => StartOf(b.interval, f + i - 1) < StartOf(b.interval, f + j - 1)
      /\ f + j - 1 < f + i - 1 => StartOf(b.interval, f + j - 1) < StartOf(b.interval, f + i - 1)
  BY <1>3, <1>5, StartsAscend
<1> QED
  BY <1>4, <1>5, <1>6, <1>7 DEF ts

\* The rows of the range.
InRange(b, rows) ==
  {r \in rows : ToNano(FirstTime(b)) <= At(r) /\ At(r) < ToNano(LastTime(b))}

\* A row of the range is in one of its buckets, and only the range has rows there.
LEMMA RangeIsBuckets ==
  ASSUME NEW b, IsBuckets(b), NEW rows \in SUBSET Rows
  PROVE  InRange(b, rows) = UNION {Group(b, rows, i) : i \in 1 .. Count(b)}
<1> DEFINE I == 1 .. Count(b)
<1>1. ASSUME NEW r \in Rows
      PROVE  /\ At(r) \in Nat /\ ToNano(FirstTime(b)) \in Int
             /\ At(r) >= ToNano(FirstTime(b)) <=> ToNano(FirstTime(b)) <= At(r)
  <2>1. At(r) \in Nat /\ ToNano(FirstTime(b)) \in Int
    BY TimesOfRows, TablesAssumption DEF ToNano, IsBuckets, FirstTime
  <2> QED
    BY <2>1
<1>2. ASSUME NEW r \in InRange(b, rows) PROVE \E i \in I : r \in Group(b, rows, i)
  <2>1. /\ r \in rows /\ r \in Rows
        /\ ToNano(FirstTime(b)) <= At(r) /\ At(r) < ToNano(LastTime(b))
    BY DEF InRange
  <2>2. PICK i \in I : Truncated(b, r) = b.timestamps[i]
    BY <2>1, EveryRowHasABucket
  <2> QED
    BY <1>1, <2>1, <2>2 DEF Group, Within, Since
<1>3. ASSUME NEW i \in I, NEW r \in Group(b, rows, i) PROVE r \in InRange(b, rows)
  <2>1. r \in rows /\ At(r) >= ToNano(FirstTime(b)) /\ At(r) < ToNano(LastTime(b))
    BY DEF Group, Within, Since
  <2> QED
    BY <1>1, <2>1 DEF InRange
<1> QED
  BY <1>2, <1>3

\* A sum over the rows of the range is the sum of those over its buckets.
LEMMA SumOverBuckets ==
  ASSUME NEW b, IsBuckets(b), NEW rows \in SUBSET Rows, NEW f \in [Rows -> Int]
  PROVE  /\ \A i \in 1 .. Count(b) : Over(f, Group(b, rows, i)) \in Int
         /\ Over(f, InRange(b, rows))
              = Over([i \in 1 .. Count(b) |-> Over(f, Group(b, rows, i))], 1 .. Count(b))
<1> DEFINE I == 1 .. Count(b)
           G == [i \in I |-> Group(b, rows, i)]
<1>1. IsFiniteSet(I) /\ IsFiniteSet(Rows)
  <2>1. Count(b) \in Int
    BY DEF IsBuckets, Count
  <2>2. \A c \in Int : IsFiniteSet(1 .. c)
    BY FS_Interval
  <2>3. IsFiniteSet(Rows)
    BY RowsAssumption
  <2> QED
    BY <2>1, <2>2, <2>3
<1>2. G \in [I -> SUBSET Rows] /\ \A i \in I : G[i] = Group(b, rows, i)
  BY DEF Group, Within, Since
<1>3. \A i, j \in I : i # j => G[i] \cap G[j] = {}
  <2> TAKE i \in I, j \in I
  <2> HAVE i # j
  <2>1. b.timestamps[i] # b.timestamps[j]
    BY BucketsAreApart
  <2> QED
    BY <2>1 DEF Group
<1>4. InRange(b, rows) = UNION {G[i] : i \in I}
  BY RangeIsBuckets
<1> HIDE DEF G, I
<1>5. Over(f, InRange(b, rows)) = Over([i \in I |-> Over(f, G[i])], I)
  <2>1. G \in [I -> SUBSET Rows]
    BY <1>2
  <2>2. Over(f, UNION {G[i] : i \in I}) = Over([i \in I |-> Over(f, G[i])], I)
    BY <1>1, <1>3, <2>1, OverFamily
  <2> QED
    BY <1>4, <2>2
<1>6. \A i \in I : Over(f, G[i]) \in Int
  BY <1>1, <1>2, OverPick
<1> QED
  BY <1>2, <1>5, <1>6 DEF I

------------------------------------------------------------------------------
\* The inductive invariant: a query sees what was committed when the request
\* came, and no more than the chain has.
ReadInv ==
  /\ committed \in 0 .. MaxTip /\ published \in Nat
  /\ request \in Requests \/ request.kind \in {"none", "refused"}
  /\ asked.committed \in 0 .. committed
  /\ seen \in Seq(Nat)
  /\ \A k \in DOMAIN seen : asked.committed <= seen[k] /\ seen[k] <= MaxTip
  /\ request = NoRequest => seen = <<>>

LEMMA ReadInit == HistoryInit => ReadInv
BY HistoryAssumption DEF HistoryInit, ReadInv, NoRequest

LEMMA ReadStep == ReadInv /\ [HistoryNext]_historyVars => ReadInv'
<1> SUFFICES ASSUME ReadInv, [HistoryNext]_historyVars PROVE ReadInv'
  OBVIOUS
<1> USE HistoryAssumption DEF ReadInv
<1>1. CASE Reject
  BY <1>1 DEF Reject, NoRequest
<1>2. CASE Ask
  <2>1. seen' = <<>> /\ request' \in Requests /\ asked'.committed = committed
        /\ UNCHANGED <<committed, published>>
    BY <1>2 DEF Ask
  <2> QED
    BY <2>1
<1>3. CASE Query
  <2>1. seen' = Append(seen, committed) /\ UNCHANGED <<committed, published, request, asked>>
    BY <1>3 DEF Query
  <2>2. request # NoRequest
    BY <1>3 DEF Query, Queries, NoRequest
  <2>3. seen' \in Seq(Nat) /\ \A k \in DOMAIN seen' : k \in DOMAIN seen \/ seen'[k] = committed
    BY <2>1
  <2>4. \A k \in DOMAIN seen : seen'[k] = seen[k]
    BY <2>1
  <2> QED
    BY <2>1, <2>2, <2>3, <2>4
<1>4. CASE Index
  <2>1. UNCHANGED <<request, asked, seen>>
    BY <1>4 DEF Index
  <2>2. committed <= committed' /\ committed' \in 0 .. MaxTip /\ published' \in Nat
    BY <1>4 DEF Index, Loop!Commit, Loop!Publish, Loop!After
  <2> QED
    BY <2>1, <2>2
<1>5. CASE UNCHANGED historyVars
  BY <1>5 DEF historyVars
<1> QED
  BY <1>1, <1>2, <1>3, <1>4, <1>5 DEF HistoryNext

LEMMA ReadInvHolds == HistorySpec => []ReadInv
BY ReadInit, ReadStep, PTL DEF HistorySpec

\* A request for a history that is done.
LEMMA HistoryRequest ==
  ASSUME ReadInv, request.kind \in HistoryKinds
  PROVE  IsBuckets(request.buckets)
BY HistoryAssumption DEF ReadInv, HistoryKinds

\* Every interval of an answer has exactly the rows of its window
\* (swaps.rs:92-125), for any chain, kind of interval and resolution of the
\* clock.
THEOREM IntervalsAreWhole == HistorySpec => []IntervalsWhole
<1>1. ASSUME ReadInv, request.kind \in {"swaps", "liquidity", "earnings"},
             NEW i \in DOMAIN Answer(seen).intervals
      PROVE  Whole(Answer(seen).intervals[i])
  <2> DEFINE b == request.buckets
             item == Answer(seen).intervals[i]
  <2>1. IsBuckets(b)
    BY <1>1, HistoryRequest DEF HistoryKinds
  <2>2. CASE request.kind = "swaps"
    <3> DEFINE mine == Group(b, OfPool(Table("swap", seen[1]), request.pool), i)
               price == RunePriceAt(seen[2], LastTime(b))
    <3>1. Answer(seen) = SwapHistory(b, request.pool, seen)
      BY <2>2 DEF Answer
    <3>2. i \in 1 .. Count(b) /\ item = SwapItem(Window(b, i), SwapTotals(mine), price)
      BY <1>1, <3>1 DEF SwapHistory
    <3>3. item.window = Window(b, i) /\ item.split = SwapTotals(mine)
      BY <3>2 DEF SwapItem
    <3>4. mine = OfPool(InWindow({"swap"}, seen[1], Window(b, i)), request.pool)
      BY <2>1, <3>2, GroupOfPool
    <3> QED
      BY <2>2, <3>3, <3>4 DEF Whole
  <2>3. CASE request.kind = "liquidity"
    <3> DEFINE mine == Group(b, OfPool(Table("stake", seen[1]) \cup Table("withdraw", seen[1]),
                                       request.pool), i)
               price == RunePriceAt(seen[2], LastTime(b))
    <3>1. Answer(seen) = LiquidityHistory(b, request.pool, seen)
      BY <2>3 DEF Answer
    <3>2. i \in 1 .. Count(b) /\ item = LiquidityItem(Window(b, i), LiquidityTotals(mine), price)
      BY <1>1, <3>1 DEF LiquidityHistory
    <3>3. item.window = Window(b, i) /\ item.split = LiquidityTotals(mine)
      BY <3>2 DEF LiquidityItem
    <3>4. mine = OfPool(InWindow({"stake", "withdraw"}, seen[1], Window(b, i)), request.pool)
      BY <2>1, <3>2, GroupOfTwo
    <3> QED
      BY <2>3, <3>3, <3>4 DEF Whole
  <2>4. CASE request.kind = "earnings"
    <3> DEFINE fees == Group(b, Table("swap", seen[2]), i)
               rewards == Group(b, Table("rewardEntry", seen[3]), i)
               bond == Group(b, Table("rewards", seen[4]), i)
               price == RunePriceAt(seen[1], LastTime(b))
    <3>1. Answer(seen) = EarningsHistory(b, seen)
      BY <2>4 DEF Answer
    <3>2. /\ i \in 1 .. Count(b)
          /\ item = EarningsItem(Window(b, i), FeesPerPool(fees), RewardsPerPool(rewards),
                                 BondRewards(bond), price)
      BY <1>1, <3>1 DEF EarningsHistory
    <3>3. item.window = Window(b, i) /\ item.price = price
      BY <3>2 DEF EarningsItem
    <3>4. /\ fees = InWindow({"swap"}, seen[2], Window(b, i))
          /\ rewards = InWindow({"rewardEntry"}, seen[3], Window(b, i))
          /\ bond = InWindow({"rewards"}, seen[4], Window(b, i))
      BY <2>1, <3>2, GroupOfTable
    <3> QED
      BY <2>4, <3>2, <3>3, <3>4 DEF Whole
  <2> QED
    BY <1>1, <2>2, <2>3, <2>4
<1>2. ReadInv => IntervalsWhole
  BY <1>1 DEF IntervalsWhole
<1> QED
  BY <1>2, ReadInvHolds, PTL

------------------------------------------------------------------------------
\* Meta, which is added up from the intervals.

\* The sums of the handlers, of a column over rows and of a figure over buckets,
\* are sums of functions.
LEMMA ColumnSums ==
  ASSUME NEW T
  PROVE  /\ MapThenSumSet(Volume, T) = Total([r \in T |-> Volume(r)])
         /\ MapThenSumSet(LAMBDA r : r.feeInRune, T) = Total([r \in T |-> r.feeInRune])
         /\ MapThenSumSet(LAMBDA r : r.slip, T) = Total([r \in T |-> r.slip])
         /\ MapThenSumSet(LAMBDA r : r.rune, T) = Total([r \in T |-> r.rune])
         /\ MapThenSumSet(LAMBDA r : r.assetInRune, T) = Total([r \in T |-> r.assetInRune])
         /\ MapThenSumSet(LAMBDA r : r.bond, T) = Total([r \in T |-> r.bond])
<1>1. MapThenSumSet(Volume, T) = Total([r \in T |-> Volume(r)])
  BY DEF Total, MapThenSumSet, MapThenFoldSet
<1>2. MapThenSumSet(LAMBDA r : r.feeInRune, T) = Total([r \in T |-> r.feeInRune])
  BY DEF Total, MapThenSumSet, MapThenFoldSet
<1>3. MapThenSumSet(LAMBDA r : r.slip, T) = Total([r \in T |-> r.slip])
  BY DEF Total, MapThenSumSet, MapThenFoldSet
<1>4. MapThenSumSet(LAMBDA r : r.rune, T) = Total([r \in T |-> r.rune])
  BY DEF Total, MapThenSumSet, MapThenFoldSet
<1>5. MapThenSumSet(LAMBDA r : r.assetInRune, T) = Total([r \in T |-> r.assetInRune])
  BY DEF Total, MapThenSumSet, MapThenFoldSet
<1>6. MapThenSumSet(LAMBDA r : r.bond, T) = Total([r \in T |-> r.bond])
  BY DEF Total, MapThenSumSet, MapThenFoldSet
<1> QED
  BY <1>1, <1>2, <1>3, <1>4, <1>5, <1>6

SwapFigures == {"count", "volume", "fees", "slip"}

FigureOf(totals, g, c) == [i \in DOMAIN totals |-> totals[i][g][c]]

LEMMA AddedFigure ==
  ASSUME NEW totals, NEW g, NEW c, g \in SwapGroups, c \in SwapFigures
  PROVE  AddSwapTotals(totals)[g][c] = Total(FigureOf(totals, g, c))
<1>1. MapThenSumSet(LAMBDA i : totals[i][g][c], DOMAIN totals) = Total(FigureOf(totals, g, c))
  BY DEF Total, MapThenSumSet, MapThenFoldSet, FigureOf
<1>2. AddSwapTotals(totals)[g][c] = MapThenSumSet(LAMBDA i : totals[i][g][c], DOMAIN totals)
  BY DEF AddSwapTotals, SwapFigures
<1> QED
  BY <1>1, <1>2

LEMMA AddedSwaps ==
  ASSUME NEW totals, NEW g, NEW c, g \in SwapGroups, c \in SwapFigures,
         NEW sums, \A i \in DOMAIN totals : totals[i][g][c] = sums[i]
  PROVE  AddSwapTotals(totals)[g][c] = Over(sums, DOMAIN totals)
<1>1. FigureOf(totals, g, c) = Part(sums, DOMAIN totals)
  BY DEF Part, FigureOf
<1> QED
  BY <1>1, AddedFigure DEF Over

\* The figures of swaps, as sums of a function of the rows.
SwapColumn(c) ==
  [r \in Rows |->
     CASE r.table # "swap" -> 0
       [] r.table = "swap" /\ c = "count" -> 1
       [] r.table = "swap" /\ c = "volume" -> Volume(r)
       [] r.table = "swap" /\ c = "fees" -> r.feeInRune
       [] r.table = "swap" /\ c = "slip" -> r.slip]
OfGroup(rows, g) == {r \in rows : SwapGroup(r) = g}

LEMMA SwapColumnType == ASSUME NEW c \in SwapFigures PROVE SwapColumn(c) \in [Rows -> Int]
<1> SUFFICES ASSUME NEW r \in Rows PROVE SwapColumn(c)[r] \in Int
  BY DEF SwapColumn
<1>1. r.table = "swap" => {r.from, r.to, r.feeInRune, r.slip} \subseteq Int
  BY RowsAssumption
<1> QED
  BY <1>1 DEF SwapColumn, SwapFigures, Volume

\* The number of members, as a sum.
LEMMA CountIsSum ==
  ASSUME NEW T \in SUBSET Rows, NEW f, \A r \in T : f[r] = 1
  PROVE  Cardinality(T) = Over(f, T)
<1> DEFINE ones == [r \in T |-> 1]
<1>1. IsFiniteSet(T)
  <2>1. IsFiniteSet(Rows)
    BY RowsAssumption
  <2> QED
    BY <2>1, FS_Subset
<1>2. ones \in [T -> {1}]
  OBVIOUS
<1>3. Over(ones, T) = Cardinality(T)
  BY <1>1, <1>2, OverOnes
<1>4. Over(f, T) = Over(ones, T)
  BY OverSame
<1> QED
  BY <1>3, <1>4

LEMMA SwapTotalsAre ==
  ASSUME NEW T \in SUBSET Rows, \A r \in T : r.table = "swap"
  PROVE  SwapTotals(T) = [g \in SwapGroups |-> [c \in SwapFigures |->
                            Over(SwapColumn(c), OfGroup(T, g))]]
<1> SUFFICES ASSUME NEW g \in SwapGroups
             PROVE  SwapTotals(T)[g] = [c \in SwapFigures |-> Over(SwapColumn(c), OfGroup(T, g))]
  BY DEF SwapTotals
<1> DEFINE mine == OfGroup(T, g)
<1>1. mine \in SUBSET Rows /\ \A r \in mine : r.table = "swap"
  BY DEF OfGroup
<1>2. SwapTotals(T)[g] = [count |-> Cardinality(mine),
                          volume |-> MapThenSumSet(Volume, mine),
                          fees |-> MapThenSumSet(LAMBDA r : r.feeInRune, mine),
                          slip |-> MapThenSumSet(LAMBDA r : r.slip, mine)]
  BY DEF SwapTotals, OfGroup
<1> HIDE DEF mine
<1>3. Cardinality(mine) = Over(SwapColumn("count"), mine)
  <2>1. \A r \in mine : SwapColumn("count")[r] = 1
    BY <1>1 DEF SwapColumn
  <2> QED
    BY <1>1, <2>1, CountIsSum
<1>4. MapThenSumSet(Volume, mine) = Over(SwapColumn("volume"), mine)
  <2>1. Part(SwapColumn("volume"), mine) = [r \in mine |-> Volume(r)]
    BY <1>1 DEF SwapColumn, Part
  <2> QED
    BY <2>1, ColumnSums DEF Over
<1>5. MapThenSumSet(LAMBDA r : r.feeInRune, mine) = Over(SwapColumn("fees"), mine)
  <2>1. Part(SwapColumn("fees"), mine) = [r \in mine |-> r.feeInRune]
    BY <1>1 DEF SwapColumn, Part
  <2> QED
    BY <2>1, ColumnSums DEF Over
<1>6. MapThenSumSet(LAMBDA r : r.slip, mine) = Over(SwapColumn("slip"), mine)
  <2>1. Part(SwapColumn("slip"), mine) = [r \in mine |-> r.slip]
    BY <1>1 DEF SwapColumn, Part
  <2> QED
    BY <2>1, ColumnSums DEF Over
<1>7. SwapTotals(T)[g] = [c \in SwapFigures |-> Over(SwapColumn(c), mine)]
  BY <1>2, <1>3, <1>4, <1>5, <1>6 DEF SwapFigures
<1> QED
  BY <1>7 DEF mine

LEMMA SwapsAddUp ==
  ASSUME NEW b, IsBuckets(b), NEW rows \in SUBSET Rows, \A r \in rows : r.table = "swap"
  PROVE  AddSwapTotals([i \in 1 .. Count(b) |-> SwapTotals(Group(b, rows, i))])
           = SwapTotals(InRange(b, rows))
<1> DEFINE I == 1 .. Count(b)
           totals == [i \in I |-> SwapTotals(Group(b, rows, i))]
<1>1. ASSUME NEW g \in SwapGroups, NEW c \in SwapFigures
      PROVE  AddSwapTotals(totals)[g][c]
               = Over(SwapColumn(c), OfGroup(InRange(b, rows), g))
  <2> DEFINE ours == OfGroup(rows, g)
             sums == [i \in I |-> Over(SwapColumn(c), Group(b, ours, i))]
  <2>1. ours \in SUBSET Rows /\ SwapColumn(c) \in [Rows -> Int]
    BY SwapColumnType DEF OfGroup
  <2>2. OfGroup(InRange(b, rows), g) = InRange(b, ours)
    BY DEF OfGroup, InRange
  <2>3. Over(SwapColumn(c), InRange(b, ours)) = Over(sums, I)
    BY <2>1, SumOverBuckets
  <2>4. ASSUME NEW i \in I PROVE totals[i][g][c] = sums[i]
    <3>1. Group(b, rows, i) \in SUBSET Rows /\ \A r \in Group(b, rows, i) : r.table = "swap"
      BY DEF Group, Within, Since
    <3>2. OfGroup(Group(b, rows, i), g) = Group(b, ours, i)
      BY DEF Group, Within, Since, OfGroup
    <3>3. SwapTotals(Group(b, rows, i))[g][c]
            = Over(SwapColumn(c), OfGroup(Group(b, rows, i), g))
      BY <3>1, SwapTotalsAre
    <3> QED
      BY <3>2, <3>3
  <2> HIDE DEF sums
  <2>5. sums \in [I -> Int]
    BY <2>1, SumOverBuckets DEF sums
  <2>6. DOMAIN totals = I
    OBVIOUS
  <2> HIDE DEF totals, I
  <2>7. AddSwapTotals(totals)[g][c] = Over(sums, I)
    BY <2>4, <2>5, <2>6, AddedSwaps
  <2> QED
    BY <2>2, <2>3, <2>7
<1>2. /\ DOMAIN AddSwapTotals(totals) = SwapGroups
      /\ AddSwapTotals(totals) = [g \in SwapGroups |-> AddSwapTotals(totals)[g]]
      /\ \A g \in SwapGroups :
           AddSwapTotals(totals)[g] = [c \in SwapFigures |-> AddSwapTotals(totals)[g][c]]
  BY DEF AddSwapTotals, SwapFigures
<1>3. SwapTotals(InRange(b, rows)) = [g \in SwapGroups |-> [c \in SwapFigures |->
                                        Over(SwapColumn(c), OfGroup(InRange(b, rows), g))]]
  <2>1. InRange(b, rows) \in SUBSET Rows /\ \A r \in InRange(b, rows) : r.table = "swap"
    BY DEF InRange
  <2> QED
    BY <2>1, SwapTotalsAre
<1> HIDE DEF totals
<1>4. AddSwapTotals(totals) = SwapTotals(InRange(b, rows))
  BY <1>1, <1>2, <1>3
<1> QED
  BY <1>4 DEF totals

\* The figures of deposits and withdrawals.
LiquidityFigures ==
  {"addCount", "addRune", "addAsset", "withdrawCount", "withdrawRune", "withdrawAsset"}
SideOf(c) == IF c \in {"addCount", "addRune", "addAsset"} THEN "stake" ELSE "withdraw"
LiquidityColumn(c) ==
  [r \in Rows |->
     CASE r.table # SideOf(c) -> 0
       [] r.table = SideOf(c) /\ c \in {"addCount", "withdrawCount"} -> 1
       [] r.table = SideOf(c) /\ c \in {"addRune", "withdrawRune"} -> r.rune
       [] r.table = SideOf(c) /\ c \in {"addAsset", "withdrawAsset"} -> r.assetInRune]
OfSide(rows, c) == {r \in rows : r.table = SideOf(c)}

LEMMA LiquidityColumnType ==
  ASSUME NEW c \in LiquidityFigures PROVE LiquidityColumn(c) \in [Rows -> Int]
<1> SUFFICES ASSUME NEW r \in Rows PROVE LiquidityColumn(c)[r] \in Int
  BY DEF LiquidityColumn
<1>1. r.table \in {"stake", "withdraw"} => {r.units, r.rune, r.asset, r.assetInRune} \subseteq Int
  BY RowsAssumption
<1> QED
  BY <1>1 DEF LiquidityColumn, LiquidityFigures, SideOf

LEMMA LiquidityTotalsAre ==
  ASSUME NEW T \in SUBSET Rows
  PROVE  LiquidityTotals(T) =
           [c \in LiquidityFigures |-> Over(LiquidityColumn(c), OfSide(T, c))]
<1> DEFINE adds == {r \in T : r.table = "stake"}
           moves == {r \in T : r.table = "withdraw"}
           sum(c) == Over(LiquidityColumn(c), OfSide(T, c))
<1>1. /\ \A c \in {"addCount", "addRune", "addAsset"} : OfSide(T, c) = adds
      /\ \A c \in {"withdrawCount", "withdrawRune", "withdrawAsset"} : OfSide(T, c) = moves
  BY DEF OfSide, SideOf
<1>2. /\ adds \in SUBSET Rows /\ \A r \in adds : r.table = "stake"
      /\ moves \in SUBSET Rows /\ \A r \in moves : r.table = "withdraw"
  OBVIOUS
<1>3. LiquidityTotals(T) =
        [addCount |-> Cardinality(adds),
         addRune |-> MapThenSumSet(LAMBDA r : r.rune, adds),
         addAsset |-> MapThenSumSet(LAMBDA r : r.assetInRune, adds),
         withdrawCount |-> Cardinality(moves),
         withdrawRune |-> MapThenSumSet(LAMBDA r : r.rune, moves),
         withdrawAsset |-> MapThenSumSet(LAMBDA r : r.assetInRune, moves)]
  BY DEF LiquidityTotals
<1> HIDE DEF adds, moves
<1>4. Cardinality(adds) = sum("addCount") /\ Cardinality(moves) = sum("withdrawCount")
  <2>1. /\ \A r \in adds : LiquidityColumn("addCount")[r] = 1
        /\ \A r \in moves : LiquidityColumn("withdrawCount")[r] = 1
    BY <1>2 DEF LiquidityColumn, SideOf
  <2> QED
    BY <1>1, <1>2, <2>1, CountIsSum
<1>5. MapThenSumSet(LAMBDA r : r.rune, adds) = sum("addRune")
  <2>1. Part(LiquidityColumn("addRune"), adds) = [r \in adds |-> r.rune]
    BY <1>2 DEF LiquidityColumn, Part, SideOf
  <2>2. MapThenSumSet(LAMBDA r : r.rune, adds) = Over(LiquidityColumn("addRune"), adds)
    BY <2>1, ColumnSums DEF Over
  <2> QED
    BY <1>1, <2>2
<1>6. MapThenSumSet(LAMBDA r : r.rune, moves) = sum("withdrawRune")
  <2>1. Part(LiquidityColumn("withdrawRune"), moves) = [r \in moves |-> r.rune]
    BY <1>2 DEF LiquidityColumn, Part, SideOf
  <2>2. MapThenSumSet(LAMBDA r : r.rune, moves) = Over(LiquidityColumn("withdrawRune"), moves)
    BY <2>1, ColumnSums DEF Over
  <2> QED
    BY <1>1, <2>2
<1>7. MapThenSumSet(LAMBDA r : r.assetInRune, adds) = sum("addAsset")
  <2>1. Part(LiquidityColumn("addAsset"), adds) = [r \in adds |-> r.assetInRune]
    BY <1>2 DEF LiquidityColumn, Part, SideOf
  <2>2. MapThenSumSet(LAMBDA r : r.assetInRune, adds) = Over(LiquidityColumn("addAsset"), adds)
    BY <2>1, ColumnSums DEF Over
  <2> QED
    BY <1>1, <2>2
<1>8. MapThenSumSet(LAMBDA r : r.assetInRune, moves) = sum("withdrawAsset")
  <2>1. Part(LiquidityColumn("withdrawAsset"), moves) = [r \in moves |-> r.assetInRune]
    BY <1>2 DEF LiquidityColumn, Part, SideOf
  <2>2. MapThenSumSet(LAMBDA r : r.assetInRune, moves)
          = Over(LiquidityColumn("withdrawAsset"), moves)
    BY <2>1, ColumnSums DEF Over
  <2> QED
    BY <1>1, <2>2
<1> HIDE DEF sum
<1>9. LiquidityTotals(T) = [c \in LiquidityFigures |-> sum(c)]
  BY <1>3, <1>4, <1>5, <1>6, <1>7, <1>8 DEF LiquidityFigures
<1> QED
  BY <1>9 DEF sum

FigureOver(totals, c) == [i \in DOMAIN totals |-> totals[i][c]]

LEMMA AddedFigureOver ==
  ASSUME NEW totals, NEW c, c \in LiquidityFigures
  PROVE  AddLiquidityTotals(totals)[c] = Total(FigureOver(totals, c))
<1>1. MapThenSumSet(LAMBDA i : totals[i][c], DOMAIN totals) = Total(FigureOver(totals, c))
  BY DEF Total, MapThenSumSet, MapThenFoldSet, FigureOver
<1>2. DOMAIN LiquidityTotals({}) = LiquidityFigures
  BY DEF LiquidityTotals, LiquidityFigures
<1>3. AddLiquidityTotals(totals)[c] = MapThenSumSet(LAMBDA i : totals[i][c], DOMAIN totals)
  BY <1>2 DEF AddLiquidityTotals
<1> QED
  BY <1>1, <1>3

LEMMA AddedLiquidity ==
  ASSUME NEW totals, NEW c, c \in LiquidityFigures,
         NEW sums, \A i \in DOMAIN totals : totals[i][c] = sums[i]
  PROVE  AddLiquidityTotals(totals)[c] = Over(sums, DOMAIN totals)
<1>1. FigureOver(totals, c) = Part(sums, DOMAIN totals)
  BY DEF Part, FigureOver
<1> QED
  BY <1>1, AddedFigureOver DEF Over

LEMMA LiquidityAddsUp ==
  ASSUME NEW b, IsBuckets(b), NEW rows \in SUBSET Rows
  PROVE  AddLiquidityTotals([i \in 1 .. Count(b) |-> LiquidityTotals(Group(b, rows, i))])
           = LiquidityTotals(InRange(b, rows))
<1> DEFINE I == 1 .. Count(b)
           totals == [i \in I |-> LiquidityTotals(Group(b, rows, i))]
<1>1. ASSUME NEW c \in LiquidityFigures
      PROVE  AddLiquidityTotals(totals)[c]
               = Over(LiquidityColumn(c), OfSide(InRange(b, rows), c))
  <2> DEFINE ours == OfSide(rows, c)
             sums == [i \in I |-> Over(LiquidityColumn(c), Group(b, ours, i))]
  <2>1. ours \in SUBSET Rows /\ LiquidityColumn(c) \in [Rows -> Int]
    BY LiquidityColumnType DEF OfSide
  <2>2. OfSide(InRange(b, rows), c) = InRange(b, ours)
    BY DEF OfSide, InRange
  <2>3. Over(LiquidityColumn(c), InRange(b, ours)) = Over(sums, I)
    BY <2>1, SumOverBuckets
  <2>4. ASSUME NEW i \in I PROVE totals[i][c] = sums[i]
    <3>1. Group(b, rows, i) \in SUBSET Rows
      BY DEF Group, Within, Since
    <3>2. OfSide(Group(b, rows, i), c) = Group(b, ours, i)
      BY DEF Group, Within, Since, OfSide
    <3>3. LiquidityTotals(Group(b, rows, i))[c]
            = Over(LiquidityColumn(c), OfSide(Group(b, rows, i), c))
      BY <3>1, LiquidityTotalsAre
    <3> QED
      BY <3>2, <3>3
  <2>5. DOMAIN totals = I
    OBVIOUS
  <2> HIDE DEF sums, totals, I
  <2>6. AddLiquidityTotals(totals)[c] = Over(sums, I)
    BY <2>4, <2>5, AddedLiquidity
  <2> QED
    BY <2>2, <2>3, <2>6
<1>2. AddLiquidityTotals(totals) = [c \in LiquidityFigures |-> AddLiquidityTotals(totals)[c]]
  <2>1. DOMAIN LiquidityTotals({}) = LiquidityFigures
    BY DEF LiquidityTotals, LiquidityFigures
  <2> QED
    BY <2>1 DEF AddLiquidityTotals
<1>3. LiquidityTotals(InRange(b, rows)) =
        [c \in LiquidityFigures |-> Over(LiquidityColumn(c), OfSide(InRange(b, rows), c))]
  <2>1. InRange(b, rows) \in SUBSET Rows
    BY DEF InRange
  <2> QED
    BY <2>1, LiquidityTotalsAre
<1> HIDE DEF totals
<1>4. AddLiquidityTotals(totals) = LiquidityTotals(InRange(b, rows))
  BY <1>1, <1>2, <1>3
<1> QED
  BY <1>4 DEF totals

\* The amounts of the earnings: a sum of a column for every pool that has rows.
FeeColumn == [r \in Rows |-> IF r.table = "swap" THEN r.feeInRune ELSE 0]
RewardColumn == [r \in Rows |-> IF r.table = "rewardEntry" THEN r.rune ELSE 0]
BondColumn == [r \in Rows |-> IF r.table = "rewards" THEN r.bond ELSE 0]
WithPool(rows, p) == {r \in rows : r.pool = p}
PoolSums(f, rows) == [p \in {r.pool : r \in rows} |-> Over(f, WithPool(rows, p))]

LEMMA EarningColumnTypes ==
  /\ FeeColumn \in [Rows -> Int]
  /\ RewardColumn \in [Rows -> Int]
  /\ BondColumn \in [Rows -> Int]
<1>1. \A r \in Rows : r.table = "swap" => r.feeInRune \in Int
  BY RowsAssumption
<1>2. \A r \in Rows : r.table = "rewardEntry" => r.rune \in Int
  BY RowsAssumption
<1>3. \A r \in Rows : r.table = "rewards" => r.bond \in Int
  BY RowsAssumption
<1> QED
  BY <1>1, <1>2, <1>3 DEF FeeColumn, RewardColumn, BondColumn

LEMMA FeesAre ==
  ASSUME NEW T \in SUBSET Rows, \A r \in T : r.table = "swap"
  PROVE  FeesPerPool(T) = PoolSums(FeeColumn, T)
<1>1. FeesPerPool(T) =
        [p \in {r.pool : r \in T} |-> MapThenSumSet(LAMBDA r : r.feeInRune, WithPool(T, p))]
  BY DEF FeesPerPool, PerPool, WithPool
<1>2. ASSUME NEW p
      PROVE  MapThenSumSet(LAMBDA r : r.feeInRune, WithPool(T, p))
               = Over(FeeColumn, WithPool(T, p))
  <2>1. Part(FeeColumn, WithPool(T, p)) = [r \in WithPool(T, p) |-> r.feeInRune]
    BY DEF FeeColumn, Part, WithPool
  <2> QED
    BY <2>1, ColumnSums DEF Over
<1> QED
  BY <1>1, <1>2 DEF PoolSums

LEMMA RewardsAre ==
  ASSUME NEW T \in SUBSET Rows, \A r \in T : r.table = "rewardEntry"
  PROVE  RewardsPerPool(T) = PoolSums(RewardColumn, T)
<1>1. RewardsPerPool(T) =
        [p \in {r.pool : r \in T} |-> MapThenSumSet(LAMBDA r : r.rune, WithPool(T, p))]
  BY DEF RewardsPerPool, PerPool, WithPool
<1>2. ASSUME NEW p
      PROVE  MapThenSumSet(LAMBDA r : r.rune, WithPool(T, p)) = Over(RewardColumn, WithPool(T, p))
  <2>1. Part(RewardColumn, WithPool(T, p)) = [r \in WithPool(T, p) |-> r.rune]
    BY DEF RewardColumn, Part, WithPool
  <2> QED
    BY <2>1, ColumnSums DEF Over
<1> QED
  BY <1>1, <1>2 DEF PoolSums

LEMMA BondIs ==
  ASSUME NEW T \in SUBSET Rows, \A r \in T : r.table = "rewards"
  PROVE  BondRewards(T) = Over(BondColumn, T)
<1>1. Part(BondColumn, T) = [r \in T |-> r.bond]
  BY DEF BondColumn, Part
<1>2. BondRewards(T) = MapThenSumSet(LAMBDA r : r.bond, T)
  BY DEF BondRewards
<1> QED
  BY <1>1, <1>2, ColumnSums DEF Over

PoolFigure(buckets, p) == [i \in DOMAIN buckets |-> OrZero(buckets[i], p)]

LEMMA PoolFigureSum ==
  ASSUME NEW buckets, NEW p
  PROVE  MapThenSumSet(LAMBDA i : OrZero(buckets[i], p), DOMAIN buckets)
           = Total(PoolFigure(buckets, p))
BY DEF Total, MapThenSumSet, MapThenFoldSet, PoolFigure

LEMMA AddedPool ==
  ASSUME NEW buckets, NEW p, p \in UNION {DOMAIN buckets[i] : i \in DOMAIN buckets}
  PROVE  AddPerPool(buckets)[p] = Total(PoolFigure(buckets, p))
<1>1. AddPerPool(buckets)[p] = MapThenSumSet(LAMBDA i : OrZero(buckets[i], p), DOMAIN buckets)
  BY DEF AddPerPool
<1> QED
  BY <1>1, PoolFigureSum

BondFigure(bond) == [i \in DOMAIN bond |-> bond[i]]

LEMMA AddedBond ==
  ASSUME NEW bond
  PROVE  AddBond(bond) = Over(bond, DOMAIN bond)
<1>1. AddBond(bond) = Total(BondFigure(bond))
  BY DEF AddBond, Total, MapThenSumSet, MapThenFoldSet, BondFigure
<1>2. Part(bond, DOMAIN bond) = BondFigure(bond)
  BY DEF Part, BondFigure
<1> QED
  BY <1>1, <1>2 DEF Over

LEMMA PoolsAddUp ==
  ASSUME NEW b, IsBuckets(b), NEW rows \in SUBSET Rows, NEW f \in [Rows -> Int]
  PROVE  AddPerPool([i \in 1 .. Count(b) |-> PoolSums(f, Group(b, rows, i))])
           = PoolSums(f, InRange(b, rows))
<1> DEFINE I == 1 .. Count(b)
           buckets == [i \in I |-> PoolSums(f, Group(b, rows, i))]
           names == UNION {DOMAIN buckets[i] : i \in DOMAIN buckets}
<1>1. DOMAIN buckets = I /\ \A i \in I : buckets[i] = PoolSums(f, Group(b, rows, i))
  OBVIOUS
<1>2. names = {r.pool : r \in InRange(b, rows)}
  <2>1. \A i \in I : DOMAIN buckets[i] = {r.pool : r \in Group(b, rows, i)}
    BY DEF PoolSums
  <2>2. InRange(b, rows) = UNION {Group(b, rows, i) : i \in I}
    BY RangeIsBuckets
  <2> HIDE DEF buckets, I
  <2> QED
    BY <1>1, <2>1, <2>2
<1>3. ASSUME NEW p \in names
      PROVE  AddPerPool(buckets)[p] = Over(f, WithPool(InRange(b, rows), p))
  <2> DEFINE ours == WithPool(rows, p)
             sums == [i \in I |-> Over(f, Group(b, ours, i))]
  <2>1. ours \in SUBSET Rows
    BY DEF WithPool
  <2>2. WithPool(InRange(b, rows), p) = InRange(b, ours)
    BY DEF WithPool, InRange
  <2>3. Over(f, InRange(b, ours)) = Over(sums, I)
    BY <2>1, SumOverBuckets
  <2>4. ASSUME NEW i \in I PROVE OrZero(buckets[i], p) = sums[i]
    <3>1. WithPool(Group(b, rows, i), p) = Group(b, ours, i)
      BY DEF Group, Within, Since, WithPool
    <3>2. p \in DOMAIN buckets[i] => buckets[i][p] = sums[i]
      BY <3>1 DEF PoolSums
    <3>3. p \notin DOMAIN buckets[i] => Group(b, ours, i) = {}
      BY <3>1 DEF PoolSums, WithPool
    <3>4. Group(b, ours, i) = {} => sums[i] = 0
      <4>1. IsFiniteSet(Rows) /\ {} \in SUBSET Rows
        BY RowsAssumption
      <4>2. Over(f, {}) = 0
        BY <4>1, OverPick
      <4> QED
        BY <4>2
    <3> HIDE DEF buckets, sums
    <3> QED
      BY <3>2, <3>3, <3>4 DEF OrZero
  <2> HIDE DEF sums, buckets, I
  <2>5. PoolFigure(buckets, p) = Part(sums, I)
    BY <1>1, <2>4 DEF PoolFigure, Part
  <2>6. AddPerPool(buckets)[p] = Over(sums, I)
    BY <2>5, AddedPool DEF Over
  <2> QED
    BY <2>2, <2>3, <2>6
<1>4. AddPerPool(buckets) = [p \in names |-> AddPerPool(buckets)[p]]
  BY DEF AddPerPool
<1> HIDE DEF buckets, names
<1>5. AddPerPool(buckets) = PoolSums(f, InRange(b, rows))
  BY <1>2, <1>3, <1>4 DEF PoolSums
<1> QED
  BY <1>5 DEF buckets

LEMMA EarningsAddUp ==
  ASSUME NEW b, IsBuckets(b), NEW height
  PROVE  LET n == 1 .. Count(b)
             swaps == Table("swap", height)
             entries == Table("rewardEntry", height)
             rewards == Table("rewards", height)
         IN  /\ AddPerPool([i \in n |-> FeesPerPool(Group(b, swaps, i))])
                  = FeesPerPool(InRange(b, swaps))
             /\ AddPerPool([i \in n |-> RewardsPerPool(Group(b, entries, i))])
                  = RewardsPerPool(InRange(b, entries))
             /\ AddBond([i \in n |-> BondRewards(Group(b, rewards, i))])
                  = BondRewards(InRange(b, rewards))
<1> DEFINE n == 1 .. Count(b)
           swaps == Table("swap", height)
           entries == Table("rewardEntry", height)
           rewards == Table("rewards", height)
<1>1. /\ swaps \in SUBSET Rows /\ \A r \in swaps : r.table = "swap"
      /\ entries \in SUBSET Rows /\ \A r \in entries : r.table = "rewardEntry"
      /\ rewards \in SUBSET Rows /\ \A r \in rewards : r.table = "rewards"
  BY DEF Table
<1> HIDE DEF swaps, entries, rewards
<1>2. \A rows \in SUBSET Rows : /\ InRange(b, rows) \in SUBSET rows
                                /\ \A i \in n : Group(b, rows, i) \in SUBSET rows
  BY DEF InRange, Group, Within, Since
<1>3. AddPerPool([i \in n |-> FeesPerPool(Group(b, swaps, i))]) = FeesPerPool(InRange(b, swaps))
  <2>1. \A i \in n : FeesPerPool(Group(b, swaps, i)) = PoolSums(FeeColumn, Group(b, swaps, i))
    BY <1>1, <1>2, FeesAre
  <2>2. FeesPerPool(InRange(b, swaps)) = PoolSums(FeeColumn, InRange(b, swaps))
    BY <1>1, <1>2, FeesAre
  <2>3. AddPerPool([i \in n |-> PoolSums(FeeColumn, Group(b, swaps, i))])
          = PoolSums(FeeColumn, InRange(b, swaps))
    BY <1>1, EarningColumnTypes, PoolsAddUp
  <2>4. [i \in n |-> FeesPerPool(Group(b, swaps, i))]
          = [i \in n |-> PoolSums(FeeColumn, Group(b, swaps, i))]
    BY <2>1
  <2> QED
    BY <2>2, <2>3, <2>4
<1>4. AddPerPool([i \in n |-> RewardsPerPool(Group(b, entries, i))])
        = RewardsPerPool(InRange(b, entries))
  <2>1. \A i \in n : RewardsPerPool(Group(b, entries, i))
                       = PoolSums(RewardColumn, Group(b, entries, i))
    BY <1>1, <1>2, RewardsAre
  <2>2. RewardsPerPool(InRange(b, entries)) = PoolSums(RewardColumn, InRange(b, entries))
    BY <1>1, <1>2, RewardsAre
  <2>3. AddPerPool([i \in n |-> PoolSums(RewardColumn, Group(b, entries, i))])
          = PoolSums(RewardColumn, InRange(b, entries))
    BY <1>1, EarningColumnTypes, PoolsAddUp
  <2>4. [i \in n |-> RewardsPerPool(Group(b, entries, i))]
          = [i \in n |-> PoolSums(RewardColumn, Group(b, entries, i))]
    BY <2>1
  <2> QED
    BY <2>2, <2>3, <2>4
<1>5. AddBond([i \in n |-> BondRewards(Group(b, rewards, i))]) = BondRewards(InRange(b, rewards))
  <2>1. \A i \in n : BondRewards(Group(b, rewards, i)) = Over(BondColumn, Group(b, rewards, i))
    BY <1>1, <1>2, BondIs
  <2>2. BondRewards(InRange(b, rewards)) = Over(BondColumn, InRange(b, rewards))
    BY <1>1, <1>2, BondIs
  <2>3. Over([i \in n |-> Over(BondColumn, Group(b, rewards, i))], n)
          = Over(BondColumn, InRange(b, rewards))
    BY <1>1, EarningColumnTypes, SumOverBuckets
  <2> DEFINE sums == [i \in n |-> BondRewards(Group(b, rewards, i))]
  <2>4. sums = [i \in n |-> Over(BondColumn, Group(b, rewards, i))]
    BY <2>1
  <2>5. DOMAIN sums = n
    OBVIOUS
  <2> HIDE DEF sums, n
  <2>6. AddBond(sums) = Over(sums, n)
    BY <2>5, AddedBond
  <2> QED
    BY <2>2, <2>3, <2>4, <2>6 DEF sums
<1> QED
  BY <1>3, <1>4, <1>5 DEF n, swaps, entries, rewards

LEMMA MetaOfSwaps ==
  ASSUME ReadInv, request.kind = "swaps"
  PROVE  Whole(Answer(seen).meta)
<1> DEFINE b == request.buckets
           rows == OfPool(Table("swap", seen[1]), request.pool)
           totals == [i \in 1 .. Count(b) |-> SwapTotals(Group(b, rows, i))]
           price == RunePriceAt(seen[2], LastTime(b))
<1>1. IsBuckets(b)
  BY HistoryRequest DEF HistoryKinds
<1>2. Answer(seen).meta = SwapItem(WholeWindow(b), AddSwapTotals(totals), price)
  BY DEF Answer, SwapHistory
<1>3. rows \in SUBSET Rows /\ \A r \in rows : r.table = "swap"
  BY DEF Table, OfPool
<1>4. InRange(b, rows) = OfPool(InWindow({"swap"}, seen[1], WholeWindow(b)), request.pool)
  BY DEF InWindow, WholeWindow, OfPool, InRange, ToNano, Table
<1> HIDE DEF rows
<1>5. AddSwapTotals(totals) = SwapTotals(InRange(b, rows))
  BY <1>1, <1>3, SwapsAddUp
<1> HIDE DEF totals, price
<1>6. /\ Answer(seen).meta.window = WholeWindow(b)
      /\ Answer(seen).meta.split = AddSwapTotals(totals)
  BY <1>2 DEF SwapItem
<1> QED
  BY <1>4, <1>5, <1>6 DEF Whole

LEMMA MetaOfLiquidity ==
  ASSUME ReadInv, request.kind = "liquidity"
  PROVE  Whole(Answer(seen).meta)
<1> DEFINE b == request.buckets
           rows == OfPool(Table("stake", seen[1]) \cup Table("withdraw", seen[1]), request.pool)
           totals == [i \in 1 .. Count(b) |-> LiquidityTotals(Group(b, rows, i))]
           price == RunePriceAt(seen[2], LastTime(b))
<1>1. IsBuckets(b)
  BY HistoryRequest DEF HistoryKinds
<1>2. Answer(seen).meta = LiquidityItem(WholeWindow(b), AddLiquidityTotals(totals), price)
  BY DEF Answer, LiquidityHistory
<1>3. rows \in SUBSET Rows
  BY DEF Table, OfPool
<1>4. InRange(b, rows)
        = OfPool(InWindow({"stake", "withdraw"}, seen[1], WholeWindow(b)), request.pool)
  BY DEF InWindow, WholeWindow, OfPool, InRange, ToNano, Table
<1> HIDE DEF rows
<1>5. AddLiquidityTotals(totals) = LiquidityTotals(InRange(b, rows))
  BY <1>1, <1>3, LiquidityAddsUp
<1> HIDE DEF totals, price
<1>6. /\ Answer(seen).meta.window = WholeWindow(b)
      /\ Answer(seen).meta.split = AddLiquidityTotals(totals)
  BY <1>2 DEF LiquidityItem
<1> QED
  BY <1>4, <1>5, <1>6 DEF Whole

LEMMA MetaOfEarnings ==
  ASSUME ReadInv, request.kind = "earnings"
  PROVE  Whole(Answer(seen).meta)
<1> DEFINE b == request.buckets
           w == WholeWindow(b)
           price == RunePriceAt(seen[1], LastTime(b))
<1>1. IsBuckets(b)
  BY HistoryRequest DEF HistoryKinds
<1>2. Answer(seen).meta =
        EarningsItem(w, FeesPerPool(InRange(b, Table("swap", seen[2]))),
                     RewardsPerPool(InRange(b, Table("rewardEntry", seen[3]))),
                     BondRewards(InRange(b, Table("rewards", seen[4]))), price)
  BY <1>1, EarningsAddUp DEF Answer, EarningsHistory
<1>3. \A name, height : InRange(b, Table(name, height)) = InWindow({name}, height, w)
  BY DEF InWindow, WholeWindow, InRange, ToNano, Table
<1> HIDE DEF w, price
<1>4. Answer(seen).meta.window = w /\ Answer(seen).meta.price = price
  BY <1>2 DEF EarningsItem
<1> QED
  BY <1>2, <1>3, <1>4 DEF Whole

\* No row falls between the buckets of a history and none is counted twice:
\* every interval has exactly the rows of its window, and meta, which is only
\* added up from the intervals, those of the whole range (swaps.rs:92-125,
\* liquidity.rs, earnings.rs), for any chain, intervals and request.
THEOREM NoRowIsLost == HistorySpec => []NothingFallsBetween
<1>1. ReadInv => MetaWhole
  BY MetaOfSwaps, MetaOfLiquidity, MetaOfEarnings DEF MetaWhole
<1> QED
  BY <1>1, ReadInvHolds, IntervalsAreWhole, PTL DEF NothingFallsBetween

------------------------------------------------------------------------------
\* What was over when a request came.

\* A height that has seen a block at least as late has seen the row.
LEMMA RowIsSeen ==
  ASSUME NEW came \in 0 .. MaxTip, NEW seenAt \in Nat, came <= seenAt,
         NEW r \in Rows, At(r) <= BlockTime[came]
  PROVE  r.height <= seenAt
<1>1. r.height \in 0 .. MaxTip /\ came \in DOMAIN BlockTime
  BY TablesAssumption, HistoryAssumption
<1>2. BlockTime[came] \in Nat /\ At(r) \in Nat
  BY <1>1, TablesAssumption, TimesOfRows
<1>3. ~(came < r.height)
  BY <1>1, <1>2, TablesAssumption DEF At
<1> QED
  BY <1>1, <1>3, HistoryAssumption

\* The rows of a window that was over, or up to a time that was past.
LEMMA WindowIsFinal ==
  ASSUME NEW came \in 0 .. MaxTip, NEW seenAt \in Nat, came <= seenAt, seenAt <= MaxTip,
         NEW names, NEW w, w.until * NanosPerSecond <= BlockTime[came],
         w.until \in Int
  PROVE  InWindow(names, seenAt, w) = InWindow(names, MaxTip, w)
<1>1. BlockTime[came] \in Nat /\ w.until * NanosPerSecond \in Int /\ MaxTip \in Nat
  BY TablesAssumption, HistoryAssumption
<1>2. ASSUME NEW r \in Rows, At(r) < w.until * NanosPerSecond
      PROVE  r.height <= seenAt /\ r.height <= MaxTip
  <2>1. At(r) <= BlockTime[came]
    BY <1>1, <1>2, TimesOfRows
  <2> QED
    BY <1>1, <2>1, RowIsSeen
<1> QED
  BY <1>2 DEF InWindow

LEMMA PastIsFinal ==
  ASSUME NEW came \in 0 .. MaxTip, NEW seenAt \in Nat, came <= seenAt, seenAt <= MaxTip,
         NEW at \in Int, at * NanosPerSecond <= BlockTime[came], NEW name, NEW other, NEW pool
  PROVE  /\ Until(Table(name, seenAt), at) = Until(Table(name, MaxTip), at)
         /\ Until(OfPool(Table(name, seenAt), pool), at)
              = Until(OfPool(Table(name, MaxTip), pool), at)
         /\ Until(OfPool(Table(name, seenAt) \cup Table(other, seenAt), pool), at)
              = Until(OfPool(Table(name, MaxTip) \cup Table(other, MaxTip), pool), at)
<1>1. BlockTime[came] \in Nat /\ at * NanosPerSecond \in Int /\ MaxTip \in Nat
  BY TablesAssumption, HistoryAssumption
<1>2. ASSUME NEW r \in Rows, At(r) <= ToNano(at)
      PROVE  r.height <= seenAt /\ r.height <= MaxTip
  <2>1. At(r) <= BlockTime[came]
    BY <1>1, <1>2, TimesOfRows DEF ToNano
  <2> QED
    BY <1>1, <2>1, RowIsSeen
<1>3. Until(Table(name, seenAt), at) = Until(Table(name, MaxTip), at)
  BY <1>2 DEF Until, Table
<1>4. Until(OfPool(Table(name, seenAt), pool), at) = Until(OfPool(Table(name, MaxTip), pool), at)
  BY <1>2 DEF Until, Table, OfPool
<1>5. Until(OfPool(Table(name, seenAt) \cup Table(other, seenAt), pool), at)
        = Until(OfPool(Table(name, MaxTip) \cup Table(other, MaxTip), pool), at)
  BY <1>2 DEF Until, Table, OfPool
<1> QED
  BY <1>3, <1>4, <1>5

\* The heights of the answer that an interval is compared with.
Latest == [k \in DOMAIN seen |-> MaxTip]

LEMMA SeenIsLate ==
  ASSUME ReadInv, NEW k \in DOMAIN seen
  PROVE  /\ asked.committed \in 0 .. MaxTip /\ seen[k] \in Nat
         /\ asked.committed <= seen[k] /\ seen[k] <= MaxTip /\ Latest[k] = MaxTip
BY HistoryAssumption DEF ReadInv, Latest

\* An interval of a history is over, or the same but for the price.
Finished(w) == w.until * NanosPerSecond <= BlockTime[asked.committed]
Same(one, other) == [one EXCEPT !.price = {}] = [other EXCEPT !.price = {}]

\* Two items that differ in their price alone.
LEMMA PriceAside ==
  ASSUME NEW w, NEW d, NEW u, NEW v, NEW p, NEW q
  PROVE  /\ Same(SwapItem(w, d, p), SwapItem(w, d, q))
         /\ Same(LiquidityItem(w, d, p), LiquidityItem(w, d, q))
         /\ Same(EarningsItem(w, d, u, v, p), EarningsItem(w, d, u, v, q))
         /\ Same(DepthItem(w, d, p), DepthItem(w, d, q))
         /\ Same(TvlItem(w, d, p), TvlItem(w, d, q))
<1> USE DEF Same
<1>1. Same(SwapItem(w, d, p), SwapItem(w, d, q))
  <2> DEFINE Overall(c) == OfAllGroups(d, c)
             slips == [g \in SwapGroups |-> Ratio(d[g].slip, d[g].count)]
             slip == Ratio(Overall("slip"), Overall("count"))
             count == Overall("count")
             volume == Overall("volume")
             fees == Overall("fees")
  <2>1. \A x : SwapItem(w, d, x) =
                [window |-> w, split |-> d, price |-> x, count |-> count, volume |-> volume,
                 fees |-> fees, averageSlip |-> slips, slip |-> slip]
    BY DEF SwapItem
  <2> HIDE DEF slips, slip, count, volume, fees
  <2>2. \A x : [SwapItem(w, d, x) EXCEPT !.price = {}] =
                [window |-> w, split |-> d, price |-> {}, count |-> count, volume |-> volume,
                 fees |-> fees, averageSlip |-> slips, slip |-> slip]
    BY <2>1
  <2> QED
    BY <2>2
<1>2. Same(LiquidityItem(w, d, p), LiquidityItem(w, d, q))
  BY DEF LiquidityItem
<1>3. Same(EarningsItem(w, d, u, v, p), EarningsItem(w, d, u, v, q))
  <2> DEFINE names == DOMAIN d \cup DOMAIN u
             pools == {[pool |-> n, fees |-> OrZero(d, n), rewards |-> OrZero(u, n),
                        earnings |-> OrZero(d, n) + OrZero(u, n)] : n \in names}
             fees == OfAllPools(d, names)
             rewards == OfAllPools(u, names)
  <2>1. \A x : EarningsItem(w, d, u, v, x) =
                [window |-> w, price |-> x, pools |-> pools, fees |-> fees, bond |-> v,
                 blockRewards |-> v + rewards, liquidityEarnings |-> fees + rewards,
                 earnings |-> fees + v + rewards]
    BY DEF EarningsItem
  <2> HIDE DEF pools, fees, rewards
  <2>2. \A x : [EarningsItem(w, d, u, v, x) EXCEPT !.price = {}] =
                [window |-> w, price |-> {}, pools |-> pools, fees |-> fees, bond |-> v,
                 blockRewards |-> v + rewards, liquidityEarnings |-> fees + rewards,
                 earnings |-> fees + v + rewards]
    BY <2>1
  <2> QED
    BY <2>2
<1>4. Same(DepthItem(w, d, p), DepthItem(w, d, q))
  BY DEF DepthItem
<1>5. Same(TvlItem(w, d, p), TvlItem(w, d, q))
  <2> DEFINE pools == {[pool |-> n, total |-> 2 * d[n]] : n \in DOMAIN d}
             pooled == Pooled(d)
  <2>1. \A x : TvlItem(w, d, x) =
                [window |-> w, price |-> x, pools |-> pools, pooled |-> pooled]
    BY DEF TvlItem
  <2> HIDE DEF pools, pooled
  <2>2. \A x : [TvlItem(w, d, x) EXCEPT !.price = {}] =
                [window |-> w, price |-> {}, pools |-> pools, pooled |-> pooled]
    BY <2>1
  <2> QED
    BY <2>2
<1> QED
  BY <1>1, <1>2, <1>3, <1>4, <1>5

\* What its window has does not depend on the height a query saw.
LEMMA OverIsFinal ==
  ASSUME ReadInv, NEW b, IsBuckets(b), NEW i \in 1 .. Count(b), Finished(Window(b, i)),
         NEW k \in DOMAIN seen, NEW names
  PROVE  /\ InWindow(names, seen[k], Window(b, i)) = InWindow(names, Latest[k], Window(b, i))
         /\ b.timestamps[i + 1] \in Int
         /\ b.timestamps[i + 1] * NanosPerSecond <= BlockTime[asked.committed]
<1>1. Window(b, i).until = b.timestamps[i + 1]
  BY DEF Window
<1>2. /\ Window(b, i).until \in Int
      /\ Window(b, i).until * NanosPerSecond <= BlockTime[asked.committed]
  BY <1>1, BoundariesOf DEF Finished
<1>3. /\ asked.committed \in 0 .. MaxTip /\ seen[k] \in Nat
      /\ asked.committed <= seen[k] /\ seen[k] <= MaxTip /\ Latest[k] = MaxTip
  BY SeenIsLate
<1> HIDE DEF Finished
<1>4. InWindow(names, seen[k], Window(b, i)) = InWindow(names, MaxTip, Window(b, i))
  BY <1>2, <1>3, WindowIsFinal
<1> QED
  BY <1>1, <1>2, <1>3, <1>4

LEMMA SwapsStay ==
  ASSUME ReadInv, Done, request.kind = "swaps", NEW i \in DOMAIN Answer(seen).intervals,
         Finished(Answer(seen).intervals[i].window)
  PROVE  Same(Answer(seen).intervals[i], Answer(Latest).intervals[i])
<1> DEFINE b == request.buckets
           mine(heights) == Group(b, OfPool(Table("swap", heights[1]), request.pool), i)
           price(heights) == RunePriceAt(heights[2], LastTime(b))
<1>1. IsBuckets(b)
  BY HistoryRequest DEF HistoryKinds
<1>2. 1 \in DOMAIN seen
  BY DEF Done, Queries, ReadInv
<1>3. \A heights : /\ DOMAIN Answer(heights).intervals = 1 .. Count(b)
                   /\ i \in 1 .. Count(b) => Answer(heights).intervals[i] =
                        SwapItem(Window(b, i), SwapTotals(mine(heights)), price(heights))
  BY DEF Answer, SwapHistory
<1>4. i \in 1 .. Count(b)
  BY <1>3
<1>9. /\ Answer(seen).intervals[i] =
           SwapItem(Window(b, i), SwapTotals(mine(seen)), price(seen))
      /\ Answer(Latest).intervals[i] =
           SwapItem(Window(b, i), SwapTotals(mine(Latest)), price(Latest))
  BY <1>3, <1>4
<1>5. Finished(Window(b, i))
  <2> HIDE DEF Finished
  <2>1. Answer(seen).intervals[i].window = Window(b, i)
    BY <1>9 DEF SwapItem
  <2> QED
    BY <2>1
<1>6. \A heights : mine(heights) =
        OfPool(InWindow({"swap"}, heights[1], Window(b, i)), request.pool)
  BY <1>1, <1>4, GroupOfPool
<1>7. InWindow({"swap"}, seen[1], Window(b, i)) = InWindow({"swap"}, Latest[1], Window(b, i))
  BY <1>1, <1>2, <1>4, <1>5, OverIsFinal
<1>8. mine(seen) = mine(Latest)
  BY <1>6, <1>7
<1> HIDE DEF mine, price
<1> QED
  BY <1>8, <1>9, PriceAside

LEMMA LiquidityStays ==
  ASSUME ReadInv, Done, request.kind = "liquidity", NEW i \in DOMAIN Answer(seen).intervals,
         Finished(Answer(seen).intervals[i].window)
  PROVE  Same(Answer(seen).intervals[i], Answer(Latest).intervals[i])
<1> DEFINE b == request.buckets
           mine(heights) == Group(b, OfPool(Table("stake", heights[1])
                                            \cup Table("withdraw", heights[1]), request.pool), i)
           price(heights) == RunePriceAt(heights[2], LastTime(b))
           names == {"stake", "withdraw"}
<1>1. IsBuckets(b)
  BY HistoryRequest DEF HistoryKinds
<1>2. 1 \in DOMAIN seen
  BY DEF Done, Queries, ReadInv
<1>3. \A heights : /\ DOMAIN Answer(heights).intervals = 1 .. Count(b)
                   /\ i \in 1 .. Count(b) => Answer(heights).intervals[i] =
                        LiquidityItem(Window(b, i), LiquidityTotals(mine(heights)),
                                      price(heights))
  BY DEF Answer, LiquidityHistory
<1>4. i \in 1 .. Count(b)
  BY <1>3
<1>9. /\ Answer(seen).intervals[i] =
           LiquidityItem(Window(b, i), LiquidityTotals(mine(seen)), price(seen))
      /\ Answer(Latest).intervals[i] =
           LiquidityItem(Window(b, i), LiquidityTotals(mine(Latest)), price(Latest))
  BY <1>3, <1>4
<1>5. Finished(Window(b, i))
  <2> HIDE DEF Finished
  <2>1. Answer(seen).intervals[i].window = Window(b, i)
    BY <1>9 DEF LiquidityItem
  <2> QED
    BY <2>1
<1>6. \A heights : mine(heights) = OfPool(InWindow(names, heights[1], Window(b, i)), request.pool)
  BY <1>1, <1>4, GroupOfTwo
<1>7. InWindow(names, seen[1], Window(b, i)) = InWindow(names, Latest[1], Window(b, i))
  BY <1>1, <1>2, <1>4, <1>5, OverIsFinal
<1>8. mine(seen) = mine(Latest)
  BY <1>6, <1>7
<1> HIDE DEF mine, price
<1> QED
  BY <1>8, <1>9, PriceAside

LEMMA EarningsStay ==
  ASSUME ReadInv, Done, request.kind = "earnings", NEW i \in DOMAIN Answer(seen).intervals,
         Finished(Answer(seen).intervals[i].window)
  PROVE  Same(Answer(seen).intervals[i], Answer(Latest).intervals[i])
<1> DEFINE b == request.buckets
           fees(heights) == Group(b, Table("swap", heights[2]), i)
           rewards(heights) == Group(b, Table("rewardEntry", heights[3]), i)
           bond(heights) == Group(b, Table("rewards", heights[4]), i)
           price(heights) == RunePriceAt(heights[1], LastTime(b))
<1>1. IsBuckets(b)
  BY HistoryRequest DEF HistoryKinds
<1>2. {2, 3, 4} \subseteq DOMAIN seen
  BY DEF Done, Queries, ReadInv
<1>3. \A heights : /\ DOMAIN Answer(heights).intervals = 1 .. Count(b)
                   /\ i \in 1 .. Count(b) => Answer(heights).intervals[i] =
                        EarningsItem(Window(b, i), FeesPerPool(fees(heights)),
                                     RewardsPerPool(rewards(heights)),
                                     BondRewards(bond(heights)), price(heights))
  BY DEF Answer, EarningsHistory
<1>4. i \in 1 .. Count(b)
  BY <1>3
<1>9. /\ Answer(seen).intervals[i] =
           EarningsItem(Window(b, i), FeesPerPool(fees(seen)),
                                      RewardsPerPool(rewards(seen)),
                                      BondRewards(bond(seen)), price(seen))
      /\ Answer(Latest).intervals[i] =
           EarningsItem(Window(b, i), FeesPerPool(fees(Latest)),
                                      RewardsPerPool(rewards(Latest)),
                                      BondRewards(bond(Latest)), price(Latest))
  BY <1>3, <1>4
<1>5. Finished(Window(b, i))
  <2> HIDE DEF Finished
  <2>1. Answer(seen).intervals[i].window = Window(b, i)
    BY <1>9 DEF EarningsItem
  <2> QED
    BY <2>1
<1>6. \A heights : /\ fees(heights) = InWindow({"swap"}, heights[2], Window(b, i))
                   /\ rewards(heights) = InWindow({"rewardEntry"}, heights[3], Window(b, i))
                   /\ bond(heights) = InWindow({"rewards"}, heights[4], Window(b, i))
  BY <1>1, <1>4, GroupOfTable
<1>7. \A k \in {2, 3, 4} : \A names :
        InWindow(names, seen[k], Window(b, i)) = InWindow(names, Latest[k], Window(b, i))
  BY <1>1, <1>2, <1>4, <1>5, OverIsFinal
<1>8. fees(seen) = fees(Latest) /\ rewards(seen) = rewards(Latest) /\ bond(seen) = bond(Latest)
  BY <1>6, <1>7
<1> HIDE DEF fees, rewards, bond, price
<1> QED
  BY <1>8, <1>9, PriceAside

\* The state of pools at a time that was past does not depend on it either.
LEMMA SnapshotStays ==
  ASSUME ReadInv, NEW at \in Int, at * NanosPerSecond <= BlockTime[asked.committed],
         NEW k \in DOMAIN seen, NEW l \in DOMAIN seen, NEW pool
  PROVE  SnapshotAt(pool, at, seen[k], seen[l]) = SnapshotAt(pool, at, Latest[k], Latest[l])
<1>1. /\ asked.committed \in 0 .. MaxTip /\ seen[k] \in Nat /\ seen[l] \in Nat
      /\ asked.committed <= seen[k] /\ seen[k] <= MaxTip /\ Latest[k] = MaxTip
      /\ asked.committed <= seen[l] /\ seen[l] <= MaxTip /\ Latest[l] = MaxTip
  BY SeenIsLate
<1>2. Until(OfPool(Table("depth", seen[k]), {pool}), at)
        = Until(OfPool(Table("depth", Latest[k]), {pool}), at)
  BY <1>1, PastIsFinal
<1>3. Until(OfPool(Table("stake", seen[l]) \cup Table("withdraw", seen[l]), {pool}), at)
        = Until(OfPool(Table("stake", Latest[l]) \cup Table("withdraw", Latest[l]), {pool}), at)
  BY <1>1, PastIsFinal
<1> QED
  BY <1>2, <1>3 DEF SnapshotAt

LEMMA PoolDepthsStay ==
  ASSUME ReadInv, NEW at \in Int, at * NanosPerSecond <= BlockTime[asked.committed],
         NEW k \in DOMAIN seen
  PROVE  PoolDepthsAt(seen[k], at) = PoolDepthsAt(Latest[k], at)
<1>1. /\ asked.committed \in 0 .. MaxTip /\ seen[k] \in Nat
      /\ asked.committed <= seen[k] /\ seen[k] <= MaxTip /\ Latest[k] = MaxTip
  BY SeenIsLate
<1>2. Until(Table("depth", seen[k]), at) = Until(Table("depth", Latest[k]), at)
  BY <1>1, PastIsFinal
<1> DEFINE live(rows) == {r \in NewestPerPool(rows) : r.rune > 0}
           depths(rows) == [p \in {r.pool : r \in live(rows)} |->
                              (CHOOSE r \in live(rows) : r.pool = p).rune]
<1>3. \A h : PoolDepthsAt(h, at) = depths(Until(Table("depth", h), at))
  BY DEF PoolDepthsAt
<1> HIDE DEF depths
<1> QED
  BY <1>2, <1>3

LEMMA DepthsStay ==
  ASSUME ReadInv, Done, request.kind = "depths", NEW i \in DOMAIN Answer(seen).intervals,
         Finished(Answer(seen).intervals[i].window)
  PROVE  Same(Answer(seen).intervals[i], Answer(Latest).intervals[i])
<1> DEFINE b == request.buckets
           at(heights) == SnapshotAt(request.pool, b.timestamps[i + 1],
                                     heights[2 * (i + 1)], heights[2 * (i + 1) + 1])
           price(heights) == RunePriceAt(heights[1], LastTime(b))
<1>1. IsBuckets(b)
  BY HistoryRequest DEF HistoryKinds
<1>2. \A heights : /\ DOMAIN Answer(heights).intervals = 1 .. Count(b)
                   /\ i \in 1 .. Count(b) => Answer(heights).intervals[i] =
                        DepthItem(Window(b, i), at(heights), price(heights))
  <2> SUFFICES ASSUME NEW heights
               PROVE  /\ DOMAIN DepthHistory(b, request.pool, heights).intervals = 1 .. Count(b)
                      /\ i \in 1 .. Count(b) =>
                           DepthHistory(b, request.pool, heights).intervals[i] =
                             DepthItem(Window(b, i), at(heights), price(heights))
    BY DEF Answer
  <2>1. Count(b) \in Nat
    BY <1>1 DEF IsBuckets, Count
  <2>2. i \in 1 .. Count(b) => i + 1 \in 1 .. Count(b) + 1
    BY <2>1
  <2> QED
    BY <2>2 DEF DepthHistory
<1>3. i \in 1 .. Count(b)
  BY <1>2
<1>4. /\ Answer(seen).intervals[i] = DepthItem(Window(b, i), at(seen), price(seen))
      /\ Answer(Latest).intervals[i] = DepthItem(Window(b, i), at(Latest), price(Latest))
  BY <1>2, <1>3
<1>5. Finished(Window(b, i))
  <2> HIDE DEF Finished
  <2>1. Answer(seen).intervals[i].window = Window(b, i)
    BY <1>4 DEF DepthItem
  <2> QED
    BY <2>1
<1>6. 2 * (i + 1) \in DOMAIN seen /\ 2 * (i + 1) + 1 \in DOMAIN seen
  <2>1. Len(seen) = 1 + 2 * (Count(b) + 1)
    BY DEF Done, Queries
  <2>2. Count(b) \in Nat /\ seen \in Seq(Nat)
    BY <1>1 DEF IsBuckets, Count, ReadInv
  <2>3. DOMAIN seen = 1 .. Len(seen)
    BY <2>2
  <2> DEFINE n == Count(b)
             len == Len(seen)
  <2>4. n \in Nat /\ len = 1 + 2 * (n + 1) /\ i \in 1 .. n
    BY <1>3, <2>1, <2>2
  <2> HIDE DEF n, len
  <2>5. 2 * (i + 1) \in 1 .. len /\ 2 * (i + 1) + 1 \in 1 .. len
    BY <2>4
  <2> QED
    BY <2>3, <2>5 DEF len
<1>7. /\ b.timestamps[i + 1] \in Int
      /\ b.timestamps[i + 1] * NanosPerSecond <= BlockTime[asked.committed]
  BY <1>1, <1>3, <1>5, <1>6, OverIsFinal
<1>8. at(seen) = at(Latest)
  BY <1>6, <1>7, SnapshotStays
<1> HIDE DEF at, price
<1> QED
  BY <1>4, <1>8, PriceAside

LEMMA TvlStays ==
  ASSUME ReadInv, Done, request.kind = "tvl", NEW i \in DOMAIN Answer(seen).intervals,
         Finished(Answer(seen).intervals[i].window)
  PROVE  Same(Answer(seen).intervals[i], Answer(Latest).intervals[i])
<1> DEFINE b == request.buckets
           at(heights) == PoolDepthsAt(heights[i + 1], b.timestamps[i + 1])
           price(heights) == RunePriceAt(heights[1], LastTime(b))
<1>1. IsBuckets(b)
  BY HistoryRequest DEF HistoryKinds
<1>2. \A heights : /\ DOMAIN Answer(heights).intervals = 1 .. Count(b)
                   /\ i \in 1 .. Count(b) => Answer(heights).intervals[i] =
                        TvlItem(Window(b, i), at(heights), price(heights))
  BY DEF Answer, TvlHistory
<1>3. i \in 1 .. Count(b)
  BY <1>2
<1>4. /\ Answer(seen).intervals[i] = TvlItem(Window(b, i), at(seen), price(seen))
      /\ Answer(Latest).intervals[i] = TvlItem(Window(b, i), at(Latest), price(Latest))
  BY <1>2, <1>3
<1>5. Finished(Window(b, i))
  <2> HIDE DEF Finished
  <2>1. Answer(seen).intervals[i].window = Window(b, i)
    BY <1>4 DEF TvlItem
  <2> QED
    BY <2>1
<1>6. i + 1 \in DOMAIN seen
  <2>1. Len(seen) = Count(b) + 2
    BY DEF Done, Queries
  <2>2. Count(b) \in Nat /\ seen \in Seq(Nat)
    BY <1>1 DEF IsBuckets, Count, ReadInv
  <2> QED
    BY <1>3, <2>1, <2>2
<1>7. /\ b.timestamps[i + 1] \in Int
      /\ b.timestamps[i + 1] * NanosPerSecond <= BlockTime[asked.committed]
  BY <1>1, <1>3, <1>5, <1>6, OverIsFinal
<1>8. at(seen) = at(Latest)
  BY <1>6, <1>7, PoolDepthsStay
<1> HIDE DEF at, price
<1> QED
  BY <1>4, <1>8, PriceAside

\* An interval that was over when the request came is answered for good, in
\* spite of what is committed between its queries and after them: for every
\* kind of history, however the blocks and the buckets lie (depths.rs:3-7,
\* liquidity.rs:3-6).
THEOREM ClosedIntervalsStay == HistorySpec => []ClosedIntervalsFinal
<1>1. ASSUME ReadInv, Done, request.kind \in HistoryKinds,
             NEW i \in DOMAIN Answer(seen).intervals, Finished(Answer(seen).intervals[i].window)
      PROVE  Same(Answer(seen).intervals[i], Answer(Latest).intervals[i])
  <2> HIDE DEF Finished, Same
  <2> QED
    BY <1>1, SwapsStay, LiquidityStays, EarningsStay, DepthsStay, TvlStays DEF HistoryKinds
<1>2. ReadInv => ClosedIntervalsFinal
  <2>1. ASSUME ReadInv, Done, request.kind \in HistoryKinds,
               NEW i \in DOMAIN Answer(seen).intervals,
               Answer(seen).intervals[i].window.until * NanosPerSecond
                 <= BlockTime[asked.committed]
        PROVE  [Answer(seen).intervals[i] EXCEPT !.price = {}]
                 = [Answer(Latest).intervals[i] EXCEPT !.price = {}]
    BY <1>1, <2>1 DEF Finished, Same
  <2> QED
    BY <2>1 DEF ClosedIntervalsFinal, Latest
<1> QED
  BY <1>2, ReadInvHolds, PTL

------------------------------------------------------------------------------
\* Members.

LEMMA UnitsAre == ASSUME NEW T PROVE Units(T) = Total([r \in T |-> UnitsOf(r)])
BY Zenon DEF Units, Total, MapThenSumSet, MapThenFoldSet

\* Deposits and withdrawals, of all pools or of one.
AllMoves == {r \in Rows : r.table \in {"stake", "withdraw"}}
OfOnePool(moves) == \A q, r \in moves : q.pool = r.pool

\* What the queries group by is the address of the provider's account, and in a
\* pool the account itself.
LEMMA MemberIsAccount ==
  ASSUME NEW moves \in SUBSET AllMoves
  PROVE  /\ \A r \in moves : MemberOf(r) = AddressOf(r.account) /\ MemberOf(r) # {}
         /\ \A q, r \in moves :
              q.pool = r.pool /\ MemberOf(q) = MemberOf(r) => q.account = r.account
<1>1. \A r \in moves : MemberOf(r) = AddressOf(r.account) /\ AddressOf(r.account) # {}
  BY AccountsAssumption DEF MemberOf, AddressOf, AllMoves
<1>2. \A q, r \in moves :
        q.pool = r.pool /\ AddressOf(q.account) = AddressOf(r.account) => q.account = r.account
  BY AccountsAssumption DEF AllMoves
<1> QED
  BY <1>1, <1>2

LEMMA HoldingIsHolders ==
  ASSUME NEW moves \in SUBSET AllMoves, OfOnePool(moves)
  PROVE  /\ Holding(moves) = {AddressOf(a) : a \in Holders(moves)}
         /\ {} \notin Holding(moves)
         /\ \A a, c \in Holders(moves) : AddressOf(a) = AddressOf(c) => a = c
         /\ IsFiniteSet(Holders(moves))
<1>1. /\ \A r \in moves : MemberOf(r) = AddressOf(r.account) /\ MemberOf(r) # {}
      /\ \A q, r \in moves : MemberOf(q) = MemberOf(r) => q.account = r.account
  BY MemberIsAccount DEF OfOnePool
<1>2. ASSUME NEW r \in moves
      PROVE  {q \in moves : MemberOf(q) = MemberOf(r)} = {q \in moves : q.account = r.account}
  BY <1>1
<1>3. \A a, c \in Holders(moves) : AddressOf(a) = AddressOf(c) => a = c
  BY <1>1 DEF Holders
<1>4. ASSUME NEW m \in Holding(moves)
      PROVE  \E a \in Holders(moves) : m = AddressOf(a)
  <2>1. PICK r \in moves : m = MemberOf(r)
    BY DEF Holding
  <2>2. Units({q \in moves : MemberOf(q) = MemberOf(r)}) > 0
    BY <2>1 DEF Holding
  <2>3. r.account \in Holders(moves)
    BY <1>2, <2>2 DEF Holders
  <2> QED
    BY <1>1, <2>1, <2>3
<1>5. ASSUME NEW a \in Holders(moves)
      PROVE  AddressOf(a) \in Holding(moves)
  <2>1. PICK r \in moves : a = r.account
    BY DEF Holders
  <2>2. Units({q \in moves : q.account = r.account}) > 0
    BY <2>1 DEF Holders
  <2>3. MemberOf(r) \in Holding(moves)
    BY <1>2, <2>2 DEF Holding
  <2> QED
    BY <1>1, <2>1, <2>3
<1>6. {} \notin Holding(moves)
  BY <1>1 DEF Holding
<1>7. IsFiniteSet(Holders(moves))
  <2>1. IsFiniteSet(moves)
    BY RowsAssumption, FS_Subset DEF AllMoves
  <2> DEFINE accounts == {r.account : r \in moves}
             f == [r \in moves |-> r.account]
  <2>2. f \in Surjection(moves, accounts)
    BY Fun_IsSurj
  <2>3. IsFiniteSet(accounts)
    BY <2>1, <2>2, FS_Surjection
  <2> QED
    BY <2>3, FS_Subset DEF Holders
<1> QED
  BY <1>3, <1>4, <1>5, <1>6, <1>7

LEMMA HoldersCounted ==
  ASSUME NEW moves \in SUBSET AllMoves, OfOnePool(moves)
  PROVE  Cardinality(Holding(moves)) = Cardinality(Holders(moves))
<1> DEFINE S == Holders(moves)
           T == Holding(moves)
           f == [a \in S |-> AddressOf(a)]
<1>1. f \in Bijection(S, T)
  <2>1. T = {AddressOf(a) : a \in S} /\ \A a, c \in S : AddressOf(a) = AddressOf(c) => a = c
    BY HoldingIsHolders
  <2> HIDE DEF S, T
  <2> QED
    BY <2>1, Fun_IsBij
<1>2. IsFiniteSet(S)
  BY HoldingIsHolders
<1>3. ExistsBijection(S, T)
  BY <1>1, Fun_ExistsBij
<1> QED
  BY <1>2, <1>3, FS_Bijection

\* The moves of all pools: where no balance is negative, an address has units
\* left over all if an account of it has some in one pool.
LEMMA HoldingOverPools ==
  ASSUME NEW moves \in SUBSET AllMoves,
         \A p \in Pools : \A a \in {r.account : r \in WithPool(moves, p)} :
           Units({r \in WithPool(moves, p) : r.account = a}) >= 0
  PROVE  Holding(moves) = UNION {{AddressOf(a) : a \in Holders(WithPool(moves, p))} : p \in Pools}
<1> DEFINE I == {r.pool : r \in moves}
           Of(m) == {r \in moves : MemberOf(r) = m}
           Mine(m, p) == WithPool(Of(m), p)
           f == [r \in moves |-> UnitsOf(r)]
<1>1. /\ \A r \in moves : MemberOf(r) = AddressOf(r.account) /\ MemberOf(r) # {}
      /\ \A q, r \in moves : q.pool = r.pool /\ MemberOf(q) = MemberOf(r) => q.account = r.account
  BY MemberIsAccount
<1>2. IsFiniteSet(moves) /\ IsFiniteSet(I)
  <2>1. IsFiniteSet(moves)
    BY RowsAssumption, FS_Subset DEF AllMoves
  <2> DEFINE g == [r \in moves |-> r.pool]
  <2>2. g \in Surjection(moves, I)
    BY Fun_IsSurj
  <2> QED
    BY <2>1, <2>2, FS_Surjection
<1>3. /\ \A r \in moves : r.pool \in Pools /\ UnitsOf(r) \in Int
      /\ f \in [moves -> Int] /\ I \subseteq Pools
  BY RowsAssumption DEF AllMoves, UnitsOf
<1>4. ASSUME NEW T \in SUBSET moves PROVE Units(T) = Over(f, T) /\ Over(f, T) \in Int
  <2>1. Part(f, T) = [r \in T |-> UnitsOf(r)]
    BY DEF Part
  <2>2. Units(T) = Over(f, T)
    BY <2>1, UnitsAre DEF Over
  <2> HIDE DEF f
  <2> QED
    BY <1>2, <1>3, <2>2, OverPick
<1>5. ASSUME NEW m, NEW p, NEW q \in Mine(m, p)
      PROVE  /\ q \in moves /\ q.pool = p /\ MemberOf(q) = m
             /\ q.account \in {r.account : r \in WithPool(moves, p)}
             /\ Over(f, Mine(m, p)) = Units({r \in WithPool(moves, p) : r.account = q.account})
  <2>1. q \in moves /\ q.pool = p /\ MemberOf(q) = m
    BY DEF WithPool
  <2>2. Mine(m, p) = {r \in WithPool(moves, p) : r.account = q.account}
    BY <1>1, <2>1 DEF WithPool
  <2>3. q.account \in {r.account : r \in WithPool(moves, p)}
    BY <2>1 DEF WithPool
  <2>4. Mine(m, p) \in SUBSET moves
    BY DEF WithPool
  <2> HIDE DEF Mine, f
  <2> QED
    BY <1>4, <2>1, <2>2, <2>3, <2>4
<1>6. Over(f, {}) = 0
  <2>1. {} \in SUBSET moves
    OBVIOUS
  <2> HIDE DEF f
  <2> QED
    BY <1>2, <1>3, <2>1, OverPick
<1>7. ASSUME NEW m, NEW p \in Pools PROVE Over(f, Mine(m, p)) \in Nat
  <2>1. Mine(m, p) \in SUBSET moves
    BY DEF WithPool
  <2> HIDE DEF Mine, f
  <2>2. CASE Mine(m, p) = {}
    BY <1>6, <2>2
  <2>3. CASE Mine(m, p) # {}
    <3>1. PICK q \in Mine(m, p) : TRUE
      BY <2>3
    <3>2. /\ q.account \in {r.account : r \in WithPool(moves, p)}
          /\ Over(f, Mine(m, p)) = Units({r \in WithPool(moves, p) : r.account = q.account})
      BY <1>5, <3>1
    <3>3. Over(f, Mine(m, p)) >= 0
      BY <3>2
    <3> QED
      BY <1>4, <2>1, <3>3
  <2> QED
    BY <2>2, <2>3
<1>8. ASSUME NEW m PROVE Units(Of(m)) > 0 <=> \E p \in I : Over(f, Mine(m, p)) > 0
  <2> DEFINE G == [p \in I |-> Mine(m, p)]
             h == [p \in I |-> Over(f, Mine(m, p))]
  <2>1. G \in [I -> SUBSET moves] /\ \A i, j \in I : i # j => G[i] \cap G[j] = {}
    BY DEF WithPool
  <2>2. Of(m) \in SUBSET moves
    OBVIOUS
  <2>3. Of(m) = UNION {G[i] : i \in I}
    <3>1. ASSUME NEW r \in Of(m) PROVE r.pool \in I /\ r \in G[r.pool]
      BY DEF WithPool
    <3>2. ASSUME NEW i \in I, NEW r \in G[i] PROVE r \in Of(m)
      BY DEF WithPool
    <3> HIDE DEF G, I, Of
    <3> QED
      BY <3>1, <3>2
  <2>4. h = [i \in I |-> Over(f, G[i])]
    OBVIOUS
  <2> HIDE DEF Mine, f
  <2>5. h \in [I -> Nat] /\ \A p \in I : h[p] = Over(f, Mine(m, p))
    BY <1>3, <1>7
  <2> HIDE DEF I, Of, G, h
  <2>6. Over(f, UNION {G[i] : i \in I}) = Over([i \in I |-> Over(f, G[i])], I)
    BY <1>2, <1>3, <2>1, OverFamily
  <2>7. Units(Of(m)) = Over(h, I)
    BY <1>4, <2>2, <2>3, <2>4, <2>6
  <2>8. Over(h, I) > 0 <=> \E p \in I : h[p] > 0
    BY <1>2, <2>5, PositiveSum
  <2> QED
    BY <2>5, <2>7, <2>8
<1> HIDE DEF f
<1>9. ASSUME NEW m \in Holding(moves)
      PROVE  \E p \in Pools : \E a \in Holders(WithPool(moves, p)) : m = AddressOf(a)
  <2>1. Units(Of(m)) > 0
    BY DEF Holding
  <2> HIDE DEF Of
  <2>2. PICK p \in I : Over(f, Mine(m, p)) > 0
    BY <1>8, <2>1
  <2> HIDE DEF Mine
  <2>3. Mine(m, p) # {}
    BY <1>6, <2>2
  <2>4. PICK q \in Mine(m, p) : TRUE
    BY <2>3
  <2>5. /\ q \in moves /\ MemberOf(q) = m /\ q.account \in {r.account : r \in WithPool(moves, p)}
        /\ Over(f, Mine(m, p)) = Units({r \in WithPool(moves, p) : r.account = q.account})
    BY <1>5, <2>4
  <2>6. q.account \in Holders(WithPool(moves, p))
    BY <2>2, <2>5 DEF Holders
  <2>7. m = AddressOf(q.account) /\ p \in Pools
    BY <1>1, <1>3, <2>2, <2>5
  <2> QED
    BY <2>6, <2>7
<1>10. ASSUME NEW p \in Pools, NEW a \in Holders(WithPool(moves, p))
       PROVE  AddressOf(a) \in Holding(moves)
  <2> DEFINE m == AddressOf(a)
  <2>1. PICK q \in WithPool(moves, p) : q.account = a
    BY DEF Holders
  <2>2. q \in moves /\ q.pool = p /\ p \in I /\ MemberOf(q) = m /\ q \in Mine(m, p)
    BY <1>1, <2>1 DEF WithPool
  <2> HIDE DEF Mine, m
  <2>3. Over(f, Mine(m, p)) = Units({r \in WithPool(moves, p) : r.account = q.account})
    BY <1>5, <2>2
  <2>4. Over(f, Mine(m, p)) > 0
    BY <2>1, <2>3 DEF Holders
  <2>5. Units(Of(m)) > 0
    <3> HIDE DEF Of
    <3> QED
      BY <1>8, <2>2, <2>4
  <2>6. m \in {MemberOf(r) : r \in moves}
    BY <2>2
  <2>7. m \in Holding(moves)
    BY <2>5, <2>6 DEF Holding
  <2> QED
    BY <2>7 DEF m
<1> QED
  BY <1>9, <1>10

\* A member is who holds units by THORChain's own account: the list of a pool
\* names every provider with a balance once and nobody else, the list of all pools
\* whoever holds in one of them, and a depth history counts them at each boundary
\* (members.rs:32-47, depths.rs:131-146), whatever was deposited and withdrawn and
\* whatever is committed between the queries; one provider may use one RUNE address
\* with another asset address in every pool.
THEOREM MembersHoldUnits == HistorySpec => []MembersAreHolders
<1>1. \A pool, height :
        /\ OfPool(Table("stake", height) \cup Table("withdraw", height), pool)
             = Moves(pool, height)
        /\ Moves(pool, height) \in SUBSET AllMoves
  BY DEF Moves, OfPool, Table, AllMoves
<1>2. \A p, height : OfOnePool(Moves({p}, height))
  BY DEF Moves, OfPool, OfOnePool
<1>3. ASSUME ReadInv, Done, request.kind = "members", request.pool # {}
      PROVE  Members(request.pool, seen[1]) = UNION {HoldersOf(p, seen[1]) : p \in request.pool}
  <2>1. \A p, q \in request.pool : p = q
    BY <1>3, HistoryAssumption DEF ReadInv
  <2>2. PICK p : request.pool = {p}
    BY <1>3, <2>1
  <2>3. Members({p}, seen[1]) = HoldersOf(p, seen[1])
    BY <1>1, <1>2, HoldingIsHolders DEF Members, HoldersOf
  <2>4. UNION {HoldersOf(q, seen[1]) : q \in {p}} = HoldersOf(p, seen[1])
    OBVIOUS
  <2> QED
    BY <2>2, <2>3, <2>4
<1>4. ASSUME NEW height, NobodyOwes(height)
      PROVE  Members({}, height) = UNION {HoldersOf(p, height) : p \in Pools}
  <2> DEFINE all == Moves({}, height)
  <2>1. \A p : Moves({p}, height) = WithPool(all, p)
    BY DEF Moves, OfPool, WithPool
  <2>2. all \in SUBSET AllMoves
    BY <1>1
  <2>3. \A p \in Pools : \A a \in {r.account : r \in WithPool(all, p)} :
          Units({r \in WithPool(all, p) : r.account = a}) >= 0
    BY <1>4, <2>1 DEF NobodyOwes
  <2>4. \A p : HoldersOf(p, height) = {AddressOf(a) : a \in Holders(WithPool(all, p))}
    BY <2>1 DEF HoldersOf
  <2>5. Members({}, height) = {m \in Holding(all) : m # {}}
    BY <1>1 DEF Members
  <2> HIDE DEF all
  <2>6. \A m \in Holding(all) : m # {}
    BY <2>2, MemberIsAccount DEF Holding
  <2> QED
    BY <2>2, <2>3, <2>4, <2>5, <2>6, HoldingOverPools
<1>5. ASSUME ReadInv, Done, request.kind = "depths", NEW i \in DOMAIN Answer(seen).intervals
      PROVE  Answer(seen).intervals[i].members = Cardinality(Holders(
               {r \in Moves({request.pool}, seen[2 * i + 3]) :
                  At(r) <= Answer(seen).intervals[i].window.until * NanosPerSecond}))
  <2> DEFINE b == request.buckets
             at == SnapshotAt(request.pool, b.timestamps[i + 1],
                              seen[2 * (i + 1)], seen[2 * (i + 1) + 1])
             price == RunePriceAt(seen[1], LastTime(b))
             moves == {r \in Moves({request.pool}, seen[2 * i + 3]) :
                         At(r) <= b.timestamps[i + 1] * NanosPerSecond}
  <2>1. IsBuckets(b)
    BY <1>5, HistoryRequest DEF HistoryKinds
  <2>2. Count(b) \in Nat
    BY <2>1 DEF IsBuckets, Count
  <2>3. /\ i \in 1 .. Count(b)
        /\ Answer(seen).intervals[i] = DepthItem(Window(b, i), at, price)
    <3>1. Answer(seen) = DepthHistory(b, request.pool, seen)
      BY <1>5 DEF Answer
    <3>2. i \in 1 .. Count(b)
      BY <1>5, <3>1 DEF DepthHistory
    <3>3. i + 1 \in 1 .. Count(b) + 1
      BY <2>2, <3>2
    <3> QED
      BY <3>1, <3>2, <3>3 DEF DepthHistory
  <2>4. 2 * (i + 1) + 1 = 2 * i + 3
    BY <2>2, <2>3
  <2>5. at.members = Cardinality(Holding(moves))
    BY <1>1, <2>4 DEF SnapshotAt, Until, ToNano
  <2>6. Cardinality(Holding(moves)) = Cardinality(Holders(moves))
    <3>1. moves \in SUBSET Moves({request.pool}, seen[2 * i + 3])
      OBVIOUS
    <3> HIDE DEF moves
    <3>2. moves \in SUBSET AllMoves
      BY <1>1, <3>1
    <3>3. OfOnePool(Moves({request.pool}, seen[2 * i + 3]))
      BY <1>2
    <3>4. OfOnePool(moves)
      BY <3>1, <3>3 DEF OfOnePool
    <3> QED
      BY <3>2, <3>4, HoldersCounted
  <2>7. /\ Answer(seen).intervals[i].members = at.members
        /\ Answer(seen).intervals[i].window.until = b.timestamps[i + 1]
    BY <2>3 DEF DepthItem, Window
  <2> QED
    BY <2>5, <2>6, <2>7
<1>6. ReadInv => MembersAreHolders
  BY <1>3, <1>4, <1>5 DEF MembersAreHolders
<1> QED
  BY <1>6, ReadInvHolds, PTL

\* A finite set that is not empty has an element with the least key.
LEMMA LeastKey ==
  ASSUME NEW S, IsFiniteSet(S), S # {}, NEW key \in [S -> Int]
  PROVE  \E m \in S : \A x \in S : key[m] <= key[x]
<1> DEFINE C == {T \in SUBSET S : T = {} \/ \E m \in T : \A x \in T : key[m] <= key[x]}
<1>1. {} \in C
  OBVIOUS
<1>2. ASSUME NEW T \in SUBSET S, NEW x \in S, T \in C, x \notin T PROVE T \cup {x} \in C
  <2>1. CASE T = {}
    <3>1. key[x] <= key[x] /\ T \cup {x} = {x}
      BY <2>1
    <3> QED
      BY <3>1
  <2>2. CASE T # {}
    <3>1. PICK m \in T : \A y \in T : key[m] <= key[y]
      BY <1>2, <2>2
    <3>2. key[m] \in Int /\ key[x] \in Int /\ \A y \in T : key[y] \in Int
      BY <3>1
    <3>3. CASE key[m] <= key[x]
      BY <3>1, <3>3
    <3>4. CASE ~(key[m] <= key[x])
      <4>1. \A y \in T \cup {x} : key[x] <= key[y]
        BY <3>1, <3>2, <3>4
      <4> QED
        BY <4>1
    <3> QED
      BY <3>3, <3>4
  <2> QED
    BY <2>1, <2>2
<1> HIDE DEF C
<1>3. S \in C
  BY <1>1, <1>2, FiniteInduction
<1> QED
  BY <1>3 DEF C

\* A finite set can be listed with the keys descending.
LEMMA Sortable ==
  ASSUME NEW S, IsFiniteSet(S), NEW key \in [S -> Int]
  PROVE  \E s \in SetToSeqs(S) : \A i, j \in DOMAIN s : i < j => key[s[i]] >= key[s[j]]
<1> DEFINE Listed(T, n) == \E s \in [1 .. n -> T] :
             /\ \A i, j \in 1 .. n : i # j => s[i] # s[j]
             /\ \A i, j \in 1 .. n : i < j => key[s[i]] >= key[s[j]]
           Good == {n \in Nat : \A T \in SUBSET S : Cardinality(T) = n => Listed(T, n)}
<1>1. \A T \in SUBSET S : IsFiniteSet(T) /\ Cardinality(T) \in Nat
  BY FS_Subset, FS_CardinalityType
<1>2. 0 \in Good
  <2>1. \A T : <<>> \in [1 .. 0 -> T] /\ 1 .. 0 = {}
    OBVIOUS
  <2> QED
    BY <2>1
<1>3. ASSUME NEW n \in Good PROVE n + 1 \in Good
  <2>1. n \in Nat
    OBVIOUS
  <2>2. ASSUME NEW T \in SUBSET S, Cardinality(T) = n + 1 PROVE Listed(T, n + 1)
    <3>1. T # {}
      <4>1. Cardinality({}) = 0 /\ n + 1 # 0
        BY <2>1, FS_EmptySet
      <4> HIDE DEF Good
      <4> QED
        BY <2>2, <4>1
    <3>2. PICK m \in T : \A x \in T : key[m] <= key[x]
      <4> DEFINE k == [x \in T |-> key[x]]
      <4>1. k \in [T -> Int]
        OBVIOUS
      <4> HIDE DEF k
      <4>2. \E m \in T : \A x \in T : k[m] <= k[x]
        BY <1>1, <3>1, <4>1, LeastKey
      <4> QED
        BY <4>2 DEF k
    <3>3. T \ {m} \in SUBSET S /\ Cardinality(T \ {m}) = n
      <4>1. Cardinality(T \ {m}) = Cardinality(T) - 1
        BY <1>1, <3>2, FS_RemoveElement
      <4> QED
        BY <2>1, <2>2, <4>1
    <3>4. PICK s \in [1 .. n -> T \ {m}] :
            /\ \A i, j \in 1 .. n : i # j => s[i] # s[j]
            /\ \A i, j \in 1 .. n : i < j => key[s[i]] >= key[s[j]]
      BY <1>3, <3>3
    <3> DEFINE u == [i \in 1 .. n + 1 |-> IF i = n + 1 THEN m ELSE s[i]]
    <3>5. \A i \in 1 .. n : i \in 1 .. n + 1 /\ i # n + 1 /\ u[i] = s[i] /\ s[i] \in T \ {m}
      BY <2>1, <3>4
    <3>6. u[n + 1] = m /\ 1 .. n + 1 = 1 .. n \cup {n + 1} /\ u \in [1 .. n + 1 -> T]
      BY <2>1, <3>2, <3>4
    <3> HIDE DEF u
    <3>7. \A i, j \in 1 .. n + 1 : i # j => u[i] # u[j]
      BY <3>4, <3>5, <3>6
    <3>8. ASSUME NEW i \in 1 .. n + 1, NEW j \in 1 .. n + 1, i < j
          PROVE  key[u[i]] >= key[u[j]]
      <4>1. i \in 1 .. n
        BY <2>1, <3>8
      <4>2. CASE j = n + 1
        <5>1. u[i] \in T /\ key[m] <= key[u[i]] /\ key[m] \in Int /\ key[u[i]] \in Int
          BY <3>2, <3>5, <4>1
        <5> QED
          BY <3>6, <4>2, <5>1
      <4>3. CASE j # n + 1
        <5>1. j \in 1 .. n
          BY <2>1, <4>3
        <5> QED
          BY <3>4, <3>5, <3>8, <4>1, <5>1
      <4> QED
        BY <4>2, <4>3
    <3> QED
      BY <3>6, <3>7, <3>8
  <2> QED
    BY <2>1, <2>2
<1> HIDE DEF Good
<1>4. Cardinality(S) \in Good
  <2>1. Good \subseteq Nat
    BY DEF Good
  <2> QED
    BY <1>1, <1>2, <1>3, <2>1, NaturalInduction
<1>5. Listed(S, Cardinality(S))
  BY <1>4 DEF Good
<1> QED
  BY <1>5 DEF SetToSeqs

------------------------------------------------------------------------------
\* Two endpoints on one figure.

\* No query saw more than is committed, and the cursor is on the chain.
AgreeInv ==
  /\ ReadInv
  /\ published \in 0 .. MaxTip /\ asked.published \in 0 .. MaxTip
  /\ \A k \in DOMAIN seen : seen[k] <= committed

LEMMA AgreeInit == HistoryInit => AgreeInv
BY ReadInit, HistoryAssumption DEF HistoryInit, AgreeInv

LEMMA AgreeStep == AgreeInv /\ [HistoryNext]_historyVars => AgreeInv'
<1> SUFFICES ASSUME AgreeInv, [HistoryNext]_historyVars PROVE AgreeInv'
  OBVIOUS
<1>1. ReadInv /\ ReadInv'
  BY ReadStep DEF AgreeInv
<1> USE HistoryAssumption DEF AgreeInv
<1>2. CASE Reject
  BY <1>1, <1>2 DEF Reject
<1>3. CASE Ask
  BY <1>1, <1>3 DEF Ask
<1>4. CASE Query
  <2>1. seen' = Append(seen, committed) /\ UNCHANGED <<committed, published, asked>>
    BY <1>4 DEF Query
  <2>2. \A k \in DOMAIN seen' : (k \in DOMAIN seen /\ seen'[k] = seen[k]) \/ seen'[k] = committed
    BY <1>1, <2>1 DEF ReadInv
  <2>3. committed <= committed
    BY <1>1 DEF ReadInv
  <2> QED
    BY <1>1, <2>1, <2>2, <2>3
<1>5. CASE Index
  <2>1. UNCHANGED <<asked, seen>>
    BY <1>5 DEF Index
  <2>2. committed <= committed' /\ published' \in 0 .. MaxTip
    BY <1>1, <1>5 DEF Index, Loop!Commit, Loop!Publish, Loop!After, ReadInv
  <2>3. \A k \in DOMAIN seen : seen[k] <= committed'
    BY <1>1, <2>2 DEF ReadInv
  <2> QED
    BY <1>1, <2>1, <2>2, <2>3
<1>6. CASE UNCHANGED historyVars
  BY <1>1, <1>6 DEF historyVars
<1> QED
  BY <1>2, <1>3, <1>4, <1>5, <1>6 DEF HistoryNext

LEMMA AgreeInvHolds == HistorySpec => []AgreeInv
BY AgreeInit, AgreeStep, PTL DEF HistorySpec

\* Every row up to a height is from before a time.
Recent(height, now) == \A r \in Rows : r.height <= height => At(r) < ToNano(now)

\* What is committed is from before the cursor's now, if the cursor is not behind.
LEMMA CommittedIsRecent ==
  ASSUME AgreeInv, committed <= asked.published
  PROVE  Recent(committed, Now) /\ Now \in Nat
<1> DEFINE p == asked.published
           n == BlockTime[p]
           s == ToSecond(n)
<1>1. p \in DOMAIN BlockTime /\ n \in Nat /\ committed \in Nat /\ p \in Nat
  <2>1. p \in 0 .. MaxTip /\ committed \in 0 .. MaxTip
    BY DEF AgreeInv, ReadInv
  <2>2. DOMAIN BlockTime = 0 .. MaxTip
    BY HistoryAssumption
  <2>3. BlockTime[p] \in Nat
    BY <2>1, <2>2, TablesAssumption
  <2> QED
    BY <2>1, <2>2, <2>3
<1>2. s \in Nat /\ n < (s + 1) * NanosPerSecond
  <2>1. NanosPerSecond \in Nat \ {0}
    BY TablesAssumption
  <2> HIDE DEF n, p
  <2> QED
    BY <1>1, <2>1, QuotientBrackets DEF ToSecond
<1>3. Now = s + 1
  BY DEF Now, NowSecond
<1>4. (s + 1) * NanosPerSecond \in Nat
  BY <1>2, TablesAssumption
<1> HIDE DEF s
<1>5. ASSUME NEW r \in Rows, r.height <= committed PROVE At(r) < ToNano(Now)
  <2>1. r.height \in DOMAIN BlockTime /\ r.height \in Nat /\ At(r) \in Nat
    BY TimesOfRows, HistoryAssumption
  <2>2. At(r) <= n
    <3>1. CASE r.height = p
      BY <1>1, <3>1 DEF At
    <3>2. CASE r.height < p
      BY <1>1, <2>1, <3>2, TablesAssumption DEF At
    <3>3. r.height <= p
      BY <1>1, <1>5, <2>1
    <3> QED
      BY <1>1, <2>1, <3>1, <3>2, <3>3
  <2> HIDE DEF n
  <2> QED
    BY <1>1, <1>2, <1>3, <1>4, <2>1, <2>2 DEF ToNano
<1> QED
  BY <1>2, <1>3, <1>5 DEF Recent

\* A history without intervals has one group: the rows of its window.
SpanOf(from, until) == [interval |-> "none", timestamps |-> <<from, until>>]

LEMMA SpanIs ==
  ASSUME NEW from, NEW until
  PROVE  /\ Count(SpanOf(from, until)) = 1 /\ 1 .. Count(SpanOf(from, until)) = {1}
         /\ FirstTime(SpanOf(from, until)) = from /\ LastTime(SpanOf(from, until)) = until
         /\ SpanOf(from, until).timestamps[2] = until
         /\ \A rows : Group(SpanOf(from, until), rows, 1) = Within(rows, from, until)
<1> DEFINE b == SpanOf(from, until)
<1>1. Count(b) = 1 /\ FirstTime(b) = from /\ LastTime(b) = until
      /\ b.timestamps[2] = until /\ b.timestamps[1] = from /\ b.interval = "none"
  BY DEF SpanOf, Count, FirstTime, LastTime
<1> HIDE DEF b
<1>2. ASSUME NEW rows PROVE Group(b, rows, 1) = Within(rows, from, until)
  BY <1>1 DEF Group, Truncated
<1> QED
  BY <1>1, <1>2 DEF b

\* What is recent is in the window up to now as it is in the time since.
LEMMA SinceIsWithin ==
  ASSUME NEW height, NEW now, Recent(height, now), NEW rows \in SUBSET Rows,
         \A r \in rows : r.height <= height, NEW from
  PROVE  Within(rows, from, now) = Since(rows, from)
BY DEF Within, Since, Recent

LEMMA TotalOfOne ==
  ASSUME NEW v \in Int
  PROVE  Total([i \in {1} |-> v]) = v
<1> DEFINE f == [i \in {1} |-> v]
<1>1. f \in [{1} -> Int] /\ f[1] = v /\ Part(f, {1}) = f
  BY DEF Part
<1> HIDE DEF f
<1>2. IsFiniteSet({1})
  BY FS_Singleton
<1>3. Over(f, {1}) = f[1] + Over(f, {1} \ {1}) /\ Over(f, {}) = 0
  BY <1>1, <1>2, OverPick
<1>4. {1} \ {1} = {}
  OBVIOUS
<1> QED
  BY <1>1, <1>3, <1>4 DEF Over, f

\* The 24h volume is the volume of a swap history: the four directions make up
\* every swap, and its RUNE side is the same one in both queries.
LEMMA GroupsFinite == IsFiniteSet(SwapGroups)
<1>1. SwapGroups = ({"toAsset"} \cup {"toRune"}) \cup ({"synthMint"} \cup {"synthRedeem"})
  BY DEF SwapGroups
<1> QED
  BY <1>1, FS_Singleton, FS_Union

LEMMA VolumesAgree ==
  ASSUME NEW height, NEW now, Recent(height, now), NEW from, NEW pool, NEW heights,
         heights[1] = height
  PROVE  SwapHistory(SpanOf(from, now), {pool}, heights).meta.volume
           = SwapVolumeSince(pool, from, height)
<1> DEFINE b == SpanOf(from, now)
           rows == OfPool(Table("swap", height), {pool})
           T == Since(rows, from)
           totals == [i \in {1} |-> SwapTotals(T)]
           price == RunePriceAt(heights[2], now)
           volume == SwapColumn("volume")
           G == [g \in SwapGroups |-> OfGroup(T, g)]
<1>1. /\ rows \in SUBSET Rows /\ T \in SUBSET Rows /\ volume \in [Rows -> Int]
      /\ \A r \in rows : r.table = "swap" /\ r.height <= height
      /\ \A r \in T : r.table = "swap"
  BY SwapColumnType DEF OfPool, Table, Since, SwapFigures
<1> HIDE DEF rows
<1>2. SwapHistory(b, {pool}, heights).meta = SwapItem(WholeWindow(b), AddSwapTotals(totals), price)
  <2>1. Group(b, rows, 1) = T
    BY <1>1, SpanIs, SinceIsWithin
  <2>2. [i \in 1 .. Count(b) |-> SwapTotals(Group(b, rows, i))] = totals
    BY <2>1, SpanIs
  <2>3. LastTime(b) = now
    BY SpanIs
  <2> HIDE DEF b, totals
  <2> QED
    BY <2>2, <2>3 DEF SwapHistory, rows
<1>3. ASSUME NEW g \in SwapGroups
      PROVE  AddSwapTotals(totals)[g].volume = Over(volume, OfGroup(T, g))
  <2>1. SwapTotals(T)[g].volume = Over(volume, OfGroup(T, g))
    BY <1>1, SwapTotalsAre DEF SwapFigures
  <2>2. Over(volume, OfGroup(T, g)) \in Int
    BY <1>1, RowsAssumption, OverPick DEF OfGroup
  <2>3. FigureOf(totals, g, "volume") = [i \in {1} |-> Over(volume, OfGroup(T, g))]
    BY <2>1 DEF FigureOf
  <2>4. AddSwapTotals(totals)[g]["volume"] = Total(FigureOf(totals, g, "volume"))
    BY AddedFigure DEF SwapFigures
  <2> QED
    BY <2>2, <2>3, <2>4, TotalOfOne
<1> HIDE DEF totals, T
<1>4. SwapItem(WholeWindow(b), AddSwapTotals(totals), price).volume
        = Over([g \in SwapGroups |-> Over(volume, G[g])], SwapGroups)
  <2> DEFINE sums == [g \in SwapGroups |-> Over(volume, G[g])]
             added == AddSwapTotals(totals)
  <2>1. OfAllGroups(added, "volume") = Total([g \in SwapGroups |-> added[g]["volume"]])
    BY Zenon DEF OfAllGroups, Total, MapThenSumSet, MapThenFoldSet
  <2>2. [g \in SwapGroups |-> added[g]["volume"]] = Part(sums, SwapGroups)
    BY <1>3 DEF Part
  <2>3. SwapItem(WholeWindow(b), added, price).volume = OfAllGroups(added, "volume")
    BY DEF SwapItem
  <2> QED
    BY <2>1, <2>2, <2>3 DEF Over
<1>5. Over(volume, T) = Over([g \in SwapGroups |-> Over(volume, G[g])], SwapGroups)
  <2>1. IsFiniteSet(SwapGroups)
    BY GroupsFinite
  <2>2. G \in [SwapGroups -> SUBSET Rows] /\ \A g, h \in SwapGroups : g # h => G[g] \cap G[h] = {}
    BY <1>1 DEF OfGroup
  <2>3. T = UNION {G[g] : g \in SwapGroups}
    <3>1. \A r \in T : SwapGroup(r) \in SwapGroups
      <4> TAKE r \in T
      <4>1. r.direction \in {0, 1, 2, 3, 4, 5, 6, 7}
        BY <1>1, RowsAssumption
      <4> QED
        BY <4>1 DEF SwapGroup, SwapGroups
    <3> QED
      BY <3>1 DEF OfGroup
  <2> HIDE DEF G, volume
  <2> QED
    BY <1>1, <2>1, <2>2, <2>3, RowsAssumption, OverFamily
<1>6. SwapVolumeSince(pool, from, height) = Over(volume, T)
  <2>1. Part(volume, T) = [r \in T |-> RuneLeg(r)]
    <3>1. \A r \in T : Volume(r) = RuneLeg(r)
      <4> TAKE r \in T
      <4>1. r.direction \in {0, 1, 2, 3, 4, 5, 6, 7}
        BY <1>1, RowsAssumption
      <4> QED
        BY <4>1 DEF Volume, SwapGroup, RuneLeg
    <3> QED
      BY <1>1, <3>1 DEF Part, SwapColumn
  <2>2. SwapVolumeSince(pool, from, height) = MapThenSumSet(RuneLeg, T)
    BY DEF SwapVolumeSince, T, rows
  <2>3. MapThenSumSet(RuneLeg, T) = Total([r \in T |-> RuneLeg(r)])
    BY Zenon DEF Total, MapThenSumSet, MapThenFoldSet
  <2> QED
    BY <2>1, <2>2, <2>3 DEF Over
<1> QED
  BY <1>2, <1>4, <1>5, <1>6

\* A window without intervals has the sums of its rows.
LEMMA OnePerPool ==
  ASSUME NEW T \in SUBSET Rows, NEW f \in [Rows -> Int],
         NEW sums, sums = AddPerPool([i \in {1} |-> PoolSums(f, T)])
  PROVE  /\ DOMAIN sums = {r.pool : r \in T}
         /\ \A p : OrZero(sums, p) = Over(f, WithPool(T, p))
<1> DEFINE buckets == [i \in {1} |-> PoolSums(f, T)]
           names == {r.pool : r \in T}
<1>1. DOMAIN PoolSums(f, T) = names
  BY DEF PoolSums
<1>2. UNION {DOMAIN buckets[i] : i \in DOMAIN buckets} = names
  BY <1>1
<1>3. DOMAIN sums = names
  BY <1>2 DEF AddPerPool
<1>4. ASSUME NEW p \in names PROVE sums[p] = Over(f, WithPool(T, p))
  <2>1. sums[p] = Total(PoolFigure(buckets, p))
    BY <1>2, AddedPool
  <2>2. Over(f, WithPool(T, p)) \in Int
    BY RowsAssumption, OverPick DEF WithPool
  <2>3. PoolFigure(buckets, p) = [i \in {1} |-> Over(f, WithPool(T, p))]
    BY <1>1 DEF PoolFigure, OrZero, PoolSums
  <2> QED
    BY <2>1, <2>2, <2>3, TotalOfOne
<1>5. ASSUME NEW p, p \notin names PROVE Over(f, WithPool(T, p)) = 0
  <2>1. WithPool(T, p) = {}
    BY <1>5 DEF WithPool
  <2>2. {} \in SUBSET Rows
    OBVIOUS
  <2> QED
    BY <2>1, <2>2, RowsAssumption, OverPick
<1> QED
  BY <1>3, <1>4, <1>5 DEF OrZero

\* The earnings of a pool are those of an earnings history, if it has any there.
Earned(report, pool) == {e.earnings : e \in {q \in report.pools : q.pool = pool}}
EarnedOrNone(report, pool) ==
  IF Earned(report, pool) = {} THEN {0} ELSE Earned(report, pool)

LEMMA EarningsAgree ==
  ASSUME NEW height, NEW now, Recent(height, now), NEW from, NEW pool, NEW heights,
         heights[2] = height, heights[3] = height
  PROVE  {PoolEarningsSince(pool, from, height, height)}
           = EarnedOrNone(EarningsHistory(SpanOf(from, now), heights).meta, pool)
<1> DEFINE b == SpanOf(from, now)
           report == EarningsHistory(b, heights).meta
           T == Since(Table("swap", height), from)
           U == Since(Table("rewardEntry", height), from)
           fees == AddPerPool([i \in {1} |-> PoolSums(FeeColumn, T)])
           rewards == AddPerPool([i \in {1} |-> PoolSums(RewardColumn, U)])
           earnings == Over(FeeColumn, WithPool(T, pool)) + Over(RewardColumn, WithPool(U, pool))
<1>1. /\ T \in SUBSET Rows /\ U \in SUBSET Rows
      /\ \A r \in T : r.table = "swap"
      /\ \A r \in U : r.table = "rewardEntry"
  BY DEF Table, Since
<1>2. \E bond, price : report = EarningsItem(WholeWindow(b), fees, rewards, bond, price)
  <2>1. /\ Group(b, Table("swap", height), 1) = T
        /\ Group(b, Table("rewardEntry", height), 1) = U
    <3>1. \A name : Table(name, height) \in SUBSET Rows
                    /\ \A r \in Table(name, height) : r.height <= height
      BY DEF Table
    <3> QED
      BY <3>1, SpanIs, SinceIsWithin
  <2>2. /\ FeesPerPool(T) = PoolSums(FeeColumn, T)
        /\ RewardsPerPool(U) = PoolSums(RewardColumn, U)
    BY <1>1, FeesAre, RewardsAre
  <2> HIDE DEF T, U
  <2>3. /\ [i \in 1 .. Count(b) |-> FeesPerPool(Group(b, Table("swap", heights[2]), i))]
             = [i \in {1} |-> PoolSums(FeeColumn, T)]
        /\ [i \in 1 .. Count(b) |-> RewardsPerPool(Group(b, Table("rewardEntry", heights[3]), i))]
             = [i \in {1} |-> PoolSums(RewardColumn, U)]
    BY <2>1, <2>2, SpanIs
  <2> DEFINE bond == AddBond([i \in 1 .. Count(b) |->
                                BondRewards(Group(b, Table("rewards", heights[4]), i))])
             price == RunePriceAt(heights[1], LastTime(b))
  <2> HIDE DEF b
  <2>4. EarningsHistory(b, heights).meta =
          EarningsItem(WholeWindow(b),
            AddPerPool([i \in 1 .. Count(b) |->
                          FeesPerPool(Group(b, Table("swap", heights[2]), i))]),
            AddPerPool([i \in 1 .. Count(b) |->
                          RewardsPerPool(Group(b, Table("rewardEntry", heights[3]), i))]),
            bond, price)
    BY DEF EarningsHistory
  <2>5. report = EarningsItem(WholeWindow(b), fees, rewards, bond, price)
    BY <2>3, <2>4
  <2> QED
    BY <2>5
<1>3. PoolEarningsSince(pool, from, height, height) = earnings
  <2>1. /\ Since(OfPool(Table("swap", height), {pool}), from) = WithPool(T, pool)
        /\ Since(OfPool(Table("rewardEntry", height), {pool}), from) = WithPool(U, pool)
    BY DEF Since, OfPool, WithPool
  <2>2. /\ Part(FeeColumn, WithPool(T, pool)) = [r \in WithPool(T, pool) |-> r.feeInRune]
        /\ Part(RewardColumn, WithPool(U, pool)) = [r \in WithPool(U, pool) |-> r.rune]
    BY <1>1 DEF Part, FeeColumn, RewardColumn, WithPool
  <2> HIDE DEF T, U
  <2>3. /\ MapThenSumSet(LAMBDA r : r.feeInRune, WithPool(T, pool))
             = Over(FeeColumn, WithPool(T, pool))
        /\ MapThenSumSet(LAMBDA r : r.rune, WithPool(U, pool))
             = Over(RewardColumn, WithPool(U, pool))
    BY <2>2, ColumnSums DEF Over
  <2> QED
    BY <2>1, <2>3 DEF PoolEarningsSince
<1>4. /\ DOMAIN fees = {r.pool : r \in T} /\ DOMAIN rewards = {r.pool : r \in U}
      /\ OrZero(fees, pool) = Over(FeeColumn, WithPool(T, pool))
      /\ OrZero(rewards, pool) = Over(RewardColumn, WithPool(U, pool))
  <2>1. FeeColumn \in [Rows -> Int] /\ RewardColumn \in [Rows -> Int]
    BY EarningColumnTypes
  <2>2. ASSUME NEW V \in SUBSET Rows, NEW f \in [Rows -> Int]
        PROVE  LET sums == AddPerPool([i \in {1} |-> PoolSums(f, V)])
               IN  DOMAIN sums = {r.pool : r \in V}
                   /\ OrZero(sums, pool) = Over(f, WithPool(V, pool))
    BY OnePerPool
  <2> HIDE DEF T, U
  <2> QED
    BY <1>1, <2>1, <2>2
<1> SUFFICES {PoolEarningsSince(pool, from, height, height)} = EarnedOrNone(report, pool)
  OBVIOUS
<1> HIDE DEF T, U, report, b, fees, rewards
<1>5. CASE pool \in DOMAIN fees \cup DOMAIN rewards
  <2>1. report.pools =
          {[pool |-> p, fees |-> OrZero(fees, p), rewards |-> OrZero(rewards, p),
            earnings |-> OrZero(fees, p) + OrZero(rewards, p)]
             : p \in DOMAIN fees \cup DOMAIN rewards}
    BY <1>2 DEF EarningsItem
  <2> DEFINE item(p) == [pool |-> p, fees |-> OrZero(fees, p), rewards |-> OrZero(rewards, p),
                         earnings |-> OrZero(fees, p) + OrZero(rewards, p)]
             names == DOMAIN fees \cup DOMAIN rewards
  <2>2. {e \in report.pools : e.pool = pool} = {item(pool)}
    <3>1. \A p : item(p).pool = p
      OBVIOUS
    <3>2. report.pools = {item(p) : p \in names}
      BY <2>1
    <3>3. pool \in names
      BY <1>5
    <3> HIDE DEF item, names
    <3> QED
      BY <3>1, <3>2, <3>3
  <2>3. item(pool).earnings = OrZero(fees, pool) + OrZero(rewards, pool)
    OBVIOUS
  <2> HIDE DEF item
  <2> QED
    BY <1>3, <1>4, <2>2, <2>3 DEF Earned, EarnedOrNone
<1>6. CASE pool \notin DOMAIN fees \cup DOMAIN rewards
  <2>1. Earned(report, pool) = {}
    BY <1>2, <1>6 DEF EarningsItem, Earned
  <2>2. OrZero(fees, pool) = 0 /\ OrZero(rewards, pool) = 0
    BY <1>6 DEF OrZero
  <2>3. earnings = 0
    BY <1>4, <2>2
  <2> QED
    BY <1>3, <2>1, <2>3 DEF EarnedOrNone
<1> QED
  BY <1>5, <1>6

\* The newest row of a pool is the only one of that time.
LEMMA NewestIsOne ==
  ASSUME NEW rows \in SUBSET {r \in Rows : r.table = "depth"},
         NEW q \in NewestPerPool(rows), NEW r \in NewestPerPool(rows), q.pool = r.pool
  PROVE  q = r
<1>1. q \in Rows /\ r \in Rows /\ q.table = "depth" /\ r.table = "depth"
  BY DEF NewestPerPool
<1>2. At(q) <= At(r) /\ At(r) <= At(q)
  BY DEF NewestPerPool
<1>3. At(q) \in Nat /\ At(r) \in Nat /\ {q.height, r.height} \subseteq DOMAIN BlockTime
  BY <1>1, TimesOfRows
<1>4. q.height \in Nat /\ r.height \in Nat
  BY <1>3, HistoryAssumption
<1>5. ~(q.height < r.height) /\ ~(r.height < q.height)
  BY <1>2, <1>3, TablesAssumption DEF At
<1> QED
  BY <1>1, <1>4, <1>5, RowsAssumption

\* Up to now is everything that is recent.
LEMMA RecentIsUntil ==
  ASSUME NEW height, NEW now \in Nat, Recent(height, now), NEW rows \in SUBSET Rows,
         \A r \in rows : r.height <= height
  PROVE  Until(rows, now) = rows
<1>1. ASSUME NEW r \in rows PROVE At(r) <= ToNano(now)
  <2>1. At(r) \in Nat /\ ToNano(now) \in Nat
    BY TimesOfRows, TablesAssumption DEF ToNano
  <2> QED
    BY <2>1 DEF Recent
<1> QED
  BY <1>1 DEF Until

\* A depth history ends with the depths and the members of the pool's details.
LEMMA SnapshotsAgree ==
  ASSUME NEW height, NEW now \in Nat, Recent(height, now), NEW pool,
         NEW statuses, pool \in DOMAIN PoolStates(now, height, statuses)
  PROVE  LET end == SnapshotAt(pool, now, height, height)
         IN  /\ end.depth = PoolStates(now, height, statuses)[pool].depth
             /\ end.members = Cardinality(Members({pool}, height))
<1> DEFINE rows == Table("depth", height)
           newest == NewestPerPool(Until(rows, now))
           mine == NewestPerPool(Until(OfPool(rows, {pool}), now))
           moves == OfPool(Table("stake", height) \cup Table("withdraw", height), {pool})
<1>1. rows \in SUBSET {r \in Rows : r.table = "depth"} /\ \A r \in rows : r.height <= height
  BY DEF Table
<1>2. Until(rows, now) = rows
  BY <1>1, RecentIsUntil
<1>3. mine = {r \in newest : r.pool = pool}
  BY DEF NewestPerPool, Until, OfPool
<1>4. PICK r \in newest : r.pool = pool
  BY DEF PoolStates
<1>5. \A q \in newest : q.pool = pool => q = r
  BY <1>1, <1>2, <1>4, NewestIsOne
<1>6. PoolStates(now, height, statuses)[pool].depth = DepthOf(r)
  <2>1. (CHOOSE q \in newest : q.pool = pool) = r
    BY <1>4, <1>5
  <2>2. PoolStates(now, height, statuses)[pool].depth
          = DepthOf(CHOOSE q \in newest : q.pool = pool)
    BY DEF PoolStates
  <2> QED
    BY <2>1, <2>2
<1>7. SnapshotAt(pool, now, height, height).depth = DepthOf(r)
  <2>1. mine = {r}
    BY <1>3, <1>4, <1>5
  <2>2. (CHOOSE q \in mine : TRUE) = r
    BY <2>1
  <2>3. SnapshotAt(pool, now, height, height).depth
          = IF mine = {} THEN NoDepth ELSE DepthOf(CHOOSE q \in mine : TRUE)
    BY DEF SnapshotAt
  <2> QED
    BY <2>1, <2>2, <2>3
<1>8. /\ moves \in SUBSET AllMoves /\ OfOnePool(moves)
      /\ moves \in SUBSET Rows /\ \A q \in moves : q.height <= height
  BY DEF OfPool, Table, AllMoves, OfOnePool
<1>9. Until(moves, now) = moves
  BY <1>8, RecentIsUntil
<1>10. Members({pool}, height) = Holding(moves)
  <2>1. {} \notin Holding(moves)
    BY <1>8, HoldingIsHolders
  <2> QED
    BY <2>1 DEF Members
<1>11. SnapshotAt(pool, now, height, height).members = Cardinality(Holding(moves))
  BY <1>9 DEF SnapshotAt
<1> QED
  BY <1>6, <1>7, <1>10, <1>11

\* No pool has less than no RUNE; the recorder adds up what THORChain tells it,
\* and does not enforce it.
NoneOverdrawn == \A r \in Rows : r.table = "depth" => r.rune >= 0

DepthColumn == [r \in Rows |-> IF r.table = "depth" THEN r.rune ELSE 0]

\* The value locked is that of the pools with RUNE, twice over, and the others
\* have nothing in the network's sum either.
LEMMA PooledAgree ==
  ASSUME NoneOverdrawn, NEW height, NEW now, NEW nodes
  PROVE  Pooled(PoolDepthsAt(height, now)) = 2 * Network(now, nodes, height).pooled
<1> DEFINE newest == NewestPerPool(Until(Table("depth", height), now))
           live == {r \in newest : r.rune > 0}
           dry == newest \ live
           names == {r.pool : r \in live}
           depths == PoolDepthsAt(height, now)
           one == DepthColumn
           twice == [r \in Rows |-> one[r] + 1 * one[r]]
           G == [p \in names |-> {r \in live : r.pool = p}]
           sums == [p \in names |-> Over(twice, G[p])]
<1>1. /\ newest \in SUBSET Rows /\ live \in SUBSET Rows /\ dry \in SUBSET Rows
      /\ \A r \in newest : r.table = "depth" /\ r.rune \in Int /\ r.rune >= 0
  BY RowsAssumption DEF NewestPerPool, Until, Table, NoneOverdrawn
<1>2. IsFiniteSet(Rows) /\ one \in [Rows -> Int] /\ twice \in [Rows -> Int]
  BY RowsAssumption DEF DepthColumn
<1>3. \A q, r \in newest : q.pool = r.pool => q = r
  <2>1. Until(Table("depth", height), now) \in SUBSET {r \in Rows : r.table = "depth"}
    BY DEF Until, Table
  <2> QED
    BY <2>1, NewestIsOne
<1>4. IsFiniteSet(names)
  <2> DEFINE f == [r \in live |-> r.pool]
  <2>1. f \in Surjection(live, names)
    BY Fun_IsSurj
  <2> QED
    BY <1>1, <1>2, <2>1, FS_Subset, FS_Surjection
<1>5. depths = [p \in names |-> (CHOOSE r \in live : r.pool = p).rune]
  BY DEF PoolDepthsAt
<1>6. \A r \in newest : one[r] = r.rune /\ twice[r] = 2 * r.rune
  BY <1>1 DEF DepthColumn
<1>7. Network(now, nodes, height).pooled = Over(one, newest)
  <2>1. Part(one, newest) = [r \in newest |-> r.rune]
    BY <1>6 DEF Part
  <2>2. MapThenSumSet(LAMBDA r : r.rune, newest) = Over(one, newest)
    BY <2>1, ColumnSums DEF Over
  <2>3. Network(now, nodes, height).pooled = MapThenSumSet(LAMBDA r : r.rune, newest)
    BY DEF Network
  <2> QED
    BY <2>2, <2>3
<1>8. Over(one, newest) = Over(one, live)
  <2> DEFINE zero == [r \in dry |-> 0]
  <2>1. \A r \in dry : one[r] = zero[r]
    <3> HIDE DEF newest, one
    <3>1. \A r \in newest : ~(r.rune > 0) => r.rune = 0
      BY <1>1
    <3> QED
      BY <1>6, <3>1
  <2>2. Over(zero, dry) = 0
    BY <1>1, <1>2, FS_Subset, OverZeros
  <2>3. Over(one, dry) = 0
    BY <2>1, <2>2, OverSame
  <2>4. live \cap dry = {} /\ newest = live \cup dry
    OBVIOUS
  <2> HIDE DEF live, dry, one, newest
  <2>5. Over(one, newest) = Over(one, live) + Over(one, dry)
    BY <1>1, <1>2, <2>4, OverUnion
  <2>6. Over(one, live) \in Int
    BY <1>1, <1>2, OverPick
  <2> QED
    BY <2>3, <2>5, <2>6
<1> HIDE DEF one
<1>9. Over(twice, live) = Over(one, live) + 1 * Over(one, live) /\ Over(one, live) \in Int
  BY <1>1, <1>2, OverPlus, OverPick
<1>10. Over(twice, live) = Over(sums, names)
  <2>1. /\ G \in [names -> SUBSET Rows] /\ live = UNION {G[p] : p \in names}
        /\ \A p, q \in names : p # q => G[p] \cap G[q] = {}
    <3> HIDE DEF live
    <3>1. \A p \in names : G[p] = {r \in live : r.pool = p}
      OBVIOUS
    <3>2. \A r \in live : r.pool \in names
      OBVIOUS
    <3>3. G \in [names -> SUBSET Rows]
      BY <1>1
    <3> HIDE DEF G, names
    <3>4. live = UNION {G[p] : p \in names}
      BY <3>1, <3>2
    <3> QED
      BY <3>1, <3>3, <3>4
  <2> HIDE DEF G, names, live, twice
  <2> QED
    BY <1>2, <1>4, <2>1, OverFamily
<1>11. ASSUME NEW p \in names PROVE 2 * depths[p] = sums[p]
  <2>1. PICK r \in live : r.pool = p
    OBVIOUS
  <2>2. (CHOOSE q \in live : q.pool = p) = r /\ G[p] = {r}
    BY <1>3, <2>1
  <2>3. Over(twice, {r}) = twice[r] + Over(twice, {r} \ {r}) /\ Over(twice, {}) = 0
    <3>1. {r} \in SUBSET Rows /\ {} \in SUBSET Rows /\ r \in {r}
      BY <1>1, <2>1
    <3> HIDE DEF twice, live
    <3> QED
      BY <1>2, <3>1, OverPick
  <2>4. {r} \ {r} = {}
    OBVIOUS
  <2>5. twice[r] = 2 * r.rune /\ twice[r] \in Int
    BY <1>1, <1>2, <1>6, <2>1
  <2> HIDE DEF twice
  <2>6. sums[p] = twice[r]
    <3>1. sums[p] = Over(twice, {r})
      <4>1. sums[p] = Over(twice, G[p])
        OBVIOUS
      <4> HIDE DEF sums, G
      <4> QED
        BY <2>2, <4>1
    <3>2. Over(twice, {r} \ {r}) = 0
      BY <2>3, <2>4
    <3> HIDE DEF sums, live, newest, names, depths
    <3>3. twice[r] + 0 = twice[r]
      BY <2>5
    <3> QED
      BY <2>3, <3>1, <3>2, <3>3
  <2>7. depths[p] = r.rune
    BY <1>5, <2>2
  <2> HIDE DEF sums, depths
  <2> QED
    BY <2>5, <2>6, <2>7
<1>12. Pooled(depths) = Over(sums, names)
  <2>1. DOMAIN depths = names
    BY <1>5
  <2> HIDE DEF depths, names, sums
  <2>2. Pooled(depths) = Total([p \in names |-> 2 * depths[p]])
    <3>1. MapThenSumSet(LAMBDA p : 2 * depths[p], DOMAIN depths)
            = Total([p \in DOMAIN depths |-> 2 * depths[p]])
      BY Zenon DEF Total, MapThenSumSet, MapThenFoldSet
    <3> QED
      BY <2>1, <3>1 DEF Pooled
  <2>3. [p \in names |-> 2 * depths[p]] = Part(sums, names)
    BY <1>11 DEF Part
  <2> QED
    BY <2>2, <2>3 DEF Over
<1> HIDE DEF newest, live, sums, depths, twice, names
<1>13. Over(one, live) + 1 * Over(one, live) = 2 * Over(one, live)
  BY <1>9
<1> QED
  BY <1>7, <1>8, <1>9, <1>10, <1>12, <1>13 DEF newest, depths

\* What EndpointsAgree says of the details of a pool.
DetailIsAlike(detail, height, now, days) ==
  LET p == detail.pool
      all == [k \in 1 .. 6 |-> height]
      day == SpanOf(now - Day, now)
      end == DepthHistory(day, p, all).meta.end
  IN  /\ detail.volume24h = SwapHistory(day, {p}, all).meta.volume
      /\ {detail.earnings}
           = EarnedOrNone(EarningsHistory(SpanOf(now - days * Day, now), all).meta, p)
      /\ end.depth = detail.depth
      /\ end.members = Cardinality(Members({p}, height))

\* The details of a pool, from queries that saw one height.
LEMMA DetailAlike ==
  ASSUME NEW height, NEW now \in Nat, Recent(height, now),
         NEW pool, NEW statuses, pool \in DOMAIN PoolStates(now, height, statuses),
         NEW price, NEW days, NEW heights,
         heights[1] = height, heights[2] = height, heights[3] = height
  PROVE  DetailIsAlike(PoolDetail(pool, PoolStates(now, height, statuses)[pool], price,
                                  days, now, heights), height, now, days)
<1> DEFINE all == [k \in 1 .. 6 |-> height]
           detail == PoolDetail(pool, PoolStates(now, height, statuses)[pool], price,
                                days, now, heights)
           report == EarningsHistory(SpanOf(now - days * Day, now), all).meta
           day == SpanOf(now - Day, now)
           state == PoolStates(now, height, statuses)[pool]
           since == now - days * Day
           end == DepthHistory(day, pool, all).meta.end
<1>1. /\ all[1] = height /\ all[2] = height /\ all[3] = height /\ all[4] = height
      /\ all[5] = height
  OBVIOUS
<1>2. /\ detail.pool = pool /\ detail.depth = state.depth
      /\ detail.volume24h = SwapVolumeSince(pool, now - Day, height)
      /\ detail.earnings = PoolEarningsSince(pool, since, height, height)
  BY DEF PoolDetail
<1>3. SwapHistory(day, {pool}, all).meta.volume = SwapVolumeSince(pool, now - Day, height)
  BY <1>1, VolumesAgree
<1>4. {detail.earnings} = EarnedOrNone(report, pool)
  <2>1. {PoolEarningsSince(pool, since, height, height)} = EarnedOrNone(report, pool)
    BY <1>1, EarningsAgree DEF since
  <2> QED
    BY <1>2, <2>1
<1>5. end = SnapshotAt(pool, now, height, height)
  <2>1. /\ Count(day) = 1 /\ day.timestamps[2] = now
    BY SpanIs
  <2>2. 2 \in 1 .. Count(day) + 1 /\ Count(day) + 1 = 2 /\ 2 * 2 = 4 /\ 2 * 2 + 1 = 5
    BY <2>1
  <2> DEFINE snapshots == [j \in 1 .. Count(day) + 1 |->
                             SnapshotAt(pool, day.timestamps[j], all[2 * j], all[2 * j + 1])]
  <2>3. end = snapshots[Count(day) + 1]
    BY DEF DepthHistory
  <2>4. snapshots[2] = SnapshotAt(pool, day.timestamps[2], all[2 * 2], all[2 * 2 + 1])
    BY <2>2
  <2> HIDE DEF snapshots, end
  <2> QED
    BY <1>1, <2>1, <2>2, <2>3, <2>4
<1>6. /\ end.depth = state.depth
      /\ end.members = Cardinality(Members({pool}, height))
  <2>1. /\ SnapshotAt(pool, now, height, height).depth = state.depth
        /\ SnapshotAt(pool, now, height, height).members = Cardinality(Members({pool}, height))
    BY SnapshotsAgree
  <2> HIDE DEF end, state
  <2> QED
    BY <1>5, <2>1
<1> SUFFICES DetailIsAlike(detail, height, now, days)
  OBVIOUS
<1> HIDE DEF end, state, detail
<1> QED
  BY <1>2, <1>3, <1>4, <1>6 DEF end, DetailIsAlike

LEMMA StatesFinite ==
  ASSUME NEW now, NEW height, NEW statuses
  PROVE  /\ IsFiniteSet(DOMAIN PoolStates(now, height, statuses))
         /\ \A p \in DOMAIN PoolStates(now, height, statuses) :
              PoolStates(now, height, statuses)[p].depth.rune \in Int
<1> DEFINE newest == NewestPerPool(Until(Table("depth", height), now))
           names == {r.pool : r \in newest}
           states == PoolStates(now, height, statuses)
           f == [r \in newest |-> r.pool]
<1>1. newest \in SUBSET Rows /\ \A r \in newest : r.table = "depth" /\ r.rune \in Int
  BY RowsAssumption DEF NewestPerPool, Until, Table
<1>2. DOMAIN states = names
  BY DEF PoolStates
<1>3. IsFiniteSet(names)
  <2>1. f \in Surjection(newest, names)
    BY Fun_IsSurj
  <2> QED
    BY <1>1, <2>1, RowsAssumption, FS_Subset, FS_Surjection
<1>4. ASSUME NEW p \in names PROVE states[p].depth.rune \in Int
  <2>1. PICK r \in newest : r.pool = p
    OBVIOUS
  <2>2. states[p].depth = DepthOf(CHOOSE q \in newest : q.pool = p)
    BY DEF PoolStates
  <2>3. (CHOOSE q \in newest : q.pool = p) \in newest
    BY <2>1
  <2> HIDE DEF newest, states
  <2> QED
    BY <1>1, <2>2, <2>3 DEF DepthOf
<1> QED
  BY <1>2, <1>3, <1>4

\* The pools of a list have their queries one after the other.
LEMMA PlacesAre ==
  ASSUME NEW mine, IsFiniteSet(mine), NEW order, NEW p \in mine,
         order[p] <= order[p]
  PROVE  Cardinality({q \in mine : order[q] <= order[p]}) \in 1 .. Cardinality(mine)
<1> DEFINE T == {q \in mine : order[q] <= order[p]}
<1>1. IsFiniteSet(T) /\ Cardinality(T) \in Nat /\ Cardinality(mine) \in Nat
      /\ Cardinality(T) <= Cardinality(mine)
  BY FS_Subset, FS_CardinalityType
<1>2. T # {}
  OBVIOUS
<1>3. Cardinality(T) # 0
  BY <1>1, <1>2, FS_EmptySet
<1> QED
  BY <1>1, <1>3

\* The queries of a request between which nothing was committed.
LEMMA SeenIsCommitted ==
  ASSUME AgreeInv, committed = asked.committed
  PROVE  seen \in Seq(Nat) /\ \A k \in 1 .. Len(seen) : seen[k] = committed
<1>1. /\ seen \in Seq(Nat) /\ committed \in Nat
      /\ \A k \in DOMAIN seen : asked.committed <= seen[k] /\ seen[k] <= committed
  BY HistoryAssumption DEF AgreeInv, ReadInv
<1>2. DOMAIN seen = 1 .. Len(seen) /\ \A k \in DOMAIN seen : seen[k] \in Nat
  BY <1>1
<1> QED
  BY <1>1, <1>2

\* Every detail in an answer of /v2/pool.
LEMMA PoolAlike ==
  ASSUME NEW height, NEW now \in Nat, Recent(height, now), NEW pool, NEW days,
         NEW heights \in Seq(Nat), \A k \in 1 .. Len(heights) : heights[k] = height,
         IF Len(heights) < 2 THEN Len(heights) = 2
         ELSE Len(heights) = IF pool \in DOMAIN PoolStates(now, heights[1], heights[2])
                             THEN 6 ELSE 2
  PROVE  \A detail \in PoolAnswer(pool, days, now, heights) :
           DetailIsAlike(detail, height, now, days)
<1> DEFINE states == PoolStates(now, height, height)
<1>1. Len(heights) \in Nat /\ Len(heights) >= 2 /\ heights[1] = height /\ heights[2] = height
  OBVIOUS
<1>2. CASE pool \notin DOMAIN states
  BY <1>1, <1>2 DEF PoolAnswer
<1>3. CASE pool \in DOMAIN states
  <2>1. Len(heights) = 6
    BY <1>1, <1>3
  <2>2. /\ SubSeq(heights, 4, 6)[1] = height /\ SubSeq(heights, 4, 6)[2] = height
        /\ SubSeq(heights, 4, 6)[3] = height
    BY <2>1
  <2>3. PoolAnswer(pool, days, now, heights)
          = {PoolDetail(pool, PoolStates(now, height, height)[pool],
                        RunePriceAt(heights[3], now), days, now, SubSeq(heights, 4, 6))}
    BY <1>1, <1>3 DEF PoolAnswer
  <2> DEFINE three == SubSeq(heights, 4, 6)
             price == RunePriceAt(heights[3], now)
  <2> HIDE DEF three, price
  <2>4. DetailIsAlike(PoolDetail(pool, PoolStates(now, height, height)[pool], price, days, now,
                                 three), height, now, days)
    BY <1>3, <2>2, DetailAlike DEF three
  <2> QED
    BY <2>3, <2>4 DEF three, price
<1> QED
  BY <1>2, <1>3

\* Every detail in an answer of /v2/pools.
LEMMA PoolsAlike ==
  ASSUME NEW height, NEW now \in Nat, Recent(height, now), NEW status, NEW days,
         NEW order \in [Pools -> Nat], NEW heights \in Seq(Nat),
         \A k \in 1 .. Len(heights) : heights[k] = height,
         IF Len(heights) < 2 THEN Len(heights) = 2
         ELSE Len(heights) =
                3 + 3 * Cardinality(Selected(PoolStates(now, heights[1], heights[2]), status))
  PROVE  \A detail \in Range(PoolsAnswer(status, days, order, now, heights)) :
           DetailIsAlike(detail, height, now, days)
<1> DEFINE states == PoolStates(now, height, height)
           mine == Selected(states, status)
           place(p) == Cardinality({q \in mine : order[q] <= order[p]})
           price == RunePriceAt(heights[3], now)
           detail(p) == PoolDetail(p, states[p], price, days, now,
                                   SubSeq(heights, 3 * place(p) + 1, 3 * place(p) + 3))
           details == {detail(p) : p \in mine}
           answer == PoolsAnswer(status, days, order, now, heights)
<1>1. Len(heights) \in Nat /\ Len(heights) >= 2 /\ heights[1] = height /\ heights[2] = height
  <2>1. Len(heights) \in Nat
    OBVIOUS
  <2>2. Len(heights) < 2 => Len(heights) = 2
    BY Zenon
  <2>3. \A k \in 1 .. Len(heights) : heights[k] = height
    OBVIOUS
  <2>4. \A n \in Nat : (n < 2 => n = 2) => n >= 2 /\ 1 \in 1 .. n /\ 2 \in 1 .. n
    OBVIOUS
  <2> QED
    BY Zenon, <2>1, <2>2, <2>3, <2>4
<1>2. Len(heights) = 3 + 3 * Cardinality(mine)
  BY <1>1
<1>3. /\ mine \subseteq DOMAIN states /\ IsFiniteSet(mine) /\ Cardinality(mine) \in Nat
      /\ \A p \in mine : states[p].depth.rune \in Int
  <2>1. mine \subseteq DOMAIN states
    BY DEF Selected
  <2> QED
    BY <2>1, StatesFinite, FS_Subset, FS_CardinalityType
<1>4. \A p \in mine : p \in Pools
  <2>1. DOMAIN states \subseteq Pools
    BY RowsAssumption DEF PoolStates, NewestPerPool, Until, Table
  <2> QED
    BY <1>3, <2>1
<1> HIDE DEF mine, states
<1>5. ASSUME NEW p \in mine PROVE DetailIsAlike(detail(p), height, now, days)
  <2>1. order[p] \in Nat /\ order[p] <= order[p]
    BY <1>4
  <2>2. place(p) \in 1 .. Cardinality(mine)
    BY <1>3, <2>1, PlacesAre
  <2> DEFINE k == place(p)
             three == SubSeq(heights, 3 * k + 1, 3 * k + 3)
  <2>3. k \in Nat /\ 1 <= k /\ 3 * k + 3 <= Len(heights)
    BY <1>2, <1>3, <2>2
  <2> HIDE DEF k
  <2>4. three[1] = height /\ three[2] = height /\ three[3] = height
    <3>1. /\ 3 * k + 1 \in 1 .. Len(heights) /\ 3 * k + 2 \in 1 .. Len(heights)
          /\ 3 * k + 3 \in 1 .. Len(heights)
      BY <1>1, <2>3
    <3>2. /\ three[1] = heights[3 * k + 1] /\ three[2] = heights[3 * k + 2]
          /\ three[3] = heights[3 * k + 3]
      BY <2>3, <3>1
    <3> QED
      BY <3>1, <3>2
  <2>5. p \in DOMAIN PoolStates(now, height, height)
    BY <1>3 DEF states
  <2> HIDE DEF three
  <2>6. DetailIsAlike(PoolDetail(p, PoolStates(now, height, height)[p], price, days, now, three),
                      height, now, days)
    BY <2>4, <2>5, DetailAlike
  <2> QED
    BY <2>6 DEF three, k, states
<1>6. IsFiniteSet(details) /\ \A d \in details : d.depth.rune \in Int
  <2> DEFINE f == [p \in mine |-> detail(p)]
  <2>1. f \in Surjection(mine, details)
    <3> HIDE DEF detail
    <3> QED
      BY Fun_IsSurj
  <2>2. \A p \in mine : detail(p).depth = states[p].depth
    BY DEF PoolDetail
  <2> HIDE DEF detail, f
  <2> QED
    BY <1>3, <2>1, <2>2, FS_Surjection
<1>7. answer = CHOOSE s \in SetToSeqs(details) :
                 \A i, j \in DOMAIN s : i < j => s[i].depth.rune >= s[j].depth.rune
  BY <1>1 DEF PoolsAnswer, mine, states
<1> HIDE DEF details, answer
<1>8. answer \in SetToSeqs(details)
  <2> DEFINE key == [d \in details |-> d.depth.rune]
  <2>1. key \in [details -> Int]
    BY <1>6
  <2>2. \A d \in details : key[d] = d.depth.rune
    OBVIOUS
  <2> HIDE DEF key
  <2>3. PICK s \in SetToSeqs(details) :
          \A i, j \in DOMAIN s : i < j => key[s[i]] >= key[s[j]]
    BY <1>6, <2>1, Sortable
  <2>4. \A i \in DOMAIN s : s[i] \in details
    BY DEF SetToSeqs
  <2>5. \A i, j \in DOMAIN s : i < j => s[i].depth.rune >= s[j].depth.rune
    BY <2>2, <2>3, <2>4
  <2> QED
    BY <1>7, <2>5
<1>9. \A d \in Range(answer) : d \in details
  BY <1>8 DEF SetToSeqs, Range
<1> QED
  BY <1>5, <1>9 DEF details, answer

\* A request between whose queries nothing was committed, while the cursor was
\* not behind the database.
LEMMA AgreeOnce ==
  ASSUME AgreeInv, NoneOverdrawn, committed = asked.committed, committed <= asked.published, Done
  PROVE  EndpointsAgree
<1> DEFINE all == [k \in 1 .. 6 |-> committed]
           span(days) == [interval |-> "none", timestamps |-> <<Now - days * Day, Now>>]
           report == EarningsHistory(span(Days), all).meta
           earned(p) == {e.earnings : e \in {q \in report.pools : q.pool = p}}
           Alike(detail) ==
             LET p == detail.pool
                 end == DepthHistory(span(1), p, all).meta.end
             IN  /\ detail.volume24h = SwapHistory(span(1), {p}, all).meta.volume
                 /\ {detail.earnings} = IF earned(p) = {} THEN {0} ELSE earned(p)
                 /\ end.depth = detail.depth
                 /\ end.members = Cardinality(Members({p}, committed))
<1>1. Recent(committed, Now) /\ Now \in Nat
  BY CommittedIsRecent
<1>2. seen \in Seq(Nat) /\ \A k \in 1 .. Len(seen) : seen[k] = committed
  BY SeenIsCommitted
<1>3. Len(seen) = Queries
  BY DEF Done
<1>4. span(1) = SpanOf(Now - Day, Now) /\ span(Days) = SpanOf(Now - Days * Day, Now)
  <2>1. Now - 1 * Day = Now - Day
    BY <1>1, HistoryAssumption
  <2> QED
    BY <2>1 DEF SpanOf
<1> HIDE DEF span
<1>5. ASSUME NEW detail, DetailIsAlike(detail, committed, Now, Days) PROVE Alike(detail)
  BY <1>4, <1>5 DEF DetailIsAlike, EarnedOrNone, Earned
<1>6. ASSUME request.kind = "network"
      PROVE  TvlHistory(span(1), all).meta.pooled = 2 * Answer(seen).pooled
  <2>1. Len(seen) = 1 /\ seen[1] = committed
    <3>1. Queries = 1
      BY <1>6 DEF Queries
    <3>2. 1 \in 1 .. 1
      OBVIOUS
    <3> QED
      BY <1>2, <1>3, <3>1, <3>2
  <2>2. Answer(seen) = Network(Now, request.nodes, committed)
    BY <1>6, <2>1 DEF Answer
  <2>3. Count(span(1)) = 1 /\ LastTime(span(1)) = Now
    BY <1>4, SpanIs
  <2>4. all[Count(span(1)) + 2] = committed
    BY <2>3
  <2> HIDE DEF all
  <2>5. TvlHistory(span(1), all).meta.pooled = Pooled(PoolDepthsAt(committed, Now))
    BY <2>3, <2>4 DEF TvlHistory, TvlItem
  <2> QED
    BY <2>2, <2>5, PooledAgree
<1>7. ASSUME request.kind = "pool", NEW detail \in Details
      PROVE  DetailIsAlike(detail, committed, Now, Days)
  <2>1. detail \in PoolAnswer(request.pool, Days, Now, seen)
    BY <1>7 DEF Details, Answer
  <2>2. IF Len(seen) < 2 THEN Len(seen) = 2
        ELSE Len(seen) = IF request.pool \in DOMAIN PoolStates(Now, seen[1], seen[2])
                         THEN 6 ELSE 2
    BY <1>3, <1>7 DEF Queries
  <2> QED
    BY <1>1, <1>2, <2>1, <2>2, PoolAlike
<1>8. ASSUME request.kind = "pools", NEW detail \in Details
      PROVE  DetailIsAlike(detail, committed, Now, Days)
  <2>1. detail \in Range(PoolsAnswer(request.status, Days, request.order, Now, seen))
    BY <1>8 DEF Details, Answer
  <2>2. IF Len(seen) < 2 THEN Len(seen) = 2
        ELSE Len(seen) =
               3 + 3 * Cardinality(Selected(PoolStates(Now, seen[1], seen[2]), request.status))
    BY <1>3, <1>8 DEF Queries
  <2>3. request.order \in [Pools -> Nat]
    BY <1>8, HistoryAssumption DEF AgreeInv, ReadInv
  <2> QED
    BY <1>1, <1>2, <2>1, <2>2, <2>3, PoolsAlike
<1>9. \A detail \in Details : request.kind \in {"pools", "pool"} => Alike(detail)
  BY <1>5, <1>7, <1>8
<1> HIDE DEF Alike
<1> QED
  BY <1>6, <1>9 DEF EndpointsAgree, Alike, span

\* What two endpoints report they report alike (pools.rs:145-147,
\* network.rs:19-31, tvl.rs:3-5), for any chain and any request.
THEOREM EndpointsReportAlike == NoneOverdrawn => (HistorySpec => []EndpointsAgree)
<1> SUFFICES ASSUME NoneOverdrawn PROVE HistorySpec => []EndpointsAgree
  OBVIOUS
<1>1. AgreeInv => EndpointsAgree
  BY AgreeOnce DEF EndpointsAgree
<1> QED
  BY <1>1, AgreeInvHolds, PTL

------------------------------------------------------------------------------
\* Types.

\* No amount is negative but rewards and what a pool has of its asset; THORChain
\* says so and the recorder does not enforce it.
NoneNegative ==
  /\ NoneOverdrawn
  /\ \A r \in Rows :
       /\ r.table = "swap" => {r.from, r.to, r.feeInRune, r.slip} \subseteq Nat
       /\ r.table \in {"stake", "withdraw"} =>
            {r.units, r.rune, r.asset, r.assetInRune} \subseteq Nat
       /\ r.table = "rewards" => r.bond \in Nat

\* A column that is not negative adds up to what is not negative.
LEMMA OverNatural ==
  ASSUME NEW T \in SUBSET Rows, NEW f \in [Rows -> Int], \A r \in T : f[r] >= 0
  PROVE  Over(f, T) \in Nat
<1> DEFINE g == [r \in T |-> f[r]]
<1>1. g \in [T -> Nat] /\ IsFiniteSet(T)
  BY RowsAssumption, FS_Subset
<1>2. Over(f, T) = Over(g, T)
  BY OverSame
<1> HIDE DEF g
<1> QED
  BY <1>1, <1>2, OverNat

LEMMA SumNatural ==
  ASSUME NEW S, IsFiniteSet(S), NEW f \in [S -> Nat]
  PROVE  Total(f) \in Nat
<1>1. Part(f, S) = f
  BY DEF Part
<1> QED
  BY <1>1, OverNat DEF Over

LEMMA SumInteger ==
  ASSUME NEW S, IsFiniteSet(S), NEW f \in [S -> Int]
  PROVE  Total(f) \in Int
<1>1. Part(f, S) = f
  BY DEF Part
<1> QED
  BY <1>1, OverPick DEF Over

LEMMA WindowTypes ==
  ASSUME NEW b, IsBuckets(b)
  PROVE  /\ Count(b) \in Nat \ {0}
         /\ WholeWindow(b) \in Windows
         /\ \A i \in 1 .. Count(b) : Window(b, i) \in Windows
<1>1. /\ b.timestamps \in Seq(Int) /\ Len(b.timestamps) \in Nat /\ Len(b.timestamps) >= 2
      /\ Count(b) = Len(b.timestamps) - 1
  BY DEF IsBuckets, Count
<1>2. \A i \in 1 .. Len(b.timestamps) : b.timestamps[i] \in Int
  BY <1>1
<1>3. WholeWindow(b) \in Windows
  BY <1>1, <1>2 DEF WholeWindow, Windows, FirstTime, LastTime
<1>4. ASSUME NEW i \in 1 .. Count(b) PROVE Window(b, i) \in Windows
  <2>1. i \in 1 .. Len(b.timestamps) /\ i + 1 \in 1 .. Len(b.timestamps)
    BY <1>1
  <2> QED
    BY <1>2, <2>1 DEF Window, Windows
<1>5. Count(b) \in Nat \ {0}
  <2>1. \A n \in Nat : n >= 2 => n - 1 \in Nat \ {0}
    OBVIOUS
  <2> QED
    BY <1>1, <2>1, Zenon
<1> QED
  BY <1>3, <1>4, <1>5

LEMMA PriceType == ASSUME NEW height, NEW at PROVE RunePriceAt(height, at) \in Price
<1> DEFINE rows == NewestPerPool(Until({r \in Table("depth", height) : r.pool \in UsdPools}, at))
<1>1. \A r \in rows : r.asset \in Int /\ r.rune \in Int
  BY RowsAssumption DEF NewestPerPool, Until, Table
<1> HIDE DEF rows
<1>2. PriceFromDepths(rows) \in Price
  BY <1>1 DEF PriceFromDepths, Price, Quotient
<1> QED
  BY <1>2 DEF RunePriceAt, rows

LEMMA RatioType == ASSUME NEW a \in Int, NEW b \in Int PROVE Ratio(a, b) \in Quotient
BY DEF Ratio, Quotient

\* Swaps.
SwapFigureType == [count : Nat, volume : Nat, fees : Nat, slip : Nat]

LEMMA SwapTotalsType ==
  ASSUME NoneNegative, NEW T \in SUBSET Rows, \A r \in T : r.table = "swap"
  PROVE  SwapTotals(T) \in [SwapGroups -> SwapFigureType]
<1> SUFFICES ASSUME NEW g \in SwapGroups PROVE SwapTotals(T)[g] \in SwapFigureType
  BY DEF SwapTotals
<1> DEFINE mine == OfGroup(T, g)
           totals == SwapTotals(T)[g]
<1>1. totals = [count |-> Cardinality(mine), volume |-> MapThenSumSet(Volume, mine),
                fees |-> MapThenSumSet(LAMBDA r : r.feeInRune, mine),
                slip |-> MapThenSumSet(LAMBDA r : r.slip, mine)]
  BY DEF SwapTotals, OfGroup
<1>2. ASSUME NEW c \in SwapFigures PROVE totals[c] \in Nat
  <2>1. totals[c] = Over(SwapColumn(c), mine)
    BY SwapTotalsAre
  <2>2. mine \in SUBSET Rows
    BY DEF OfGroup
  <2>3. ASSUME NEW r \in mine PROVE SwapColumn(c)[r] >= 0
    <3>1. r \in Rows /\ r.table = "swap" /\ {r.from, r.to, r.feeInRune, r.slip} \subseteq Nat
      BY DEF OfGroup, NoneNegative
    <3> QED
      BY <3>1 DEF SwapColumn, SwapFigures, Volume
  <2> HIDE DEF totals, mine
  <2> QED
    BY <2>1, <2>2, <2>3, SwapColumnType, OverNatural
<1>3. totals["count"] \in Nat /\ totals["volume"] \in Nat /\ totals["fees"] \in Nat
      /\ totals["slip"] \in Nat
  BY <1>2 DEF SwapFigures
<1> HIDE DEF mine
<1>4. totals \in SwapFigureType
  BY <1>1, <1>3 DEF SwapFigureType
<1> QED
  BY <1>4

LEMMA AllGroups ==
  ASSUME NEW totals, NEW c
  PROVE  OfAllGroups(totals, c) = Total([g \in SwapGroups |-> totals[g][c]])
BY DEF OfAllGroups, Total, MapThenSumSet, MapThenFoldSet

LEMMA SwapItemType ==
  ASSUME NEW w \in Windows, NEW price \in Price, NEW totals \in [SwapGroups -> SwapFigureType]
  PROVE  SwapItem(w, totals, price) \in SwapHistoryItem
<1>1. IsFiniteSet(SwapGroups)
  BY GroupsFinite
<1>2. ASSUME NEW c \in SwapFigures PROVE OfAllGroups(totals, c) \in Nat
  <2> DEFINE f == [g \in SwapGroups |-> totals[g][c]]
  <2>1. f \in [SwapGroups -> Nat]
    BY DEF SwapFigures, SwapFigureType
  <2>2. OfAllGroups(totals, c) = Total(f)
    BY AllGroups
  <2> HIDE DEF f
  <2> QED
    BY <1>1, <2>1, <2>2, SumNatural
<1>3. /\ OfAllGroups(totals, "count") \in Nat /\ OfAllGroups(totals, "volume") \in Nat
      /\ OfAllGroups(totals, "fees") \in Nat /\ OfAllGroups(totals, "slip") \in Nat
  BY <1>2 DEF SwapFigures
<1>4. Ratio(OfAllGroups(totals, "slip"), OfAllGroups(totals, "count")) \in Quotient
  BY <1>3, RatioType
<1>5. [g \in SwapGroups |-> Ratio(totals[g].slip, totals[g].count)] \in [SwapGroups -> Quotient]
  <2>1. \A g \in SwapGroups : totals[g].slip \in Int /\ totals[g].count \in Int
    BY DEF SwapFigureType
  <2> QED
    BY <2>1, RatioType
<1> DEFINE slips == [g \in SwapGroups |-> Ratio(totals[g].slip, totals[g].count)]
           slip == Ratio(OfAllGroups(totals, "slip"), OfAllGroups(totals, "count"))
           n == OfAllGroups(totals, "count")
           v == OfAllGroups(totals, "volume")
           f == OfAllGroups(totals, "fees")
<1>6. SwapItem(w, totals, price) =
        [window |-> w, split |-> totals, price |-> price, count |-> n, volume |-> v, fees |-> f,
         averageSlip |-> slips, slip |-> slip]
  BY DEF SwapItem
<1> HIDE DEF slips, slip, n, v, f
<1> QED
  BY <1>3, <1>4, <1>5, <1>6 DEF SwapHistoryItem, SwapFigureType, slips, slip, n, v, f

LEMMA SwapsType ==
  ASSUME NoneNegative, NEW b, IsBuckets(b), NEW pool, NEW heights
  PROVE  SwapHistory(b, pool, heights) \in HistoryOf(SwapHistoryItem)
<1> DEFINE rows == OfPool(Table("swap", heights[1]), pool)
           totals == [i \in 1 .. Count(b) |-> SwapTotals(Group(b, rows, i))]
           price == RunePriceAt(heights[2], LastTime(b))
           items == [i \in 1 .. Count(b) |-> SwapItem(Window(b, i), totals[i], price)]
           meta == SwapItem(WholeWindow(b), AddSwapTotals(totals), price)
<1>1. rows \in SUBSET Rows /\ \A r \in rows : r.table = "swap"
  BY DEF OfPool, Table
<1>2. price \in Price
  BY PriceType
<1> HIDE DEF price
<1>3. ASSUME NEW i \in 1 .. Count(b) PROVE items[i] \in SwapHistoryItem
  <2>1. Group(b, rows, i) \in SUBSET Rows /\ \A r \in Group(b, rows, i) : r.table = "swap"
    BY <1>1 DEF Group, Within, Since
  <2>2. totals[i] \in [SwapGroups -> SwapFigureType]
    BY <2>1, SwapTotalsType
  <2> HIDE DEF totals
  <2> QED
    BY <1>2, <2>2, SwapItemType, WindowTypes
<1>4. meta \in SwapHistoryItem
  <2>1. AddSwapTotals(totals) = SwapTotals(InRange(b, rows))
    BY <1>1, SwapsAddUp
  <2>2. InRange(b, rows) \in SUBSET Rows /\ \A r \in InRange(b, rows) : r.table = "swap"
    BY <1>1 DEF InRange
  <2>3. AddSwapTotals(totals) \in [SwapGroups -> SwapFigureType]
    BY <2>1, <2>2, SwapTotalsType
  <2> HIDE DEF totals
  <2> QED
    BY <1>2, <2>3, SwapItemType, WindowTypes
<1>5. SwapHistory(b, pool, heights) = [intervals |-> items, meta |-> meta]
  BY DEF SwapHistory, price
<1>6. items \in Seq(SwapHistoryItem)
  <2>1. DOMAIN items = 1 .. Count(b) /\ Count(b) \in Nat
    BY WindowTypes
  <2> HIDE DEF items
  <2>2. items = [i \in 1 .. Count(b) |-> items[i]]
    BY <1>5, <2>1 DEF items
  <2> QED
    BY <1>3, <2>1, <2>2
<1> HIDE DEF items, meta
<1> QED
  BY <1>4, <1>5, <1>6 DEF HistoryOf

LEMMA GroupOfRows ==
  ASSUME NEW b, NEW rows \in SUBSET Rows
  PROVE  /\ InRange(b, rows) \in SUBSET Rows /\ InRange(b, rows) \subseteq rows
         /\ \A i : Group(b, rows, i) \in SUBSET Rows /\ Group(b, rows, i) \subseteq rows
BY DEF InRange, Group, Within, Since

\* A history of an item for every interval.
LEMMA ItemsType ==
  ASSUME NEW n \in Nat, NEW type, NEW items, DOMAIN items = 1 .. n,
         items = [i \in 1 .. n |-> items[i]], \A i \in 1 .. n : items[i] \in type
  PROVE  items \in Seq(type)
<1>1. items \in [1 .. n -> type]
  OBVIOUS
<1> QED
  BY <1>1

LiquiditySplitType ==
  [addCount : Nat, addRune : Nat, addAsset : Nat,
   withdrawCount : Nat, withdrawRune : Nat, withdrawAsset : Nat]

LEMMA LiquidityTotalsType ==
  ASSUME NoneNegative, NEW T \in SUBSET Rows
  PROVE  LiquidityTotals(T) \in LiquiditySplitType
<1> DEFINE totals == LiquidityTotals(T)
<1>1. \A c \in LiquidityFigures : totals[c] \in Nat
  <2> TAKE c \in LiquidityFigures
  <2>1. totals[c] = Over(LiquidityColumn(c), OfSide(T, c))
    BY LiquidityTotalsAre
  <2>2. OfSide(T, c) \in SUBSET Rows
    BY DEF OfSide
  <2>3. ASSUME NEW r \in OfSide(T, c) PROVE LiquidityColumn(c)[r] >= 0
    <3>1. /\ r \in Rows /\ r.table = SideOf(c) /\ r.table \in {"stake", "withdraw"}
          /\ {r.units, r.rune, r.asset, r.assetInRune} \subseteq Nat
      BY DEF OfSide, SideOf, NoneNegative
    <3> QED
      BY <3>1 DEF LiquidityColumn, LiquidityFigures
  <2> HIDE DEF totals
  <2> QED
    BY <2>1, <2>2, <2>3, LiquidityColumnType, OverNatural
<1>2. totals = [addCount |-> totals.addCount, addRune |-> totals.addRune,
                addAsset |-> totals.addAsset, withdrawCount |-> totals.withdrawCount,
                withdrawRune |-> totals.withdrawRune, withdrawAsset |-> totals.withdrawAsset]
  BY DEF LiquidityTotals
<1> HIDE DEF totals
<1>3. totals \in LiquiditySplitType
  BY <1>1, <1>2 DEF LiquiditySplitType, LiquidityFigures
<1> QED
  BY <1>3 DEF totals

LEMMA LiquidityItemType ==
  ASSUME NEW w \in Windows, NEW price \in Price, NEW split \in LiquiditySplitType
  PROVE  LiquidityItem(w, split, price) \in LiquidityHistoryItem
BY DEF LiquidityItem, LiquidityHistoryItem, LiquiditySplitType

LEMMA LiquidityType ==
  ASSUME NoneNegative, NEW b, IsBuckets(b), NEW pool, NEW heights
  PROVE  LiquidityHistory(b, pool, heights) \in HistoryOf(LiquidityHistoryItem)
<1> DEFINE rows == OfPool(Table("stake", heights[1]) \cup Table("withdraw", heights[1]), pool)
           totals == [i \in 1 .. Count(b) |-> LiquidityTotals(Group(b, rows, i))]
           price == RunePriceAt(heights[2], LastTime(b))
           items == [i \in 1 .. Count(b) |-> LiquidityItem(Window(b, i), totals[i], price)]
           meta == LiquidityItem(WholeWindow(b), AddLiquidityTotals(totals), price)
<1>1. rows \in SUBSET Rows
  BY DEF OfPool, Table
<1>2. price \in Price
  BY PriceType
<1> HIDE DEF price, rows
<1>3. ASSUME NEW i \in 1 .. Count(b) PROVE items[i] \in LiquidityHistoryItem
  <2>1. totals[i] \in LiquiditySplitType
    BY <1>1, GroupOfRows, LiquidityTotalsType
  <2> HIDE DEF totals
  <2> QED
    BY <1>2, <2>1, LiquidityItemType, WindowTypes
<1>4. meta \in LiquidityHistoryItem
  <2>1. AddLiquidityTotals(totals) = LiquidityTotals(InRange(b, rows))
    BY <1>1, LiquidityAddsUp
  <2>2. AddLiquidityTotals(totals) \in LiquiditySplitType
    BY <1>1, <2>1, GroupOfRows, LiquidityTotalsType
  <2> HIDE DEF totals
  <2> QED
    BY <1>2, <2>2, LiquidityItemType, WindowTypes
<1>5. LiquidityHistory(b, pool, heights) = [intervals |-> items, meta |-> meta]
  BY DEF LiquidityHistory, price, rows
<1>6. DOMAIN items = 1 .. Count(b) /\ items = [i \in 1 .. Count(b) |-> items[i]]
  OBVIOUS
<1> HIDE DEF items, meta
<1>7. items \in Seq(LiquidityHistoryItem)
  BY <1>3, <1>6, ItemsType, WindowTypes
<1> QED
  BY <1>4, <1>5, <1>7 DEF HistoryOf

\* Earnings.
PoolAmounts(f, values) ==
  DOMAIN f \subseteq Pools /\ IsFiniteSet(DOMAIN f) /\ \A p \in DOMAIN f : f[p] \in values

LEMMA NamesOfRows ==
  ASSUME NEW T \in SUBSET Rows, \A r \in T : r.pool \in Pools
  PROVE  {r.pool : r \in T} \subseteq Pools /\ IsFiniteSet({r.pool : r \in T})
<1> DEFINE f == [r \in T |-> r.pool]
           names == {r.pool : r \in T}
<1>1. IsFiniteSet(T)
  BY RowsAssumption, FS_Subset
<1>2. f \in Surjection(T, names)
  BY Fun_IsSurj
<1> QED
  BY <1>1, <1>2, FS_Surjection

LEMMA FeesType ==
  ASSUME NoneNegative, NEW T \in SUBSET Rows, \A r \in T : r.table = "swap"
  PROVE  PoolAmounts(FeesPerPool(T), Nat)
<1>1. FeesPerPool(T) = PoolSums(FeeColumn, T)
  BY FeesAre
<1>2. \A r \in T : r.pool \in Pools
  BY RowsAssumption
<1>3. ASSUME NEW p PROVE Over(FeeColumn, WithPool(T, p)) \in Nat
  <2>1. WithPool(T, p) \in SUBSET Rows
    BY DEF WithPool
  <2>2. ASSUME NEW r \in WithPool(T, p) PROVE FeeColumn[r] >= 0
    <3>1. r \in Rows /\ r.table = "swap" /\ r.feeInRune \in Nat
      BY DEF WithPool, NoneNegative
    <3> QED
      BY <3>1 DEF FeeColumn
  <2> QED
    BY <2>1, <2>2, EarningColumnTypes, OverNatural
<1>4. /\ {r.pool : r \in T} \subseteq Pools
      /\ IsFiniteSet({r.pool : r \in T})
  BY <1>2, NamesOfRows
<1> QED
  BY <1>1, <1>3, <1>4 DEF PoolAmounts, PoolSums

LEMMA RewardsType ==
  ASSUME NEW T \in SUBSET Rows, \A r \in T : r.table = "rewardEntry"
  PROVE  PoolAmounts(RewardsPerPool(T), Int)
<1>1. RewardsPerPool(T) = PoolSums(RewardColumn, T)
  BY RewardsAre
<1>2. \A r \in T : r.pool \in Pools
  BY RowsAssumption
<1>3. ASSUME NEW p PROVE Over(RewardColumn, WithPool(T, p)) \in Int
  <2>1. WithPool(T, p) \in SUBSET Rows
    BY DEF WithPool
  <2> QED
    BY <2>1, EarningColumnTypes, RowsAssumption, OverPick
<1>4. /\ {r.pool : r \in T} \subseteq Pools
      /\ IsFiniteSet({r.pool : r \in T})
  BY <1>2, NamesOfRows
<1> QED
  BY <1>1, <1>3, <1>4 DEF PoolAmounts, PoolSums

LEMMA BondType ==
  ASSUME NoneNegative, NEW T \in SUBSET Rows, \A r \in T : r.table = "rewards"
  PROVE  BondRewards(T) \in Nat
<1>1. ASSUME NEW r \in T PROVE BondColumn[r] >= 0
  <2>1. r \in Rows /\ r.table = "rewards" /\ r.bond \in Nat
    BY DEF NoneNegative
  <2> QED
    BY <2>1 DEF BondColumn
<1> QED
  BY <1>1, BondIs, EarningColumnTypes, OverNatural

LEMMA AllPools ==
  ASSUME NEW amounts, NEW names
  PROVE  OfAllPools(amounts, names) = Total([p \in names |-> OrZero(amounts, p)])
BY DEF OfAllPools, Total, MapThenSumSet, MapThenFoldSet

LEMMA EarningsItemType ==
  ASSUME NEW w \in Windows, NEW price \in Price, NEW bond \in Nat,
         NEW fees, PoolAmounts(fees, Nat), NEW rewards, PoolAmounts(rewards, Int)
  PROVE  EarningsItem(w, fees, rewards, bond, price) \in EarningsHistoryItem
<1> DEFINE names == DOMAIN fees \cup DOMAIN rewards
           totalFees == OfAllPools(fees, names)
           totalRewards == OfAllPools(rewards, names)
           pools == {[pool |-> p, fees |-> OrZero(fees, p), rewards |-> OrZero(rewards, p),
                      earnings |-> OrZero(fees, p) + OrZero(rewards, p)] : p \in names}
<1>1. names \subseteq Pools /\ IsFiniteSet(names)
  BY FS_Union DEF PoolAmounts
<1>2. \A p \in names : OrZero(fees, p) \in Nat /\ OrZero(rewards, p) \in Int
  BY DEF PoolAmounts, OrZero
<1> HIDE DEF names
<1>3. totalFees \in Nat
  <2> DEFINE f == [p \in names |-> OrZero(fees, p)]
  <2>1. totalFees = Total(f) /\ f \in [names -> Nat]
    BY <1>2, AllPools
  <2> HIDE DEF f, totalFees
  <2> QED
    BY <1>1, <2>1, SumNatural
<1>4. totalRewards \in Int
  <2> DEFINE f == [p \in names |-> OrZero(rewards, p)]
  <2>1. totalRewards = Total(f) /\ f \in [names -> Int]
    BY <1>2, AllPools
  <2> HIDE DEF f, totalRewards
  <2> QED
    BY <1>1, <2>1, SumInteger
<1>5. pools \in SUBSET EarningsHistoryItemPool
  <2> SUFFICES ASSUME NEW p \in names
               PROVE  [pool |-> p, fees |-> OrZero(fees, p), rewards |-> OrZero(rewards, p),
                       earnings |-> OrZero(fees, p) + OrZero(rewards, p)]
                        \in EarningsHistoryItemPool
    OBVIOUS
  <2> DEFINE fee == OrZero(fees, p)
             reward == OrZero(rewards, p)
  <2>1. fee \in Nat /\ reward \in Int /\ p \in Pools
    BY <1>1, <1>2
  <2> HIDE DEF fee, reward
  <2>2. [pool |-> p, fees |-> fee, rewards |-> reward, earnings |-> fee + reward]
          \in EarningsHistoryItemPool
    BY <2>1 DEF EarningsHistoryItemPool
  <2> QED
    BY <2>2 DEF fee, reward
<1>6. EarningsItem(w, fees, rewards, bond, price) =
        [window |-> w, price |-> price, pools |-> pools, fees |-> totalFees, bond |-> bond,
         blockRewards |-> bond + totalRewards, liquidityEarnings |-> totalFees + totalRewards,
         earnings |-> totalFees + bond + totalRewards]
  BY DEF EarningsItem, names
<1> HIDE DEF pools, totalFees, totalRewards
<1> QED
  BY <1>3, <1>4, <1>5, <1>6 DEF EarningsHistoryItem

LEMMA EarningsType ==
  ASSUME NoneNegative, NEW b, IsBuckets(b), NEW heights
  PROVE  EarningsHistory(b, heights) \in HistoryOf(EarningsHistoryItem)
<1> DEFINE n == 1 .. Count(b)
           swaps == Table("swap", heights[2])
           entries == Table("rewardEntry", heights[3])
           nodes == Table("rewards", heights[4])
           price == RunePriceAt(heights[1], LastTime(b))
           fees == [i \in n |-> FeesPerPool(Group(b, swaps, i))]
           rewards == [i \in n |-> RewardsPerPool(Group(b, entries, i))]
           bond == [i \in n |-> BondRewards(Group(b, nodes, i))]
           items == [i \in n |-> EarningsItem(Window(b, i), fees[i], rewards[i], bond[i], price)]
           meta == EarningsItem(WholeWindow(b), AddPerPool(fees), AddPerPool(rewards),
                                AddBond(bond), price)
<1>1. /\ swaps \in SUBSET Rows /\ \A r \in swaps : r.table = "swap"
      /\ entries \in SUBSET Rows /\ \A r \in entries : r.table = "rewardEntry"
      /\ nodes \in SUBSET Rows /\ \A r \in nodes : r.table = "rewards"
  BY DEF Table
<1>2. price \in Price
  BY PriceType
<1>3. EarningsHistory(b, heights) = [intervals |-> items, meta |-> meta]
  BY DEF EarningsHistory
<1> HIDE DEF price, swaps, entries, nodes
<1>4. ASSUME NEW i \in n PROVE items[i] \in EarningsHistoryItem
  <2>1. /\ PoolAmounts(fees[i], Nat) /\ PoolAmounts(rewards[i], Int)
        /\ bond[i] \in Nat
    <3>1. /\ \A r \in Group(b, swaps, i) : r.table = "swap"
          /\ \A r \in Group(b, entries, i) : r.table = "rewardEntry"
          /\ \A r \in Group(b, nodes, i) : r.table = "rewards"
      BY <1>1, GroupOfRows
    <3>2. /\ Group(b, swaps, i) \in SUBSET Rows /\ Group(b, entries, i) \in SUBSET Rows
          /\ Group(b, nodes, i) \in SUBSET Rows
      BY <1>1, GroupOfRows
    <3> QED
      BY <3>1, <3>2, FeesType, RewardsType, BondType
  <2> HIDE DEF fees, rewards, bond
  <2> QED
    BY <1>2, <2>1, EarningsItemType, WindowTypes
<1>5. meta \in EarningsHistoryItem
  <2>1. /\ AddPerPool(fees) = FeesPerPool(InRange(b, swaps))
        /\ AddPerPool(rewards) = RewardsPerPool(InRange(b, entries))
        /\ AddBond(bond) = BondRewards(InRange(b, nodes))
    BY EarningsAddUp DEF swaps, entries, nodes
  <2>2. /\ InRange(b, swaps) \in SUBSET Rows /\ \A r \in InRange(b, swaps) : r.table = "swap"
        /\ InRange(b, entries) \in SUBSET Rows
        /\ \A r \in InRange(b, entries) : r.table = "rewardEntry"
        /\ InRange(b, nodes) \in SUBSET Rows /\ \A r \in InRange(b, nodes) : r.table = "rewards"
    BY <1>1, GroupOfRows
  <2>3. /\ PoolAmounts(AddPerPool(fees), Nat) /\ PoolAmounts(AddPerPool(rewards), Int)
        /\ AddBond(bond) \in Nat
    BY <2>1, <2>2, FeesType, RewardsType, BondType
  <2> HIDE DEF fees, rewards, bond
  <2> QED
    BY <1>2, <2>3, EarningsItemType, WindowTypes
<1>6. DOMAIN items = n /\ items = [i \in n |-> items[i]]
  OBVIOUS
<1> HIDE DEF items, meta
<1>7. items \in Seq(EarningsHistoryItem)
  BY <1>4, <1>6, ItemsType, WindowTypes
<1> QED
  BY <1>3, <1>5, <1>7 DEF HistoryOf

\* Depths.
LEMMA DepthTypes ==
  /\ NoDepth \in Depths
  /\ \A r \in Rows : r.table = "depth" => DepthOf(r) \in Depths /\ r.pool \in Pools
BY RowsAssumption DEF NoDepth, DepthOf, Depths

SnapshotType == [depth : Depths, members : Nat]

LEMMA SnapshotIsTyped ==
  ASSUME NEW pool, NEW at, NEW h, NEW k
  PROVE  SnapshotAt(pool, at, h, k) \in SnapshotType
<1> DEFINE row == NewestPerPool(Until(OfPool(Table("depth", h), {pool}), at))
           moves == Until(OfPool(Table("stake", k) \cup Table("withdraw", k), {pool}), at)
           depth == IF row = {} THEN NoDepth ELSE DepthOf(CHOOSE r \in row : TRUE)
           members == Cardinality(Holding(moves))
<1>1. \A r \in row : r \in Rows /\ r.table = "depth"
  BY DEF NewestPerPool, Until, OfPool, Table
<1>2. depth \in Depths
  <2>1. row # {} => (CHOOSE r \in row : TRUE) \in row
    OBVIOUS
  <2> HIDE DEF row
  <2> QED
    BY <1>1, <2>1, DepthTypes
<1>3. members \in Nat
  <2>1. moves \in SUBSET AllMoves /\ OfOnePool(moves)
    BY DEF Until, OfPool, Table, AllMoves, OfOnePool
  <2> HIDE DEF moves
  <2>2. Cardinality(Holding(moves)) = Cardinality(Holders(moves)) /\ IsFiniteSet(Holders(moves))
    BY <2>1, HoldersCounted, HoldingIsHolders
  <2> QED
    BY <2>2, FS_CardinalityType
<1>4. SnapshotAt(pool, at, h, k) = [depth |-> depth, members |-> members]
  BY DEF SnapshotAt
<1> HIDE DEF depth, members
<1> QED
  BY <1>2, <1>3, <1>4 DEF SnapshotType

LEMMA LuviType == ASSUME NEW d \in Depths PROVE Luvi(d) \in LuviParts
BY DEF Luvi, LuviParts, Depths

LEMMA DepthItemType ==
  ASSUME NEW w \in Windows, NEW price \in Price, NEW s \in SnapshotType
  PROVE  DepthItem(w, s, price) \in DepthHistoryItem
<1> DEFINE assetPrice == Ratio(s.depth.rune, s.depth.asset)
           parts == Luvi(s.depth)
<1>1. s.depth \in Depths /\ s.members \in Nat
  BY DEF SnapshotType
<1>2. assetPrice \in Quotient /\ parts \in LuviParts
  <2>1. s.depth.rune \in Int /\ s.depth.asset \in Int
    BY <1>1 DEF Depths
  <2> QED
    BY <1>1, <2>1, RatioType, LuviType
<1>3. DepthItem(w, s, price) = [window |-> w, depth |-> s.depth, members |-> s.members,
                                assetPrice |-> assetPrice, price |-> price, luvi |-> parts]
  BY DEF DepthItem
<1> HIDE DEF assetPrice, parts
<1> QED
  BY <1>1, <1>2, <1>3 DEF DepthHistoryItem

LEMMA ShiftType ==
  ASSUME NEW first \in Depths, NEW last \in Depths
  PROVE  PriceShift(first, last) \in SUBSET (Quotient \X Quotient)
<1>1. Ratio(first.rune, first.asset) \in Quotient /\ Ratio(last.rune, last.asset) \in Quotient
  BY RatioType DEF Depths
<1> QED
  BY <1>1 DEF PriceShift

LEMMA DepthsType ==
  ASSUME NEW b, IsBuckets(b), NEW pool, NEW heights
  PROVE  DepthHistory(b, pool, heights) \in DepthHistoryBody
<1> DEFINE price == RunePriceAt(heights[1], LastTime(b))
           snapshots == [j \in 1 .. Count(b) + 1 |->
                           SnapshotAt(pool, b.timestamps[j], heights[2 * j], heights[2 * j + 1])]
           first == snapshots[1]
           last == snapshots[Count(b) + 1]
           items == [i \in 1 .. Count(b) |-> DepthItem(Window(b, i), snapshots[i + 1], price)]
           luvi == <<Luvi(last.depth), Luvi(first.depth)>>
           shift == PriceShift(first.depth, last.depth)
           meta == [window |-> WholeWindow(b), start |-> first, end |-> last,
                    luvi |-> luvi, shift |-> shift]
<1>1. Count(b) \in Nat \ {0}
  BY WindowTypes
<1>2. \A j \in 1 .. Count(b) + 1 : snapshots[j] \in SnapshotType
  BY SnapshotIsTyped
<1>3. price \in Price
  BY PriceType
<1>4. DepthHistory(b, pool, heights) = [intervals |-> items, meta |-> meta]
  BY DEF DepthHistory
<1> HIDE DEF price, snapshots
<1>5. ASSUME NEW i \in 1 .. Count(b) PROVE items[i] \in DepthHistoryItem
  <2>1. i + 1 \in 1 .. Count(b) + 1
    BY <1>1
  <2> QED
    BY <1>2, <1>3, <2>1, DepthItemType, WindowTypes
<1>6. first \in SnapshotType /\ last \in SnapshotType
  <2>1. 1 \in 1 .. Count(b) + 1 /\ Count(b) + 1 \in 1 .. Count(b) + 1
    BY <1>1
  <2> QED
    BY <1>2, <2>1
<1> HIDE DEF first, last
<1>7. luvi \in LuviParts \X LuviParts /\ shift \in SUBSET (Quotient \X Quotient)
  <2>1. first.depth \in Depths /\ last.depth \in Depths
    BY <1>6 DEF SnapshotType
  <2> QED
    BY <2>1, LuviType, ShiftType
<1> HIDE DEF luvi, shift
<1>8. meta \in DepthHistoryMeta
  BY <1>6, <1>7, WindowTypes DEF DepthHistoryMeta, SnapshotType
<1>9. DOMAIN items = 1 .. Count(b) /\ items = [i \in 1 .. Count(b) |-> items[i]]
  OBVIOUS
<1> HIDE DEF items, meta
<1>10. items \in Seq(DepthHistoryItem)
  BY <1>1, <1>5, <1>9, ItemsType
<1> QED
  BY <1>4, <1>8, <1>10 DEF DepthHistoryBody

\* The value locked.
LEMMA PoolDepthsType ==
  ASSUME NEW h, NEW at
  PROVE  PoolAmounts(PoolDepthsAt(h, at), Nat)
<1> DEFINE live == {r \in NewestPerPool(Until(Table("depth", h), at)) : r.rune > 0}
           names == {r.pool : r \in live}
           depths == PoolDepthsAt(h, at)
<1>1. live \in SUBSET Rows /\ \A r \in live : r.pool \in Pools /\ r.rune \in Nat
  BY RowsAssumption DEF NewestPerPool, Until, Table
<1>2. DOMAIN depths = names /\ \A p \in names : depths[p] = (CHOOSE r \in live : r.pool = p).rune
  BY DEF PoolDepthsAt
<1> HIDE DEF depths
<1>3. names \subseteq Pools /\ IsFiniteSet(names)
  <2> HIDE DEF live
  <2> QED
    BY <1>1, NamesOfRows
<1>4. ASSUME NEW p \in names PROVE depths[p] \in Nat
  <2> HIDE DEF live
  <2>1. \E r \in live : r.pool = p
    OBVIOUS
  <2>2. (CHOOSE r \in live : r.pool = p) \in live
    BY <2>1
  <2> HIDE DEF names
  <2> QED
    BY <1>1, <1>2, <2>2
<1> HIDE DEF names
<1> QED
  BY <1>2, <1>3, <1>4 DEF PoolAmounts, depths

LEMMA PooledSum ==
  ASSUME NEW depths
  PROVE  Pooled(depths) = Total([p \in DOMAIN depths |-> 2 * depths[p]])
BY Zenon DEF Pooled, Total, MapThenSumSet, MapThenFoldSet

LEMMA TvlItemType ==
  ASSUME NEW w \in Windows, NEW price \in Price, NEW depths, PoolAmounts(depths, Nat)
  PROVE  TvlItem(w, depths, price) \in TvlHistoryItem
<1> DEFINE pools == {[pool |-> p, total |-> 2 * depths[p]] : p \in DOMAIN depths}
           twice == [p \in DOMAIN depths |-> 2 * depths[p]]
<1>1. Pooled(depths) \in Nat
  <2>1. Pooled(depths) = Total(twice)
    BY PooledSum
  <2>2. twice \in [DOMAIN depths -> Nat] /\ IsFiniteSet(DOMAIN depths)
    BY DEF PoolAmounts
  <2> HIDE DEF twice
  <2> QED
    BY <2>1, <2>2, SumNatural
<1>2. pools \in SUBSET TvlPoolDepth
  <2> SUFFICES ASSUME NEW p \in DOMAIN depths
               PROVE  [pool |-> p, total |-> 2 * depths[p]] \in TvlPoolDepth
    OBVIOUS
  <2>1. p \in Pools /\ 2 * depths[p] \in Nat
    BY DEF PoolAmounts
  <2> QED
    BY <2>1 DEF TvlPoolDepth
<1>3. TvlItem(w, depths, price) =
        [window |-> w, price |-> price, pools |-> pools, pooled |-> Pooled(depths)]
  BY DEF TvlItem
<1> HIDE DEF pools
<1> QED
  BY <1>1, <1>2, <1>3 DEF TvlHistoryItem

LEMMA TvlType ==
  ASSUME NEW b, IsBuckets(b), NEW heights
  PROVE  TvlHistory(b, heights) \in HistoryOf(TvlHistoryItem)
<1> DEFINE price == RunePriceAt(heights[1], LastTime(b))
           depths(i) == PoolDepthsAt(heights[i + 1], b.timestamps[i + 1])
           items == [i \in 1 .. Count(b) |-> TvlItem(Window(b, i), depths(i), price)]
           meta == TvlItem(WholeWindow(b), PoolDepthsAt(heights[Count(b) + 2], LastTime(b)), price)
<1>1. price \in Price
  BY PriceType
<1>2. TvlHistory(b, heights) = [intervals |-> items, meta |-> meta]
  BY DEF TvlHistory
<1> HIDE DEF price
<1>3. ASSUME NEW i \in 1 .. Count(b) PROVE items[i] \in TvlHistoryItem
  <2>1. PoolAmounts(depths(i), Nat)
    BY PoolDepthsType
  <2> HIDE DEF depths
  <2> QED
    BY <1>1, <2>1, TvlItemType, WindowTypes
<1>4. meta \in TvlHistoryItem
  BY <1>1, PoolDepthsType, TvlItemType, WindowTypes
<1>5. DOMAIN items = 1 .. Count(b) /\ items = [i \in 1 .. Count(b) |-> items[i]]
  OBVIOUS
<1> HIDE DEF items, meta
<1>6. items \in Seq(TvlHistoryItem)
  BY <1>3, <1>5, ItemsType, WindowTypes
<1> QED
  BY <1>2, <1>4, <1>6 DEF HistoryOf

\* The details of pools.
StateType == [depth : Depths, status : Statuses]

LEMMA KnownPoolsType ==
  ASSUME NEW h PROVE KnownPools(h) \in SUBSET [pool : Pools, status : Statuses]
<1> DEFINE rows == NewestPerPool(Table("pool", h))
           names == {r.pool : r \in rows}
           row(p) == CHOOSE r \in rows : r.pool = p
<1>1. \A r \in rows : r.pool \in Pools /\ r.status \in Statuses
  BY RowsAssumption DEF NewestPerPool, Table, Statuses
<1>2. KnownPools(h) = {[pool |-> p, status |-> row(p).status] : p \in names}
  BY DEF KnownPools
<1> HIDE DEF rows
<1>3. ASSUME NEW p \in names PROVE p \in Pools /\ row(p).status \in Statuses
  <2>1. \E r \in rows : r.pool = p
    OBVIOUS
  <2>2. row(p) \in rows /\ row(p).pool = p
    BY <2>1
  <2> HIDE DEF row
  <2> QED
    BY <1>1, <2>2
<1> HIDE DEF names, row
<1>4. \A p \in names : [pool |-> p, status |-> row(p).status] \in [pool : Pools, status : Statuses]
  BY <1>3
<1> QED
  BY <1>2, <1>4

LEMMA StatesType ==
  ASSUME NEW now, NEW h, NEW k
  PROVE  /\ DOMAIN PoolStates(now, h, k) \subseteq Pools
         /\ \A p \in DOMAIN PoolStates(now, h, k) : PoolStates(now, h, k)[p] \in StateType
<1> DEFINE depths == NewestPerPool(Until(Table("depth", h), now))
           names == {r.pool : r \in depths}
           row(p) == CHOOSE r \in depths : r.pool = p
           statuses(p) == {s.status : s \in {q \in KnownPools(k) : q.pool = p}}
           status(p) == IF statuses(p) = {} THEN "unknown" ELSE CHOOSE s \in statuses(p) : TRUE
<1>1. \A r \in depths : r.pool \in Pools /\ r \in Rows /\ r.table = "depth"
  BY RowsAssumption DEF NewestPerPool, Until, Table
<1>2. PoolStates(now, h, k) = [p \in names |-> [depth |-> DepthOf(row(p)), status |-> status(p)]]
  BY DEF PoolStates
<1>3. ASSUME NEW p PROVE status(p) \in Statuses
  <2>1. statuses(p) \subseteq Statuses
    BY KnownPoolsType
  <2>2. statuses(p) # {} => (CHOOSE s \in statuses(p) : TRUE) \in statuses(p)
    OBVIOUS
  <2> HIDE DEF statuses
  <2>3. "unknown" \in Statuses
    BY DEF Statuses
  <2> QED
    BY <2>1, <2>2, <2>3
<1> HIDE DEF depths, status
<1>4. ASSUME NEW p \in names PROVE p \in Pools /\ DepthOf(row(p)) \in Depths
  <2>1. \E r \in depths : r.pool = p
    OBVIOUS
  <2>2. row(p) \in depths /\ row(p).pool = p
    BY <2>1
  <2> HIDE DEF row
  <2> QED
    BY <1>1, <2>2, DepthTypes
<1> HIDE DEF names, row
<1>5. \A p \in names : [depth |-> DepthOf(row(p)), status |-> status(p)] \in StateType
  BY <1>3, <1>4 DEF StateType
<1> QED
  BY <1>2, <1>4, <1>5

LEMMA VolumeSinceType ==
  ASSUME NoneNegative, NEW pool, NEW since, NEW h
  PROVE  SwapVolumeSince(pool, since, h) \in Nat
<1> DEFINE T == Since(OfPool(Table("swap", h), {pool}), since)
           f == [r \in T |-> RuneLeg(r)]
<1>1. T \in SUBSET Rows /\ \A r \in T : r.table = "swap"
  BY DEF Since, OfPool, Table
<1>2. IsFiniteSet(T)
  BY <1>1, RowsAssumption, FS_Subset
<1>3. SwapVolumeSince(pool, since, h) = MapThenSumSet(RuneLeg, T)
  BY DEF SwapVolumeSince
<1> HIDE DEF T
<1>4. MapThenSumSet(RuneLeg, T) = Total([r \in T |-> RuneLeg(r)])
  BY Zenon DEF Total, MapThenSumSet, MapThenFoldSet
<1>5. \A r \in T : RuneLeg(r) \in Nat
  BY <1>1 DEF NoneNegative, RuneLeg
<1>6. f \in [T -> Nat]
  BY <1>5
<1> HIDE DEF f
<1>7. Total(f) \in Nat
  BY <1>2, <1>6, SumNatural
<1> QED
  BY <1>3, <1>4, <1>7 DEF f

LEMMA EarningsSinceType ==
  ASSUME NEW pool, NEW since, NEW h, NEW k
  PROVE  PoolEarningsSince(pool, since, h, k) \in Int
<1> DEFINE T == Since(OfPool(Table("swap", h), {pool}), since)
           U == Since(OfPool(Table("rewardEntry", k), {pool}), since)
           f == [r \in T |-> r.feeInRune]
           g == [r \in U |-> r.rune]
<1>1. /\ T \in SUBSET Rows /\ \A r \in T : r.feeInRune \in Int
      /\ U \in SUBSET Rows /\ \A r \in U : r.rune \in Int
  BY RowsAssumption DEF Since, OfPool, Table
<1>2. IsFiniteSet(T) /\ IsFiniteSet(U)
  BY <1>1, RowsAssumption, FS_Subset
<1>3. PoolEarningsSince(pool, since, h, k)
        = MapThenSumSet(LAMBDA r : r.feeInRune, T) + MapThenSumSet(LAMBDA r : r.rune, U)
  BY DEF PoolEarningsSince
<1> HIDE DEF T, U
<1>4. /\ MapThenSumSet(LAMBDA r : r.feeInRune, T) = Total(f)
      /\ MapThenSumSet(LAMBDA r : r.rune, U) = Total(g)
  BY ColumnSums
<1>5. f \in [T -> Int] /\ g \in [U -> Int]
  BY <1>1
<1> HIDE DEF f, g
<1>6. Total(f) \in Int /\ Total(g) \in Int
  BY <1>2, <1>5, SumInteger
<1> QED
  BY <1>3, <1>4, <1>6

LEMMA DetailType ==
  ASSUME NoneNegative, NEW pool \in Pools, NEW st \in StateType, NEW price \in Price,
         NEW days \in Int, NEW now \in Int, NEW heights
  PROVE  PoolDetail(pool, st, price, days, now, heights) \in PoolDetailBody
<1> DEFINE since == now - days * Day
           earnings == PoolEarningsSince(pool, since, heights[2], heights[3])
           periods == PeriodsPerYear(since, now)
           assetPrice == Ratio(st.depth.rune, st.depth.asset)
           parts == Luvi(st.depth)
           volume == SwapVolumeSince(pool, now - Day, heights[1])
           apr == Ratio(earnings * periods[1], 2 * st.depth.rune * periods[2])
<1>1. /\ st.depth \in Depths /\ st.status \in Statuses
      /\ st.depth.rune \in Int /\ st.depth.asset \in Int
  BY DEF StateType, Depths
<1>2. PoolDetail(pool, st, price, days, now, heights) =
        [pool |-> pool, status |-> st.status, depth |-> st.depth, price |-> price,
         assetPrice |-> assetPrice, luvi |-> parts, volume24h |-> volume,
         earnings |-> earnings, apr |-> apr]
  BY DEF PoolDetail
<1>3. earnings \in Int /\ volume \in Nat
  BY EarningsSinceType, VolumeSinceType
<1>4. assetPrice \in Quotient /\ parts \in LuviParts
  BY <1>1, RatioType, LuviType
<1>5. since \in Int
  <2>1. days * Day \in Int
    BY DEF Day
  <2> QED
    BY <2>1
<1> HIDE DEF since
<1>6. periods \in Quotient
  <2> DEFINE span == IF now <= since THEN 0 ELSE now - since
  <2>1. span \in Int /\ 365 * Day \in Int
    BY <1>5 DEF Day
  <2>2. periods = Ratio(365 * Day, span)
    BY DEF PeriodsPerYear
  <2> HIDE DEF span, periods
  <2> QED
    BY <2>1, <2>2, RatioType
<1> HIDE DEF periods, earnings
<1>7. apr \in Quotient
  <2>1. periods[1] \in Int /\ periods[2] \in Int
    BY <1>6 DEF Quotient
  <2>2. earnings * periods[1] \in Int /\ 2 * st.depth.rune * periods[2] \in Int
    BY <1>1, <1>3, <2>1
  <2> QED
    BY <2>2, RatioType
<1> HIDE DEF assetPrice, parts, volume, apr
<1> QED
  BY <1>1, <1>2, <1>3, <1>4, <1>7 DEF PoolDetailBody

LEMMA PoolType ==
  ASSUME NoneNegative, NEW pool, NEW days \in Int, NEW now \in Int, NEW heights
  PROVE  PoolAnswer(pool, days, now, heights) \in SUBSET PoolDetailBody
<1> DEFINE states == PoolStates(now, heights[1], heights[2])
           price == RunePriceAt(heights[3], now)
           three == SubSeq(heights, 4, 6)
           detail == PoolDetail(pool, states[pool], price, days, now, three)
<1>1. PoolAnswer(pool, days, now, heights) = IF pool \notin DOMAIN states THEN {} ELSE {detail}
  BY DEF PoolAnswer
<1>2. price \in Price
  BY PriceType
<1>3. pool \in DOMAIN states => pool \in Pools /\ states[pool] \in StateType
  BY StatesType
<1> HIDE DEF states, price, three
<1>4. pool \in DOMAIN states => detail \in PoolDetailBody
  BY <1>2, <1>3, DetailType
<1> HIDE DEF detail
<1> QED
  BY <1>1, <1>4

LEMMA PoolsType ==
  ASSUME NoneNegative, NEW status, NEW days \in Int, NEW order, NEW now \in Int, NEW heights
  PROVE  PoolsAnswer(status, days, order, now, heights) \in Seq(PoolDetailBody)
<1> DEFINE states == PoolStates(now, heights[1], heights[2])
           mine == Selected(states, status)
           place(p) == Cardinality({q \in mine : order[q] <= order[p]})
           price == RunePriceAt(heights[3], now)
           three(p) == SubSeq(heights, 3 * place(p) + 1, 3 * place(p) + 3)
           detail(p) == PoolDetail(p, states[p], price, days, now, three(p))
           details == {detail(p) : p \in mine}
           answer == PoolsAnswer(status, days, order, now, heights)
<1>1. answer = CHOOSE s \in SetToSeqs(details) :
                 \A i, j \in DOMAIN s : i < j => s[i].depth.rune >= s[j].depth.rune
  BY DEF PoolsAnswer
<1>2. mine \subseteq DOMAIN states /\ IsFiniteSet(mine)
  <2>1. mine \subseteq DOMAIN states
    BY DEF Selected
  <2> QED
    BY <2>1, StatesFinite, FS_Subset
<1>3. price \in Price
  BY PriceType
<1>4. \A p \in mine : p \in Pools /\ states[p] \in StateType
  BY <1>2, StatesType
<1> HIDE DEF mine, states, price, three
<1>5. \A p \in mine : detail(p) \in PoolDetailBody
  BY <1>3, <1>4, DetailType
<1>6. IsFiniteSet(details) /\ details \subseteq PoolDetailBody
  <2> HIDE DEF detail
  <2> DEFINE f == [p \in mine |-> detail(p)]
  <2>1. f \in Surjection(mine, details)
    BY Fun_IsSurj
  <2> HIDE DEF f
  <2>2. IsFiniteSet(details)
    BY <1>2, <2>1, FS_Surjection
  <2> QED
    BY <1>5, <2>2
<1> HIDE DEF details, answer
<1>7. \A d \in details : d.depth.rune \in Int
  BY <1>6 DEF PoolDetailBody, Depths
<1>8. answer \in SetToSeqs(details)
  <2> DEFINE key == [d \in details |-> d.depth.rune]
  <2>1. key \in [details -> Int] /\ \A d \in details : key[d] = d.depth.rune
    BY <1>7
  <2> HIDE DEF key
  <2>2. PICK s \in SetToSeqs(details) :
          \A i, j \in DOMAIN s : i < j => key[s[i]] >= key[s[j]]
    BY <1>6, <2>1, Sortable
  <2>3. \A i \in DOMAIN s : s[i] \in details
    BY DEF SetToSeqs
  <2>4. \A i, j \in DOMAIN s : i < j => s[i].depth.rune >= s[j].depth.rune
    BY <2>1, <2>2, <2>3
  <2> QED
    BY <1>1, <2>4
<1>9. answer \in [1 .. Cardinality(details) -> details] /\ Cardinality(details) \in Nat
  BY <1>6, <1>8, FS_CardinalityType DEF SetToSeqs
<1>10. answer \in Seq(details)
  BY <1>9
<1>11. answer \in Seq(PoolDetailBody)
  BY <1>6, <1>10
<1> QED
  BY <1>11 DEF answer

\* Members.
LEMMA MembersType ==
  ASSUME NEW pool, NEW h
  PROVE  Members(pool, h) \in SUBSET (SUBSET Addresses)
<1> DEFINE moves == OfPool(Table("stake", h) \cup Table("withdraw", h), pool)
<1>1. moves \in SUBSET AllMoves
  BY DEF OfPool, Table, AllMoves
<1>2. \A r \in moves : AddressOf(r.account) \subseteq Addresses
  BY <1>1, AccountsAssumption DEF AllMoves
<1>3. Members(pool, h) \subseteq Holding(moves)
  BY DEF Members
<1> HIDE DEF moves
<1>4. Holding(moves) \subseteq {MemberOf(r) : r \in moves}
  BY DEF Holding
<1>5. \A r \in moves : MemberOf(r) = AddressOf(r.account)
  BY <1>1, MemberIsAccount
<1> QED
  BY <1>2, <1>3, <1>4, <1>5

LEMMA AssetsAre ==
  ASSUME NEW T PROVE MapThenSumSet(LAMBDA r : r.asset, T) = Total([r \in T |-> r.asset])
BY Zenon DEF Total, MapThenSumSet, MapThenFoldSet

\* Who has units has deposited some.
LEMMA HolderDeposited ==
  ASSUME NoneNegative, NEW T \in SUBSET {r \in Rows : r.table \in {"stake", "withdraw"}}
  PROVE  /\ Units(T) \in Int
         /\ Units(T) > 0 => \E r \in T : r.table = "stake"
<1> DEFINE f == [r \in T |-> UnitsOf(r)]
           zero == [r \in T |-> 0]
           taken == [r \in T |-> zero[r] + (-1) * f[r]]
<1>1. IsFiniteSet(T)
  BY RowsAssumption, FS_Subset
<1>2. \A r \in T : r.units \in Nat
  BY DEF NoneNegative
<1>3. f \in [T -> Int] /\ zero \in [T -> Int] /\ zero \in [T -> {0}]
  BY <1>2 DEF UnitsOf
<1>4. Units(T) = Over(f, T)
  <2>1. Part(f, T) = f
    BY DEF Part
  <2> QED
    BY <2>1, UnitsAre DEF Over
<1>5. ASSUME \A r \in T : r.table # "stake" PROVE Units(T) <= 0
  <2>1. taken \in [T -> Nat]
    BY <1>2, <1>5 DEF UnitsOf
  <2> HIDE DEF f, zero
  <2>2. Over(taken, T) = Over(zero, T) + (-1) * Over(f, T)
    <3>1. \A m \in Int : Over([r \in T |-> zero[r] + m * f[r]], T) = Over(zero, T) + m * Over(f, T)
      BY <1>1, <1>3, OverPlus
    <3>2. -1 \in Int
      OBVIOUS
    <3> QED
      BY <3>1, <3>2
  <2>3. Over(zero, T) = 0
    BY <1>1, <1>3, OverZeros
  <2> HIDE DEF taken
  <2>4. Over(taken, T) \in Nat
    BY <1>1, <2>1, OverNat
  <2>5. Over(f, T) \in Int
    BY <1>1, <1>3, OverPick
  <2> QED
    BY <1>4, <2>2, <2>3, <2>4, <2>5
<1> HIDE DEF f
<1>6. Units(T) \in Int
  BY <1>1, <1>3, <1>4, OverPick
<1> QED
  BY <1>5, <1>6

\* The first and the last of some times, in seconds.
LEMMA BoundsType ==
  ASSUME NEW T \in SUBSET Rows, T # {}
  PROVE  ToSecond(Min({At(r) : r \in T})) \in Nat /\ ToSecond(Max({At(r) : r \in T})) \in Nat
<1> DEFINE times == {At(r) : r \in T}
           f == [r \in T |-> At(r)]
           key == [n \in times |-> -n]
<1>1. times \in SUBSET Nat /\ times # {}
  BY TimesOfRows
<1>2. IsFiniteSet(times)
  <2>1. f \in Surjection(T, times)
    BY Fun_IsSurj
  <2>2. IsFiniteSet(T)
    BY RowsAssumption, FS_Subset
  <2> QED
    BY <2>1, <2>2, FS_Surjection
<1> HIDE DEF times
<1>3. Min(times) \in Nat
  <2>1. \E n \in times : \A m \in times : n <= m
    BY <1>1, LeastNatural
  <2> QED
    BY <1>1, <2>1 DEF Min
<1>4. Max(times) \in Nat
  <2>1. key \in [times -> Int] /\ \A n \in times : key[n] = -n
    BY <1>1
  <2> HIDE DEF key
  <2>2. PICK m \in times : \A n \in times : key[m] <= key[n]
    BY <1>1, <1>2, <2>1, LeastKey
  <2>3. \A n \in times : m >= n
    BY <1>1, <2>1, <2>2
  <2> QED
    BY <1>1, <2>3 DEF Max
<1>5. NanosPerSecond \in Nat \ {0}
  BY TablesAssumption
<1>6. \A n \in Nat : ToSecond(n) \in Nat
  BY <1>5, QuotientBrackets DEF ToSecond
<1>7. ToSecond(Min(times)) \in Nat /\ ToSecond(Max(times)) \in Nat
  BY <1>3, <1>4, <1>6
<1> QED
  BY <1>7 DEF times

LEMMA MemberPoolType ==
  ASSUME NoneNegative, NEW p \in Pools,
         NEW T \in SUBSET {r \in Rows : r.table \in {"stake", "withdraw"}}, Units(T) > 0
  PROVE  LET added == {r \in T : r.table = "stake"}
             taken == {r \in T : r.table = "withdraw"}
         IN  [pool |-> p, units |-> Units(T),
              runeAdded |-> MapThenSumSet(LAMBDA r : r.rune, added),
              assetAdded |-> MapThenSumSet(LAMBDA r : r.asset, added),
              runeWithdrawn |-> MapThenSumSet(LAMBDA r : r.rune, taken),
              assetWithdrawn |-> MapThenSumSet(LAMBDA r : r.asset, taken),
              firstAdded |-> ToSecond(Min({At(r) : r \in added})),
              lastAdded |-> ToSecond(Max({At(r) : r \in added}))] \in MemberPool
<1> DEFINE added == {r \in T : r.table = "stake"}
           taken == {r \in T : r.table = "withdraw"}
           runeOf(S) == MapThenSumSet(LAMBDA r : r.rune, S)
           assetOf(S) == MapThenSumSet(LAMBDA r : r.asset, S)
           from == ToSecond(Min({At(r) : r \in added}))
           to == ToSecond(Max({At(r) : r \in added}))
<1>1. Units(T) \in Nat /\ added # {}
  <2>1. Units(T) \in Int /\ \E r \in T : r.table = "stake"
    BY HolderDeposited
  <2> QED
    BY <2>1
<1>2. added \in SUBSET Rows /\ added \in SUBSET T /\ taken \in SUBSET T
  OBVIOUS
<1>3. from \in Nat /\ to \in Nat
  BY <1>1, <1>2, BoundsType
<1>4. ASSUME NEW S \in SUBSET T PROVE runeOf(S) \in Nat /\ assetOf(S) \in Nat
  <2> DEFINE f == [r \in S |-> r.rune]
             g == [r \in S |-> r.asset]
  <2>1. runeOf(S) = Total(f)
    BY ColumnSums
  <2>2. assetOf(S) = Total(g)
    BY AssetsAre
  <2>3. f \in [S -> Nat] /\ g \in [S -> Nat]
    BY DEF NoneNegative
  <2>4. IsFiniteSet(S)
    BY RowsAssumption, FS_Subset
  <2> HIDE DEF f, g, runeOf, assetOf
  <2> QED
    BY <2>1, <2>2, <2>3, <2>4, SumNatural
<1>5. /\ runeOf(added) \in Nat /\ assetOf(added) \in Nat
      /\ runeOf(taken) \in Nat /\ assetOf(taken) \in Nat
  BY <1>2, <1>4
<1> HIDE DEF runeOf, assetOf, from, to
<1>6. [pool |-> p, units |-> Units(T), runeAdded |-> runeOf(added), assetAdded |-> assetOf(added),
       runeWithdrawn |-> runeOf(taken), assetWithdrawn |-> assetOf(taken),
       firstAdded |-> from, lastAdded |-> to] \in MemberPool
  BY <1>1, <1>3, <1>5 DEF MemberPool
<1> QED
  BY <1>6 DEF runeOf, assetOf, from, to

LEMMA MemberType ==
  ASSUME NoneNegative, NEW addr, NEW h
  PROVE  MemberDetails(addr, h) \in MemberDetailsBody
<1> DEFINE moves(p) == OfPool(MovesOf(addr, h), {p})
           entry(p, T) ==
             LET added == {r \in T : r.table = "stake"}
                 taken == {r \in T : r.table = "withdraw"}
             IN  [pool |-> p, units |-> Units(T),
                  runeAdded |-> MapThenSumSet(LAMBDA r : r.rune, added),
                  assetAdded |-> MapThenSumSet(LAMBDA r : r.asset, added),
                  runeWithdrawn |-> MapThenSumSet(LAMBDA r : r.rune, taken),
                  assetWithdrawn |-> MapThenSumSet(LAMBDA r : r.asset, taken),
                  firstAdded |-> ToSecond(Min({At(r) : r \in added})),
                  lastAdded |-> ToSecond(Max({At(r) : r \in added}))]
           held == {q \in Pools : Units(moves(q)) > 0}
<1>1. MemberDetails(addr, h) = {entry(p, moves(p)) : p \in held}
  BY DEF MemberDetails
<1>2. \A p : moves(p) \in SUBSET {r \in Rows : r.table \in {"stake", "withdraw"}}
  BY DEF OfPool, MovesOf, Table
<1> HIDE DEF moves
<1>3. ASSUME NEW p \in held PROVE entry(p, moves(p)) \in MemberPool
  <2>1. p \in Pools /\ Units(moves(p)) > 0
    OBVIOUS
  <2> QED
    BY <1>2, <2>1, MemberPoolType
<1> HIDE DEF entry, held
<1> QED
  BY <1>1, <1>3 DEF MemberDetailsBody

\* The network.
NodeType == [active : BOOLEAN, bond : Nat]

LEMMA BondMetricsType ==
  ASSUME NEW n \in Nat, NEW bonds \in [1 .. n -> Nat]
  PROVE  BondMetrics(bonds) \in BondMetricsBody
<1> DEFINE total == MapThenSumSet(LAMBDA k : bonds[k], DOMAIN bonds)
<1>1. bonds \in Seq(Nat) /\ Len(bonds) = n
  OBVIOUS
<1>2. CASE bonds = <<>>
  BY <1>2 DEF BondMetrics, BondMetricsBody
<1>3. CASE bonds # <<>>
  <2>1. n \in Nat \ {0}
    BY <1>1, <1>3
  <2>2. total \in Nat
    <3>1. total = Total(bonds)
      BY DEF Total
    <3>2. IsFiniteSet(1 .. n)
      BY FS_Interval
    <3> HIDE DEF total
    <3> QED
      BY <3>1, <3>2, SumNatural
  <2>3. BondMetrics(bonds) = [total |-> total, average |-> total \div n,
                              median |-> bonds[n \div 2 + 1],
                              minimum |-> bonds[1], maximum |-> bonds[n]]
    BY <1>1, <1>3 DEF BondMetrics
  <2> HIDE DEF total
  <2>4. total \div n \in Nat
    BY <2>1, <2>2, QuotientBrackets
  <2>5. n \div 2 + 1 \in 1 .. n /\ 1 \in 1 .. n /\ n \in 1 .. n
    BY <2>1
  <2>6. bonds[n \div 2 + 1] \in Nat /\ bonds[1] \in Nat /\ bonds[n] \in Nat
    BY <2>5
  <2> QED
    BY <2>2, <2>3, <2>4, <2>6 DEF BondMetricsBody
<1> QED
  BY <1>2, <1>3

LEMMA PooledType ==
  ASSUME NoneNegative, NEW now, NEW h
  PROVE  MapThenSumSet(LAMBDA r : r.rune, NewestPerPool(Until(Table("depth", h), now))) \in Nat
<1> DEFINE T == NewestPerPool(Until(Table("depth", h), now))
           f == [r \in T |-> r.rune]
<1>1. T \in SUBSET Rows /\ \A r \in T : r.rune \in Nat
  BY RowsAssumption DEF NewestPerPool, Until, Table, NoneNegative, NoneOverdrawn
<1> HIDE DEF T
<1>2. MapThenSumSet(LAMBDA r : r.rune, T) = Total(f)
  BY ColumnSums
<1>3. f \in [T -> Nat] /\ IsFiniteSet(T)
  BY <1>1, RowsAssumption, FS_Subset
<1> HIDE DEF f
<1>4. Total(f) \in Nat
  BY <1>3, SumNatural
<1> QED
  BY <1>2, <1>4 DEF T

LEMMA NetworkType ==
  ASSUME NoneNegative, NEW now, NEW answer, answer \subseteq Seq(NodeType), NEW h
  PROVE  Network(now, answer, h) \in NetworkBody
<1> DEFINE nodes == Nodes(answer)
           active == {k \in DOMAIN nodes : nodes[k].active}
           sorted == CHOOSE s \in SetToSeqs(active) :
                       \A i, j \in DOMAIN s : i < j => nodes[s[i]].bond <= nodes[s[j]].bond
           bonds == [k \in DOMAIN sorted |-> nodes[sorted[k]].bond]
           pooled == MapThenSumSet(LAMBDA r : r.rune,
                                   NewestPerPool(Until(Table("depth", h), now)))
           metrics == BondMetrics(bonds)
<1>1. nodes \in Seq(NodeType)
  <2>1. <<>> \in Seq(NodeType)
    OBVIOUS
  <2>2. answer # {} => (CHOOSE n \in answer : TRUE) \in answer
    OBVIOUS
  <2> QED
    BY <2>1, <2>2 DEF Nodes
<1>2. Network(now, answer, h) =
        [pooled |-> pooled, activeNodes |-> Cardinality(active),
         standbyNodes |-> Len(nodes) - Cardinality(active), bonds |-> metrics]
  BY DEF Network
<1>3. pooled \in Nat
  BY PooledType
<1> HIDE DEF nodes, pooled
<1>4. Len(nodes) \in Nat /\ DOMAIN nodes = 1 .. Len(nodes)
      /\ \A k \in 1 .. Len(nodes) : nodes[k] \in NodeType
  BY <1>1
<1>5. /\ IsFiniteSet(active) /\ Cardinality(active) \in Nat
      /\ Cardinality(active) <= Len(nodes)
  <2>1. IsFiniteSet(1 .. Len(nodes)) /\ Cardinality(1 .. Len(nodes)) = Len(nodes)
    <3>1. /\ IsFiniteSet(1 .. Len(nodes))
          /\ Cardinality(1 .. Len(nodes)) = IF 1 > Len(nodes) THEN 0 ELSE Len(nodes) - 1 + 1
      BY <1>4, FS_Interval
    <3> QED
      BY <1>4, <3>1
  <2>2. active \subseteq 1 .. Len(nodes)
    BY <1>4
  <2> HIDE DEF active
  <2> QED
    BY <2>1, <2>2, FS_Subset, FS_CardinalityType
<1>6. \A k \in active : nodes[k].bond \in Nat
  BY <1>4 DEF NodeType
<1> HIDE DEF active
<1>7. sorted \in SetToSeqs(active)
  <2> DEFINE key == [k \in active |-> -nodes[k].bond]
  <2>1. key \in [active -> Int] /\ \A k \in active : key[k] = -nodes[k].bond
    BY <1>6
  <2> HIDE DEF key
  <2>2. PICK s \in SetToSeqs(active) : \A i, j \in DOMAIN s : i < j => key[s[i]] >= key[s[j]]
    BY <1>5, <2>1, Sortable
  <2>3. \A i \in DOMAIN s : s[i] \in active
    BY DEF SetToSeqs
  <2>4. \A i, j \in DOMAIN s : i < j => nodes[s[i]].bond <= nodes[s[j]].bond
    <3>1. \A i \in DOMAIN s : key[s[i]] = -nodes[s[i]].bond /\ nodes[s[i]].bond \in Nat
      BY <1>6, <2>1, <2>3
    <3> QED
      BY <2>2, <3>1
  <2> QED
    BY <2>4
<1> HIDE DEF sorted
<1>8. sorted \in [1 .. Cardinality(active) -> active]
  BY <1>7 DEF SetToSeqs
<1>9. bonds \in [1 .. Cardinality(active) -> Nat]
  BY <1>6, <1>8
<1> HIDE DEF bonds
<1>10. metrics \in BondMetricsBody
  BY <1>5, <1>9, BondMetricsType
<1> HIDE DEF metrics
<1>11. Len(nodes) - Cardinality(active) \in Nat
  BY <1>4, <1>5
<1> QED
  BY <1>2, <1>3, <1>5, <1>10, <1>11 DEF NetworkBody

\* The answer to a request has the shape of its body, whatever its queries saw.
LEMMA AnswerIsTyped ==
  ASSUME NoneNegative, request \in Requests, asked.published \in 0 .. MaxTip
  PROVE  Answer(seen) \in Body
<1>1. /\ request.kind \in Kinds
      /\ request.kind \in HistoryKinds => IsBuckets(request.buckets)
      /\ request.kind \in {"pools", "pool"} => request.period \subseteq Int
      /\ request.kind = "network" => request.nodes \subseteq Seq(NodeType)
  BY HistoryAssumption DEF NodeType
<1>2. Now \in Int
  <2>1. BlockTime[asked.published] \in Nat
    BY HistoryAssumption, TablesAssumption
  <2>2. ToSecond(BlockTime[asked.published]) \in Nat
    BY <2>1, TablesAssumption, QuotientBrackets DEF ToSecond
  <2> QED
    BY <2>2 DEF Now, NowSecond
<1>3. request.kind \in {"pools", "pool"} => Days \in Int
  <2>1. request.period # {} => (CHOOSE d \in request.period : TRUE) \in request.period
    OBVIOUS
  <2> QED
    BY <1>1, <2>1 DEF Days
<1>4. CASE request.kind = "swaps"
  <2>1. SwapHistory(request.buckets, request.pool, seen) \in HistoryOf(SwapHistoryItem)
    BY <1>1, <1>4, SwapsType DEF HistoryKinds
  <2> QED
    BY <1>4, <2>1 DEF Answer, Body
<1>5. CASE request.kind = "liquidity"
  <2>1. LiquidityHistory(request.buckets, request.pool, seen) \in HistoryOf(LiquidityHistoryItem)
    BY <1>1, <1>5, LiquidityType DEF HistoryKinds
  <2> QED
    BY <1>5, <2>1 DEF Answer, Body
<1>6. CASE request.kind = "earnings"
  <2>1. EarningsHistory(request.buckets, seen) \in HistoryOf(EarningsHistoryItem)
    BY <1>1, <1>6, EarningsType DEF HistoryKinds
  <2> QED
    BY <1>6, <2>1 DEF Answer, Body
<1>7. CASE request.kind = "depths"
  <2>1. DepthHistory(request.buckets, request.pool, seen) \in DepthHistoryBody
    BY <1>1, <1>7, DepthsType DEF HistoryKinds
  <2> QED
    BY <1>7, <2>1 DEF Answer, Body
<1>8. CASE request.kind = "tvl"
  <2>1. TvlHistory(request.buckets, seen) \in HistoryOf(TvlHistoryItem)
    BY <1>1, <1>8, TvlType DEF HistoryKinds
  <2> QED
    BY <1>8, <2>1 DEF Answer, Body
<1>9. CASE request.kind = "pools"
  <2>1. PoolsAnswer(request.status, Days, request.order, Now, seen) \in Seq(PoolDetailBody)
    BY <1>2, <1>3, <1>9, PoolsType
  <2> QED
    BY <1>9, <2>1 DEF Answer, Body
<1>10. CASE request.kind = "pool"
  <2>1. PoolAnswer(request.pool, Days, Now, seen) \in SUBSET PoolDetailBody
    BY <1>2, <1>3, <1>10, PoolType
  <2> QED
    BY <1>10, <2>1 DEF Answer, Body
<1>11. CASE request.kind = "knownpools"
  BY <1>11, KnownPoolsType DEF Answer, Body
<1>12. CASE request.kind = "members"
  BY <1>12, MembersType DEF Answer, Body
<1>13. CASE request.kind = "member"
  BY <1>13, MemberType DEF Answer, Body
<1>14. CASE request.kind = "network"
  BY <1>1, <1>14, NetworkType DEF Answer, Body
<1> QED
  BY <1>1, <1>4, <1>5, <1>6, <1>7, <1>8, <1>9, <1>10, <1>11, <1>12, <1>13, <1>14
     DEF Kinds, HistoryKinds

\* What a request saw when it came is behind what is there now.
TypeInv ==
  /\ AgreeInv
  /\ serving = TRUE
  /\ asked = [committed |-> asked.committed, published |-> asked.published]
  /\ asked.published <= published

LEMMA TypeInvInit == HistoryInit => TypeInv
BY AgreeInit, HistoryAssumption DEF HistoryInit, TypeInv

LEMMA TypeInvStep == TypeInv /\ [HistoryNext]_historyVars => TypeInv'
<1> SUFFICES ASSUME TypeInv, [HistoryNext]_historyVars PROVE TypeInv'
  OBVIOUS
<1>1. AgreeInv /\ AgreeInv'
  BY AgreeStep DEF TypeInv
<1>2. published \in Nat /\ asked.published \in Nat
  BY <1>1, HistoryAssumption DEF AgreeInv
<1>3. CASE Reject
  BY <1>1, <1>3 DEF Reject, TypeInv
<1>4. CASE Ask
  <2>1. asked' = [committed |-> committed, published |-> published]
        /\ UNCHANGED <<serving, published>>
    BY <1>4 DEF Ask
  <2> QED
    BY <1>1, <1>2, <2>1 DEF TypeInv
<1>5. CASE Query
  BY <1>1, <1>5 DEF Query, TypeInv
<1>6. CASE Index
  <2>1. serving' = serving /\ asked' = asked
    BY <1>6 DEF Index, Loop!Commit, Loop!Publish
  <2>2. published <= published' /\ published' \in Int
    <3>1. published' \in {published, Loop!After(published)}
      BY <1>6 DEF Index, Loop!Commit, Loop!Publish
    <3>2. Loop!After(published) \in Int /\ published <= Loop!After(published)
      BY <1>2, HistoryAssumption DEF Loop!After
    <3> QED
      BY <1>2, <3>1, <3>2
  <2> QED
    BY <1>1, <1>2, <2>1, <2>2 DEF TypeInv
<1>7. CASE UNCHANGED historyVars
  BY <1>1, <1>7 DEF historyVars, TypeInv
<1> QED
  BY <1>3, <1>4, <1>5, <1>6, <1>7 DEF HistoryNext

LEMMA TypeInvIsType == ASSUME NoneNegative PROVE TypeInv => HistoryTypeOK
<1> SUFFICES ASSUME TypeInv PROVE HistoryTypeOK
  OBVIOUS
<1>1. /\ AgreeInv /\ ReadInv
      /\ committed \in 0 .. MaxTip /\ published \in 0 .. MaxTip
      /\ asked.committed \in 0 .. committed /\ asked.published \in 0 .. MaxTip
      /\ asked.published <= published
  BY DEF TypeInv, AgreeInv, ReadInv
<1>2. asked \in [committed : 0 .. committed, published : 0 .. published]
  <2>1. asked.published \in 0 .. published
    BY <1>1, HistoryAssumption
  <2>2. asked = [committed |-> asked.committed, published |-> asked.published]
    BY DEF TypeInv
  <2> QED
    BY <1>1, <2>1, <2>2
<1>3. seen \in Seq(asked.committed .. committed)
  <2> DEFINE range == asked.committed .. committed
  <2>1. seen \in Seq(Nat) /\ \A k \in DOMAIN seen : seen[k] \in range
    BY <1>1, HistoryAssumption DEF AgreeInv, ReadInv
  <2> HIDE DEF range
  <2>2. /\ Len(seen) \in Nat /\ DOMAIN seen = 1 .. Len(seen)
        /\ seen = [k \in 1 .. Len(seen) |-> seen[k]]
    BY <2>1
  <2>3. seen \in [1 .. Len(seen) -> range]
    BY <2>1, <2>2
  <2>4. seen \in Seq(range)
    BY <2>2, <2>3
  <2> QED
    BY <2>4 DEF range
<1>4. request.kind \in {"none", "refused"} \/ request \in Requests
  BY <1>1 DEF ReadInv
<1>5. Done => Answer(seen) \in Body
  BY <1>1, <1>4, AnswerIsTyped DEF Done
<1> QED
  BY <1>1, <1>2, <1>3, <1>4, <1>5 DEF HistoryTypeOK, TypeInv

LEMMA TypeInvHolds == HistorySpec => []TypeInv
BY TypeInvInit, TypeInvStep, PTL DEF HistorySpec

\* One part rests while the other moves.
LEMMA PartsOfReading == ReadingSpec => Spec /\ HistorySpec
<1>1. ReadingInit => Init /\ HistoryInit
  BY DEF ReadingInit
<1>2. [ReadingNext]_<<vars, historyVars>> => [Next]_vars /\ [HistoryNext]_historyVars
  BY DEF ReadingNext, BucketStep, HistoryStep
<1> QED
  BY <1>1, <1>2, PTL DEF ReadingSpec, Spec, HistorySpec

\* The types of both: every answer has at least two boundaries; a request sees the
\* database grow from what it was when it came; and every answer has the shape of
\* its body, no count, volume, fee, balance or bond in it negative and every pool,
\* status and address in it one of the chain's, for any rows without a negative
\* amount (midgard-api/src/models.rs).
THEOREM ReadingTypes == NoneNegative => (ReadingSpec => []ReadingTypeOK)
<1> SUFFICES ASSUME NoneNegative PROVE ReadingSpec => []ReadingTypeOK
  OBVIOUS
<1>1. TypeInv => HistoryTypeOK
  BY TypeInvIsType
<1>2. TypeOK /\ HistoryTypeOK => ReadingTypeOK
  BY DEF ReadingTypeOK
<1> QED
  BY <1>1, <1>2, PartsOfReading, BucketTypes, TypeInvHolds, PTL
=============================================================================
