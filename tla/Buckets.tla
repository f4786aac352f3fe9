-------------------------------- MODULE Buckets ------------------------------
(***************************************************************************)
(* Time buckets of the history endpoints (midgard-db/src/buckets.rs): one  *)
(* call of generate, the loop over the boundaries step by step.            *)
(***************************************************************************)
EXTENDS Calendar, Sequences

CONSTANTS
  MaxIntervalCount,  \* MAX_INTERVAL_COUNT
  None,              \* a parameter that is not given
  Asked,             \* bound: the values of interval asked for
  Times,             \* bound: the values of from and to
  Counts,            \* bound: the values of count
  Chains             \* bound: first and last block of the database

ASSUME BucketsAssumption ==
  /\ MaxIntervalCount \in Nat \ {0}
  /\ Asked \subseteq Intervals
  /\ Times \subseteq Int /\ Counts \subseteq Int /\ None \notin Int
  /\ \A c \in Chains : c.first \in Nat /\ c.now \in Nat /\ c.first <= c.now

VARIABLES
  query,      \* BucketParams
  chain,      \* what the cursor says
  pc,         \* "start", "walk", "done", "error"
  t,          \* the next boundary
  timestamps  \* the boundaries

vars == <<query, chain, pc, t, timestamps>>

Init ==
  /\ query \in [interval : Asked \cup {None}, from : Times \cup {None},
                to : Times \cup {None}, count : Counts \cup {None}]
  /\ chain \in Chains
  /\ pc = "start" /\ t = 0 /\ timestamps = <<>>

Or(value, default) == IF value = None THEN default ELSE value

\* Room for count intervals, however long they are.
Span == query.count * MaxDuration(query.interval)

\* The window to find boundaries for; with a count it is open at the end that
\* is not anchored.
WindowFrom ==
  IF query.count = None \/ query.from # None THEN Or(query.from, chain.first)
  ELSE Or(query.to, chain.now) - Span
WindowUntil ==
  IF query.count # None /\ query.from # None THEN query.from + Span
  ELSE Or(query.to, chain.now)

\* The requests refused with 400, in generate and at the head of boundaries.
Refused ==
  IF query.interval = None THEN query.count # None
  ELSE \/ query.count # None /\ query.count \notin 1 .. MaxIntervalCount
       \/ query.count # None /\ query.from # None /\ query.to # None
       \/ WindowUntil <= WindowFrom
       \/ MaxDuration(query.interval) * 2 * MaxIntervalCount < WindowUntil - WindowFrom

Refuse ==
  /\ pc = "start" /\ Refused
  /\ pc' = "error"
  /\ UNCHANGED <<query, chain, t, timestamps>>

\* Without an interval: one span.
OneSpan ==
  /\ pc = "start" /\ ~Refused /\ query.interval = None
  /\ timestamps' = <<Or(query.from, chain.first), Or(query.to, chain.now)>>
  /\ pc' = "done"
  /\ UNCHANGED <<query, chain, t>>

Start ==
  /\ pc = "start" /\ ~Refused /\ query.interval # None
  /\ t' = Truncate(query.interval, WindowFrom)
  /\ pc' = "walk"
  /\ UNCHANGED <<query, chain, timestamps>>

\* The loop of boundaries goes on.
More == t < WindowUntil /\ Len(timestamps) <= MaxIntervalCount + 2

PushBoundary ==
  /\ pc = "walk" /\ More
  /\ timestamps' = Append(timestamps, t)
  /\ t' = Advance(query.interval, t)
  /\ UNCHANGED <<query, chain, pc>>

\* Mutant: the interval the newest block is in counts as past it.
RestrictedNow(ts) ==
  LET lastOk == CHOOSE n \in 2 .. Len(ts) :
                  /\ n = 2 \/ ts[n] <= chain.now
                  /\ \A m \in n + 1 .. Len(ts) : chain.now < ts[m]
      firstOk == CHOOSE n \in 1 .. lastOk - 1 :
                  /\ n = lastOk - 1 \/ ts[n + 1] >= chain.first
                  /\ \A m \in 1 .. n - 1 : ts[m + 1] < chain.first
  IN  SubSeq(ts, firstOk, lastOk)

\* restrict: boundaries are dropped from the end while the interval before the
\* last one starts after the newest block, then from the start while the next
\* one precedes the first block; two stay.
Restricted(ts) ==
  LET lastOk == CHOOSE n \in 2 .. Len(ts) :
                  /\ n = 2 \/ ts[n - 1] <= chain.now
                  /\ \A m \in n + 1 .. Len(ts) : chain.now < ts[m - 1]
      firstOk == CHOOSE n \in 1 .. lastOk - 1 :
                  /\ n = lastOk - 1 \/ ts[n + 1] >= chain.first
                  /\ \A m \in 1 .. n - 1 : ts[m + 1] < chain.first
  IN  SubSeq(ts, firstOk, lastOk)

\* Mutant: an interval too many.
FirstOfLoose(ts, n) == SubSeq(ts, 1, IF Len(ts) < n + 2 THEN Len(ts) ELSE n + 2)

\* At most n intervals from the start, from the end.
FirstOf(ts, n) == SubSeq(ts, 1, IF Len(ts) < n + 1 THEN Len(ts) ELSE n + 1)
LastOf(ts, n) == SubSeq(ts, IF Len(ts) < n + 1 THEN 1 ELSE Len(ts) - n, Len(ts))

\* Clamped to the data and to the number of intervals, the latter at the end
\* the request is not anchored to.
Trimmed(ts) ==
  IF query.count = None THEN Restricted(FirstOf(ts, MaxIntervalCount))
  ELSE IF query.from # None THEN FirstOf(Restricted(ts), query.count)
  ELSE LastOf(Restricted(ts), query.count)

\* The loop ends; the closing boundary is pushed.
Finish ==
  /\ pc = "walk" /\ ~More
  /\ timestamps' = Trimmed(Append(timestamps, t))
  /\ pc' = "done"
  /\ UNCHANGED <<query, chain, t>>

Next == Refuse \/ OneSpan \/ Start \/ PushBoundary \/ Finish

Spec == Init /\ [][Next]_vars

------------------------------------------------------------------------------
Answered == pc = "done" /\ query.interval # None

\* Types; an answer has two boundaries at least and no more intervals than
\* were asked for, 400 without a count.
TypeOK ==
  /\ pc \in {"start", "walk", "done", "error"} /\ t \in Int
  /\ timestamps \in Seq(Int)
  /\ Answered => Len(timestamps) \in 2 .. Or(query.count, MaxIntervalCount) + 1
  /\ pc = "done" => Len(timestamps) >= 2

\* The boundaries are the starts of consecutive intervals of postgres, so a row
\* that date_trunc puts in a group lies in the bucket of that group
\* (buckets.rs:489-492).
BoundariesAreDateTrunc ==
  Answered =>
    LET first == Number(query.interval, timestamps[1])
    IN  \A n \in 1 .. Len(timestamps) :
          timestamps[n] = StartOf(query.interval, first + n - 1)

\* The intervals the usage text promises (buckets.rs:211-215), by number: those
\* that begin before to, those that end after from, the count next to the
\* anchor; the first 400 of a range.
Promised ==
  LET from == Number(query.interval, WindowFrom)
      to == Number(query.interval, WindowUntil - 1)
  IN  IF query.count = None
      THEN from .. IF to < from + MaxIntervalCount THEN to ELSE from + MaxIntervalCount - 1
      ELSE IF query.from # None THEN from .. from + query.count - 1
      ELSE to - query.count + 1 .. to

\* The block times that tell intervals apart: the ends of the chain and of the
\* intervals that were promised.
BlockTimes ==
  {x \in {chain.first, chain.now}
       \cup UNION {{StartOf(query.interval, n), StartOf(query.interval, n + 1) - 1} : n \in Promised} :
     chain.first <= x /\ x <= chain.now}

\* Every block in a promised interval lies in a bucket of the answer: clamping
\* to the chain and trimming to the count lose no data.
PromisedBlocksCovered ==
  Answered =>
    \A x \in BlockTimes : Number(query.interval, x) \in Promised =>
      timestamps[1] <= x /\ x < timestamps[Len(timestamps)]

\* The last intervals before now or to, as the usage text has it
\* (buckets.rs:212-213): with a count and no from, the answer reaches to or
\* the newest block.
LastAreAnswered ==
  Answered /\ query.count # None /\ query.from = None =>
    timestamps[Len(timestamps)] >= WindowUntil \/ timestamps[Len(timestamps)] > chain.now

=============================================================================
