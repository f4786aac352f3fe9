----------------------------- MODULE EventTables -----------------------------
(***************************************************************************)
(* The tables as the API reads them: a row is in them from the commit of   *)
(* its block on, so what a query sees is the height committed when it ran. *)
(* Here are the clauses the queries of the handlers have in common, and    *)
(* the price of RUNE (midgard-api/src/usd.rs).                             *)
(***************************************************************************)
EXTENDS Calendar, Sequences

CONSTANTS
  NanosPerSecond,  \* NANOS_PER_SECOND
  Pools,           \* names of pools
  UsdPools,        \* usd_pools of the configuration
  BlockTime,       \* block_timestamp of every height
  Rows             \* what the events of the chain leave in the tables

ASSUME TablesAssumption ==
  /\ NanosPerSecond \in Nat \ {0}
  /\ UsdPools \subseteq Pools
  /\ \A r \in Rows : r.height \in DOMAIN BlockTime
  /\ \A h \in DOMAIN BlockTime : BlockTime[h] \in Nat
  /\ \A g, h \in DOMAIN BlockTime : g < h => BlockTime[g] < BlockTime[h]

\* What the recorder writes: a column the API adds up is a BIGINT NOT NULL, and
\* every swap has one of the eight directions (the schema, Direction::as_i16); of
\* a pool a block leaves one row of depths (take_changed).
ASSUME RowsAssumption ==
  /\ IsFiniteSet(Rows)
  /\ \A r \in Rows :
       /\ r.table = "swap" =>
            /\ r.pool \in Pools /\ r.direction \in 0 .. 7
            /\ {r.from, r.to, r.feeInRune, r.slip} \subseteq Int
       /\ r.table \in {"stake", "withdraw"} =>
            r.pool \in Pools /\ {r.units, r.rune, r.asset, r.assetInRune} \subseteq Int
       /\ r.table = "depth" =>
            r.pool \in Pools /\ {r.asset, r.rune, r.synth, r.units} \subseteq Int
       /\ r.table = "rewardEntry" => r.pool \in Pools /\ r.rune \in Int
       /\ r.table = "rewards" => r.bond \in Int
       /\ r.table = "pool" => r.pool \in Pools
  /\ \A q, r \in Rows :
       q.table = "depth" /\ r.table = "depth" /\ q.pool = r.pool /\ q.height = r.height => q = r

Table(name, seen) == {r \in Rows : r.table = name /\ r.height <= seen}
At(r) == BlockTime[r.height]

\* Second::to_nano, Nano::to_second
ToNano(second) == second * NanosPerSecond
ToSecond(nano) == nano \div NanosPerSecond

\* BlockCursor::now_second at a published height.
NowSecond(height) == ToSecond(BlockTime[height]) + 1

\* block_timestamp >= $1
Since(rows, from) == {r \in rows : At(r) >= ToNano(from)}

\* Mutant: the upper bound belongs to the window.
WithinClosed(rows, from, until) == {r \in Since(rows, from) : At(r) <= ToNano(until)}

\* block_timestamp >= $1 AND block_timestamp < $2
Within(rows, from, until) == {r \in Since(rows, from) : At(r) < ToNano(until)}

\* Mutant: no upper bound.
UntilAny(rows, at) == rows

\* block_timestamp <= $1
Until(rows, at) == {r \in rows : At(r) <= ToNano(at)}

\* DISTINCT ON (pool) ... ORDER BY pool, block_timestamp DESC
NewestPerPool(rows) == {r \in rows : \A q \in rows : q.pool = r.pool => At(q) <= At(r)}

\* ($3::text IS NULL OR pool = $3); the empty set is NULL.
OfPool(rows, pool) == {r \in rows : pool = {} \/ r.pool \in pool}

\* ratio, asset_price: a quotient, zero if there is nothing to divide by.
Ratio(a, b) == IF b = 0 THEN <<0, 1>> ELSE <<a, b>>

\* luvi: the geometric mean of the depths per unit, by its parts.
Luvi(d) == IF d.units <= 0 THEN <<0, 0, 1>> ELSE <<d.asset, d.rune, d.units>>

\* price_from_depths: assets per RUNE in the deepest anchor that has both.
\* Empty is 0.0; of equally deep anchors the last by name is taken.
PriceFromDepths(rows) ==
  LET usable == {r \in rows : r.asset > 0 /\ r.rune > 0}
  IN  {<<r.asset, r.rune>> : r \in {d \in usable : \A q \in usable : q.rune <= d.rune}}

\* rune_price_at, rune_price_now
RunePriceAt(seen, at) ==
  PriceFromDepths(NewestPerPool(Until({r \in Table("depth", seen) : r.pool \in UsdPools}, at)))

------------------------------------------------------------------------------
(***************************************************************************)
(* Answers of buckets::generate, by what module Buckets shows of them:     *)
(* with an interval the boundaries are the starts of consecutive intervals *)
(* of postgres' calendar, without one there are two of any kind.           *)
(***************************************************************************)
IsBuckets(b) ==
  /\ b.interval \in Intervals \cup {"none"}
  /\ b.timestamps \in Seq(Int) /\ Len(b.timestamps) >= 2
  /\ IF b.interval = "none" THEN Len(b.timestamps) = 2
     ELSE LET first == Number(b.interval, b.timestamps[1])
          IN  \A i \in 1 .. Len(b.timestamps) :
                b.timestamps[i] = StartOf(b.interval, first + i - 1)

\* Buckets::start, end, count
FirstTime(b) == b.timestamps[1]
LastTime(b) == b.timestamps[Len(b.timestamps)]
Count(b) == Len(b.timestamps) - 1

\* truncated_timestamp: the key the rows are grouped by, the interval of the
\* second rounded down to five minutes, since date_trunc has no such field.
Truncated(b, r) ==
  IF b.interval = "none" THEN FirstTime(b)
  ELSE DateTrunc(b.interval, (ToSecond(At(r)) \div 300) * 300)

\* The group that is looked up for bucket i, and its window.
Group(b, rows, i) ==
  {r \in Within(rows, FirstTime(b), LastTime(b)) : Truncated(b, r) = b.timestamps[i]}
Window(b, i) == [from |-> b.timestamps[i], until |-> b.timestamps[i + 1]]

\* Buckets::window
WholeWindow(b) == [from |-> FirstTime(b), until |-> LastTime(b)]

=============================================================================
