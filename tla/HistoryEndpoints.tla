--------------------------- MODULE HistoryEndpoints --------------------------
(***************************************************************************)
(* The answers of /v2/history/* (midgard-api/src/handlers/swaps.rs,        *)
(* liquidity.rs, earnings.rs, depths.rs, tvl.rs), each as a function of    *)
(* the heights its queries saw, in the order they are sent.                *)
(***************************************************************************)
EXTENDS EventTables, FiniteSetsExt

\* The direction codes as the aggregate groups them.
SwapGroup(r) ==
  CASE r.direction \in {0, 4, 6} -> "toAsset" [] r.direction \in {1, 5, 7} -> "toRune"
    [] r.direction = 2 -> "synthMint" [] r.direction = 3 -> "synthRedeem"
SwapGroups == {"toAsset", "toRune", "synthMint", "synthRedeem"}

\* The RUNE side of a swap.
Volume(r) == IF SwapGroup(r) \in {"toAsset", "synthMint"} THEN r.from ELSE r.to

\* query_totals
SwapTotals(rows) ==
  [g \in SwapGroups |->
     LET mine == {r \in rows : SwapGroup(r) = g}
     IN  [count |-> Cardinality(mine),
          volume |-> MapThenSumSet(Volume, mine),
          fees |-> MapThenSumSet(LAMBDA r : r.feeInRune, mine),
          slip |-> MapThenSumSet(LAMBDA r : r.slip, mine)]]

\* Totals::add over the buckets.
AddSwapTotals(totals) ==
  [g \in SwapGroups |-> [c \in {"count", "volume", "fees", "slip"} |->
     MapThenSumSet(LAMBDA i : totals[i][g][c], DOMAIN totals)]]

\* total_count, total_volume, total_fees and what average_slip divides.
OfAllGroups(totals, c) == MapThenSumSet(LAMBDA g : totals[g][c], SwapGroups)

\* build_item
SwapItem(window, totals, price) ==
  LET Total(c) == OfAllGroups(totals, c)
  IN  [window |-> window, split |-> totals, price |-> price,
       count |-> Total("count"), volume |-> Total("volume"), fees |-> Total("fees"),
       averageSlip |-> [g \in SwapGroups |-> Ratio(totals[g].slip, totals[g].count)],
       slip |-> Ratio(Total("slip"), Total("count"))]

\* swap_history: the totals, then the price.
SwapHistory(b, pool, seen) ==
  LET rows == OfPool(Table("swap", seen[1]), pool)
      totals == [i \in 1 .. Count(b) |-> SwapTotals(Group(b, rows, i))]
      price == RunePriceAt(seen[2], LastTime(b))
  IN  [intervals |-> [i \in 1 .. Count(b) |-> SwapItem(Window(b, i), totals[i], price)],
       meta |-> SwapItem(WholeWindow(b), AddSwapTotals(totals), price)]

------------------------------------------------------------------------------
\* query_totals: deposits and withdrawals in one pass.
LiquidityTotals(rows) ==
  LET adds == {r \in rows : r.table = "stake"}
      moves == {r \in rows : r.table = "withdraw"}
  IN  [addCount |-> Cardinality(adds),
       addRune |-> MapThenSumSet(LAMBDA r : r.rune, adds),
       addAsset |-> MapThenSumSet(LAMBDA r : r.assetInRune, adds),
       withdrawCount |-> Cardinality(moves),
       withdrawRune |-> MapThenSumSet(LAMBDA r : r.rune, moves),
       withdrawAsset |-> MapThenSumSet(LAMBDA r : r.assetInRune, moves)]

AddLiquidityTotals(totals) ==
  [c \in DOMAIN LiquidityTotals({}) |-> MapThenSumSet(LAMBDA i : totals[i][c], DOMAIN totals)]

\* build_item, with add_volume, withdraw_volume and net.
LiquidityItem(window, t, price) ==
  [window |-> window, split |-> t, price |-> price,
   addVolume |-> t.addRune + t.addAsset,
   withdrawVolume |-> t.withdrawRune + t.withdrawAsset,
   net |-> (t.addRune + t.addAsset) - (t.withdrawRune + t.withdrawAsset)]

\* liquidity_history: the totals, then the price.
LiquidityHistory(b, pool, seen) ==
  LET rows == OfPool(Table("stake", seen[1]) \cup Table("withdraw", seen[1]), pool)
      totals == [i \in 1 .. Count(b) |-> LiquidityTotals(Group(b, rows, i))]
      price == RunePriceAt(seen[2], LastTime(b))
  IN  [intervals |-> [i \in 1 .. Count(b) |-> LiquidityItem(Window(b, i), totals[i], price)],
       meta |-> LiquidityItem(WholeWindow(b),
                              AddLiquidityTotals(totals), price)]

------------------------------------------------------------------------------
\* collect: an amount per pool, of the pools that have rows.
PerPool(rows, Amount(_)) ==
  [p \in {r.pool : r \in rows} |-> MapThenSumSet(Amount, {r \in rows : r.pool = p})]

\* fees_by_bucket_and_pool, rewards_by_bucket_and_pool, bond_rewards_by_bucket
FeesPerPool(rows) == PerPool(rows, LAMBDA r : r.feeInRune)
RewardsPerPool(rows) == PerPool(rows, LAMBDA r : r.rune)
BondRewards(rows) == MapThenSumSet(LAMBDA r : r.bond, rows)

\* An amount that may be missing.
OrZero(amounts, p) == IF p \in DOMAIN amounts THEN amounts[p] ELSE 0

\* meta_fees, meta_rewards: summed over the buckets.
AddPerPool(buckets) ==
  [p \in UNION {DOMAIN buckets[i] : i \in DOMAIN buckets} |->
     MapThenSumSet(LAMBDA i : OrZero(buckets[i], p), DOMAIN buckets)]

\* meta_bond
AddBond(bond) == MapThenSumSet(LAMBDA i : bond[i], DOMAIN bond)

\* The amounts of all pools.
OfAllPools(amounts, names) == MapThenSumSet(LAMBDA p : OrZero(amounts, p), names)

\* build_item
EarningsItem(window, fees, rewards, bond, price) ==
  LET names == DOMAIN fees \cup DOMAIN rewards
      totalFees == OfAllPools(fees, names)
      totalRewards == OfAllPools(rewards, names)
  IN  [window |-> window, price |-> price,
       pools |-> {[pool |-> p, fees |-> OrZero(fees, p), rewards |-> OrZero(rewards, p),
                   earnings |-> OrZero(fees, p) + OrZero(rewards, p)] : p \in names},
       fees |-> totalFees, bond |-> bond, blockRewards |-> bond + totalRewards,
       liquidityEarnings |-> totalFees + totalRewards,
       earnings |-> totalFees + bond + totalRewards]

\* earnings_history: the price, the fees, the rewards of pools, those of nodes.
EarningsHistory(b, seen) ==
  LET n == 1 .. Count(b)
      price == RunePriceAt(seen[1], LastTime(b))
      fees == [i \in n |-> FeesPerPool(Group(b, Table("swap", seen[2]), i))]
      rewards == [i \in n |-> RewardsPerPool(Group(b, Table("rewardEntry", seen[3]), i))]
      bond == [i \in n |-> BondRewards(Group(b, Table("rewards", seen[4]), i))]
  IN  [intervals |-> [i \in n |-> EarningsItem(Window(b, i), fees[i], rewards[i], bond[i], price)],
       meta |-> EarningsItem(WholeWindow(b), AddPerPool(fees),
                             AddPerPool(rewards), AddBond(bond), price)]

------------------------------------------------------------------------------
NoDepth == [asset |-> 0, rune |-> 0, synth |-> 0, units |-> 0]
DepthOf(r) == [asset |-> r.asset, rune |-> r.rune, synth |-> r.synth, units |-> r.units]

\* Mutant: a deposit counts for its asset address.
MemberByAsset(r) == IF r.table = "withdraw" THEN r.fromAddr ELSE r.assetAddr

\* COALESCE(rune_addr, asset_addr) of a deposit, from_addr of a withdrawal; the
\* empty set is NULL.
MemberOf(r) ==
  IF r.table = "withdraw" THEN r.fromAddr
  ELSE IF r.runeAddr # {} THEN r.runeAddr ELSE r.assetAddr

\* What a move adds to a balance, and the balance of a set of moves.
UnitsOf(r) == IF r.table = "stake" THEN r.units ELSE -r.units
Units(moves) == MapThenSumSet(UnitsOf, moves)

\* The members with units left; the two queries that ask for them group alike.
Holding(moves) ==
  {m \in {MemberOf(r) : r \in moves} : Units({r \in moves : MemberOf(r) = m}) > 0}

\* snapshot_at: the newest depth row, then the members by their moves.
SnapshotAt(pool, at, seenDepth, seenMembers) ==
  LET row == NewestPerPool(Until(OfPool(Table("depth", seenDepth), {pool}), at))
      moves == Until(OfPool(Table("stake", seenMembers) \cup Table("withdraw", seenMembers),
                            {pool}), at)
  IN  [depth |-> IF row = {} THEN NoDepth ELSE DepthOf(CHOOSE r \in row : TRUE),
       members |-> Cardinality(Holding(moves))]

\* item
DepthItem(window, s, price) ==
  [window |-> window, depth |-> s.depth, members |-> s.members,
   assetPrice |-> Ratio(s.depth.rune, s.depth.asset), price |-> price,
   luvi |-> Luvi(s.depth)]

\* price_shift_loss: a loss is told by two prices.
PriceShift(first, last) ==
  IF \E d \in {first, last} : d.asset <= 0 \/ d.rune <= 0 THEN {}
  ELSE {<<Ratio(first.rune, first.asset), Ratio(last.rune, last.asset)>>}

\* depth_history: the price, then two queries for every boundary; an interval
\* has the state at its close.
DepthHistory(b, pool, seen) ==
  LET price == RunePriceAt(seen[1], LastTime(b))
      snapshots == [j \in 1 .. Count(b) + 1 |->
                      SnapshotAt(pool, b.timestamps[j], seen[2 * j], seen[2 * j + 1])]
      first == snapshots[1]
      last == snapshots[Count(b) + 1]
  IN  [intervals |-> [i \in 1 .. Count(b) |-> DepthItem(Window(b, i), snapshots[i + 1], price)],
       meta |-> [window |-> WholeWindow(b), start |-> first, end |-> last,
                 luvi |-> <<Luvi(last.depth), Luvi(first.depth)>>,
                 shift |-> PriceShift(first.depth, last.depth)]]

------------------------------------------------------------------------------
\* pool_depths_at: the RUNE depth of every pool that is not drained.
PoolDepthsAt(seen, at) ==
  LET live == {r \in NewestPerPool(Until(Table("depth", seen), at)) : r.rune > 0}
  IN  [p \in {r.pool : r \in live} |-> (CHOOSE r \in live : r.pool = p).rune]

\* The RUNE of all pools and as much in assets.
Pooled(depths) == MapThenSumSet(LAMBDA p : 2 * depths[p], DOMAIN depths)

\* build_item
TvlItem(window, depths, price) ==
  [window |-> window, price |-> price,
   pools |-> {[pool |-> p, total |-> 2 * depths[p]] : p \in DOMAIN depths},
   pooled |-> Pooled(depths)]

\* tvl_history: the price, the depths at the close of every bucket, and again
\* at the end.
TvlHistory(b, seen) ==
  LET price == RunePriceAt(seen[1], LastTime(b))
  IN  [intervals |-> [i \in 1 .. Count(b) |->
          TvlItem(Window(b, i), PoolDepthsAt(seen[i + 1], b.timestamps[i + 1]), price)],
       meta |-> TvlItem(WholeWindow(b),
                        PoolDepthsAt(seen[Count(b) + 2], LastTime(b)), price)]

=============================================================================
