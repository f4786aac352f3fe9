---------------------------- MODULE PoolEndpoints ----------------------------
(***************************************************************************)
(* The answers about the present: /v2/pools, /v2/pool, /v2/knownpools,     *)
(* /v2/members, /v2/member and /v2/network (midgard-api/src/handlers/      *)
(* pools.rs, members.rs, network.rs), as functions of the heights their    *)
(* queries saw.                                                            *)
(***************************************************************************)
EXTENDS HistoryEndpoints, SequencesExt

\* known_pools: the newest status of every pool that had one.
KnownPools(seen) ==
  LET rows == NewestPerPool(Table("pool", seen))
  IN  {[pool |-> p, status |-> (CHOOSE r \in rows : r.pool = p).status] :
         p \in {r.pool : r \in rows}}

\* load_pool_states: the depths up to now, the statuses of any time.
PoolStates(now, seenDepths, seenStatuses) ==
  LET depths == NewestPerPool(Until(Table("depth", seenDepths), now))
      statuses(p) == {s.status : s \in {k \in KnownPools(seenStatuses) : k.pool = p}}
  IN  [p \in {r.pool : r \in depths} |->
         [depth |-> DepthOf(CHOOSE r \in depths : r.pool = p),
          status |-> IF statuses(p) = {} THEN "unknown" ELSE CHOOSE s \in statuses(p) : TRUE]]

\* Mutant: the asset side of swaps to secured assets.
RuneLegNoSecured(r) == IF r.direction \in {0, 2, 4} THEN r.from ELSE r.to

\* swap_volume_since, by its own list of directions.
RuneLeg(r) == IF r.direction \in {0, 2, 4, 6} THEN r.from ELSE r.to
SwapVolumeSince(pool, since, seen) ==
  MapThenSumSet(RuneLeg, Since(OfPool(Table("swap", seen), {pool}), since))

\* pool_earnings_since: two queries.
PoolEarningsSince(pool, since, seenFees, seenRewards) ==
  MapThenSumSet(LAMBDA r : r.feeInRune, Since(OfPool(Table("swap", seenFees), {pool}), since))
  + MapThenSumSet(LAMBDA r : r.rune,
                  Since(OfPool(Table("rewardEntry", seenRewards), {pool}), since))

\* periods_per_year, by the length of the window; none without one.
PeriodsPerYear(from, until) == Ratio(365 * Day, IF until <= from THEN 0 ELSE until - from)

\* build_detail, with three queries: volume, fees, rewards.
PoolDetail(pool, st, price, days, now, seen) ==
  LET since == now - days * Day
      earnings == PoolEarningsSince(pool, since, seen[2], seen[3])
      periods == PeriodsPerYear(since, now)
  IN  [pool |-> pool, status |-> st.status, depth |-> st.depth, price |-> price,
       assetPrice |-> Ratio(st.depth.rune, st.depth.asset), luvi |-> Luvi(st.depth),
       volume24h |-> SwapVolumeSince(pool, now - Day, seen[1]),
       earnings |-> earnings,
       apr |-> Ratio(earnings * periods[1], 2 * st.depth.rune * periods[2])]

\* The pools a request is about; the empty set of statuses is no filter.
Selected(states, status) == {p \in DOMAIN states : status = {} \/ states[p].status \in status}

\* pools: depths, statuses, price, then the details of every pool that is
\* selected in the order of a hash map; the deepest first.
PoolsAnswer(status, days, order, now, seen) ==
  LET states == PoolStates(now, seen[1], seen[2])
      mine == Selected(states, status)
      place(p) == Cardinality({q \in mine : order[q] <= order[p]})
      price == RunePriceAt(seen[3], now)
      details == {PoolDetail(p, states[p], price, days, now,
                             SubSeq(seen, 3 * place(p) + 1, 3 * place(p) + 3)) : p \in mine}
  IN  CHOOSE s \in SetToSeqs(details) :
        \A i, j \in DOMAIN s : i < j => s[i].depth.rune >= s[j].depth.rune

\* pool: 404 if the pool has no depth; the empty set is that answer.
PoolAnswer(pool, days, now, seen) ==
  LET states == PoolStates(now, seen[1], seen[2])
  IN  IF pool \notin DOMAIN states THEN {}
      ELSE {PoolDetail(pool, states[pool], RunePriceAt(seen[3], now), days, now,
                       SubSeq(seen, 4, 6))}

------------------------------------------------------------------------------
\* members: one query over deposits and withdrawals.
Members(pool, seen) ==
  LET moves == OfPool(Table("stake", seen) \cup Table("withdraw", seen), pool)
  IN  {m \in Holding(moves) : m # {}}

\* The moves member_details finds for an address: deposits by either address,
\* withdrawals by their sender.
MovesOf(addr, seen) ==
  {r \in Table("stake", seen) : addr \in r.runeAddr \cup r.assetAddr}
    \cup {r \in Table("withdraw", seen) : addr \in r.fromAddr}

\* member_details: the pools with units left; none is 404.
MemberDetails(addr, seen) ==
  LET moves(p) == OfPool(MovesOf(addr, seen), {p})
      added(p) == {r \in moves(p) : r.table = "stake"}
      taken(p) == {r \in moves(p) : r.table = "withdraw"}
  IN  {[pool |-> p,
        units |-> Units(moves(p)),
        runeAdded |-> MapThenSumSet(LAMBDA r : r.rune, added(p)),
        assetAdded |-> MapThenSumSet(LAMBDA r : r.asset, added(p)),
        runeWithdrawn |-> MapThenSumSet(LAMBDA r : r.rune, taken(p)),
        assetWithdrawn |-> MapThenSumSet(LAMBDA r : r.asset, taken(p)),
        firstAdded |-> ToSecond(Min({At(r) : r \in added(p)})),
        lastAdded |-> ToSecond(Max({At(r) : r \in added(p)}))] :
         p \in {q \in Pools : Units(moves(q)) > 0}}

------------------------------------------------------------------------------
\* bond_metrics of ascending bonds.
BondMetrics(bonds) ==
  IF bonds = <<>> THEN [total |-> 0, average |-> 0, median |-> 0, minimum |-> 0, maximum |-> 0]
  ELSE LET total == MapThenSumSet(LAMBDA k : bonds[k], DOMAIN bonds)
       IN  [total |-> total, average |-> total \div Len(bonds),
            median |-> bonds[Len(bonds) \div 2 + 1],
            minimum |-> bonds[1], maximum |-> bonds[Len(bonds)]]

\* THORNode's /nodes, or none when it does not answer.
Nodes(answer) == IF answer = {} THEN <<>> ELSE CHOOSE nodes \in answer : TRUE

\* network: what is pooled from the database, the rest from the nodes, the bonds
\* of the active ones in ascending order.
Network(now, answer, seen) ==
  LET latest == NewestPerPool(Until(Table("depth", seen), now))
      nodes == Nodes(answer)
      active == {k \in DOMAIN nodes : nodes[k].active}
      sorted == CHOOSE s \in SetToSeqs(active) :
                  \A i, j \in DOMAIN s : i < j => nodes[s[i]].bond <= nodes[s[j]].bond
  IN  [pooled |-> MapThenSumSet(LAMBDA r : r.rune, latest),
       activeNodes |-> Cardinality(active), standbyNodes |-> Len(nodes) - Cardinality(active),
       bonds |-> BondMetrics([k \in DOMAIN sorted |-> nodes[sorted[k]].bond])]

=============================================================================
