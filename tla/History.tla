------------------------------- MODULE History -------------------------------
(***************************************************************************)
(* A request to one of the reading endpoints while the indexer commits:    *)
(* every query runs on a snapshot of its own, between two queries the      *)
(* indexer may commit or publish blocks.                                   *)
(*                                                                         *)
(* Of a snapshot only its height matters, of the cursor what it said when  *)
(* the request came.  The answer is a function of both.                    *)
(***************************************************************************)
EXTENDS ResponseModels

CONSTANTS
  MaxTip, FirstHeight, CommitBatch,  \* of module Indexer
  Addresses,                         \* of the liquidity providers
  Requests                           \* bound: the requests that are made

VARIABLES
  serving, committed, published,  \* of module Indexer
  request,  \* the request, NoRequest before it
  asked,    \* committed and published height when it came
  seen      \* the height each of its queries saw

indexer == <<serving, committed, published>>
historyVars == <<serving, committed, published, request, asked, seen>>

Loop == INSTANCE Indexer

HistoryKinds == {"swaps", "liquidity", "earnings", "depths", "tvl"}
Kinds == HistoryKinds \cup {"pools", "pool", "knownpools", "members", "member", "network"}
NoRequest == [kind |-> "none"]

ASSUME HistoryAssumption ==
  /\ MaxTip \in Nat /\ FirstHeight \in 1 .. MaxTip /\ CommitBatch \in Nat \ {0}
  /\ DOMAIN BlockTime = 0 .. MaxTip /\ BlockTime[0] = 0
  /\ \A r \in Requests :
       /\ r.kind \in Kinds
       /\ r.kind \in HistoryKinds => IsBuckets(r.buckets)
       /\ r.kind \in {"swaps", "liquidity", "members"} => \A p, q \in r.pool : p = q
       /\ r.kind \in {"pools", "pool"} => r.period \subseteq Int
       /\ r.kind = "pools" => r.order \in [Pools -> Nat] /\ IsInjective(r.order)
       /\ r.kind = "network" => r.nodes \subseteq Seq([active : BOOLEAN, bond : Nat])

\* The daemon runs; after a restart the cursor is at the last block.
HistoryInit ==
  /\ serving = TRUE
  /\ committed \in {0} \cup FirstHeight .. MaxTip /\ published = committed
  /\ request = NoRequest
  /\ asked = [committed |-> 0, published |-> 0] /\ seen = <<>>

\* Params: a parameter nobody takes, or an integer that does not parse, is 400;
\* so is a period without days.  knownpools, member and network take none and
\* do not look.
Malformed(r) ==
  /\ r.kind \notin {"knownpools", "member", "network"}
  /\ \/ r.params \in {"unknown", "unparsable"}
     \/ r.kind \in {"pools", "pool"} /\ r.period # {} /\ \E d \in r.period : d <= 0

\* A refused request reads nothing.
Reject ==
  /\ request = NoRequest
  /\ \E r \in Requests : Malformed(r) /\ request' = [kind |-> "refused", of |-> r.kind]
  /\ UNCHANGED <<serving, committed, published, asked, seen>>

Ask ==
  /\ serving /\ request = NoRequest
  /\ \E r \in Requests : ~Malformed(r) /\ request' = r
  /\ asked' = [committed |-> committed, published |-> published]
  /\ UNCHANGED <<serving, committed, published, seen>>

\* The cursor's now, and the period of the yield figures.
Now == NowSecond(asked.published)
Days == IF request.period = {} THEN 14 ELSE CHOOSE d \in request.period : TRUE

\* How many queries the request takes; pools and pool know after the first two.
Queries ==
  CASE request.kind \in {"none", "refused"} -> 0
    [] request.kind \in {"swaps", "liquidity"} -> 2
    [] request.kind = "earnings" -> 4
    [] request.kind = "depths" -> 1 + 2 * (Count(request.buckets) + 1)
    [] request.kind = "tvl" -> Count(request.buckets) + 2
    [] request.kind \in {"knownpools", "members", "member", "network"} -> 1
    [] request.kind = "pools" ->
         IF Len(seen) < 2 THEN 2
         ELSE 3 + 3 * Cardinality(Selected(PoolStates(Now, seen[1], seen[2]), request.status))
    [] request.kind = "pool" ->
         IF Len(seen) < 2 THEN 2
         ELSE IF request.pool \in DOMAIN PoolStates(Now, seen[1], seen[2]) THEN 6 ELSE 2

\* The next query runs, on what is committed.
Query ==
  /\ Len(seen) < Queries
  /\ seen' = Append(seen, committed)
  /\ UNCHANGED <<serving, committed, published, request, asked>>

\* The indexer moves on; what it does after the last query reaches no answer,
\* which bounds the run.
Index ==
  /\ request = NoRequest \/ Len(seen) < Queries
  /\ Loop!Commit \/ Loop!Publish
  /\ UNCHANGED <<request, asked, seen>>

HistoryNext == Reject \/ Ask \/ Query \/ Index

HistorySpec == HistoryInit /\ [][HistoryNext]_historyVars

------------------------------------------------------------------------------
\* Every query has run.
Done == request.kind \notin {"none", "refused"} /\ Len(seen) = Queries

\* The answer, had the queries seen these heights.
Answer(heights) ==
  CASE request.kind = "swaps" -> SwapHistory(request.buckets, request.pool, heights)
    [] request.kind = "liquidity" -> LiquidityHistory(request.buckets, request.pool, heights)
    [] request.kind = "earnings" -> EarningsHistory(request.buckets, heights)
    [] request.kind = "depths" -> DepthHistory(request.buckets, request.pool, heights)
    [] request.kind = "tvl" -> TvlHistory(request.buckets, heights)
    [] request.kind = "pools" -> PoolsAnswer(request.status, Days, request.order, Now, heights)
    [] request.kind = "pool" -> PoolAnswer(request.pool, Days, Now, heights)
    [] request.kind = "knownpools" -> KnownPools(heights[1])
    [] request.kind = "members" -> Members(request.pool, heights[1])
    [] request.kind = "member" -> MemberDetails(request.addr, heights[1])
    [] request.kind = "network" -> Network(Now, request.nodes, heights[1])

\* The body the handler of the request returns.
Body ==
  CASE request.kind = "swaps" -> HistoryOf(SwapHistoryItem)
    [] request.kind = "liquidity" -> HistoryOf(LiquidityHistoryItem)
    [] request.kind = "earnings" -> HistoryOf(EarningsHistoryItem)
    [] request.kind = "depths" -> DepthHistoryBody
    [] request.kind = "tvl" -> HistoryOf(TvlHistoryItem)
    [] request.kind = "pools" -> Seq(PoolDetailBody)
    [] request.kind = "pool" -> SUBSET PoolDetailBody
    [] request.kind = "knownpools" -> SUBSET [pool : Pools, status : Statuses]
    [] request.kind = "members" -> SUBSET (SUBSET Addresses)
    [] request.kind = "member" -> MemberDetailsBody
    [] request.kind = "network" -> NetworkBody

\* Types; a request sees the database grow, from what it was when it came, and
\* its answer has the shape of its body.
HistoryTypeOK ==
  /\ serving = TRUE /\ committed \in 0 .. MaxTip /\ published \in 0 .. MaxTip
  /\ request.kind \in {"none", "refused"} \/ request \in Requests
  /\ asked \in [committed : 0 .. committed, published : 0 .. published]
  /\ seen \in Seq(asked.committed .. committed)
  /\ Done => Answer(seen) \in Body

\* The rows of a table, or two, in a window of time.
InWindow(names, height, w) ==
  {r \in Rows : /\ r.table \in names /\ r.height <= height
                /\ w.from * NanosPerSecond <= At(r) /\ At(r) < w.until * NanosPerSecond}

\* What the rows of an item's window amount to, taken together.
Whole(item) ==
  CASE request.kind = "swaps" ->
         item.split = SwapTotals(OfPool(InWindow({"swap"}, seen[1], item.window), request.pool))
    [] request.kind = "liquidity" ->
         item.split = LiquidityTotals(OfPool(InWindow({"stake", "withdraw"}, seen[1], item.window),
                                             request.pool))
    [] request.kind = "earnings" ->
         LET fees == FeesPerPool(InWindow({"swap"}, seen[2], item.window))
             rewards == RewardsPerPool(InWindow({"rewardEntry"}, seen[3], item.window))
             bond == BondRewards(InWindow({"rewards"}, seen[4], item.window))
         IN  item = EarningsItem(item.window, fees, rewards, bond, item.price)

\* No row falls between the buckets and none is counted twice: postgres groups
\* by date_trunc and the handler looks groups up by its own boundaries, yet every
\* interval has all rows of its window, and meta, which is only added up from the
\* intervals, has all rows of the whole range (swaps.rs:92-125).
IntervalsWhole ==
  request.kind \in {"swaps", "liquidity", "earnings"} /\ Done =>
    LET answer == Answer(seen).intervals
    IN  \A i \in DOMAIN answer : Whole(answer[i])
MetaWhole ==
  request.kind \in {"swaps", "liquidity", "earnings"} /\ Done => Whole(Answer(seen).meta)
NothingFallsBetween == IntervalsWhole /\ MetaWhole

\* An interval that was over when the request came is answered for good: blocks
\* committed between its queries, and later, change nothing but the price of now
\* (depths.rs:3-7, liquidity.rs:3-6).
ClosedIntervalsFinal ==
  request.kind \in HistoryKinds /\ Done =>
    LET answer == Answer(seen).intervals
        final == Answer([k \in DOMAIN seen |-> MaxTip]).intervals
    IN  \A i \in DOMAIN answer :
          answer[i].window.until * NanosPerSecond <= BlockTime[asked.committed] =>
            [answer[i] EXCEPT !.price = {}] = [final[i] EXCEPT !.price = {}]

\* THORChain's own account of a provider in a pool is a pair of addresses, known
\* by the RUNE address if it has one: a deposit carries both, a withdrawal comes
\* from that one ("a symmetric deposit carries one of each", members.rs:6-7).  In
\* another pool the same RUNE address may go with an asset address of its chain.
AddressOf(account) == IF account.rune # {} THEN account.rune ELSE account.asset

ASSUME AccountsAssumption ==
  LET moves == {r \in Rows : r.table \in {"stake", "withdraw"}}
  IN  /\ \A r \in moves :
           /\ AddressOf(r.account) # {} /\ AddressOf(r.account) \subseteq Addresses
           /\ r.table = "stake" =>
                r.runeAddr = r.account.rune /\ r.assetAddr = r.account.asset
           /\ r.table = "withdraw" => r.fromAddr = AddressOf(r.account)
      /\ \A q, r \in moves :
           q.pool = r.pool /\ AddressOf(q.account) = AddressOf(r.account) => q.account = r.account

\* Those who hold units by that account; moves is a set of deposits and
\* withdrawals.
Holders(moves) ==
  {a \in {r.account : r \in moves} : Units({r \in moves : r.account = a}) > 0}
Moves(pool, height) ==
  OfPool({r \in Rows : r.table \in {"stake", "withdraw"} /\ r.height <= height}, pool)
HoldersOf(pool, height) == {AddressOf(a) : a \in Holders(Moves({pool}, height))}

\* Nobody took more out of a pool than the tables have as put in.  After a seed
\* somebody may have: the deposits before it are not there.
NobodyOwes(height) ==
  \A p \in Pools : \A a \in {r.account : r \in Moves({p}, height)} :
    Units({r \in Moves({p}, height) : r.account = a}) >= 0

\* A member is who holds units: the list of a pool names every provider with a
\* balance there and nobody else, the list of all pools whoever holds in one of
\* them, if no balance that is owed is set against it, and the counts of a depth
\* history are their number at each boundary, though a deposit carries two
\* addresses and a withdrawal one (members.rs:32-47, depths.rs:131-146).
MembersAreHolders ==
  /\ request.kind = "members" /\ Done =>
       IF request.pool # {}
       THEN Members(request.pool, seen[1]) = UNION {HoldersOf(p, seen[1]) : p \in request.pool}
       ELSE NobodyOwes(seen[1]) =>
              Members({}, seen[1]) = UNION {HoldersOf(p, seen[1]) : p \in Pools}
  /\ request.kind = "depths" /\ Done =>
       LET answer == Answer(seen).intervals
       IN  \A i \in DOMAIN answer :
             answer[i].members = Cardinality(Holders(
               {r \in Moves({request.pool}, seen[2 * i + 3]) :
                  At(r) <= answer[i].window.until * NanosPerSecond}))

\* The details in an answer about pools.
Details == IF request.kind = "pool" THEN Answer(seen) ELSE Range(Answer(seen))

\* What two endpoints report, they report alike, though each has queries of its
\* own: the 24h volume and the earnings of a pool are what the histories sum over
\* the same window, its depths and members those at the end of a history, and the
\* value locked is twice what the network has pooled.  For requests between whose
\* queries nothing was committed, while the cursor was not behind the database
\* (pools.rs:145-147, network.rs:19-31, tvl.rs:3-5).
EndpointsAgree ==
  committed = asked.committed /\ committed <= asked.published /\ Done =>
    LET all == [k \in 1 .. 6 |-> committed]
        span(days) == [interval |-> "none", timestamps |-> <<Now - days * Day, Now>>]
        report == EarningsHistory(span(Days), all).meta
        earned(p) == {e.earnings : e \in {q \in report.pools : q.pool = p}}
    IN  /\ request.kind = "network" =>
             TvlHistory(span(1), all).meta.pooled = 2 * Answer(seen).pooled
        /\ request.kind \in {"pools", "pool"} =>
             \A detail \in Details :
               LET p == detail.pool
                   end == DepthHistory(span(1), p, all).meta.end
               IN  /\ detail.volume24h = SwapHistory(span(1), {p}, all).meta.volume
                   /\ {detail.earnings} = IF earned(p) = {} THEN {0} ELSE earned(p)
                   /\ end.depth = detail.depth
                   /\ end.members = Cardinality(Members({p}, committed))

\* A provider finds the same position by either address of it, "because a
\* symmetric deposit carries one of each and the caller may hold either"
\* (members.rs:6-7): the units reported are the balance of who has the address.
PositionFromEitherAddress ==
  request.kind = "member" /\ Done =>
    \A p \in Pools :
      LET found == {d.units : d \in {q \in Answer(seen) : q.pool = p}}
          held == Units({r \in Moves({p}, seen[1]) :
                           request.addr \in r.account.rune \cup r.account.asset})
      IN  {held} = IF found = {} THEN {0} ELSE found

=============================================================================
