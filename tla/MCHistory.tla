------------------------------- MODULE MCHistory -----------------------------
(***************************************************************************)
(* Four blocks of two pools and what is asked about them, and the requests *)
(* around the edges of a leap year of module MCBuckets.  The two share no  *)
(* state; one is explored while the other rests.                           *)
(***************************************************************************)
EXTENDS MCBuckets, History

CONSTANTS btc, usd, r1, a1, a2, u1

MCPools == {btc, usd}
MCUsdPools == {usd}
MCAddresses == {r1, a1, a2, u1}

\* Two ticks a second, around the end of February 1970: block 1 in the middle of
\* a day, block 2 in the last half second of the month, block 3 on the boundary of
\* a Monday, two days later, block 4 in the day after.
MCBlockTime ==
  [h \in 0 .. 4 |->
     <<0, 2 * (58 * Day + 43200), 2 * 59 * Day - 1, 2 * 60 * Day, 2 * (61 * Day + 21600) + 1>>[h + 1]]

\* A provider of one RUNE address with an asset address on each of two chains,
\* and one with an asset address only.
Both == [rune |-> {r1}, asset |-> {a1}]
BothUsd == [rune |-> {r1}, asset |-> {u1}]
Single == [rune |-> {}, asset |-> {a2}]

Swap(h, p, d, n) ==
  [table |-> "swap", height |-> h, pool |-> p, direction |-> d, from |-> n, to |-> 3 * n,
   feeInRune |-> n + 1, slip |-> n]
Stake(h, p, who, n) ==
  [table |-> "stake", height |-> h, pool |-> p, account |-> who, runeAddr |-> who.rune,
   assetAddr |-> who.asset, units |-> n, rune |-> n, asset |-> 2 * n, assetInRune |-> 0]
Withdraw(h, p, who, n) ==
  [table |-> "withdraw", height |-> h, pool |-> p, account |-> who,
   fromAddr |-> IF who.rune # {} THEN who.rune ELSE who.asset,
   units |-> n, rune |-> n, asset |-> n, assetInRune |-> 0]
Depth(h, p, asset, rune) ==
  [table |-> "depth", height |-> h, pool |-> p, asset |-> asset, rune |-> rune, synth |-> h,
   units |-> 10 + h]
Rewards(h, p, bond, rune) ==
  {[table |-> "rewards", height |-> h, bond |-> bond],
   [table |-> "rewardEntry", height |-> h, pool |-> p, rune |-> rune]}
Status(h, p, status) == [table |-> "pool", height |-> h, pool |-> p, status |-> status]

MCRows ==
  {Swap(r[1], r[2], r[3], r[4]) :
     r \in {<<1, btc, 0, 1>>, <<2, btc, 1, 2>>, <<2, usd, 6, 4>>, <<3, btc, 2, 8>>,
           <<4, btc, 3, 16>>, <<4, btc, 5, 32>>}}
  \cup {Stake(r[1], r[2], r[3], r[4]) :
          r \in {<<1, btc, Both, 4>>, <<1, usd, Single, 2>>, <<2, usd, BothUsd, 3>>,
                <<3, btc, Single, 5>>}}
  \cup {Withdraw(r[1], r[2], r[3], r[4]) :
          r \in {<<2, btc, Both, 3>>, <<3, usd, Single, 2>>, <<4, btc, Both, 1>>,
                <<4, usd, BothUsd, 2>>}}
  \cup {Depth(r[1], r[2], r[3], r[4]) :
          r \in {<<1, btc, 8, 4>>, <<1, usd, 4, 2>>, <<2, btc, 7, 5>>, <<2, usd, 0, 6>>,
                <<3, btc, 9, 9>>, <<3, usd, 0, 0>>, <<4, btc, 6, 7>>}}
  \cup UNION {Rewards(r[1], r[2], r[3], r[4]) :
          r \in {<<2, btc, 3, -2>>, <<3, usd, 5, 4>>, <<4, btc, 7, 1>>}}
  \cup {Status(1, btc, "staged"), Status(3, btc, "available")}

FiveMinutes ==
  [interval |-> "5min", timestamps |-> <<59 * Day - 300, 59 * Day, 59 * Day + 300>>]
Days3 == [interval |-> "day", timestamps |-> <<58 * Day, 59 * Day, 60 * Day, 61 * Day>>]
Days2 == [interval |-> "day", timestamps |-> <<58 * Day, 59 * Day, 60 * Day>>]
Day1 == [interval |-> "day", timestamps |-> <<60 * Day, 61 * Day>>]
Weeks == [interval |-> "week", timestamps |-> <<53 * Day, 60 * Day, 67 * Day>>]
Months == [interval |-> "month", timestamps |-> <<31 * Day, 59 * Day, 90 * Day>>]
SpanTo == [interval |-> "none", timestamps |-> <<58 * Day + 43200, 60 * Day>>]
SpanUntil == [interval |-> "none", timestamps |-> <<59 * Day - 1, 62 * Day>>]
Spans == {FiveMinutes, Days3, Weeks, Months, SpanTo, SpanUntil}

MCNodes ==
  <<[active |-> TRUE, bond |-> 5], [active |-> FALSE, bond |-> 9], [active |-> TRUE, bond |-> 2]>>

\* A hash map with a pool in front.
First(pool) == [p \in MCPools |-> IF p = pool THEN 1 ELSE 2]

MCRequests ==
  [kind : {"swaps", "liquidity"}, buckets : Spans, pool : {{}, {btc}}, params : {"known"}]
  \cup [kind : {"earnings", "tvl"}, buckets : Spans, params : {"known"}]
  \cup [kind : {"depths"}, buckets : {Days2, SpanTo}, pool : {btc}, params : {"known"}]
  \cup [kind : {"depths"}, buckets : {Day1}, pool : {usd}, params : {"known"}]
  \cup [kind : {"swaps"}, buckets : {SpanTo}, pool : {{}}, params : {"unknown", "unparsable"}]
  \cup [kind : {"pools"}, status : {{}}, period : {{2}}, order : {First(usd)}, params : {"known"}]
  \cup [kind : {"pools"}, status : {{"available"}}, period : {{}}, order : {First(btc)},
        params : {"known"}]
  \cup [kind : {"pool"}, pool : MCPools, period : {{0}, {2}}, params : {"known"}]
  \cup [kind : {"members"}, pool : {{}, {btc}, {usd}}, params : {"known"}]
  \cup [kind : {"member"}, addr : {r1, a1, a2, u1}]
  \cup [kind : {"network"}, nodes : {{}, {MCNodes}}]
  \cup {[kind |-> "knownpools"]}

\* Who looks a position up by one of its addresses.
MemberRequests == {r \in MCRequests : r.kind = "member"}

\* The state each rests in.
BucketsRest ==
  /\ Init /\ chain = CHOOSE c \in MCChains : TRUE
  /\ query = [interval |-> None, from |-> None, to |-> None, count |-> None]
HistoryRest == HistoryInit /\ committed = 0

ReadingInit == Init /\ HistoryInit /\ (BucketsRest \/ HistoryRest)
BucketStep == HistoryRest /\ Next /\ UNCHANGED historyVars
HistoryStep == BucketsRest /\ HistoryNext /\ UNCHANGED vars
ReadingNext == BucketStep \/ HistoryStep
ReadingSpec == ReadingInit /\ [][ReadingNext]_<<vars, historyVars>>

\* The types of both.
ReadingTypeOK == TypeOK /\ HistoryTypeOK

=============================================================================
