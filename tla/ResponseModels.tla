---------------------------- MODULE ResponseModels ---------------------------
(***************************************************************************)
(* The bodies of the answers (midgard-api/src/models.rs).  Amounts are     *)
(* integers, formatted as strings on the wire; a quotient keeps its two    *)
(* parts; figures that are always zero are left out.                       *)
(***************************************************************************)
EXTENDS PoolEndpoints

Quotient == Int \X Int
Price == SUBSET Quotient
LuviParts == Int \X Int \X Int
Depths == [asset : Int, rune : Int, synth : Int, units : Int]
Windows == [from : Int, until : Int]
\* One that an event announced, or unknown.
Statuses == {r.status : r \in {q \in Rows : q.table = "pool"}} \cup {"unknown"}

\* History<T>
HistoryOf(items) == [intervals : Seq(items), meta : items]

SwapHistoryItem ==
  [window : Windows, price : Price, count : Nat, volume : Nat, fees : Nat, slip : Quotient,
   split : [SwapGroups -> [count : Nat, volume : Nat, fees : Nat, slip : Nat]],
   averageSlip : [SwapGroups -> Quotient]]

LiquidityHistoryItem ==
  [window : Windows, price : Price, addVolume : Nat, withdrawVolume : Nat, net : Int,
   split : [addCount : Nat, addRune : Nat, addAsset : Nat,
            withdrawCount : Nat, withdrawRune : Nat, withdrawAsset : Nat]]

EarningsHistoryItemPool == [pool : Pools, fees : Nat, rewards : Int, earnings : Int]
EarningsHistoryItem ==
  [window : Windows, price : Price, pools : SUBSET EarningsHistoryItemPool,
   fees : Nat, bond : Nat, blockRewards : Int, liquidityEarnings : Int, earnings : Int]

DepthHistoryItem ==
  [window : Windows, price : Price, depth : Depths, members : Nat,
   assetPrice : Quotient, luvi : LuviParts]
DepthHistoryMeta ==
  [window : Windows, start : [depth : Depths, members : Nat],
   end : [depth : Depths, members : Nat], luvi : LuviParts \X LuviParts,
   shift : SUBSET (Quotient \X Quotient)]
DepthHistoryBody == [intervals : Seq(DepthHistoryItem), meta : DepthHistoryMeta]

TvlPoolDepth == [pool : Pools, total : Nat]
TvlHistoryItem == [window : Windows, price : Price, pools : SUBSET TvlPoolDepth, pooled : Nat]

PoolDetailBody ==
  [pool : Pools, status : Statuses, depth : Depths, price : Price, assetPrice : Quotient,
   luvi : LuviParts, volume24h : Nat, earnings : Int, apr : Quotient]

MemberPool ==
  [pool : Pools, units : Nat, runeAdded : Nat, assetAdded : Nat,
   runeWithdrawn : Nat, assetWithdrawn : Nat, firstAdded : Nat, lastAdded : Nat]
MemberDetailsBody == SUBSET MemberPool

BondMetricsBody == [total : Nat, average : Nat, median : Nat, minimum : Nat, maximum : Nat]
NetworkBody == [pooled : Nat, activeNodes : Nat, standbyNodes : Nat, bonds : BondMetricsBody]

=============================================================================
