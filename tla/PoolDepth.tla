------------------------------ MODULE PoolDepth ------------------------------
(***************************************************************************)
(* What the recorder makes of the events of the chain: the decoders        *)
(* (midgard-record/src/events.rs, coin.rs), the depth tracker (depth.rs)   *)
(* and the volumes the API reads off the recorded swaps.                   *)
(***************************************************************************)
EXTENDS ThorEvents, FiniteSetsExt

CONSTANT MaxEvents  \* bound: events recorded

ASSUME EventsAssumption == MaxEvents \in Nat

VARIABLES
  depth,      \* DepthTracker::current; an absent pool has NoDepth
  dirty,      \* DepthTracker::dirty, its order aside
  written,    \* the latest row of each pool in block_pool_depths
  swaps,      \* swap_events, buffered or written
  announced,  \* what THORNode did to each pool by the events that can be read
  runeMoved,  \* the RUNE that moved in the swaps among them
  events      \* how many events there were

poolVars == <<depth, dirty, written, swaps, announced, runeMoved, events>>

------------------------------------------------------------------------------
(* Decoding *)

\* A number or coin that does not parse refuses the event, and so does the
\* absence of a required name; these two names are optional.
Lenient == {<<"errata", "asset">>, <<"gas", "asset">>}

Refused(e) ==
  \E k \in DOMAIN e.attr : e.attr[k] = Garbled /\ <<e.type, k>> \notin Lenient

\* int, text: what an absent attribute decodes to.
Int0(e, k) == IF k \in DOMAIN e.attr THEN e.attr[k] ELSE 0
Name(e, k) == IF e.attr[k] = Garbled THEN NoName ELSE e.attr[k]

\* Mutant: the halves of a secured asset's swap are exchanged.
ClassifySecured(from, to) ==
  IF "Secure" \in {from.kind, to.kind} THEN <<to.kind, from.kind>>
  ELSE IF from.kind \in {"Native", "Derived"} THEN <<"Asset", to.kind>>
  ELSE IF to.kind \in {"Native", "Derived"} THEN <<from.kind, "Asset">>
  ELSE <<from.kind, to.kind>>

\* Direction::classify: derived assets share the directions of plain ones.
Classify(from, to) ==
  LET class(a) == IF a.kind \in {"Native", "Derived"} THEN "Asset" ELSE a.kind
  IN  <<class(from), class(to)>>

Directions == {<<"Rune", c>> : c \in {"Asset"} \cup Claims}
              \cup {<<c, "Rune">> : c \in {"Asset"} \cup Claims}

Swap(e) ==
  LET from == e.attr.coin
      to == e.attr.emit_asset
      class == Classify(from.asset, to.asset)
  IN  [pool |-> e.attr.pool, from_asset |-> from.asset, from_e8 |-> from.e8,
       to_asset |-> to.asset, to_e8 |-> to.e8,
       direction |-> IF class \in Directions THEN class ELSE <<"Rune", "Asset">>]

\* stake_units is the older spelling.
Stake(e) ==
  [pool |-> e.attr.pool, asset_e8 |-> Int0(e, "asset_amount"), rune_e8 |-> Int0(e, "rune_amount"),
   stake_units |-> IF "liquidity_provider_units" \in DOMAIN e.attr
                   THEN e.attr.liquidity_provider_units ELSE Int0(e, "stake_units")]

Withdraw(e) ==
  [pool |-> e.attr.pool, emit_asset_e8 |-> Int0(e, "emit_asset"),
   emit_rune_e8 |-> Int0(e, "emit_rune"), stake_units |-> Int0(e, "liquidity_provider_units"),
   imp_loss_protection_e8 |-> Int0(e, "imp_loss_protection")]

Fee(e) == [asset |-> e.attr.coins.asset, pool_deduct |-> Int0(e, "pool_deduct")]

Gas(e) ==
  [asset |-> Name(e, "asset"), asset_e8 |-> Int0(e, "asset_amt"), rune_e8 |-> Int0(e, "rune_amt")]

\* An entry that does not parse is passed over, the rest of the event kept.
Rewards(e) ==
  LET all == e.attr.per_pool
  IN  [per_pool |-> [p \in {p \in DOMAIN all : all[p] # Garbled} |-> all[p]]]

SumOf(coins, S) == MapThenSumSet(LAMBDA i : coins[i].e8, S)

\* split_rune: the RUNE total and the first other coin.
SplitRune(coins) ==
  LET others == {i \in DOMAIN coins : coins[i].asset # Rune}
  IN  [rune |-> SumOf(coins, DOMAIN coins \ others),
       asset |-> IF others = {} THEN 0 ELSE coins[Min(others)].e8]

Donate(e) ==
  LET split == SplitRune(e.attr.coin)
  IN  [pool |-> e.attr.pool, rune_e8 |-> split.rune, asset_e8 |-> split.asset]

Errata(e) ==
  [asset |-> Name(e, "asset"),
   asset_e8 |-> Signed(Int0(e, "asset_amt"), e.attr.asset_add),
   rune_e8 |-> Signed(Int0(e, "rune_amt"), e.attr.rune_add)]

PoolBalanceChange(e) ==
  [asset |-> e.attr.asset, rune_amt |-> Int0(e, "rune_amt"), rune_add |-> e.attr.rune_add,
   asset_amt |-> Int0(e, "asset_amt"), asset_add |-> e.attr.asset_add]

\* The first amount that parses; with none, nothing of an asset without name.
Slash(e) ==
  LET readable == {i \in DOMAIN e.attr.slashed : e.attr.slashed[i].e8 # Garbled}
  IN  [pool |-> e.attr.pool,
       slashed |-> IF readable = {} THEN Coin(NoName, 0) ELSE e.attr.slashed[Min(readable)]]

------------------------------------------------------------------------------
(* Depths *)

\* The names a row of depths can have: those of the pools and of what
\* pool_of_asset leaves as it is.
Names == Pools \cup {Asset("Secure", s) : s \in Symbols} \cup {Rune, NoName}

\* pool_of_asset
PoolOfAsset(asset) ==
  IF asset.kind \in {"Synth", "Trade"} THEN L1(asset.symbol) ELSE asset

\* Mutant: a synth's swap is an ordinary one.
SwapMovePlain(s) ==
  IF s.from_asset = Rune THEN Amounts(-s.to_e8, s.from_e8, 0, 0)
  ELSE Amounts(s.from_e8, -s.to_e8, 0, 0)

\* apply_swap
SwapMove(s) ==
  CASE s.to_asset.kind = "Synth" -> Amounts(0, s.from_e8, s.to_e8, 0)
    [] s.to_asset.kind # "Synth" /\ s.from_asset.kind = "Synth" ->
         Amounts(0, -s.to_e8, -s.from_e8, 0)
    [] OTHER -> IF s.from_asset = Rune THEN Amounts(-s.to_e8, s.from_e8, 0, 0)
                ELSE Amounts(s.from_e8, -s.to_e8, 0, 0)

\* apply: the pools an event touches, each with what is added to it.
Moves(e) ==
  CASE e.type = "swap" -> LET s == Swap(e) IN Only(s.pool, SwapMove(s))
    [] e.type \in {"add_liquidity", "add"} ->
         LET s == Stake(e) IN Only(s.pool, Amounts(s.asset_e8, s.rune_e8, 0, s.stake_units))
    [] e.type = "withdraw" ->
         LET w == Withdraw(e)
         IN  Only(w.pool, Amounts(-w.emit_asset_e8, w.imp_loss_protection_e8 - w.emit_rune_e8, 0,
                                  -w.stake_units))
    [] e.type = "donate" -> LET a == Donate(e) IN Only(a.pool, Amounts(a.asset_e8, a.rune_e8, 0, 0))
    [] e.type = "errata" ->
         LET r == Errata(e) IN Only(r.asset, Amounts(r.asset_e8, r.rune_e8, 0, 0))
    [] e.type = "pool_balance_change" ->
         LET c == PoolBalanceChange(e)
         IN  Only(c.asset, Amounts(Signed(c.asset_amt, c.asset_add), Signed(c.rune_amt, c.rune_add),
                                 0, 0))
    [] e.type = "rewards" ->
         LET r == Rewards(e) IN [p \in DOMAIN r.per_pool |-> Amounts(0, r.per_pool[p], 0, 0)]
    [] e.type = "slash" ->
         LET s == Slash(e)
         IN  Only(s.pool, IF s.slashed.asset = Rune THEN Amounts(0, s.slashed.e8, 0, 0)
                          ELSE Amounts(s.slashed.e8, 0, 0, 0))
    [] e.type = "fee" ->
         LET f == Fee(e)
         IN  IF f.pool_deduct = 0 THEN <<>>
             ELSE Only(PoolOfAsset(f.asset), Amounts(0, -f.pool_deduct, 0, 0))
    [] e.type = "gas" ->
         LET g == Gas(e) IN Only(PoolOfAsset(g.asset), Amounts(-g.asset_e8, g.rune_e8, 0, 0))

\* The depths d with the moves of some of their pools added in.
Moved(d, moves) ==
  [k \in DOMAIN d |-> IF k \in DOMAIN moves THEN Sum2(d[k], moves[k]) ELSE d[k]]

------------------------------------------------------------------------------
(* Volumes *)

ToAsset == {<<"Rune", "Asset">>, <<"Rune", "Trade">>, <<"Rune", "Secure">>}
ToRune == {<<"Asset", "Rune">>, <<"Trade", "Rune">>, <<"Secure", "Rune">>}
SynthMint == <<"Rune", "Synth">>
SynthRedeem == <<"Synth", "Rune">>

\* total_volume of the swap history: the sum of its four columns.
HistoryVolume(s) ==
  CASE s.direction \in ToAsset \cup {SynthMint} -> s.from_e8
    [] s.direction \in ToRune \cup {SynthRedeem} -> s.to_e8

\* volume24h of a pool.
PoolVolume(s) == IF s.direction \in ToAsset \cup {SynthMint} THEN s.from_e8 ELSE s.to_e8

\* swapVolume of the statistics.
StatsVolume(s) == IF s.direction \in ToAsset THEN s.from_e8 ELSE s.to_e8

\* The sums over swap_events.
HistoryTotal == MapThenSumSet(LAMBDA i : HistoryVolume(swaps[i]), DOMAIN swaps)
PoolTotal == MapThenSumSet(LAMBDA i : PoolVolume(swaps[i]), DOMAIN swaps)
StatsTotal == MapThenSumSet(LAMBDA i : StatsVolume(swaps[i]), DOMAIN swaps)

------------------------------------------------------------------------------
(* The recorder *)

PoolInit ==
  /\ depth = [k \in Names |-> NoDepth] /\ dirty = {}
  /\ written = [k \in Names |-> NoDepth]
  /\ swaps = <<>>
  /\ announced = [p \in Pools |-> NoDepth] /\ runeMoved = 0
  /\ events = 0

\* Mutant: a pool is reported only when it is new.
TouchNew(names) == dirty \cup {k \in names : depth[k] = NoDepth}

\* touch
Touch(names) == dirty \cup names

\* THORNode emits an event, it arrives, and BlockWriter::push takes it in: an
\* event that is refused is logged and passed over.
Push ==
  /\ events < MaxEvents
  /\ \E sent \in ThorEvents : \E e \in Received(sent) :
       /\ IF Refused(e) THEN UNCHANGED <<depth, dirty, swaps>>
          ELSE /\ depth' = Moved(depth, Moves(e))
               /\ dirty' = Touch(DOMAIN Moves(e))
               /\ swaps' = IF e.type = "swap" THEN Append(swaps, Swap(e)) ELSE swaps
       /\ announced' = Moved(announced, Readable(e))
       /\ runeMoved' = runeMoved + IF Readable(e) = <<>> THEN 0 ELSE RuneLeg(e)
  /\ events' = events + 1
  /\ UNCHANGED written

\* The end of a block: take_changed, and its rows written.
TakeChanged ==
  /\ dirty # {}
  /\ written' = [k \in Names |-> IF k \in dirty THEN depth[k] ELSE written[k]]
  /\ dirty' = {}
  /\ UNCHANGED <<depth, swaps, announced, runeMoved, events>>

PoolNext == Push \/ TakeChanged

PoolSpec == PoolInit /\ [][PoolNext]_poolVars

------------------------------------------------------------------------------
Depths == [asset : Int, rune : Int, synth : Int, units : Int]

\* Types; only what pool_of_asset can name has a depth.
PoolTypeOK ==
  /\ depth \in [Names -> Depths] /\ written \in [Names -> Depths]
  /\ announced \in [Pools -> Depths]
  /\ dirty \subseteq Names
  /\ Len(swaps) <= events /\ events \in 0 .. MaxEvents /\ runeMoved \in Nat

\* The depth of a pool is what THORNode did to it by every event that can be
\* read, whatever came unreadable in between: a bad attribute costs its own
\* event or entry and nothing else (depth.rs:12-16, writer.rs:193-196).
DepthIsWhatWasAnnounced == \A p \in Pools : depth[p] = announced[p]

\* A pool's latest row is its depth unless it is due for one: leaving out the
\* blocks that did not move a pool loses nothing (depth.rs:3-6).
LatestRowsSuffice == \A k \in Names \ dirty : written[k] = depth[k]

\* The volume of the swap history and of a pool's day is the RUNE that moved,
\* whatever was swapped (swaps.rs:7, pools.rs:200).
VolumeIsTheRuneMoved == HistoryTotal = runeMoved /\ PoolTotal = runeMoved

------------------------------------------------------------------------------
\* What the repository says and the code does not do: "the RUNE leg is the
\* volume regardless of direction" (pools.rs:200), for the volume of the
\* statistics.
StatsVolumeIsTheRuneMoved == StatsTotal = runeMoved

=============================================================================
