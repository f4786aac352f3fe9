----------------------------- MODULE ThorEvents ------------------------------
(***************************************************************************)
(* The events by which THORNode tells of its pools, and what each of them  *)
(* did there; the code that emits them is not part of the repository.      *)
(*                                                                         *)
(* An event has the attributes its decoder may refuse and those that move  *)
(* a depth.  Names are case-normalised, RUNE has one spelling, and amounts *)
(* are small: a depth is a sum, so what matters is which side of which     *)
(* pool an amount reaches, and with which sign.                            *)
(***************************************************************************)
EXTENDS Integers, Sequences, FiniteSets

CONSTANTS
  Symbols,  \* what BTC.BTC, BTC/BTC, BTC~BTC, BTC-BTC and THOR.BTC share
  Garbled   \* an attribute that does not parse

ASSUME SymbolsAssumption == IsFiniteSet(Symbols)

(* Assets *)

Asset(kind, symbol) == [kind |-> kind, symbol |-> symbol]
Rune == Asset("Rune", "RUNE")
NoName == Asset("Unknown", "")
L1(symbol) == Asset("Native", symbol)
Pools == {Asset(kind, s) : kind \in {"Native", "Derived"}, s \in Symbols}
Claims == {"Synth", "Trade", "Secure"}

Amounts(asset, rune, synth, units) ==
  [asset |-> asset, rune |-> rune, synth |-> synth, units |-> units]
NoDepth == Amounts(0, 0, 0, 0)
Sum2(d, e) == [k \in DOMAIN d |-> d[k] + e[k]]

------------------------------------------------------------------------------
(* Events *)

Coin(asset, e8) == [asset |-> asset, e8 |-> e8]
Event(type, attr) == [type |-> type, attr |-> attr]

\* What can be swapped for RUNE in a pool: its asset and the claims on it.
Tradable(pool) ==
  {pool} \cup {Asset(c, pool.symbol) : c \in {c \in Claims : pool.kind = "Native"}}

ThorSwaps ==
  UNION {UNION {
    {Event("swap", [pool |-> p, coin |-> Coin(Rune, 7), emit_asset |-> Coin(a, 2)]),
     Event("swap", [pool |-> p, coin |-> Coin(a, 2), emit_asset |-> Coin(Rune, 5)])}
    : a \in Tradable(p)} : p \in Pools}

ThorLiquidity ==
  UNION {
    {Event("add_liquidity", [pool |-> L1(s), asset_amount |-> 2, rune_amount |-> 4,
                             liquidity_provider_units |-> 3]),
     Event("add", [pool |-> L1(s), asset_amount |-> 1, rune_amount |-> 0, stake_units |-> 1]),
     Event("withdraw", [pool |-> L1(s), coin |-> Coin(Rune, 0), emit_asset |-> 1, emit_rune |-> 3,
                        liquidity_provider_units |-> 2, imp_loss_protection |-> 1]),
     Event("donate", [pool |-> L1(s), coin |-> <<Coin(L1(s), 1), Coin(Rune, 2)>>])}
    : s \in Symbols}

\* Corrections, with a sign for each side.
ThorSigned ==
  UNION {
    {Event("errata", [asset |-> L1(s), asset_amt |-> 1, asset_add |-> add,
                      rune_amt |-> 2, rune_add |-> ~add]),
     Event("pool_balance_change", [asset |-> L1(s), asset_amt |-> 3, asset_add |-> add,
                                   rune_amt |-> 1, rune_add |-> ~add])}
    : s \in Symbols, add \in BOOLEAN}
ThorSlashes ==
  UNION {
    {Event("slash", [pool |-> L1(s), slashed |-> <<Coin(L1(s), -2), Coin(Rune, 3)>>]),
     Event("slash", [pool |-> L1(s), slashed |-> <<Coin(Rune, -1)>>])}
    : s \in Symbols}
ThorGas == {Event("gas", [asset |-> L1(s), asset_amt |-> 1, rune_amt |-> 3]) : s \in Symbols}
Charged == {Asset(k, s) : k \in {"Native"} \cup Claims, s \in Symbols}
ThorFees ==
  {Event("fee", [coins |-> Coin(a, 1), pool_deduct |-> n]) : a \in Charged, n \in {0, 2}}
ThorRewards ==
  {Event("rewards", [bond_reward |-> 1, per_pool |-> r])
    : r \in [{L1(s) : s \in Symbols} -> {2, -1}]}

ThorAdjustments == ThorSigned \cup ThorSlashes \cup ThorGas \cup ThorFees \cup ThorRewards

ThorEvents == ThorSwaps \cup ThorLiquidity \cup ThorAdjustments

\* An event as it arrives, with at most one name, number or coin that cannot be
\* read; a flag is a word, and anything but "false" says add.
Received(e) ==
  LET lists == {"per_pool", "slashed"} \cap DOMAIN e.attr
      flags == {"asset_add", "rune_add"}
  IN  {e} \cup {[e EXCEPT !.attr[k] = Garbled] : k \in DOMAIN e.attr \ (lists \cup flags)}
          \cup {[e EXCEPT !.attr.per_pool[p] = Garbled]
                : p \in IF "per_pool" \in lists THEN DOMAIN e.attr.per_pool ELSE {}}
          \cup {[e EXCEPT !.attr.slashed[i].e8 = Garbled]
                : i \in IF "slashed" \in lists THEN DOMAIN e.attr.slashed ELSE {}}

\* What does not parse is nothing that does.
ASSUME GarbledAssumption ==
  /\ Garbled \notin Int
  /\ \A sent \in ThorEvents :
       /\ \A k \in DOMAIN sent.attr : sent.attr[k] # Garbled
       /\ \A e \in Received(sent) :
            \A k \in {"per_pool", "slashed"} \cap DOMAIN e.attr : e.attr[k] # Garbled

\* A pool receives n of an asset; synths are burnt or issued instead.
Credit(asset, n) ==
  CASE asset.kind = "Rune" -> Amounts(0, n, 0, 0)
    [] asset.kind = "Synth" -> Amounts(0, 0, -n, 0)
    [] OTHER -> Amounts(n, 0, 0, 0)

CreditOf(coin) == Credit(coin.asset, coin.e8)

Signed(n, add) == IF add THEN n ELSE -n
Only(pool, amounts) == [p \in {pool} |-> amounts]
PairTo(pool, asset, rune) == Only(pool, Sum2(Credit(pool, asset), Credit(Rune, rune)))

\* What an event did to the pools.
Effect(e) ==
  LET v == e.attr
  IN  CASE e.type = "swap" ->
             Only(v.pool, Sum2(CreditOf(v.coin), Credit(v.emit_asset.asset, -v.emit_asset.e8)))
        [] e.type = "add_liquidity" ->
             Only(v.pool, Amounts(v.asset_amount, v.rune_amount, 0, v.liquidity_provider_units))
        [] e.type = "add" -> Only(v.pool, Amounts(v.asset_amount, v.rune_amount, 0, v.stake_units))
        [] e.type = "withdraw" ->
             Only(v.pool, Amounts(-v.emit_asset, v.imp_loss_protection - v.emit_rune, 0,
                                  -v.liquidity_provider_units))
        [] e.type = "donate" -> PairTo(v.pool, v.coin[1].e8, v.coin[2].e8)
        [] e.type \in {"errata", "pool_balance_change"} ->
             PairTo(v.asset, Signed(v.asset_amt, v.asset_add), Signed(v.rune_amt, v.rune_add))
        [] e.type = "slash" -> Only(v.pool, CreditOf(v.slashed[1]))
        [] e.type = "gas" -> PairTo(v.asset, -v.asset_amt, v.rune_amt)
        [] e.type = "fee" -> PairTo(L1(v.coins.asset.symbol), 0, -v.pool_deduct)
        [] e.type = "rewards" -> [p \in DOMAIN v.per_pool |-> Credit(Rune, v.per_pool[p])]

RuneLeg(e) ==
  IF e.type # "swap" THEN 0
  ELSE IF e.attr.coin.asset = Rune THEN e.attr.coin.e8 ELSE e.attr.emit_asset.e8

\* What an event did as far as it can be read.  Of the amounts of a slash only
\* the first that can be read is listed, and nothing of an errata or of gas
\* without asset; a deduction in a secured asset names no pool either.
Readable(e) ==
  LET v == e.attr
      garbled == \E k \in DOMAIN v : v[k] = Garbled
      nameless == e.type = "fee" /\ ~garbled /\ v.coins.asset.kind = "Secure"
  IN  CASE garbled \/ nameless -> <<>>
        [] ~garbled /\ e.type = "rewards" ->
             LET known == {p \in DOMAIN v.per_pool : v.per_pool[p] # Garbled}
             IN  Effect([e EXCEPT !.attr.per_pool = [p \in known |-> @[p]]])
        [] ~garbled /\ e.type = "slash" ->
             LET known == {i \in DOMAIN v.slashed : v.slashed[i].e8 # Garbled}
                 first == CHOOSE i \in known : \A j \in known : i <= j
             IN  IF known = {} THEN <<>> ELSE Only(v.pool, CreditOf(v.slashed[first]))
        [] OTHER -> Effect(e)

=============================================================================
