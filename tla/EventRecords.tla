---------------------------- MODULE EventRecords -----------------------------
(***************************************************************************)
(* What becomes of an event of any kind: the decoders of those that move   *)
(* no depth (midgard-record/src/events.rs, coin.rs; the others are in      *)
(* PoolDepth) and the rows that are written (writer.rs, ddl.sql).          *)
(***************************************************************************)
EXTENDS PoolDepth, ChainEvents, SequencesExt

------------------------------------------------------------------------------
(* Decoding: a name that is absent is empty, a number 0, a list has nothing in it. *)

TextOf(e, k) == IF k \in DOMAIN e.attr THEN e.attr[k] ELSE NoName
CoinsOf(e, k) == IF k \in DOMAIN e.attr THEN e.attr[k] ELSE <<>>

\* to_ascii_uppercase, but for RUNE; to_ascii_lowercase
ParseCosmosCoin(coin) ==
  Coin(IF coin.asset = Lower(PlainRune) THEN Rune ELSE coin.asset.lower, coin.e8)
LowerCase(status) == IF status \in {Lower(Text("AVAILABLE")), Text("Available")}
                     THEN Text("available") ELSE SpelledOut(status)

\* coin_of(..).ok()
CoinOrNone(e, k) ==
  IF k \in DOMAIN e.attr /\ e.attr[k] # Garbled THEN e.attr[k] ELSE Coin(NoName, 0)

Outbound(e) ==
  [tx |-> TextOf(e, "id"), chain |-> TextOf(e, "chain"), from_addr |-> TextOf(e, "from"),
   to_addr |-> TextOf(e, "to"), asset |-> e.attr.coin.asset, asset_e8 |-> e.attr.coin.e8,
   memo |-> TextOf(e, "memo"), in_tx |-> e.attr.in_tx_id]

Refund(e) ==
  LET coins == CoinsOf(e, "coin") \o <<Coin(NoName, 0), Coin(NoName, 0)>>
  IN  [tx |-> TextOf(e, "id"), chain |-> TextOf(e, "chain"), from_addr |-> TextOf(e, "from"),
       to_addr |-> TextOf(e, "to"), asset |-> coins[1].asset, asset_e8 |-> coins[1].e8,
       asset_2nd |-> coins[2].asset, asset_2nd_e8 |-> coins[2].e8,
       memo |-> TextOf(e, "memo"), code |-> Int0(e, "code"), reason |-> TextOf(e, "reason")]

\* One row per coin.
Transfers(e) ==
  [i \in DOMAIN e.attr.amount |->
     LET coin == ParseCosmosCoin(e.attr.amount[i])
     IN  [from_addr |-> TextOf(e, "sender"), to_addr |-> TextOf(e, "recipient"),
          asset |-> coin.asset, amount_e8 |-> coin.e8]]

Bond(e) ==
  LET coin == CoinOrNone(e, "coin")
  IN  [tx |-> TextOf(e, "id"), chain |-> TextOf(e, "chain"), from_addr |-> TextOf(e, "from"),
       to_addr |-> TextOf(e, "to"), asset |-> coin.asset, asset_e8 |-> coin.e8,
       memo |-> TextOf(e, "memo"), bond_type |-> TextOf(e, "bond_type"), e8 |-> Int0(e, "amount")]

PendingLiquidity(e) ==
  [pool |-> e.attr.pool, asset_tx |-> TextOf(e, "asset_tx_id"),
   asset_chain |-> TextOf(e, "asset_chain"), asset_addr |-> TextOf(e, "asset_address"),
   asset_e8 |-> Int0(e, "asset_amount"), rune_tx |-> TextOf(e, "rune_tx_id"),
   rune_addr |-> TextOf(e, "rune_address"), rune_e8 |-> Int0(e, "rune_amount"),
   pending_type |-> TextOf(e, "type")]

SetMimir(e) == [key |-> e.attr.key, value |-> TextOf(e, "value")]

MintBurn(e) ==
  [asset |-> e.attr.denom, asset_e8 |-> Int0(e, "amount"), supply |-> TextOf(e, "supply"),
   reason |-> TextOf(e, "reason")]

Switch(e) ==
  LET burn == CoinOrNone(e, "burn")
      mint == CoinOrNone(e, "mint")
  IN  [tx |-> TextOf(e, "txid"), from_addr |-> TextOf(e, "from"), to_addr |-> TextOf(e, "to"),
       burn_asset |-> burn.asset, burn_e8 |-> burn.e8, mint_asset |-> mint.asset,
       mint_e8 |-> mint.e8]

Vault(e) ==
  [add_asgard_addr |-> IF "add new asgard vault" \in DOMAIN e.attr
                       THEN e.attr["add new asgard vault"] ELSE TextOf(e, "set_asgard_vault")]

NodeStatus(e) ==
  [node_addr |-> TextOf(e, "Address"), former |-> TextOf(e, "Former:"),
   current |-> TextOf(e, "Current:")]

PoolStatus(e) == [asset |-> e.attr.pool, status |-> LowerCase(e.attr.pool_status)]

\* IGNORED, what contracts emit, and what decode has never seen: no rows.
Passed(e) == e.type \in {"message", "wasm-contract/action", "new in 4.0"}

\* The names decode needs of an event that moves no depth, and its coins and
\* numbers, which must parse if they are there.
Required == [type \in {e.type : e \in OtherEvents} |->
  CASE type = "outbound" -> {"coin", "in_tx_id"}
    [] type = "transfer" -> {"amount"}
    [] type = "pending_liquidity" -> {"pool"}
    [] type = "set_mimir" -> {"key"}
    [] type = "mint_burn" -> {"denom"}
    [] type = "pool" -> {"pool", "pool_status"}
    [] OTHER -> {}]

OtherLenient == {<<"bond", "coin">>, <<"switch", "burn">>, <<"switch", "mint">>}

RefusedOther(e) ==
  \/ \E k \in Required[e.type] : k \notin DOMAIN e.attr
  \/ \E k \in DOMAIN e.attr :
       \/ e.attr[k] = Garbled /\ <<e.type, k>> \notin OtherLenient
       \/ Shape(e, k) = "coins" /\ \E i \in DOMAIN e.attr[k] : e.attr[k][i] = Garbled

------------------------------------------------------------------------------
(* Rows *)

Row(table, columns) == <<[table |-> table, columns |-> columns]>>

\* The rows written for an event that decode accepts and that moves no depth.
OtherRows(e) ==
  CASE Passed(e) -> <<>>
    [] e.type = "outbound" -> Row("outbound_events", Outbound(e))
    [] e.type = "refund" -> Row("refund_events", Refund(e))
    [] e.type = "transfer" ->
         LET rows == Transfers(e)
         IN  [i \in DOMAIN rows |-> [table |-> "transfer_events", columns |-> rows[i]]]
    [] e.type = "bond" -> Row("bond_events", Bond(e))
    [] e.type = "pending_liquidity" -> Row("pending_liquidity_events", PendingLiquidity(e))
    [] e.type = "set_mimir" -> Row("set_mimir_events", SetMimir(e))
    [] e.type = "mint_burn" -> Row("mint_burn_events", MintBurn(e))
    [] e.type = "switch" -> Row("switch_events", Switch(e))
    [] e.type = "ActiveVault" -> Row("active_vault_events", Vault(e))
    [] e.type = "InactiveVault" -> Row("inactive_vault_events", Vault(e))
    [] e.type = "UpdateNodeAccountStatus" ->
         Row("update_node_account_status_events", NodeStatus(e))
    [] e.type = "pool" -> Row("pool_events", PoolStatus(e))

\* saver_e8 is always 0.
RewardsRows(e) ==
  LET split == Rewards(e).per_pool
      pools == SetToSeq(DOMAIN split)
  IN  Row("rewards_events", [bond_e8 |-> Int0(e, "bond_reward")])
      \o [i \in DOMAIN pools |->
            [table |-> "rewards_event_entries",
             columns |-> [pool |-> pools[i], rune_e8 |-> split[pools[i]], saver_e8 |-> 0]]]

\* Those of one that does.
PoolRows(e) ==
  CASE e.type = "swap" -> Row("swap_events", Swap(e))
    [] e.type \in {"add_liquidity", "add"} ->
         Row("stake_events", Also(Stake(e), [asset_in_rune_e8 |-> 0]))
    [] e.type = "withdraw" ->
         Row("withdraw_events",
             Also(Withdraw(e), [asset |-> e.attr.coin.asset, asset_e8 |-> e.attr.coin.e8,
                                emit_asset_in_rune_e8 |-> 0]))
    [] e.type = "fee" -> Row("fee_events", Also(Fee(e), [asset_e8 |-> e.attr.coins.e8]))
    [] e.type = "gas" -> Row("gas_events", Gas(e))
    [] e.type = "rewards" -> RewardsRows(e)
    [] e.type = "donate" ->
         LET others == {c \in ToSet(e.attr.coin) : c.asset # Rune}
         IN  Row("add_events", Also(Donate(e), [asset |-> (CHOOSE c \in others : TRUE).asset]))
    [] e.type = "errata" -> Row("errata_events", Errata(e))
    [] e.type = "pool_balance_change" ->
         Row("pool_balance_change_events", PoolBalanceChange(e))
    [] e.type = "slash" ->
         LET s == Slash(e)
         IN  Row("slash_events",
                 [pool |-> s.pool, asset |-> s.slashed.asset, asset_e8 |-> s.slashed.e8])

\* decode and write_events: what becomes of an event, and the depths it moves.
RowsOfEvent(e) ==
  CASE e.type \in PoolTypes -> IF Refused(e) THEN <<>> ELSE PoolRows(e)
    [] e.type \notin PoolTypes -> IF RefusedOther(e) THEN <<>> ELSE OtherRows(e)

MovesOfEvent(e) == IF e.type \in PoolTypes /\ ~Refused(e) THEN Moves(e) ELSE <<>>

=============================================================================
