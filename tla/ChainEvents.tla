----------------------------- MODULE ChainEvents -----------------------------
(***************************************************************************)
(* The events that tell of something else than a depth, and what any event *)
(* says as far as it can be read; the code that emits them is not part of  *)
(* the repository.  A text is a name of no asset.  RUNE and the secured    *)
(* assets have a second spelling, the one of the bank module.              *)
(***************************************************************************)
EXTENDS ThorEvents

Text(t) == Asset("Text", t)

\* A name in the lower case of the bank module, where RUNE has no chain.
Lower(name) == [lower |-> name]
PlainRune == Text("RUNE")

\* A record with more fields: @@ of TLC, which no prover knows.
Also(f, g) == [k \in DOMAIN f \cup DOMAIN g |-> IF k \in DOMAIN f THEN f[k] ELSE g[k]]

\* The transaction an event is about.
Tx == [id |-> Text("id"), chain |-> Text("chain"), from |-> Text("from"), to |-> Text("to"),
       memo |-> Text("memo")]

OutwardEvents ==
  {Event("outbound", Also(Tx, [coin |-> Coin(Rune, 11), in_tx_id |-> Text("in")])),
   Event("refund", Also(Tx, [coin |-> <<Coin(Rune, 12), Coin(Text("TCY"), 13)>>, code |-> 105,
                             reason |-> Text("refused")])),
   Event("refund", Also(Tx, [coin |-> <<Coin(Rune, 12)>>, code |-> 105,
                             reason |-> Text("refused")]))}
  \cup {Event("transfer", [sender |-> Text("from"), recipient |-> Text("to"), amount |-> coins])
        : coins \in {<<Coin(Lower(PlainRune), 14)>>,
                     <<Coin(Lower(Text("BTC-BTC")), 15), Coin(Lower(Text("TCY")), 16)>>}}

NodeEvents ==
  {Event("bond", Also(Tx, [coin |-> Coin(Rune, 17), bond_type |-> Text("paid"), amount |-> 18])),
   Event("UpdateNodeAccountStatus",
         Also([Address |-> Text("node")],
              Also(Only("Former:", Text("Standby")), Only("Current:", Text("Active"))))),
   Event("ActiveVault", Only("add new asgard vault", Text("vault"))),
   Event("ActiveVault", Only("set_asgard_vault", Text("vault"))),
   Event("InactiveVault", Only("add new asgard vault", Text("vault"))),
   Event("set_mimir", [key |-> Text("key"), value |-> Text("value")])}

SupplyEvents ==
  {Event("mint_burn", [denom |-> Text("rune"), amount |-> 19, supply |-> Text("mint"),
                       reason |-> Text("reason")]),
   Event("switch", [burn |-> Coin(Text("OLD"), 20), mint |-> Coin(Rune, 21), txid |-> Text("id"),
                    from |-> Text("from"), to |-> Text("to")]),
   Event("pending_liquidity",
         [pool |-> Text("POOL"), asset_amount |-> 22, rune_amount |-> 23, type |-> Text("add"),
          asset_tx_id |-> Text("id"), asset_chain |-> Text("chain"), asset_address |-> Text("from"),
          rune_tx_id |-> Text("id2"), rune_address |-> Text("to")])}
  \cup {Event("pool", [pool |-> Text("POOL"), pool_status |-> status])
        : status \in {Lower(Text("AVAILABLE")), Text("Available")}}

\* Known and not of interest, and never heard of.
SilentEvents == {Event(type, <<>>) : type \in {"message", "wasm-contract/action", "new in 4.0"}}

OtherEvents == OutwardEvents \cup NodeEvents \cup SupplyEvents \cup SilentEvents

------------------------------------------------------------------------------
\* What kind of value an attribute has.
Shape(e, k) ==
  CASE k \in {"asset_add", "rune_add"} -> "flag"
    [] k \in {"slashed"} \/ <<e.type, k>> \in {<<"transfer", "amount">>, <<"refund", "coin">>,
                                               <<"donate", "coin">>} -> "coins"
    [] k \in {"coins", "burn", "mint"} \/ <<e.type, k>> = <<"swap", "emit_asset">>
         \/ (k = "coin" /\ e.type \notin {"refund", "donate"}) -> "coin"
    [] k = "per_pool" -> "pools"
    [] k \in {"asset_amount", "rune_amount", "asset_amt", "rune_amt", "liquidity_provider_units",
              "stake_units", "imp_loss_protection", "emit_rune", "pool_deduct", "bond_reward",
              "code"}
         \/ <<e.type, k>> \in {<<"withdraw", "emit_asset">>, <<"bond", "amount">>,
                               <<"mint_burn", "amount">>} -> "number"
    [] OTHER -> "name"

\* As it arrives: whole, without one of its attributes, or with one number or
\* coin that cannot be read; a name can always be read.
ReceivedOther(e) ==
  LET lists == {k \in DOMAIN e.attr : Shape(e, k) = "coins"}
  IN  {e}
      \cup {[e EXCEPT !.attr = [k \in DOMAIN e.attr \ {without} |-> e.attr[k]]]
            : without \in DOMAIN e.attr}
      \cup {[e EXCEPT !.attr[k] = Garbled]
            : k \in {k \in DOMAIN e.attr : Shape(e, k) \in {"coin", "number"}}}
      \cup UNION {{[e EXCEPT !.attr[k][i] = Garbled] : i \in DOMAIN e.attr[k]} : k \in lists}

\* What does not parse is none of what is sent.
ASSUME UnreadableAssumption ==
  \A e \in ThorEvents \cup OtherEvents : \A k \in DOMAIN e.attr :
    /\ e.attr[k] # Garbled
    /\ Shape(e, k) = "coins" => \A i \in DOMAIN e.attr[k] : e.attr[k][i] # Garbled

PoolTypes == {e.type : e \in ThorEvents}
Arrivals(e) == IF e.type \in PoolTypes THEN Received(e) ELSE ReceivedOther(e)

\* What is said: names, whatever their case, and amounts other than 0, whatever
\* their sign.
Said(names, amounts) ==
  [names |-> names \ {NoName},
   amounts |-> {IF n < 0 THEN -n ELSE n : n \in amounts} \ {0}]

SpelledOut(name) == IF DOMAIN name = {"lower"} THEN name.lower ELSE name
CaseFree(name) ==
  CASE SpelledOut(name) = PlainRune -> Rune
    [] SpelledOut(name) \in {Text("AVAILABLE"), Text("Available")} -> Text("available")
    [] OTHER -> SpelledOut(name)

\* What an event says as far as it can be read.  There is room for one of the
\* amounts of a slash, and none for the name of the RUNE that is donated.
Says(e) ==
  LET readable == {k \in DOMAIN e.attr : e.attr[k] # Garbled}
      of(shape) == {k \in readable : Shape(e, k) = shape}
      known(k) == {i \in DOMAIN e.attr[k] : IF k = "slashed" THEN e.attr[k][i].e8 # Garbled
                                            ELSE e.attr[k][i] # Garbled}
      listed(k) == {e.attr[k][i] : i \in {i \in known(k) :
                                            k = "slashed" => \A j \in known(k) : i <= j}}
      coins == {e.attr[k] : k \in of("coin")} \cup UNION {listed(k) : k \in of("coins")}
      pools == {p \in UNION {DOMAIN e.attr[k] : k \in of("pools")} : e.attr.per_pool[p] # Garbled}
      ownColumn == IF e.type = "donate" THEN {Rune} ELSE {}
  IN  Said(({CaseFree(c.asset) : c \in coins} \ ownColumn)
             \cup {CaseFree(e.attr[k]) : k \in of("name")} \cup pools,
           {c.e8 : c \in coins} \cup {e.attr[k] : k \in of("number")}
             \cup {e.attr.per_pool[p] : p \in pools})

\* Nothing is missing or garbled but, perhaps, a number that is absent: absent
\* and zero are the same thing for every numeric attribute (events.rs:495).
Complete(sent, got) ==
  /\ \A k \in DOMAIN sent.attr :
       k \in DOMAIN got.attr \/ Shape(sent, k) = "number"
  /\ \A k \in DOMAIN got.attr : got.attr[k] = sent.attr[k]

=============================================================================
