---------------------------- MODULE ConfigSchema -----------------------------
(***************************************************************************)
(* The settings of the configuration and their values                      *)
(* (midgard-config/src/schema.rs, duration.rs).  A JSON value is a tree: a *)
(* function on the paths of its nodes, each of which is an object or has a *)
(* type and a value.  A setting is named by its path.                      *)
(***************************************************************************)
EXTENDS SequencesExt

CONSTANT KeyNames  \* what the keys of objects are taken from

Num(n) == <<"number", n>>
Str(s) == <<"string", s>>
Bool(b) == <<"bool", b>>
List(s) == <<"list", s>>
Object == <<"object">>
IsObject(node) == node[1] = "object"

\* What lies below an object is there by its own path, and nothing else lies below.
IsTree(tree) ==
  /\ <<>> \in DOMAIN tree /\ IsObject(tree[<<>>])
  /\ tree = [p \in DOMAIN tree |-> tree[p]] /\ DOMAIN tree \subseteq Seq(KeyNames)
  /\ \A p \in DOMAIN tree \ {<<>>} : Front(p) \in DOMAIN tree /\ IsObject(tree[Front(p)])

\* The paths above a set of paths, and the tree with given leaves.
Above(paths) == UNION {{SubSeq(p, 1, n) : n \in 0 .. Len(p) - 1} : p \in paths}
TreeOf(leaves) ==
  [p \in DOMAIN leaves \cup Above(DOMAIN leaves) \cup {<<>>} |->
     IF p \in DOMAIN leaves THEN leaves[p] ELSE Object]

Keys(tree, path) == {Last(p) : p \in {q \in DOMAIN tree \ {<<>>} : Front(q) = path}}

------------------------------------------------------------------------------
(* Durations *)

\* Durations are written as numbers of units; the milliseconds of each.
UnitMillis == "ms" :> 1 @@ "s" :> 1000 @@ "m" :> 60000 @@ "h" :> 3600000
Spelling ==
  "1m" :> <<<<1, "m">>>> @@ "60s" :> <<<<60, "s">>>>
  @@ "1m30s500ms" :> <<<<1, "m">>, <<30, "s">>, <<500, "ms">>>>

\* duration::parse
Millis(text) ==
  LET parts == Spelling[text]
      sum[i \in 0 .. Len(parts)] ==
        IF i = 0 THEN 0 ELSE sum[i - 1] + parts[i][1] * UnitMillis[parts[i][2]]
  IN  sum[Len(parts)]

\* Display: the largest unit that leaves no remainder.
Display(millis) ==
  LET unit == CHOOSE u \in DOMAIN UnitMillis :
                /\ millis % UnitMillis[u] = 0
                /\ \A v \in DOMAIN UnitMillis :
                     millis % UnitMillis[v] = 0 => UnitMillis[v] <= UnitMillis[u]
  IN  CHOOSE text \in DOMAIN Spelling : Spelling[text] = <<<<millis \div UnitMillis[unit], unit>>>>

------------------------------------------------------------------------------
(* Settings *)

\* Settings of every type the configuration has, at every depth.
SettingTypes ==
  <<"listen_port">> :> "number"
  @@ <<"max_block_age">> :> "duration"
  @@ <<"usd_pools">> :> "list"
  @@ <<"case_insensitive_chains">> :> "map"
  @@ <<"timescale", "host">> :> "text"
  @@ <<"timescale", "no_auto_update_ddl">> :> "bool"
  @@ <<"endpoints", "action_params", "max_limit">> :> "number"

\* SCALAR_MAPS: the settings that are maps, which the tree does not tell from sections.
MapPaths == {<<"case_insensitive_chains">>}

\* Config::default, and its serialisation.
DefaultAge == 60000
DefaultTree ==
  TreeOf(<<"listen_port">> :> Num(8080)
         @@ <<"max_block_age">> :> Str(Display(DefaultAge))
         @@ <<"usd_pools">> :> List(<<"BUSD", "USDT">>)
         @@ <<"case_insensitive_chains", "ETH">> :> Bool(TRUE)
         @@ <<"timescale", "host">> :> Str("localhost")
         @@ <<"timescale", "no_auto_update_ddl">> :> Bool(FALSE)
         @@ <<"endpoints", "action_params", "max_limit">> :> Num(50))

=============================================================================
