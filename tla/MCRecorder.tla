------------------------------ MODULE MCRecorder -----------------------------
(***************************************************************************)
(* What the recorder does with what it is given, one part at a time: the   *)
(* loading of its configuration, the fetching of a range of blocks, the    *)
(* numbering of their events, what these do to the pools, and the rows     *)
(* they become.  The parts share no state, so one is explored while the    *)
(* others rest in a state of their own, and never two.                     *)
(***************************************************************************)
EXTENDS EventNumbering, RecordedBlocks, RangeFetch, ConfigLoad

------------------------------------------------------------------------------
(* Configurations *)

AnyString == STRING

\* Files that carry some keys, rightly and wrongly typed, one of them unknown.
FilesTried ==
  {TreeOf(leaves) : leaves \in
    {<<"listen_port">> :> Num(9000) @@ <<"usd_pools">> :> List(<<"USDC">>),
     <<"listen_port">> :> Str("9000"),
     <<"max_block_age">> :> Str("1m30s500ms"),
     <<"max_block_age">> :> Str("soon"),
     <<"case_insensitive_chains", "ETH">> :> Bool(FALSE)
       @@ <<"case_insensitive_chains", "BSC">> :> Bool(TRUE),
     <<"timescale", "host">> :> Str("pg"),
     <<"timescale", "host">> :> Str("other") @@ <<"timescale", "no_auto_update_ddl">> :> Bool(TRUE),
     <<"timescale">> :> Str("pg"),
     <<"endpoints", "action_params", "max_limit">> :> Num(10),
     <<"endpoints">> :> Object,
     <<"lisen_port">> :> Num(9000)}}

\* A variable of any setting, of a section, of an entry of a map or of none, or
\* variables of several settings.
VariablesTried ==
  {<<>>,
   <<"usd_pools">> :> "pg" @@ <<"timescale", "host">> :> "pg" @@ <<"listen_port">> :> "1"
     @@ <<"case_insensitive_chains">> :> "BSC:1",
   <<"timescale", "no_auto_update_ddl">> :> "1" @@ <<"max_block_age">> :> "1"}
  \cup UNION {{v :> raw : raw \in {"1", "pg", "60s", "BSC:1"}} :
                v \in DOMAIN SettingTypes
                        \cup {<<"timescale">>, <<"case_insensitive_chains", "ETH">>, <<"PATH">>}}

------------------------------------------------------------------------------

NumberingRest == finalize = <<>> /\ Init
PoolRest == PoolInit
FetchRest == count = 1 /\ FetchInit
BlocksRest == BlocksInit
ConfigRest == files = <<>> /\ environment = <<>> /\ ConfigInit

RecorderInit ==
  /\ PoolInit /\ BlocksInit
  /\ \/ NumberingRest /\ FetchRest /\ ConfigInit
     \/ FetchRest /\ ConfigRest /\ Init
     \/ ConfigRest /\ NumberingRest /\ FetchInit

NumberingStep ==
  /\ PoolRest /\ FetchRest /\ BlocksRest /\ ConfigRest
  /\ Next /\ UNCHANGED <<poolVars, fetchVars, recordVars, configVars>>
PoolStep ==
  /\ NumberingRest /\ FetchRest /\ BlocksRest /\ ConfigRest
  /\ PoolNext /\ UNCHANGED <<vars, fetchVars, recordVars, configVars>>
FetchStep ==
  /\ NumberingRest /\ PoolRest /\ BlocksRest /\ ConfigRest
  /\ FetchNext /\ UNCHANGED <<vars, poolVars, recordVars, configVars>>
BlocksStep ==
  /\ NumberingRest /\ PoolRest /\ FetchRest /\ ConfigRest
  /\ BlocksNext /\ UNCHANGED <<vars, poolVars, fetchVars, configVars>>
ConfigStep ==
  /\ NumberingRest /\ PoolRest /\ FetchRest /\ BlocksRest
  /\ ConfigNext /\ UNCHANGED <<vars, poolVars, fetchVars, recordVars>>

RecorderNext == NumberingStep \/ PoolStep \/ FetchStep \/ BlocksStep \/ ConfigStep

recorderVars == <<vars, poolVars, fetchVars, recordVars, configVars>>

RecorderSpec == RecorderInit /\ [][RecorderNext]_recorderVars

\* The types of all.
RecorderTypeOK == TypeOK /\ PoolTypeOK /\ FetchTypeOK /\ BlocksTypeOK

=============================================================================
