------------------------------- MODULE Database ------------------------------
(***************************************************************************)
(* The tables of the midgard schema the sync loop writes and reads back    *)
(* (sql/ddl.sql), and the queries it makes of them.                        *)
(*                                                                         *)
(* A block's timestamp is replaced by its height: CometBFT block times     *)
(* strictly increase, so the two orders agree.  The opening rows are       *)
(* stamped one nanosecond before the first indexed block, which is         *)
(* position firstHeight - 1 of that order.                                 *)
(***************************************************************************)
EXTENDS ThorChain

VARIABLES
  blockLog,   \* the heights in block_log
  eventRows,  \* eventRows[h]: how many copies of block h's event rows exist
  depthRows,  \* the rows of block_pool_depths
  statusRows  \* statusRows[p]: how many opening status rows of p are in pool_events

dbVars == <<blockLog, eventRows, depthRows, statusRows>>

DepthRow == [pool : Pools, at : 0 .. MaxTip, depth : Depth]

NoEvents == [h \in Heights |-> 0]

DatabaseInit ==
  /\ blockLog = {}
  /\ eventRows = NoEvents
  /\ depthRows = {}
  /\ statusRows = [p \in Pools |-> 0]

\* SELECT height FROM block_log ORDER BY height DESC (ASC) LIMIT 1.
IsLastBlock(h) == h \in blockLog /\ \A k \in blockLog : k <= h
IsFirstBlock(h) == h \in blockLog /\ \A k \in blockLog : h <= k

RowsOf(p) == {r \in depthRows : r.pool = p}

\* Mutant: the oldest row instead of the newest (ASC for DESC).
LatestDepthsAscending(p) ==
  IF RowsOf(p) = {}
  THEN {ZeroDepth}
  ELSE {r.depth : r \in {s \in RowsOf(p) : \A q \in RowsOf(p) : q.at >= s.at}}

\* SELECT DISTINCT ON (pool) ... ORDER BY pool, block_timestamp DESC returns
\* one of the newest rows of the pool: which one is open when several share
\* the newest timestamp.  A pool with no row has the default depth.
LatestDepths(p) ==
  IF RowsOf(p) = {}
  THEN {ZeroDepth}
  ELSE {r.depth : r \in {s \in RowsOf(p) : \A q \in RowsOf(p) : q.at <= s.at}}

=============================================================================
