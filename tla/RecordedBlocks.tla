--------------------------- MODULE RecordedBlocks ----------------------------
(***************************************************************************)
(* Blocks on their way into the tables and back out: the buffer and the    *)
(* grouped INSERTs of the writer (midgard-record/src/writer.rs), restarts, *)
(* and the removal of blocks that the chain has abandoned                  *)
(* (midgard-db/src/block_log.rs, tables.rs), which the daemon has no call  *)
(* of: it is run beside it, and the daemon started again.                  *)
(*                                                                         *)
(* A block has one event; the ids of several are the matter of             *)
(* EventNumbering, failing statements that of BlockWriter.                 *)
(***************************************************************************)
EXTENDS EventRecords

CONSTANT MaxBlocks  \* bound: blocks buffered or in the database

ASSUME BlocksAssumption == MaxBlocks \in Nat

\* Mutant: the list goes by the names that end in _events.
EventTablesByName ==
  {"active_vault_events", "add_events", "bond_events", "errata_events", "fee_events",
   "gas_events", "inactive_vault_events", "mint_burn_events", "outbound_events",
   "pending_liquidity_events", "pool_balance_change_events", "pool_events", "refund_events",
   "rewards_events", "set_mimir_events", "slash_events", "stake_events", "swap_events",
   "switch_events", "transfer_events", "update_node_account_status_events", "withdraw_events"}

\* EVENT_TABLES
EventTableNames ==
  {"active_vault_events", "add_events", "bond_events", "errata_events", "fee_events",
   "gas_events", "inactive_vault_events", "mint_burn_events", "outbound_events",
   "pending_liquidity_events", "pool_balance_change_events", "pool_events", "refund_events",
   "rewards_event_entries", "rewards_events", "set_mimir_events", "slash_events", "stake_events",
   "swap_events", "switch_events", "transfer_events", "update_node_account_status_events",
   "withdraw_events"}

\* rollback_tables: those and the derived ones; rune_price is never written.
RollbackTables == EventTableNames \cup {"block_pool_depths"}

VARIABLES
  log,     \* block_log: the blocks in the database, from height 1 on
  batch,   \* the blocks buffered
  pending, \* the rows buffered, a bag
  tracker, \* the depths in memory
  tables   \* the rows of all tables, a bag

recordVars == <<log, batch, pending, tracker, tables>>

BlocksInit ==
  /\ log = <<>> /\ batch = <<>> /\ pending = EmptyBag /\ tables = EmptyBag
  /\ tracker = [k \in Names |-> NoDepth]

\* The timestamps of blocks ascend with their heights, at a distance.
TimeOf(height) == height + 100

\* A row gets the id of its event, here that of its block, and the block's time.
Stamp(row, height) ==
  [table |-> row.table, columns |-> row.columns, id |-> height, timestamp |-> TimeOf(height)]

DepthRow(pool, d) == [table |-> "block_pool_depths", columns |-> [pool |-> pool, depth |-> d]]

\* restore: the latest row of each pool.
Latest(rows) ==
  [k \in Names |->
     LET own == {r \in rows : r.table = "block_pool_depths" /\ r.columns.pool = k}
     IN  IF own = {} THEN NoDepth
         ELSE (CHOOSE r \in own : \A q \in own : r.timestamp >= q.timestamp).columns.depth]

\* Bound: one event of a batch is damaged.
OneDamaged(blocks) == \A i, j \in DOMAIN blocks :
  i # j => \E k \in {i, j} : blocks[k].sent = blocks[k].got

\* add: a block arrives with one event, as it was sent or damaged; its rows get
\* its id and the block's time, and every pool it touched a row of its depth.
AddBlock ==
  LET height == Len(log) + Len(batch) + 1
  IN  /\ height <= MaxBlocks
      /\ \E sent \in ThorEvents \cup OtherEvents : \E got \in Arrivals(sent) :
           LET rows == RowsOfEvent(got)
               moves == MovesOfEvent(got)
           IN  /\ batch' = Append(batch, [sent |-> sent, got |-> got]) /\ OneDamaged(batch')
               /\ tracker' = Moved(tracker, moves)
               /\ pending' = pending
                    (+) ToBag([i \in DOMAIN rows |-> Stamp(rows[i], height)])
                    (+) SetToBag({Stamp(DepthRow(k, tracker'[k]), height) : k \in DOMAIN moves})
      /\ UNCHANGED <<log, tables>>

\* flush: the rows, one INSERT per table, and the blocks, in one transaction.
WriteBatch ==
  /\ batch # <<>>
  /\ tables' = tables (+) pending /\ log' = log \o batch
  /\ batch' = <<>> /\ pending' = EmptyBag
  /\ UNCHANGED tracker

\* The process dies and is started again.
Restart ==
  /\ batch # <<>>
  /\ batch' = <<>> /\ pending' = EmptyBag
  /\ tracker' = Latest(DOMAIN tables)
  /\ UNCHANGED <<log, tables>>

\* delete_from_height, and a start on what is left.
DeleteFromHeight(height) ==
  /\ batch = <<>>
  /\ LET left == {r \in DOMAIN tables : r.table \in RollbackTables => r.timestamp < TimeOf(height)}
     IN  tables' = [r \in left |-> tables[r]] /\ tracker' = Latest(left)
  /\ log' = SubSeq(log, 1, height - 1)
  /\ UNCHANGED <<batch, pending>>

BlocksNext ==
  \/ AddBlock \/ WriteBatch \/ Restart
  \/ \E height \in DOMAIN log : DeleteFromHeight(height)

BlocksSpec == BlocksInit /\ [][BlocksNext]_recordVars

------------------------------------------------------------------------------
\* Types; only the declared tables have rows.
BlocksTypeOK ==
  /\ Len(log) + Len(batch) <= MaxBlocks
  /\ IsABag(tables) /\ IsABag(pending)
  /\ \A r \in DOMAIN tables : r.table \in RollbackTables
  /\ batch = <<>> => pending = EmptyBag

AmountColumns ==
  {"asset_e8", "asset_2nd_e8", "amount_e8", "e8", "rune_e8", "saver_e8", "burn_e8", "mint_e8",
   "from_e8", "to_e8", "stake_units", "asset_in_rune_e8", "emit_asset_e8", "emit_rune_e8",
   "imp_loss_protection_e8", "emit_asset_in_rune_e8", "pool_deduct", "bond_e8", "rune_amt",
   "asset_amt", "code"}

\* What a set of rows tells.
Told(rows) ==
  LET cells(r, columns) == {r.columns[c] : c \in DOMAIN r.columns \cap columns}
      others == AmountColumns \cup {"direction", "rune_add", "asset_add"}
      named(r) == cells(r, DOMAIN r.columns \ others)
  IN  Said(UNION {named(r) : r \in rows}, UNION {cells(r, AmountColumns) : r \in rows})

\* One event at a time: its rows say what it says, or nothing if it came damaged,
\* and no two of them are alike.
EventsDecoded ==
  \A sent \in ThorEvents \cup OtherEvents : \A got \in Arrivals(sent) :
    LET rows == RowsOfEvent(got)
    IN  /\ \/ Told(ToSet(rows)) = Says(got)
           \/ rows = <<>> /\ ~Complete(sent, got)
        /\ \A i, j \in DOMAIN rows :
             rows[i].table = rows[j].table /\ rows[i].columns = rows[j].columns => i = j

EventRows(height) ==
  {r \in DOMAIN tables : r.id = height /\ r.table # "block_pool_depths"}

\* The tables hold what the events of the blocks in the database say, each event
\* whole or, if it came damaged, not at all or as far as it can be read, each row
\* once and under the id and time of its block (pipeline.rs:191-201); and
\* nothing of any other block (block_log.rs:145).
RowsTellTheEvents ==
  /\ \A height \in DOMAIN log :
       LET b == log[height]
       IN  \/ Told(EventRows(height)) = Says(b.got)
           \/ EventRows(height) = {} /\ ~Complete(b.sent, b.got)
  /\ \A r \in DOMAIN tables :
       /\ tables[r] = 1 /\ r.id \in DOMAIN log /\ r.timestamp = TimeOf(r.id)

\* What the events of some blocks did to a pool.
DoneTo(blocks, p) ==
  LET done(b) == IF b.got.type \in PoolTypes THEN Readable(b.got) ELSE <<>>
      share(b, k) == IF p \in DOMAIN done(b) THEN done(b)[p][k] ELSE 0
  IN  [k \in DOMAIN NoDepth |-> MapThenSumSet(LAMBDA i : share(blocks[i], k), DOMAIN blocks)]

\* The latest rows of the pools are what their events did to them, over the blocks
\* that are in the database and no other, and a start reads them back so.
DepthsTellTheBlocks ==
  \A p \in Pools :
    /\ Latest(DOMAIN tables)[p] = DoneTo(log, p)
    /\ tracker[p] = DoneTo(log \o batch, p)

TablesTellTheBlocks == RowsTellTheEvents /\ DepthsTellTheBlocks

=============================================================================
