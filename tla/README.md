# Verification of midgard-rs

TLA+ models of the indexer, TLC configurations that check them on small
instances, and theorems about them checked by TLAPS. All source lines below are
relative to `crates/`.

## 1. The system

Midgard follows the THORChain, decodes every block into event rows and pool
depths, and serves them over HTTP. One process, one PostgreSQL database.

| Part | Source | State | Operations | What makes it correct |
|---|---|---|---|---|
| Sync daemon | `midgard/src/main.rs`, `sync.rs`, `bootstrap.rs` | cancellation token, published `chain_height`, the step in progress | start-up, seeding, `run`/`step`/`catch_up`/`follow`, shutdown | no height skipped; a bounded loss at a crash; reaches the tip; ends on request |
| Block writer | `midgard-record/src/writer.rs` | buffered blocks, events, depths | `restore`, `add`, `flush` | rows of a block atomic; each block once |
| Depth tracker | `midgard-record/src/depth.rs` | current depth per pool, dirty pools | `load`, `apply`, `take_changed` | depths are the sum of the applied blocks, also after a restart |
| Event decoding | `midgard-record/src/events.rs`, `coin.rs` | none | `decode`, per kind of event | never stops the chain; every row says what the event said |
| Block log and cursor | `midgard-db/src/block_log.rs`, `tables.rs` | four shared atomics; `block_log` | `refresh`, `observe`, `next_height`, `hash_at`, `delete_from_height` | resume height right; cursor means "committed"; a removal leaves nothing of a removed block |
| Event ids | `midgard-db/src/eventid.rs` | none | pack, unpack | order preserving, injective |
| Schema set-up | `midgard-db/src/ddl.rs`, `sql/ddl.sql` | fingerprint row, tables | `ensure_schema` | a crash midway is repaired |
| Buckets | `midgard-db/src/buckets.rs` | none | bucket boundaries | a partition of the window |
| Chain client | `midgard-chain/src/client.rs`, `rpc.rs`, `types.rs` | iterator: next height, buffered blocks | `status`, `fetch_block`, `fetch_range`, `next` | the heights asked for, in order, or an error |
| THORNode client | `midgard-chain/src/thornode.rs` | none | `pools`, `mimir`, ... | - |
| API, statistics | `midgard-api/src/cache.rs`, `handlers/stats.rs` | one cache entry under a mutex | `get_or_compute` | answers never go back; nobody waits for ever |
| API, actions feed | `midgard-api/src/handlers/actions.rs` | none; a walk is its token | a page | pagination loses and repeats nothing |
| API, reading endpoints | `midgard-api/src/handlers/` (`swaps`, `liquidity`, `earnings`, `depths`, `tvl`, `pools`, `members`, `network`), `models.rs`, `usd.rs`, `query.rs` | none; each query reads a snapshot of its own | one request, up to 803 queries | every row in one bucket; closed intervals final; endpoints agree |
| Configuration | `midgard-config/src/lib.rs`, `env.rs`, `schema.rs`, `duration.rs` | the merged tree while it is built | defaults, files, environment, read back | a later layer overrides setting by setting |
| Core types | `midgard-core` | none | assets, ratios, units of time | - |

Interactions. The sync task is the only writer of the database, the cursor and
`chain_height`. API tasks run on other threads and read all three between any
two of its steps. The daemon calls Tendermint RPC (possibly several nodes behind
a load balancer) and, for the seed and some handlers, THORNode. A supervisor
restarts the process.

What is hard. A flush can fail before or after its COMMIT takes effect; the
process can die or be cancelled in any await; a node can answer for an older
tip; the cursor lives in memory and is set at another time than the database;
the depths live in memory and are rebuilt from rows; the seed comes from a
second source with its own idea of the current height; a request is many queries
with no transaction around them. `PROJECT.json` lists each
of these at its line.

## 2. Modules

```
ThorChain ── DepthTracker ─┐
   │                       ├─ BlockWriter ─┐
   ├──────── Database ─────┤               │
   │                       └─ BlockCursor ─┼─ Syncer ── SyncerProperties ─┬─ MCSyncer (TLC)
   └──────── ChainClient ──────────────────┘                  │           └─ SyncerProofs ── ProjectionProofs
                                                         Projection, Indexer (abstract)

Indexer ──┬─ StatsCache ──┬─ MCServices, ServiceProofs
          │  SchemaSetup ─┘
          ├─ ActionsFeed ─┬─ MCActionsFeed
          │               └─ ActionsFeedProofs
          └──────────────────────────────────────────────────────── History ─┐
   ┌─ EventTables ── HistoryEndpoints ── PoolEndpoints ── ResponseModels ───┘ │
Calendar ── Buckets ──┬─ MCBuckets ──────────────────────────────────────────┴─ MCHistory
                      └─ BucketsProofs

ThorEvents ─┬─ ChainEvents ─┬─ EventRecords ── RecordedBlocks ─┐
            └─ PoolDepth ───┘                                  │
EventId ── EventNumbering ─────────────────────────────────────┼─ RecorderProofs
RangeFetch ────────────────────────────────────────────────────┤
                                                               ├─ MCRecorder
ConfigSchema ── ConfigLoad ─┬──────────────────────────────────┘
                            └─ ServiceProofs

MCRecorder ── RecorderProofs
MCHistory, BucketsProofs ── HistoryProofs
ArithmeticProofs ── HistoryProofs, RecorderProofs, BucketsProofs
```

Three kinds of composition. `Syncer` is one next-state relation over the state of
all its components. `Indexer` is what the API sees of `Syncer`: `RefinesIndexer` is
checked and proved of the sync loop, and the models of the handlers (`StatsCache`,
`ActionsFeed`, `History`) are built on it, so that they run beside everything the
loop can do without its state. `RangeFetch` shows the contract on which `ChainClient` is built: a range
comes back as asked for or not at all. The others stand on their own.

| Module | Models | Correspondence |
|---|---|---|
| `ThorChain` | the chain (external), `Depth` | a block is its height and the pools its events move; a depth maps each block to the number of times it has been added in, so a block that counts twice or is missing gives another value whatever the amounts are |
| `DepthTracker` | `depth.rs` | `tracker` is `current`; `Applied` is `apply` over all events of a block, `Changed` is `take_changed` |
| `Database` | `block_log`, the event tables, `block_pool_depths`, the opening rows of `pool_events`, and the queries on them | `statusRows` counts the copies of a pool's opening status; `LatestDepths` is the `DISTINCT ON` of `restore`: any of the rows that tie on the newest timestamp |
| `BlockWriter` | `writer.rs` | `blocks`, `events`, `depths` are the three vectors; `FlushErr(committed)` is the early return of `flush`, with or without the transaction in effect |
| `BlockCursor` | `block_log.rs` | `cursorFirst`, `cursorLast`; 0 is empty |
| `ChainClient` | `client.rs` | `block` handed out last, `fetched` last height in hand, `through` end of the range |
| `Syncer` | `main.rs`, `bootstrap.rs`, `sync.rs` | `pc` is the await the task is in; one action per stretch of code between two awaits or stores to shared cells |
| `Projection` | nothing: it is the promise | the tables are the exact image of a chain prefix that grows by at most a batch at a time |
| `Indexer` | nothing: it is the sync loop as readers see it | a process serves; `committed` moves by at most a batch; `published` may lead it by less than a batch |
| `SyncerProperties` | - | every property of the sync loop |
| `MCSyncer` | - | two pools, five kinds of block |
| `SyncerProofs`, `ProjectionProofs` | - | theorems |
| `StatsCache` | `cache.rs`, `handlers/stats.rs` | `queue` is tokio's fair mutex, its head the holder; `entry` is `HeightCache::inner`; a value is the pair of committed heights its first and last query saw |
| `ActionsFeed` | `handlers/actions.rs` | one action per query of a page, each on its own snapshot; `token` and `served` are the client's; an event is its id and its kind |
| `SchemaSetup` | `ddl.rs`, the head of `ddl.sql` | a fingerprint is the build it belongs to; of the tables only the number of blocks is kept; one action per statement, with its failures |
| `EventId` | `eventid.rs` | the packing with its digits as constants |
| `EventNumbering` | `BlockWriter::add`, the phases of `types.rs` | one action per turn of each of the three loops; `last` is the id given last |
| `ThorEvents` | the events that move depths (external), asset names | an event is its type and attributes; `Received` spoils at most one of them; `Effect` is what THORNode did, written as credits and debits of the two coins |
| `PoolDepth` | the decoders of `events.rs` that matter to depths, `split_rune`, `depth.rs`, `BlockWriter::push`, the volume queries of `swaps.rs`, `pools.rs` and `stats.rs` | one operator per decoder; `Moves` is `apply`; `Push` is one event, `TakeChanged` the end of a block |
| `ChainEvents` | the other events (external) | every kind the decoder knows, with what each says of each table as a set of facts |
| `EventRecords` | the other decoders of `events.rs`, `coin.rs`, the rows of `writer.rs` and `ddl.sql` | one operator per decoder; `RowsOfEvent` gives the rows that an event becomes, each with its table |
| `RecordedBlocks` | the buffer and grouped INSERTs of `writer.rs`, restarts, `delete_from_height`, `tables.rs` | `log` is `block_log`, from height 1 on; `tables` are the event tables, `batch` and `pending` the buffer, their rows in bags; a removal is followed by a start |
| `ConfigSchema` | `schema.rs`, `duration.rs`, JSON values | a JSON value is a function on the paths of its nodes; the settings with their types and defaults; durations as they are written and in milliseconds |
| `ConfigLoad` | the rest of `midgard-config` | `merged` is the JSON value so far; one action per file, then one for the environment and the reading back |
| `MCRecorder` | - | `EventNumbering`, `PoolDepth`, `RangeFetch`, `RecordedBlocks` and `ConfigLoad` one at a time, the others at rest: they share no state |
| `EventTables` | the clauses the queries share, `usd.rs` | a row is in its table from the commit of its block on, so a snapshot is a height; `IsBuckets` is what a handler gets from `generate`, `Truncated` the `date_trunc` by which a query groups |
| `HistoryEndpoints`, `PoolEndpoints` | the handlers | an answer is a function of the heights its queries saw, in the order the queries are sent |
| `ResponseModels` | `models.rs`, the conversions of the handlers | the shape of each answer; `HistoryTypeOK` rests on it |
| `History` | a request to any of these handlers | one action per query, commits and published blocks in between |
| `Calendar`, `Buckets` | `buckets.rs` | the boundary loop is stepwise, `restrict` and the calendar are operators; the calendar of postgres is written down independently beside them |
| `MCHistory` | - | four blocks of two pools and the requests about them; `Buckets` rests while `History` moves and the other way round |
| `RangeFetch` | `fetch_range`, `fetch_batch`, `assemble`, `call_batch` | `calls[i][m]` is the answer to the JSON-RPC batch of method `m` for chunk `i`; a block is the height it is of |
| `MCServices` | - | `SchemaSetup` and `StatsCache` one at a time: a schema is set up before a request is served |
| `ActionsFeedProofs`, `ServiceProofs`, `RecorderProofs`, `HistoryProofs`, `BucketsProofs` | - | theorems |
| `ArithmeticProofs` | - | lemmas: division, least and greatest numbers, and sums over finite sets |

Definitions whose comment starts with "Mutant" are not used by the
specification: each is a plausible bug in the definition that follows it, and
replacing that definition by it makes the property named in `PROJECT.json` fail.

### Abstractions

- A block's timestamp is its height (CometBFT block times strictly increase);
  the seed's timestamp, one nanosecond before the first block, is the position
  before it.
- In the synchroniser, event rows are counted per block and depths are counts of
  blocks; what an event adds to a depth is the module `PoolDepth`.
- In `PoolDepth`, strings are parsed: an asset is its kind and symbol, an attribute
  a value or `Garbled`. Amounts are fixed and small; a depth is a sum, so only
  side and sign matter. Names are in upper case, but for the lower-case spelling of
  RUNE and of secured assets that the bank module uses (`ChainEvents`).
- The parameters an INSERT can bind are counted in blocks: `InsertLimit` is how
  many blocks' rows fit one statement.
- In `EventRecords`, columns that no property tells apart are left out: the memo of
  a deposit, the slip and the streaming fields of a swap. `TablesTellTheBlocks`
  compares names and amounts as facts, so two columns of a kind that are swapped are
  not told apart.
- In `RecordedBlocks` a block has one event; the ids of several are the matter of
  `EventNumbering`, failing statements that of `BlockWriter`. Its rows have no order,
  as a query that needs one sorts by their times; a row of depths, which has no id in
  the schema, is told from those of other blocks by the same id as its block's.
- In `ConfigLoad` a setting stands for all settings of its type and depth, and a
  duration is one of a few spellings whose value is computed. A JSON value is
  the function from the paths of its nodes to what they hold; lists are not descended into,
  as the code does not.
- In `ChainClient`, `fetch_range` returns the heights asked for or an error; how
  it is put together from batches is the module `RangeFetch`.
- A query of a handler sees the committed height at one moment. What it selects
  is modelled where a property depends on it (`ActionsFeed`, `History`), and
  otherwise is that height (`StatsCache`). Queries that fail, and figures that are
  always zero, are left out of `History`.
- In the tables the API reads, a quotient keeps its numerator and denominator:
  rounding of the floating-point figures is not modelled.
- The session time zone of the database is UTC, as `date_trunc` needs.
- A failing DDL batch may leave nothing, a part or all of the schema, as the
  comment at `ddl.rs:64` says, whether or not PostgreSQL runs it as one
  transaction.
- Integers have no width; the packed id needs 64 bits up to height 922 million.
- Sleeps and back-offs are steps without duration. The shutdown timeout may fire
  at any moment after the cancellation.
- A failing `/status` leaves every variable as it is and is not an action.
- The tie of `restore` on equal timestamps and the height at which a THORNode
  answers are nondeterministic.

## 3. Runs

| Run | Instance | Properties | Shows |
|---|---|---|---|
| `faults` | first height 2 (so seeded), 4 blocks, commit batch 2, fetch batch 2, 2 crashes or signals, 1 failed flush, `FairSpec` | `TypeOK`, `Contiguous`, `RowsWithTheirBlock`, `NothingSkipped`, `LossBounded`, `OneOpeningBalance`, `CatchesUp`, `ShutdownCompletes`, `RefinesIndexer` | what no failure breaks, that the loop recovers from every failure, and that it implements `Indexer` |
| `restarts` | 5 blocks from height 1, commit batch 3, 2 crashes or signals, no failed flush | `ExactlyOnce`, `DepthsExact`, `TrackerExact`, `CleanStopKeepsBatch`, `RefinesProjection` | crash recovery is exact |
| `duplicate_rows` | 1 failed flush | `ExactlyOnce` | violated: finding 1 |
| `insert_limit` | 2 failed flushes, commit batch 2, 3 blocks to an INSERT | `RetryCanSucceed` | violated: finding 5 |
| `seeded_depths` | first height 2, no failure | `SeededDepthsCorrect` | violated: finding 2 |
| `services` | 3 builds, 2 blocks; 2 clients, 3 blocks, batch 2; `ServicesSpec` | `SyncsOnItsOwnSchema`, `CarefulKeepsBlocks`, `HalfBuiltIsRepaired`, `AnswerMissesLessThanABatch`, `AnswersNeverGoBack`, `RequestsEnd` | a failed or interrupted set-up is always noticed and repaired; how stale an answer can be, and that nobody waits for ever |
| `feed` | 3 blocks, one event each, of every mix of kinds; pages of 1 and 2; `FairSpec` | `PagesDescend`, `NothingOldLost`, `ShortPageIsTheEnd`, `WalksEnd` | a walk of the feed loses and repeats nothing that was there when it began, and ends although blocks arrive |
| `recorder` | ids: 2 blocks with every list of up to 3 modes, 7 transactions of 3 events, the last ids the digits have room for. Pools: 2 symbols, any 3 events of every kind that moves a depth, block ends anywhere between. Ranges of 1 to 4 blocks, parallelism 2. Tables: any 2 blocks of any event, one of a batch damaged, batches, restarts, removals. Configuration: up to 2 files, and a variable or several | `RecorderTypeOK`, `IdsAscend`, `IdsCarryTheirPlace`, `DepthIsWhatWasAnnounced`, `LatestRowsSuffice`, `VolumeIsTheRuneMoved`, `RangeAnswered`, `TablesTellTheBlocks`, `LayersOverride` | from the configuration to the rows: layers override setting by setting; a range comes back exactly or not at all; ids order events as they were executed; depths, their sparse rows and the volumes follow the chain whatever is unreadable; the tables say what the events of the blocks in the log said, through restarts and removals |
| `stats_volume` | 1 symbol, 2 events | `StatsVolumeIsTheRuneMoved` | violated: finding 3 |
| `history` | 4 blocks of 2 pools, batch 2, 2 ticks a second, around the end of a February; every endpoint, histories by 5 minutes, days, weeks, months and spans. Buckets: every interval, `from`, `to` and `count` around the edges of a leap year, maximum 3 | `ReadingTypeOK`, `BoundariesAreDateTrunc`, `PromisedBlocksCovered`, `NothingFallsBetween`, `ClosedIntervalsFinal`, `MembersAreHolders`, `EndpointsAgree` | buckets agree with `date_trunc` and lose no block; blocks committed between the queries of a request change no closed interval; members are who holds units; the endpoints agree with each other |
| `month_window` | months, maximum 400, the last 395, 396 and 400 | `LastAreAnswered` | violated: finding 6 |
| `member_by_asset_address` | a position looked up by each of its addresses | `PositionFromEitherAddress` | violated: finding 4 |

Bounds of the sync loop. Two pools and `MCTouched`: block 1 opens `p1`, 2 and 5
move both pools, 3 moves none, 4 moves `p2`. A block that moves nothing, pools
that open at different heights and a pool whose last row is older than the last
block all occur. `MaxTip`, `MaxStops` and `MaxDbErrors` are the only bounds that
the code does not have. A commit batch of 2 or 3 with 4 or 5 blocks gives a full
batch, a partial one and a batch that crosses from `catch_up` to `follow`
(`BatchThreshold` 1 lets both occur; `InsertLimit` 5 is never exceeded there); a
range of 3 blocks with a fetch batch of 2 gives a last batch shorter than the others. The failures are enough for one
during the recovery from another: a crash after a lost COMMIT answer, a crash
during a shutdown, a seed for the third time. The safety theorems of section 4
hold without these bounds being small.

Bounds of the others. Two clients are enough for a hit, a wait behind a
computation and a late request for an older height; three blocks with a batch of
two let the cursor lead and a batch land inside a computation. In the feed, three
blocks give several pages and a commit between two pages or two queries of one;
a batch of two blocks is two commits there (the cursor does not matter to it).
`history` checks the boundaries with a maximum of 3 instead of 400, which requests
on both sides of it reach. Its four blocks lie in the middle of a day, in the last half second of
a month, on the boundary of a Monday and after it, so that `>=`, `<`, `<=`, the division by a
second, five minutes that are the last of a month and weeks that begin on a
Monday each decide something; a provider with positions on two chains under one RUNE address and
one with an asset address only deposit and withdraw; one pool loses its asset, then all it has. The indexer
rests after the last query of a request, which no answer sees. The scales of
the ids are small so that every digit is used up. Three events are enough for a
pool touched twice in a block and again in the next, and for an unreadable event
between two others; the effects of events add up and do not depend on each other.
Two blocks are enough for a removal that keeps one; two files and the variables for
every pair of layers. `MCRecorder`, `MCHistory` and `MCServices` explore their parts one at a
time, since nothing in one part reads the state of another.

`CHECK_DEADLOCK` is off where the call or the bounded chain that is modelled
ends: `recorder`, `stats_volume`, `history`, `month_window`, `member_by_asset_address`.

### Fairness

`FairSpec` assumes weak fairness of `NewBlock` (the chain goes on up to the
bound) and of `Daemon` (tokio runs a ready task; a supervisor restarts the
process), and strong fairness of two calls: `StepAtTip`, a `/status` that is
asked again and again is at some point answered by a node at the tip, and
`NextBlock`, a block that is asked for again and again is at some point served.
Without them a network that is down for ever keeps the loop retrying, which is
what the code is meant to do. Failures, signals and the shutdown timeout have no
fairness: `ShutdownCompletes` holds although the timeout may never fire. It is about
the sync task: the server's own drain of open connections (`main.rs:119-122`), which has
no timeout, is left out.

In `ServicesSpec`, `StatsCache` has weak fairness of each request (a query ends in an answer or
an error, and tokio runs a ready task); giving up has none. `ActionsFeed` assumes
that a client goes on asking and the process is restarted, and strong fairness of
the steps of a request, which a restart may interrupt but not for ever.
`SchemaSetup`, in `ServicesSpec` too, has strong fairness of `Launch`, `Rebuild`, `Apply` and `Stamp`:
a process that is down is launched again, and no step of a set-up fails or is cut
short every time it is tried. The other modules state no liveness.

### Findings

1. `writer.rs:220` returns early with the buffers kept, and the sync loop adds
   the same block again. Its event rows are written twice, though
   `pipeline.rs:200` asserts that event ids are unique; and it is applied to the
   depth tracker twice (`writer.rs:162`), so every later depth of its pools is
   wrong and restarts restore the wrong value.
2. `bootstrap.rs:36` seeds from THORNode's pools of now, and the blocks from the
   start height to now are applied on top, though `bootstrap.rs:12-13` calls a
   seeded database correct from the start height onwards.
3. `stats.rs:39` takes `from_e8` for the directions 0, 4 and 6 and `to_e8` for all
   others, so a synth that is minted (direction 2) enters `swapVolume` with the
   amount of the synth. `pools.rs:200-201` says that the volume is the RUNE leg,
   `from_e8` when swapping out of RUNE; that query and the one of `swaps.rs` keep
   to it (`VolumeIsTheRuneMoved`).
4. `members.rs:88` finds the deposits of a provider by either of its addresses and
   its withdrawals by `from_addr`, the RUNE address, alone. Looked up by the asset
   address, the position of a symmetric provider never shrinks. `members.rs:6-7`
   says that both addresses are matched because "the caller may hold either".
5. The retry of finding 1 grows the batch by a block each time; `write_events`
   (`writer.rs:279`) binds all of it in one INSERT per table, and after enough
   failures the statement has more parameters than PostgreSQL takes. It is then
   refused for ever, though the database is back, and only a restart helps.
   `sync.rs:106-107` says that "nothing is lost by starting the step again". The
   same holds of a `commit_batch_size` too large from the start.
6. `buckets.rs:328` breaks its loop three boundaries past the maximum of 400. The
   window of a count is that many of the longest intervals (264-266), which holds
   more than 403 months or quarters from a count of 396 on. Without `from` it is
   walked from its start, so the newest intervals are missing from "the last
   `count` intervals" that `buckets.rs:212` promises. `LastIntervals` proves that
   nothing is missing for fixed intervals and up to a count of 383.

Where a passing property or a theorem is weaker than a comment in the code, the
comment is not exact:

- `metrics.rs:33` and `block_log.rs:89` call the cursor the newest *committed*
  block; `sync.rs:170` publishes a block once it is buffered. The lead is less
  than a batch: `LossBounded`.
- `cache.rs:7-8` calls a cache entry exactly right at its height; it may miss
  what the cursor was ahead by, or hold later blocks:
  `AnswerMissesLessThanABatch`.
- `actions.rs:8-10` gives gaps as a reason against offsets; the queries of one
  page have a snapshot each, so events newer than the walk can be skipped.
  `NothingOldLost` speaks of the events that were there when it began.
- `sync.rs:7-8` promises that at the tip the API is at most one block behind;
  `sync.rs:126` returns without flushing when there is nothing to fetch, so the
  tail of a catch-up waits in memory for the next block. What is not committed
  is less than a batch: `LossBounded`.
- `events.rs:837` speaks of the amounts of a slash; `events.rs:839` keeps the first
  that parses, and what the others did is applied to no depth.
  `DepthIsWhatWasAnnounced` takes the first as what was announced.
- `events.rs:538-539` says that a swap that cannot be classified takes no part in
  the volume split; it is stored as direction 0, which does. No event of the
  model is such a swap, every one having RUNE on one side (`events.rs:57`).
- `depth.rs:203-204` maps synths and trade assets to their pool and is silent on
  secured ones; a fee in one is deducted from a pool that does not exist.
  `DepthIsWhatWasAnnounced` leaves such a fee out.
- `events.rs:586` says that the recorder fills in the RUNE value of the asset side
  of a deposit, `ddl.sql:152` what it is, and `liquidity.rs:3-6` that the answer
  uses it; nothing does, and `HistoryEndpoints` adds up the stored 0.
- `eventid.rs:23` gives a budget of 800k transactions of a block and 10k events
  of one; `writer.rs:131` counts both from 1, so the last of each is one too
  many: `WithinBudget`.
- `buckets.rs:22-23` says that wider ranges are refused; `buckets.rs:246` cuts
  them to their first 400 intervals: `Promised`.
- With the maximum of 3 of the run `history` the widened window of a count stays
  within the slack of three boundaries, so `PromisedBlocksCovered` holds there; at
  the real maximum it holds under the condition of `PromisedBlocks`: finding 6.
- `usd.rs:4` calls the price of RUNE `runeDepth / assetDepth`; the code divides
  asset by RUNE, which is dollars for a RUNE, and the model follows the code.
- A block exactly on a boundary belongs to the next interval for what flows and to
  the earlier one for depths (`>=`/`<` against `<=`): `NothingFallsBetween` is
  stated for flows, `MembersAreHolders` for levels.
- `block_log.rs:145` removes rows and not the in-memory tracker; a process that
  went on after it would keep the depths of the removed blocks.
  `TablesTellTheBlocks` holds with the start that follows in the model.
- `env.rs:189-191` says that one variable for a whole section is refused; the walk
  of the tree descends into a section before it looks for its variable, so it is
  ignored. A setting that no layer has written has no variable either.
  `LayersOverride` speaks of the settings that are in the tree.
- Settings that nothing reads: `on_transfer_enabled`, `on_message_enabled`,
  `case_insensitive_chains` (though `members.rs:7-8` says what it is for),
  `filtered_addresses`, the read and write timeouts of the server,
  `initial_block_hash`, `max_addresses`, `max_assets` and `max_tx_type`.
- A seed has no deposits, so withdrawals of what was deposited before it take the
  balance of a provider in a pool below zero. The list of members of all pools adds the
  pools up (`members.rs:32-47`), and sets such a balance against what the provider
  holds elsewhere: `MembersAreHolders` speaks of that list under `NobodyOwes`, and
  of the list of one pool without.
- `bootstrap.rs:47-49` gives all opening statuses one event id, and a second seed
  writes them again under the same id and time. `pools.rs:88` and `pools.rs:112` then read either
  of the two, as `restore` does of the depths: `RowsWithTheirBlock` says that a pool has an
  opening status exactly if it has opening depths, in whatever number.
- The 24h volume of `pools.rs` has no upper bound and counts committed blocks
  that the cursor does not announce yet; two statuses of a pool in one block tie.
  `EndpointsAgree` speaks of a quiet database, and the chain of the model has one
  status a block.

## 4. Proofs

Every theorem is proved for all values of the constants that the named `ASSUME`s
of the modules admit.

`SyncerProofs`, whatever crashes and whichever flushes fail: `TypeCorrect`,
`LogIsContiguous`, `RowsAreAtomic`, `CursorSkipsNothing`, `LossIsBounded` and
`SyncerRefinesIndexer`. None of the safety properties is inductive. `SafetyInv` is
their strengthening:

- `TypeInv`: the types, and that a step that holds a block holds a real one;
- `LogInv`: `block_log` is an interval from `FirstHeight`; the buffer is a
  sequence of consecutive heights (a retried block may repeat) that starts at
  most one past its end; the cursor ends where log and buffer end, or one short
  of it while a block is written; the range walked continues there. This is what
  makes a resume from the cursor leave no gap, and a batch no longer than
  `CommitBatch` distinct heights;
- `BufferInv`: a block is buffered exactly when its event and depth rows are, and no
  buffered row is as old as an opening one;
- `RowsWithTheirBlock` itself.

`SyncerRefinesIndexer` adds `CursorInv`: a cursor that is set is at `FirstHeight` or
above, as `SafetyInv` does not say. Each step then maps to a commit of a batch at
most, to a block published less than a batch ahead, to a start or stop, or to a
stutter. It is what lets the models of the handlers replace the loop by `Indexer`.

`ProjectionProofs`, under `MaxDbErrors = 0` (no failed flush, any number of
crashes; finding 1 shows that the assumption is needed) and `CommitBatch <=
InsertLimit` (a configured batch fits one INSERT; otherwise nothing is ever
committed):

- `EventsExactlyOnce` and `CleanStopIsClean`, from `ExactInv` (each buffered
  block is buffered once and is not committed; the cursor agrees with both);
- `OneOpening`, from `OpeningInv` besides: all rows of a pool, committed, buffered
  or in the tracker, build on one of its opening balances, with the blocks up to
  theirs added; and a seed is under way only while `block_log` is empty;
- with `FirstHeight = 1` as well (a seeded database has rows of another origin):
  `DepthsAreExact`, `TrackerIsExact`, from `DepthInv` (every row, buffered or
  committed, is the true depth, and rebuilding the tracker from the newest row
  of each pool gives the true depth because blocks after that row do not touch
  the pool), and `SyncerRefinesProjection`: every step of the loop extends the
  projected prefix by a batch or leaves the tables alone.

`ServiceProofs`, for any number of clients, batch size and chain: `StatsTypes`,
`StatsMissLessThanABatch`, `StatsNeverGoBack`. `StatsInv` says that only the head
of the queue computes (`MutexInv`), that what a waiting request, the computation
and the entry have not seen is less than a batch of what was announced to them
(`LeadInv`), and that no answer is newer than the entry, the computation or the
database (`AgeInv`). That a request which gives up leaves the others in their
order is the lemma `QueueWithout`. Also there, for any set of builds:
`SchemaTypes`, `SyncsOnItsOwn`, `CarefulKeeps`. The invariant says what a stored
fingerprint vouches for: the schema is the one of that build, complete; and that
there are blocks only under a fingerprint.

Also there, for any schema, files and variables: `LayersAlwaysOverride`. Files and
defaults that fit the schema agree on which paths are settings and which are
sections (`NothingBelow`), so `Merge` lays one tree over another path by path
(`MergeIs`), and the invariant `ConfigInv` says that the merged tree has at every path what
the last layer with that path has. Variables are applied at settings only
(`CollectIs`, `OverriddenIs`), change that setting to what they mean (`SetSays`)
and no other (`UnsetStays`). It assumes of the schema that no setting is above
another and that its maps are those listed (`SettingsAssumption`), and that the
defaults fit it and have every setting (`DefaultsAssumption`). Files that do not
fit alone are outside its hypothesis, as they are outside that of the property: what
they leave in the tree for a variable to be parsed by is explored and not constrained.

`ActionsFeedProofs`, for blocks, pages and chains of any size: `FeedTypes`,
`FeedDescends`, `FeedLosesNothing`, `FeedEndsShort`. The invariant says of a request under way: what
it asks is bounded by the token it came with; what it has collected is below the
token and of queried kinds; and when a wanted event of a queried kind is missing,
the page holds a full limit of newer ones, so that the trimmed page ends above it.
The last is where a limit per table and a trim of the merge fit together; the
oldest and newest of a finite set (`OldestExists`, `NewestExists`) come from the
well-founded order of its subsets. A short page was not trimmed (`ShortPageIsAll`),
so it is all that was asked for, and none of it was served before (`PageIsNew`).

`RecorderProofs`, for any scales and bounds, assuming `WithinBudget` (fewer than 8
times `TxSlots` transactions, fewer than `TxIndexScale` events of one, fewer than
`TypeDigit` of a phase; with as many, ids of neighbours coincide):
`IdsAlwaysAscend`, whose invariant places the last id before every id that the
loops can still give, and `IdsAlwaysCarryTheirPlace`, which adds that the digits of
the last id are the place of its event (`PartsInv`) and takes them apart again
with the uniqueness of division (`DivisionOf`).

Also there, for any symbols and any events, each with at most one part unreadable:

- `PoolTypesHold` and `RowsAreCurrent`. The invariant adds that depths and rows are kept
  for the same names; the step uses that a move changes no pool outside its
  domain, which is what is marked dirty;
- `DepthsAsAnnounced` and `VolumesAreRune`. For every kind of event and every part of
  it that cannot be read, the moves that the decoder and `apply` make of it are the
  effect THORNode had, or none if it is refused; the rewards and the coins of a
  slash are sums over finite sets, so what is added up in the order of a list is
  compared as a sum (`ArithmeticProofs`). The volumes follow swap by swap;
- `DepthsTellAlways` and `TablesTellAlways`, through any number of batches, deaths and
  removals. `BlocksInv` says that the rows written are those of the blocks written
  (`RowsOver`), the rows pending those of the blocks buffered, and the depths in
  memory those reached by both (`Reached`). A start finds the last block that touched a
  pool, after which its depth did not move (`LastTouch`, `ReachedIdle`), so `LatestIs`
  gives the depth reached, whether the process died or blocks were removed below it;
  a removal leaves the rows of a prefix because every table that a row can be in is
  listed (`RowFacts`) and the times of blocks ascend. The second theorem adds that no row is written
  twice (`CopiesInv`) and cites the next;
- `EventsAreDecoded`, of one event at a time, of any of the 22 kinds and however it
  arrives. Both sides are brought to the same form: what an event says is what its
  names, coins, numbers and lists say (`SaysOfFields`), and what a row tells are its
  columns (`RowTells`); they are alike if they differ in empty names and zeros only
  (`SaidAlike`). Then there is one lemma per kind, each of which expands one decoder and
  one row of `writer.rs`. A refused event was not whole (`OtherRefused`,
  `GarbledIncomplete`); a correction or gas without its asset, a slash or rewards with an
  entry that cannot be read are not refused, and their rows say the rest.

`RangeIsAnswered`, for any first height, count and parallelism and any answers: the
invariant is that a chunk that passed `assemble` is the chunk asked for, and that
no chunk is refused when every node answers every entry; `ChunksMakeUpTheRange`
and `Division` give that the chunks joined are the range.

`RecorderIsItsParts`: the five parts of `MCRecorder` share no variable, and while one
moves the others rest (`PartsMove`), so that every behaviour of the whole is a
behaviour of each part and the theorems above hold of it. `RecorderTypes` is the
type invariant of the whole, without `WithinBudget`: a chunk is put together from answers
only and heights stay in the range (`FetchInv`); a list of rows is finite, so rows are
counted, and the tables hold rows of declared tables only (`BagsInv`, `BlocksTyped`).

`BucketsProofs`, for any maximum, times, counts and chain:

- `BoundariesOfPostgres`: the boundaries are the starts of consecutive intervals of
  `date_trunc`, for every time before 1970 or after. The two calendars are shown to
  be one. The code's takes a day apart into eras of 400 years, the year of the era
  and the day of the year (`YearOfEra`, `DayOfYearIs`); postgres' counts days and leap
  years from 1970 (`LeapYearsIs` counts them by induction on the year). `FirstDayIs`
  puts their months on the same days, `MonthOfDayIs` inverts the code's, `MonthNumberIs`
  that of postgres, and `TruncateIs` and `AdvanceIs` say that `truncate` and
  `advance` go to the start of an interval and to the next;
- `BucketTypes`, and `PromisedBlocks` with `LastIntervals`. The invariant `BucketsInv`
  says that the walk has found the intervals from that of the start of the window on
  and none that begins at its end or later; `PromisedWanted` places what was promised
  among them, and `TrimmedKeeps` shows that clamping and trimming leave it where it
  holds a block. For a count without `from` this takes that the window has no more
  intervals than the walk finds (`WindowWalked`), which finding 6 shows is needed;
  `RoomyIsWalked` derives it for every fixed interval, and for the others from
  `count * 372 <= (MaxIntervalCount - 9) * 365`: twelve months are 365 days at least,
  and 372 are asked for.

`HistoryProofs`, for any chain, rows, requests, interval of the calendar and
resolution of the clock:

- `AnswersAreBuckets`: what `Buckets` answers with satisfies `IsBuckets`, which the
  histories ask of the buckets of a request. It composes `BoundariesOfPostgres` with
  `BucketsInv`, for every interval: weeks from Monday, months, quarters and years too;
- `IntervalsAreWhole`, that every interval of a history has exactly the rows of its
  window. Rows are selected by nanoseconds, grouped by `date_trunc` of the second,
  rounded down to five minutes, and looked up by boundaries. `GroupIsWindow` shows
  that the three agree. It uses of the calendar only that every interval has one
  number, that numbers follow time and that every interval starts at a multiple of
  five minutes, which the lemmas of `BucketsProofs` give for all of them;
- `NoRowIsLost`: the same of `meta`, which is added up from the intervals. Totals are
  sums over sets of rows, and the rows of the whole window are the disjoint union of
  those of the intervals (an induction over the buckets);
- `MembersHoldUnits`: a member of a pool, by the query of the list and by that of a
  depth history, is who holds units by THORChain's account. `AccountsAssumption` says how
  the addresses of a row come from the account it is about, in one pool: a RUNE address
  may go with another asset address in another pool. The list of all pools is the
  holders of any (`HoldingOverPools`), if `NobodyOwes`: no balance of one pool is then
  set against that of another;
- `ClosedIntervalsStay`, for each of the five kinds of history. `ReadInv` says that
  no query sees less than was committed when the request came; a row up to the
  close of an interval that was over by then belongs to a block that was committed
  (`RowIsSeen`), since block times ascend;
- `EndpointsReportAlike`: `EndpointsAgree`. All queries of such a request saw one
  height (`AgreeInv`), whose rows are older than the cursor's now (`Recent`), so that
  a window up to now and an open one have the same rows. The volume of four groups
  of swaps is that of the list of directions (`VolumesAgree`), the earnings per
  pool are sums over the same rows (`EarningsAgree`), and of every pool there is one
  newest row (`NewestIsOne`), by the one depth row per pool and block of
  `RowsAssumption`. `/v2/pools` finds the three heights of every pool by its place
  in the order of the hash map (`PlacesAre`), and its answer is a list of the details
  because a finite set can be sorted (`Sortable`). The value locked leaves out pools
  with no RUNE and the network's sum does not, so the theorem assumes
  `NoneOverdrawn`, that no pool has less than none: the recorder adds up what
  THORChain tells it and does not enforce it;
- `ReadingTypes`: `ReadingTypeOK`, that every answer has the shape of its body. It is
  a statement about the answers only: whatever heights the queries of a request saw,
  the figures are sums of columns, in which nothing is negative, and the pools,
  statuses and addresses are those of rows, so `TypeInv` needs no more of a request
  than that it saw the database grow. A member with units has deposited, so its first
  and last deposit exist; a list is its set sorted, so it is finite (`Sortable`). The
  theorem assumes `NoneNegative`: no swap, deposit, withdrawal or bond reward is
  negative, nor the RUNE of a pool. Block rewards and a pool's asset may be, and what
  is made of them is an integer. The buckets of the same run move on their own
  (`PartsOfReading`), and `BucketTypes` is their part.

Every invariant and every safety property of a step that the passing runs check is
among these theorems. Only model-checked:

- liveness (`CatchesUp`, `ShutdownCompletes`, `RequestsEnd`, `WalksEnd`,
  `HalfBuiltIsRepaired`): fairness and ENABLED are out of the provers' reach.

The assumptions on constants that are more than types say what the data can be:
`RowsAssumption` and `AccountsAssumption` what a row of the tables holds,
`GarbledAssumption` and `UnreadableAssumption` that the mark of what cannot be read is no value of an attribute,
`WithinBudget` how many events a block may have, `SymbolsAssumption` that there are
finitely many assets, `SettingsAssumption` and `DefaultsAssumption` what a schema of
settings looks like. TLC evaluates them for the instances.

## 5. Not modelled

- A change of `initial_block_height` between restarts: `FirstHeight` is a constant.
- Forks and a change of chain: no code detects them. `delete_from_height` is
  modelled though the daemon never calls it; `hash_at` only reads and is never
  called either.
- A cursor read of which height and timestamp belong to two blocks:
  `block_log.rs:32-37` states that it is harmless, since a handler compares one end
  with a limit.
- `rune_price`, the one table of the schema that is never written or read.
- The width of integers: a packed id needs 64 bits up to height 922 million.
- Opening the connection pool, TLS modes and pool sizes: calls of a library with
  constants.
- HTTP, serde, SQL text, formatting of numbers and dates, metrics text, health,
  logging, the error type: no state and no interleaving of their own.
- SQL queries that fail within a reading endpoint: the handler returns the error
  and has changed nothing. In `StatsCache`, where a failure passes on a mutex, they
  are modelled.
- The THORNode requests that nothing calls.
- Tests, build and deployment files: not part of the program.
