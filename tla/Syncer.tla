-------------------------------- MODULE Syncer -------------------------------
(***************************************************************************)
(* The daemon as a process over its database: start-up (midgard/src/       *)
(* main.rs, bootstrap.rs), the sync loop (midgard/src/sync.rs), shutdown,  *)
(* crash and restart.  The API handlers run on other threads and may read  *)
(* the cursor, chain_height and the database between any two steps, so     *)
(* every await and every store to a shared cell ends a step.               *)
(*                                                                         *)
(* pc      the process is ...                                              *)
(* down      not running                                                   *)
(* seed      about to seed pool depths          restore  before restore()  *)
(* loop      at the top of the while loop                                  *)
(* idle      sleeping after step returned Ok(false): caught up             *)
(* next      asking for the next block of the range                        *)
(* add       holding a block                                               *)
(* flushAdd  in the flush at the end of add (batch full)                   *)
(* flush     in follow's flush                                             *)
(* observe   between the successful write and cursor.observe               *)
(* lastFlush in the flush after the loop                                   *)
(* stopped   run has returned                                              *)
(***************************************************************************)
EXTENDS BlockWriter, BlockCursor, ChainClient

CONSTANTS
  FirstHeight,     \* genesis.initial_block_height.max(1)
  BatchThreshold,  \* BATCH_THRESHOLD
  MaxStops,        \* bound: crashes and shutdown signals
  MaxDbErrors      \* bound: failed flushes

ASSUME FirstHeightAssumption == FirstHeight \in Heights
ASSUME BatchThresholdAssumption == BatchThreshold \in Nat
ASSUME BudgetsAssumption == MaxStops \in Nat /\ MaxDbErrors \in Nat

VARIABLES
  pc, mode,     \* mode: which of catch_up and follow walks the range
  cancelled,    \* the CancellationToken
  chainHeight,  \* the published chain_height; 0 until the first /status
  stops,        \* crashes and signals so far
  dbErrors      \* failed flushes so far

vars == <<chainTip, tracker, blockLog, eventRows, depthRows, statusRows, blocks,
          events, depths, cursorFirst, cursorLast, block, fetched, through, pc, mode,
          cancelled, chainHeight, stops, dbErrors>>

PCs == {"down", "seed", "restore", "loop", "idle", "next", "add", "flushAdd",
        "flush", "observe", "lastFlush", "stopped"}

flagVars == <<cancelled, chainHeight, stops, dbErrors>>

Init ==
  /\ ChainInit /\ DatabaseInit /\ WriterInit /\ CursorInit /\ ClientInit
  /\ pc = "down" /\ mode = "follow"
  /\ cancelled = FALSE /\ chainHeight = 0
  /\ stops = 0 /\ dbErrors = 0

------------------------------------------------------------------------------
\* Start-up.

\* main up to the seeding decision: the cursor is read from the database.
StartUp ==
  /\ pc = "down"
  /\ Refresh
  /\ pc' = IF cursorLast' = 0 /\ FirstHeight > 1 THEN "seed" ELSE "restore"
  /\ UNCHANGED <<chainTip, dbVars, writerVars, clientVars, mode, flagVars>>

\* Each pool's opening status goes to pool_events in the same transaction.  All
\* of them carry one event id, the first of the first height, and so does the
\* copy that a second seed adds: pool_events has no unique key either.
StatusesSeeded(t) ==
  statusRows' = [p \in Pools |-> statusRows[p] + IF p \in PoolsAt(t) THEN 1 ELSE 0]

\* Mutant: the opening rows are stamped with the first block's own time.
SeedAtFirstBlock ==
  /\ pc = "seed"
  /\ FirstHeight <= chainTip
  /\ \E t \in 0 .. chainTip :
       /\ PoolsAt(t) # {}
       /\ depthRows' = depthRows \cup
            {[pool |-> p, at |-> FirstHeight, depth |-> TrueDepth(p, t)] : p \in PoolsAt(t)}
       /\ StatusesSeeded(t)
  /\ pc' = "restore"
  /\ UNCHANGED <<chainTip, blockLog, eventRows, writerVars, cursorVars,
                 clientVars, mode, flagVars>>

\* seed_pool_depths.  The first block must be fetched before; THORNode has no
\* height parameter and answers with the pools as of whatever height t its
\* node is at.
Seed ==
  /\ pc = "seed"
  /\ FirstHeight <= chainTip
  /\ \E t \in 0 .. chainTip :
       /\ PoolsAt(t) # {}
       /\ depthRows' = depthRows \cup
            {[pool |-> p, at |-> FirstHeight - 1, depth |-> TrueDepth(p, t)] :
               p \in PoolsAt(t)}
       /\ StatusesSeeded(t)
  /\ pc' = "restore"
  /\ UNCHANGED <<chainTip, blockLog, eventRows, writerVars, cursorVars,
                 clientVars, mode, flagVars>>

\* Syncer::new, then the spawn of run.
RestoreDepths ==
  /\ pc = "restore"
  /\ Restore
  /\ pc' = "loop"
  /\ UNCHANGED <<chainTip, dbVars, cursorVars, clientVars, mode, flagVars>>

------------------------------------------------------------------------------
\* The sync loop.

FirstToFetch == IF NextHeight >= FirstHeight THEN NextHeight ELSE FirstHeight

\* The head of run's loop and of step: /status answers tip, the step decides.
\* A failing /status leaves everything as it is.
Step ==
  /\ pc = "loop" /\ ~cancelled
  /\ \E tip \in ReportedTips :
       /\ chainHeight' = tip
       /\ \/ /\ FirstToFetch > tip
             /\ pc' = "idle"
             /\ UNCHANGED <<clientVars, mode>>
          \/ /\ FirstToFetch <= tip
             /\ pc' = "next"
             /\ mode' = IF tip - FirstToFetch + 1 > BatchThreshold
                        THEN "catchUp" ELSE "follow"
             /\ StartRange(FirstToFetch, tip)
  /\ UNCHANGED <<chainTip, dbVars, writerVars, cursorVars, cancelled, stops, dbErrors>>

\* Mutant: an idle loop is never woken.
WakeNever == pc = "idle" /\ UNCHANGED vars

\* The back-off ends.
Wake ==
  /\ pc = "idle"
  /\ pc' = "loop"
  /\ UNCHANGED <<chainTip, dbVars, writerVars, cursorVars, clientVars, mode, flagVars>>

\* The next block of the range, from the iterator's buffer or the network.
NextBlock ==
  /\ pc = "next"
  /\ IF mode = "catchUp" THEN NextBuffered \/ Refill ELSE FetchOne
  /\ pc' = "add"
  /\ UNCHANGED <<chainTip, dbVars, writerVars, cursorVars, mode, flagVars>>

\* catch_up or follow returns: the range is done.
EndRange ==
  /\ pc = "next"
  /\ RangeDone
  /\ pc' = "loop"
  /\ UNCHANGED <<chainTip, dbVars, writerVars, cursorVars, clientVars, mode, flagVars>>

\* A fetch fails, or the node cannot serve the results of the tip yet: the
\* step ends with an error and is retried.  The buffered blocks stay buffered.
FetchErr ==
  /\ pc = "next"
  /\ NeedsNetwork
  /\ pc' = "loop"
  /\ UNCHANGED <<chainTip, dbVars, writerVars, cursorVars, clientVars, mode, flagVars>>

\* catch_up drops the block it holds when it sees the cancellation.
DropBlock ==
  /\ pc = "add" /\ mode = "catchUp" /\ cancelled
  /\ pc' = "loop"
  /\ UNCHANGED <<chainTip, dbVars, writerVars, cursorVars, clientVars, mode, flagVars>>

\* writer.add.  follow does not look at the cancellation.
Add ==
  /\ pc = "add"
  /\ mode = "follow" \/ ~cancelled
  /\ Buffer(block)
  /\ pc' = IF BatchFull(blocks') THEN "flushAdd"
           ELSE IF mode = "catchUp" THEN "observe" ELSE "flush"
  /\ UNCHANGED <<chainTip, dbVars, cursorVars, clientVars, mode, flagVars>>

\* The batch is committed.
Flush ==
  /\ pc \in {"flushAdd", "flush", "lastFlush"}
  /\ FlushOk
  /\ pc' = CASE pc = "flushAdd" /\ mode = "follow" -> "flush"
             [] pc = "lastFlush" -> "stopped"
             [] OTHER -> "observe"
  /\ UNCHANGED <<chainTip, cursorVars, clientVars, mode, flagVars>>

\* The batch is not committed, or is without the writer learning it.  In the
\* loop the step returns Ok and starts again; at shutdown run returns.  The
\* faults of the database are bounded, the refusals of an oversized INSERT are
\* not.
FlushFails ==
  /\ pc \in {"flushAdd", "flush", "lastFlush"}
  /\ FitsOneInsert => dbErrors < MaxDbErrors
  /\ \E committed \in BOOLEAN : FlushErr(committed)
  /\ dbErrors' = IF FitsOneInsert THEN dbErrors + 1 ELSE dbErrors
  /\ pc' = IF pc = "lastFlush" THEN "stopped" ELSE "loop"
  /\ UNCHANGED <<chainTip, cursorVars, clientVars, mode, cancelled, chainHeight, stops>>

ObserveBlock ==
  /\ pc = "observe"
  /\ Observe(block)
  /\ pc' = "next"
  /\ UNCHANGED <<chainTip, dbVars, writerVars, clientVars, mode, flagVars>>

\* Mutant: the loop returns without the last flush.
LeaveLoopAtOnce ==
  /\ pc = "loop" /\ cancelled
  /\ pc' = "stopped"
  /\ UNCHANGED <<chainTip, dbVars, writerVars, cursorVars, clientVars, mode, flagVars>>

\* The loop sees the cancellation at its head.
LeaveLoop ==
  /\ pc = "loop" /\ cancelled
  /\ pc' = "lastFlush"
  /\ UNCHANGED <<chainTip, dbVars, writerVars, cursorVars, clientVars, mode, flagVars>>

------------------------------------------------------------------------------
\* Signals, exits, crashes.

Running == pc \notin {"down", "seed", "restore"}

\* SIGTERM or ctrl-c once the listener is up.
Signal ==
  /\ Running /\ ~cancelled
  /\ stops < MaxStops
  /\ stops' = stops + 1
  /\ cancelled' = TRUE
  /\ UNCHANGED <<chainTip, dbVars, writerVars, cursorVars, clientVars, pc, mode,
                 chainHeight, dbErrors>>

\* The memory of the process is gone.
Die ==
  /\ pc' = "down" /\ mode' = "follow"
  /\ cancelled' = FALSE /\ chainHeight' = 0
  /\ blocks' = <<>> /\ events' = NoEvents /\ depths' = {}
  /\ Forget
  /\ cursorFirst' = 0 /\ cursorLast' = 0
  /\ block' = 0 /\ fetched' = 0 /\ through' = 0
  /\ UNCHANGED <<chainTip, dbVars, dbErrors>>

\* main returns after the sync task has.
Exit ==
  /\ pc = "stopped"
  /\ Die
  /\ UNCHANGED stops

\* shutdown_timeout elapses first: main closes the pool and returns.
ShutdownTimeout ==
  /\ Running /\ cancelled /\ pc # "stopped"
  /\ Die
  /\ UNCHANGED stops

\* The process is killed, or fails while starting up.
Crash ==
  /\ pc # "down"
  /\ stops < MaxStops
  /\ stops' = stops + 1
  /\ Die

NewBlock ==
  /\ Produce
  /\ UNCHANGED <<dbVars, writerVars, cursorVars, clientVars, pc, mode, flagVars>>

Daemon ==
  \/ StartUp \/ Seed \/ RestoreDepths
  \/ Step \/ Wake \/ NextBlock \/ EndRange \/ DropBlock \/ Add \/ Flush
  \/ ObserveBlock \/ LeaveLoop \/ Exit

Faults == FetchErr \/ FlushFails \/ Signal \/ ShutdownTimeout \/ Crash

Next == NewBlock \/ Daemon \/ Faults

Spec == Init /\ [][Next]_vars

=============================================================================
