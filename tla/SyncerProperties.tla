--------------------------- MODULE SyncerProperties --------------------------
(***************************************************************************)
(* What is checked and proved of the sync loop.                            *)
(***************************************************************************)
EXTENDS Syncer

\* The shape of the state.
TypeOK ==
  /\ chainTip \in 0 .. MaxTip
  /\ tracker \in [Pools -> Depth]
  /\ blockLog \in SUBSET Heights
  /\ eventRows \in [Heights -> Nat]
  /\ depthRows \in SUBSET DepthRow
  /\ statusRows \in [Pools -> Nat]
  /\ blocks \in Seq(Heights)
  /\ events \in [Heights -> Nat]
  /\ depths \in SUBSET DepthRow
  /\ cursorFirst \in 0 .. MaxTip /\ cursorLast \in 0 .. MaxTip
  /\ block \in 0 .. MaxTip /\ fetched \in 0 .. MaxTip /\ through \in 0 .. MaxTip
  /\ pc \in PCs /\ mode \in {"catchUp", "follow"}
  /\ cancelled \in BOOLEAN /\ chainHeight \in 0 .. MaxTip
  /\ stops \in 0 .. MaxStops /\ dbErrors \in 0 .. MaxDbErrors

------------------------------------------------------------------------------
\* Safety, whatever fails.

Buffered == Range(blocks)

\* block_log never has a gap, whichever flushes fail and wherever the process
\* dies (tests/pipeline.rs:124 "Heights are contiguous, with no gap").
Contiguous ==
  \A h \in blockLog : FirstHeight <= h /\ \A k \in FirstHeight .. h : k \in blockLog

\* A block's event rows, its depth rows and its block_log entry are in the
\* database together or not at all (writer.rs:8-9), and a pool has opening
\* depths exactly if it has an opening status (bootstrap.rs:71).
RowsWithTheirBlock ==
  /\ \A h \in Heights : h \in blockLog <=> eventRows[h] > 0
  /\ \A h \in FirstHeight .. MaxTip : \A p \in Pools :
       (h \in blockLog /\ p \in Touched[h]) <=> \E r \in RowsOf(p) : r.at = h
  /\ \A p \in Pools : statusRows[p] > 0 <=> \E r \in RowsOf(p) : r.at < FirstHeight

\* The cursor never passes a block that is neither committed nor still
\* buffered: no failure makes the loop skip a height for good.
NothingSkipped ==
  FirstHeight .. cursorLast \subseteq blockLog \cup Buffered

\* A process that dies loses at most one batch of decoded blocks, and the
\* published cursor leads the database by less than one batch, also when
\* flushes failed before (writer.rs:9-10 "loses up to commit_batch_size
\* blocks").
LossBounded ==
  /\ Cardinality(Buffered \ blockLog) <= CommitBatch
  /\ Cardinality((FirstHeight .. cursorLast) \ blockLog) < CommitBatch

\* All the API handlers see of the loop is the abstract indexer: the database
\* grows by whole batches, the cursor by single blocks, from the database at
\* every start, and neither runs away from the other.
NewestBlock == Max({0} \cup blockLog)

I == INSTANCE Indexer WITH
       serving <- Running,
       committed <- NewestBlock,
       published <- IF Running THEN cursorLast ELSE 0

RefinesIndexer == I!IndexerSpec

------------------------------------------------------------------------------
\* Safety when every flush tells the truth, whatever crashes.

\* Every indexed block's event rows exist once (tests/pipeline.rs:200 "has
\* duplicate event ids").
ExactlyOnce == \A h \in blockLog : eventRows[h] = 1

\* Every depth row is the sum of the blocks up to it, each once.
DepthsExact == \A r \in depthRows : r.depth = TrueDepth(r.pool, r.at)

\* The in-memory depths are those of the newest block taken in, also right
\* after a restart rebuilt them from the last row of each pool (depth.rs:9-10).
TrackerExact ==
  Running => \A p \in Pools :
    tracker[p] = TrueDepth(p, Max({0} \cup blockLog \cup Buffered))

\* A shutdown that is not cut short by its timeout commits everything the
\* cursor has announced (sync.rs:114).
CleanStopKeepsBatch ==
  pc = "stopped" => FirstHeight .. cursorLast \subseteq blockLog

\* The database as a whole is the projection of a growing chain prefix.
P == INSTANCE Projection
RefinesProjection == P!ProjectionSpec

\* All committed depths of a pool, in a seeded database, build on one opening
\* balance, even when a crash between the seed and the first batch made the
\* daemon seed a second time from a different THORNode state (as long as no flush
\* has failed).
SumFrom(base, p, n) ==
  [k \in Heights |-> base[k] + IF k \in FirstHeight .. n /\ p \in Touched[k] THEN 1 ELSE 0]

OneOpeningBalance == dbErrors = 0 =>
  \A p \in Pools :
    \E base \in {ZeroDepth} \cup {s.depth : s \in {q \in RowsOf(p) : q.at < FirstHeight}} :
      \A r \in RowsOf(p) : r.at >= FirstHeight => r.depth = SumFrom(base, p, r.at)

------------------------------------------------------------------------------
\* Liveness.

\* The chain goes on, the daemon takes its steps (tokio runs a ready task, a
\* supervisor restarts the process), and the network is not down for ever: a
\* loop that keeps asking gets the current tip, and the block, at some point.
\* Nothing is assumed of failures, signals or the shutdown timeout.
StepAtTip == Step /\ chainHeight' = chainTip

Fairness ==
  /\ WF_vars(NewBlock)
  /\ WF_vars(Daemon)
  /\ SF_vars(StepAtTip)
  /\ SF_vars(NextBlock)

FairSpec == Spec /\ Fairness

\* Whatever failed before, the sync loop reaches the tip and stays there.
CatchesUp == <>[](cursorLast = MaxTip)

\* A shutdown request ends the process even if the shutdown timeout never
\* fires: no inner loop goes on for ever without looking at the cancellation.
ShutdownCompletes == cancelled ~> pc = "down"

------------------------------------------------------------------------------
\* What the repository says and the code does not do.

\* "nothing is lost by starting the step again" (sync.rs:106-107): what a
\* failed flush left in the buffer can still be written by the retry.  A batch
\* that no INSERT can carry is refused however often it is retried.
RetryCanSucceed ==
  pc \in {"flushAdd", "flush", "lastFlush"} => FitsOneInsert

\* "A seeded database is correct from the start height onwards"
\* (bootstrap.rs:12-13, README.md:68).
SeededDepthsCorrect ==
  \A r \in depthRows : r.at >= FirstHeight => r.depth = TrueDepth(r.pool, r.at)

=============================================================================
