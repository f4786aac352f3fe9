----------------------------- MODULE BlockWriter -----------------------------
(***************************************************************************)
(* Buffering decoded blocks and writing them in one transaction per batch: *)
(* midgard-record/src/writer.rs.  The three vectors of the writer are the  *)
(* three buffer variables.                                                 *)
(***************************************************************************)
EXTENDS Sequences, Functions, Database, DepthTracker

CONSTANTS
  CommitBatch,  \* commit_batch_size, at least 1
  InsertLimit   \* how many blocks' rows one INSERT can bind parameters for

ASSUME CommitBatchAssumption == CommitBatch \in Nat \ {0}
ASSUME InsertLimitAssumption == InsertLimit \in Nat \ {0}

VARIABLES
  blocks,  \* heights in the current batch, in the order they were added
  events,  \* events[h]: how many copies of block h's event rows are buffered
  depths   \* depth rows waiting to be written

bufferVars == <<blocks, events, depths>>
writerVars == <<blocks, events, depths, tracker>>

WriterInit ==
  /\ blocks = <<>>
  /\ events = NoEvents
  /\ depths = {}
  /\ tracker = [p \in Pools |-> ZeroDepth]

\* Mutant: no restore; every pool starts from zero after a restart.
RestoreNothing == UNCHANGED writerVars

\* BlockWriter::restore.
Restore ==
  /\ tracker' \in {t \in [Pools -> UNION {LatestDepths(p) : p \in Pools}] :
                     \A p \in Pools : t[p] \in LatestDepths(p)}
  /\ UNCHANGED bufferVars

\* BlockWriter::add up to the test of the batch size: decode the block, apply
\* its events to the tracker and buffer its rows.
Buffer(h) ==
  /\ blocks' = Append(blocks, h)
  /\ events' = [events EXCEPT ![h] = @ + 1]
  /\ depths' = depths \cup Changed(h)
  /\ tracker' = Applied(h)

\* Mutant: an off-by-one in the batch size test.
BatchOverfull(bs) == Len(bs) > CommitBatch

BatchFull(bs) == Len(bs) >= CommitBatch

\* write_depths, write_events, write_blocks.  Event and depth rows have no
\* unique key; block_log has ON CONFLICT (height) DO NOTHING.
WriteDepths == depthRows' = depthRows \cup depths
WriteEvents == eventRows' = [h \in Heights |-> eventRows[h] + events[h]]
WriteBlocks == blockLog' = blockLog \cup Range(blocks)

\* The rows of one transaction become visible together.
Transact == WriteDepths /\ WriteEvents /\ WriteBlocks /\ UNCHANGED statusRows

\* Mutant: one of the three clears is forgotten.
ClearAllButEvents ==
  /\ blocks' = <<>>
  /\ depths' = {}
  /\ UNCHANGED events

ClearBuffers ==
  /\ blocks' = <<>>
  /\ events' = NoEvents
  /\ depths' = {}

\* write_depths and write_events bind one parameter per column and row of the
\* whole batch in a single INSERT, and the protocol of Postgres numbers
\* parameters with 16 bits.
FitsOneInsert == Len(blocks) <= InsertLimit

\* BlockWriter::flush returning Ok.  With empty buffers it changes nothing.
FlushOk == FitsOneInsert /\ Transact /\ ClearBuffers /\ UNCHANGED tracker

\* Mutant: the batch is dropped when the transaction fails.
FlushErrClears(committed) ==
  /\ blocks # <<>>
  /\ IF committed THEN Transact ELSE UNCHANGED dbVars
  /\ ClearBuffers
  /\ UNCHANGED tracker

\* Mutant: the events are written outside the transaction.
FlushErrPartial(committed) ==
  /\ blocks # <<>>
  /\ WriteEvents
  /\ IF committed THEN WriteDepths /\ WriteBlocks ELSE UNCHANGED <<blockLog, depthRows>>
  /\ UNCHANGED <<statusRows, writerVars>>

\* BlockWriter::flush returning Err: the early return skips the clears.  When
\* it is the answer to COMMIT that is lost, the transaction took effect.
FlushErr(committed) ==
  /\ blocks # <<>>
  /\ committed => FitsOneInsert
  /\ IF committed THEN Transact ELSE UNCHANGED dbVars
  /\ UNCHANGED writerVars

=============================================================================
