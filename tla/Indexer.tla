------------------------------- MODULE Indexer -------------------------------
(***************************************************************************)
(* The sync loop as the API handlers see it: whether the process serves,   *)
(* the newest committed height, and the height the cursor publishes.  The  *)
(* module Syncer implements it (SyncerProperties!RefinesIndexer), and the  *)
(* modules of the handlers are built on it.                                *)
(***************************************************************************)
EXTENDS Integers

CONSTANTS
  MaxTip,       \* bound: the height at which the modelled chain stops growing
  FirstHeight,  \* the first indexed height
  CommitBatch   \* commit_batch_size

ASSUME IndexerAssumption ==
  /\ MaxTip \in Nat /\ FirstHeight \in 1 .. MaxTip
  /\ CommitBatch \in Nat \ {0}

VARIABLES
  serving,    \* the process runs and may answer requests
  committed,  \* newest height in block_log (0: none)
  published   \* height of the cursor (0: empty)

indexerVars == <<serving, committed, published>>

IndexerInit == serving = FALSE /\ committed = 0 /\ published = 0

\* The height that follows h, 0 being the empty chain.
After(h) == IF h + 1 >= FirstHeight THEN h + 1 ELSE FirstHeight

\* How many indexed heights lie above low and up to high.
Between(low, high) == high + 1 - After(low)

\* How many of the heights up to h are not committed.
Lead(h) == Between(committed, h)

Start ==
  /\ ~serving
  /\ serving' = TRUE
  /\ published' = committed
  /\ UNCHANGED committed

\* A batch is committed; its last block is at most the one being written.
Commit ==
  /\ serving
  /\ \E n \in After(committed) .. After(published) :
       /\ Lead(n) <= CommitBatch
       /\ n <= MaxTip
       /\ committed' = n
  /\ UNCHANGED <<serving, published>>

\* The block being written is published; it is committed, or waits in a batch
\* that is not full.
Publish ==
  /\ serving
  /\ After(published) <= MaxTip
  /\ Lead(After(published)) < CommitBatch
  /\ published' = After(published)
  /\ UNCHANGED <<serving, committed>>

Stop ==
  /\ serving
  /\ serving' = FALSE
  /\ published' = 0
  /\ UNCHANGED committed

IndexerNext == Start \/ Commit \/ Publish \/ Stop

IndexerSpec == IndexerInit /\ [][IndexerNext]_indexerVars

=============================================================================
