----------------------------- MODULE ChainClient -----------------------------
(***************************************************************************)
(* The height range a sync step walks: BlockIterator when catching up,     *)
(* the for loop over fetch_block when following                            *)
(* (midgard-chain/src/client.rs, midgard/src/sync.rs).                     *)
(*                                                                         *)
(* The blocks the iterator holds are block + 1 .. fetched: fetch_range     *)
(* returns exactly the consecutive heights asked for or an error, because  *)
(* assemble rejects an answer for another height.                          *)
(***************************************************************************)
EXTENDS ThorChain, FiniteSetsExt

CONSTANT FetchBatch  \* fetch_batch_size, at least 1

ASSUME FetchBatchAssumption == FetchBatch \in Nat \ {0}

VARIABLES
  block,    \* the height handed out last
  fetched,  \* the last height taken off the network
  through   \* the last height of the range

clientVars == <<block, fetched, through>>

ClientInit == block = 0 /\ fetched = 0 /\ through = 0

\* What /status may answer.  A load balancer can put the request on a node
\* that is behind, so any height up to the real tip; 0 before the first block.
ReportedTips == 0 .. chainTip

\* Mutant: the range stops before the tip.
StartRangeShort(from, tip) ==
  /\ block' = from - 1
  /\ fetched' = from - 1
  /\ through' = tip - 1

\* Client::iterator; the bounds of follow's for loop.
StartRange(from, tip) ==
  /\ block' = from - 1
  /\ fetched' = from - 1
  /\ through' = tip

\* BlockIterator::next with a block in hand.
NextBuffered ==
  /\ block < fetched
  /\ block' = block + 1
  /\ UNCHANGED <<fetched, through>>

\* Mutant: a full batch even when less is left of the range.
RefillUncapped ==
  /\ block = fetched
  /\ fetched < through
  /\ fetched' = fetched + FetchBatch
  /\ block' = block + 1
  /\ UNCHANGED through

\* BlockIterator::next with an empty buffer: fetch the next batch, hand out
\* its first block.
Refill ==
  /\ block = fetched
  /\ fetched < through
  /\ fetched' = fetched + Min({FetchBatch, through - fetched})
  /\ block' = block + 1
  /\ UNCHANGED through

\* fetch_block of the next height of the range.
FetchOne ==
  /\ block < through
  /\ block' = block + 1
  /\ fetched' = block + 1
  /\ UNCHANGED through

\* BlockIterator::next returning None, or the end of the for loop.
RangeDone == block = fetched /\ fetched >= through

\* The call that would go to the network now.
NeedsNetwork == block = fetched /\ fetched < through

=============================================================================
