---------------------------- MODULE EventNumbering ---------------------------
(***************************************************************************)
(* How BlockWriter::add numbers the events of a block                      *)
(* (midgard-record/src/writer.rs, midgard-chain/src/types.rs): the events  *)
(* of the begin phase, of the successful transactions and of the end       *)
(* phase, each by its position in the list it came in.  An action is one   *)
(* step of one of the three loops.                                         *)
(***************************************************************************)
EXTENDS EventId, Sequences

CONSTANTS
  FirstHeight, MaxHeight,  \* bound: the blocks numbered
  MaxFinalize,             \* bound: finalize_block_events of a block
  MaxTxs, MaxTxEvents      \* bound: transactions of a block, events of one

ASSUME NumberingAssumption ==
  /\ MaxHeight \in Nat /\ FirstHeight \in 0 .. MaxHeight /\ MaxFinalize \in Nat
  /\ MaxTxs \in Nat /\ MaxTxEvents \in Nat

VARIABLES
  height,    \* of the block being added
  finalize,  \* the mode attributes of its finalize_block_events
  phase,     \* the loop: "begin", "txs", "end"
  tx, index, \* 0-based: the transaction and the event the loop is at
  last       \* the id most recently given

vars == <<height, finalize, phase, tx, index, last>>

\* The mode attribute of an event, "none" if it has none.
Modes == {"BeginBlock", "EndBlock", "none", "other"}
FinalizeLists == UNION {[1 .. n -> Modes] : n \in 0 .. MaxFinalize}

\* The seeded rows precede the first block.
Init ==
  /\ height = FirstHeight
  /\ finalize \in FinalizeLists
  /\ phase = "begin" /\ tx = 0 /\ index = 0
  /\ last = BeginBlock(FirstHeight, 0)

\* begin_block_events, end_block_events
IsBegin(mode) == mode \in {"BeginBlock", "none"}
IsEnd(mode) == mode = "EndBlock"

\* An event of the begin phase is numbered; one of another phase is passed over.
BeginEvent ==
  /\ phase = "begin" /\ index < Len(finalize)
  /\ last' = IF IsBegin(finalize[index + 1]) THEN BeginBlock(height, index + 1) ELSE last
  /\ index' = index + 1
  /\ UNCHANGED <<height, finalize, phase, tx>>

EnterTxs ==
  /\ phase = "begin" /\ index = Len(finalize)
  /\ phase' = "txs" /\ tx' = 0 /\ index' = 0
  /\ UNCHANGED <<height, finalize, last>>

\* An event of a successful transaction.
NumberTxEvent ==
  /\ phase = "txs" /\ tx < MaxTxs /\ index < MaxTxEvents
  /\ last' = TxEvent(height, tx + 1, index + 1)
  /\ index' = index + 1
  /\ UNCHANGED <<height, finalize, phase, tx>>

\* The next transaction; one without events may be a failed one.
NextTx ==
  /\ phase = "txs" /\ tx < MaxTxs
  /\ tx' = tx + 1 /\ index' = 0
  /\ UNCHANGED <<height, finalize, phase, last>>

\* Mutant: the end phase goes on counting where the transactions stopped.
EnterEndCounting ==
  /\ phase = "txs"
  /\ phase' = "end"
  /\ UNCHANGED <<height, finalize, tx, index, last>>

EnterEnd ==
  /\ phase = "txs"
  /\ phase' = "end" /\ index' = 0
  /\ UNCHANGED <<height, finalize, tx, last>>

EndEvent ==
  /\ phase = "end" /\ index < Len(finalize)
  /\ last' = IF IsEnd(finalize[index + 1]) THEN EndBlock(height, index + 1) ELSE last
  /\ index' = index + 1
  /\ UNCHANGED <<height, finalize, phase, tx>>

NextBlock ==
  /\ phase = "end" /\ index = Len(finalize) /\ height < MaxHeight
  /\ height' = height + 1
  /\ finalize' \in FinalizeLists
  /\ phase' = "begin" /\ tx' = 0 /\ index' = 0
  /\ UNCHANGED last

Next ==
  \/ BeginEvent \/ EnterTxs \/ NumberTxEvent \/ NextTx \/ EnterEnd \/ EndEvent \/ NextBlock

Spec == Init /\ [][Next]_vars

------------------------------------------------------------------------------
\* Types; the loops are at places of the block.
TypeOK ==
  /\ height \in FirstHeight .. MaxHeight /\ finalize \in FinalizeLists
  /\ phase \in {"begin", "txs", "end"} /\ tx \in 0 .. MaxTxs
  /\ index \in 0 .. IF phase = "txs" THEN MaxTxEvents ELSE Len(finalize)
  /\ last \in Ids /\ last.height \in FirstHeight .. height

\* The budget of the encoding: positions are counted from 1, so the last
\* transaction and the last event of one that the digits have room for are not
\* available.
WithinBudget ==
  /\ MaxFinalize < TypeDigit
  /\ MaxTxs < 8 * TxSlots /\ MaxTxEvents < TxIndexScale

\* Every event gets a larger id than all events before it in chain order, seed,
\* phases, transactions and blocks alike: no two share one (eventid.rs:3-5).
IdsAscend == [][last' # last => ToInt(last') > ToInt(last)]_vars

\* The height bounds bracket every id of a block, and only those; and what an id
\* was made of can be read off it, the transaction where there is one.
IdsCarryTheirPlace ==
  /\ FirstIdAtHeight(last.height) <= ToInt(last)
  /\ ToInt(last) < FirstIdAfterHeight(last.height)
  /\ HeightOf(ToInt(last)) = last.height
  /\ Parse(ToInt(last)) = IF last.location = "EndBlock"
                          THEN [last EXCEPT !.txIndex = EndBlockPseudoTx] ELSE last

=============================================================================
