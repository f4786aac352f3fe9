-------------------------------- MODULE EventId ------------------------------
(***************************************************************************)
(* The packed event id (midgard-db/src/eventid.rs).  The source has        *)
(* TxIndexScale = 10^4, TxSlots = 10^5 and so TypeDigit = 10^9 and         *)
(* HeightScale = 10^10; only the relations between them matter.  That an   *)
(* id fits 64 bits (heights below 922 million) is taken for granted.       *)
(***************************************************************************)
EXTENDS Integers

CONSTANTS
  TxIndexScale,  \* ids of one transaction
  TxSlots        \* transactions per type digit

ASSUME ScaleAssumption == TxIndexScale \in Nat \ {0} /\ TxSlots \in Nat \ {0}

TypeDigit == TxSlots * TxIndexScale
HeightScale == 10 * TypeDigit

Locations == {"BeginBlock", "TxsResults", "EndBlock"}

\* struct EventId
Ids == [height : Nat, location : Locations, txIndex : Nat, eventIndex : Nat]

BeginBlock(height, index) ==
  [height |-> height, location |-> "BeginBlock", txIndex |-> 0, eventIndex |-> index]
TxEvent(height, tx, index) ==
  [height |-> height, location |-> "TxsResults", txIndex |-> tx, eventIndex |-> index]
EndBlock(height, index) ==
  [height |-> height, location |-> "EndBlock", txIndex |-> 0, eventIndex |-> index]

\* END_BLOCK_PSEUDO_TX: the transaction reported for an end-block event.
EndBlockPseudoTx == 10 * TxSlots - 1

\* Mutant: the transactions' range is one digit too wide.
ToInt8(id) ==
  id.height * HeightScale +
    CASE id.location = "BeginBlock" -> id.eventIndex
      [] id.location = "TxsResults" -> TypeDigit + id.txIndex * TxIndexScale + id.eventIndex
      [] id.location = "EndBlock" -> 8 * TypeDigit + id.eventIndex

\* to_i64
ToInt(id) ==
  id.height * HeightScale +
    CASE id.location = "BeginBlock" -> id.eventIndex
      [] id.location = "TxsResults" -> TypeDigit + id.txIndex * TxIndexScale + id.eventIndex
      [] id.location = "EndBlock" -> 9 * TypeDigit + id.eventIndex

HeightOf(encoded) == encoded \div HeightScale

FirstIdAtHeight(height) == height * HeightScale

\* Mutant: the bound is the last block's own.
FirstIdAfterLast(height) == height * HeightScale + 9 * TypeDigit

FirstIdAfterHeight(height) == (height + 1) * HeightScale

\* parse
Parse(encoded) ==
  LET height == HeightOf(encoded)
      rest == encoded % HeightScale
  IN  CASE rest < TypeDigit -> BeginBlock(height, rest)
        [] rest >= TypeDigit /\ rest < 9 * TypeDigit ->
             TxEvent(height, (rest - TypeDigit) \div TxIndexScale, rest % TxIndexScale)
        [] rest >= 9 * TypeDigit ->
             [EndBlock(height, rest % TypeDigit) EXCEPT !.txIndex = EndBlockPseudoTx]

=============================================================================
