---------------------------- MODULE RecorderProofs ----------------------------
(***************************************************************************)
(* What is recorded of a block, for every encoding of ids, every chain     *)
(* within its budget, and any symbols, events and amounts: ids ascend in   *)
(* chain order, the sparse rows of the depths lose nothing, and the tables *)
(* tell the events of the blocks that are written and of no other.         *)
(***************************************************************************)
EXTENDS MCRecorder, ArithmeticProofs

LEMMA ScalePositive ==
  /\ TypeDigit \in Nat /\ HeightScale \in Nat
  /\ TypeDigit >= TxIndexScale /\ TypeDigit > 0 /\ HeightScale = 10 * TypeDigit
<1>1. TxSlots * TxIndexScale \in Nat /\ TxSlots * TxIndexScale >= TxIndexScale
  BY ScaleAssumption
<1> QED
  BY <1>1, ScaleAssumption DEF TypeDigit, HeightScale

\* The transactions of a block within budget fit in their eight digits.
LEMMA TxsFit ==
  ASSUME WithinBudget, NEW t \in Nat, t <= MaxTxs PROVE (t + 1) * TxIndexScale <= 8 * TypeDigit
<1>1. t + 1 <= 8 * TxSlots /\ 8 * TxSlots \in Nat /\ t + 1 \in Nat
  BY ScaleAssumption, NumberingAssumption DEF WithinBudget
<1>2. (t + 1) * TxIndexScale <= (8 * TxSlots) * TxIndexScale
  BY <1>1, ProductGrows, ScaleAssumption
<1>3. (8 * TxSlots) * TxIndexScale = 8 * (TxSlots * TxIndexScale)
  BY ScaleAssumption
<1> QED
  BY <1>2, <1>3 DEF TypeDigit

\* The place a loop is at, as a bound on the ids given so far.
Place(h, p, t, i) ==
  h * HeightScale +
    CASE p = "begin" -> i
      [] p = "txs" -> TypeDigit + (t + 1) * TxIndexScale + i
      [] p = "end" -> 9 * TypeDigit + i

\* The ids given lie at or below the place the loops are at, which lies
\* within the block.
NumberingInv ==
  /\ TypeOK
  /\ phase = "txs" /\ tx = MaxTxs => index = 0
  /\ ToInt(last) <= Place(height, phase, tx, index)

\* A place goes up by one with the event, by at most one transaction's ids
\* with the transaction, and is a natural number.
LEMMA PlaceFacts ==
  ASSUME NEW h \in Nat, NEW t \in Nat, NEW i \in Nat
  PROVE  /\ h * HeightScale \in Nat /\ (t + 1) * TxIndexScale \in Nat
         /\ (h + 1) * HeightScale = h * HeightScale + HeightScale
         /\ ((t + 1) + 1) * TxIndexScale = (t + 1) * TxIndexScale + TxIndexScale
         /\ Place(h, "begin", t, i) = h * HeightScale + i
         /\ Place(h, "txs", t, i) = h * HeightScale + TypeDigit + (t + 1) * TxIndexScale + i
         /\ Place(h, "end", t, i) = h * HeightScale + 9 * TypeDigit + i
<1>1. \A a, k \in Nat : a * k \in Nat /\ (a + 1) * k = a * k + k
  OBVIOUS
<1>2. h * HeightScale \in Nat /\ (t + 1) * TxIndexScale \in Nat
  BY <1>1, ScalePositive, ScaleAssumption
<1>3. /\ (h + 1) * HeightScale = h * HeightScale + HeightScale
      /\ ((t + 1) + 1) * TxIndexScale = (t + 1) * TxIndexScale + TxIndexScale
  BY <1>1, ScalePositive, ScaleAssumption
<1>4. /\ Place(h, "begin", t, i) = h * HeightScale + i
      /\ Place(h, "end", t, i) = h * HeightScale + (9 * TypeDigit + i)
      /\ Place(h, "txs", t, i) = h * HeightScale + (TypeDigit + (t + 1) * TxIndexScale + i)
  BY DEF Place
<1> HIDE DEF Place
<1> QED
  BY <1>2, <1>3, <1>4, ScalePositive

\* The ids of the constructors.
LEMMA IdFacts ==
  ASSUME NEW h \in Nat, NEW t \in Nat, NEW i \in Nat
  PROVE  /\ ToInt(BeginBlock(h, i)) = h * HeightScale + i
         /\ ToInt(TxEvent(h, t, i)) = h * HeightScale + TypeDigit + t * TxIndexScale + i
         /\ ToInt(EndBlock(h, i)) = h * HeightScale + 9 * TypeDigit + i
         /\ {BeginBlock(h, i), TxEvent(h, t, i), EndBlock(h, i)} \in SUBSET Ids
         /\ \A id \in {BeginBlock(h, i), TxEvent(h, t, i), EndBlock(h, i)} : id.height = h
<1>1. h * HeightScale \in Nat /\ t * TxIndexScale \in Nat
  <2>1. \A a, k \in Nat : a * k \in Nat
    OBVIOUS
  <2> QED
    BY <2>1, ScalePositive, ScaleAssumption
<1>2. /\ ToInt(BeginBlock(h, i)) = h * HeightScale + i
      /\ ToInt(TxEvent(h, t, i)) = h * HeightScale + (TypeDigit + t * TxIndexScale + i)
      /\ ToInt(EndBlock(h, i)) = h * HeightScale + (9 * TypeDigit + i)
  BY DEF ToInt, BeginBlock, TxEvent, EndBlock
<1>3. /\ {BeginBlock(h, i), TxEvent(h, t, i), EndBlock(h, i)} \in SUBSET Ids
      /\ \A id \in {BeginBlock(h, i), TxEvent(h, t, i), EndBlock(h, i)} : id.height = h
  BY DEF Ids, Locations, BeginBlock, TxEvent, EndBlock
<1> QED
  BY <1>1, <1>2, <1>3, ScalePositive

\* Finite sequences of modes have the lengths they are made with.
LEMMA FinalizeLength ==
  ASSUME NEW f \in FinalizeLists PROVE Len(f) \in 0 .. MaxFinalize /\ f \in Seq(Modes)
<1>1. PICK n \in 0 .. MaxFinalize : f \in [1 .. n -> Modes]
  BY DEF FinalizeLists
<1>2. f \in Seq(Modes) /\ Len(f) = n
  BY <1>1, NumberingAssumption
<1> QED
  BY <1>2

\* The initial place: the seed's own.
LEMMA NumberingInit == Init => NumberingInv
<1> SUFFICES ASSUME Init PROVE NumberingInv
  OBVIOUS
<1>1. Len(finalize) \in 0 .. MaxFinalize
  BY FinalizeLength DEF Init
<1>2. last \in Ids /\ last.height = FirstHeight
  BY IdFacts, NumberingAssumption DEF Init
<1>3. TypeOK
  BY <1>1, <1>2, NumberingAssumption DEF Init, TypeOK
<1>4. ToInt(last) = Place(height, phase, tx, index)
  BY IdFacts, PlaceFacts, NumberingAssumption DEF Init
<1>5. Place(height, phase, tx, index) \in Int
  BY PlaceFacts, NumberingAssumption DEF Init
<1> QED
  BY <1>3, <1>4, <1>5 DEF Init, NumberingInv

LEMMA IdInt == ASSUME NEW id \in Ids PROVE ToInt(id) \in Int
<1>1. \A a, k \in Nat : a * k \in Nat
  OBVIOUS
<1>2. id.height * HeightScale \in Nat /\ id.txIndex * TxIndexScale \in Nat
  BY <1>1, ScalePositive, ScaleAssumption DEF Ids
<1> QED
  BY <1>2, ScalePositive DEF ToInt, Ids, Locations

\* What a step has to show: the new place is no lower than the old one, and a
\* new id lies between the two.
LEMMA NumberingIndexes ==
  ASSUME NumberingInv, TypeOK', (phase = "txs" /\ tx = MaxTxs => index = 0)',
         NEW p \in Nat, p = Place(height, phase, tx, index),
         NEW q \in Nat, q = Place(height, phase, tx, index)', p <= q,
         last' = last \/ (ToInt(last') > p /\ ToInt(last') <= q)
  PROVE  NumberingInv' /\ (last' # last => ToInt(last') > ToInt(last))
<1>1. ToInt(last) \in Int
  BY IdInt DEF NumberingInv, TypeOK
<1>2. ToInt(last) <= p
  BY DEF NumberingInv
<1>3. CASE last' = last
  <2>1. ToInt(last') = ToInt(last)
    BY <1>3
  <2>2. ToInt(last') <= q
    BY <1>1, <1>2, <2>1
  <2> QED
    BY <1>3, <2>2 DEF NumberingInv
<1>4. CASE ToInt(last') > p /\ ToInt(last') <= q
  <2>1. ToInt(last') \in Int
    BY IdInt DEF TypeOK
  <2>2. ToInt(last') > ToInt(last)
    BY <1>1, <1>2, <1>4, <2>1
  <2> QED
    BY <1>4, <2>2 DEF NumberingInv
<1> QED
  BY <1>3, <1>4

\* A step of one of the loops keeps the invariant, and the id it gives is
\* larger than all before.
StepAscends == NumberingInv' /\ (last' # last => ToInt(last') > ToInt(last))

\* An event of the begin phase.
LEMMA BeginEventStep == WithinBudget /\ NumberingInv /\ BeginEvent => StepAscends
<1> SUFFICES ASSUME WithinBudget, NumberingInv, BeginEvent PROVE StepAscends
  OBVIOUS
<1>1. /\ height \in Nat /\ tx \in Nat /\ index \in Nat
      /\ index + 1 \in Nat /\ tx + 1 \in Nat /\ height + 1 \in Nat
      /\ Len(finalize) \in 0 .. MaxFinalize
      /\ index < Len(finalize)
  BY FinalizeLength, NumberingAssumption DEF NumberingInv, TypeOK, BeginEvent
<1>2. BeginBlock(height, index + 1) \in Ids /\ BeginBlock(height, index + 1).height = height
  BY <1>1, IdFacts
<1>3. TypeOK'
  BY <1>1, <1>2, NumberingAssumption DEF NumberingInv, TypeOK, BeginEvent
<1>4. Place(height, phase, tx, index) = height * HeightScale + index
  BY <1>1, PlaceFacts DEF BeginEvent
<1>5. height' = height /\ phase' = "begin" /\ tx' = tx /\ index' = index + 1
  BY DEF BeginEvent
<1>6. Place(height, phase, tx, index)' = height * HeightScale + (index + 1)
  BY <1>1, <1>5, PlaceFacts
<1>7. Place(height, phase, tx, index) \in Nat /\ Place(height, phase, tx, index)' \in Nat
      /\ Place(height, phase, tx, index) < Place(height, phase, tx, index)'
  <2>1. height * HeightScale \in Nat /\ (tx + 1) * TxIndexScale \in Nat
    BY <1>1, PlaceFacts
  <2> QED
    BY <1>1, <1>4, <1>6, <2>1, ScalePositive
<1>8. last' = last \/ ToInt(last') = Place(height, phase, tx, index)'
  <2>1. last' = last \/ last' = BeginBlock(height, index + 1)
    BY DEF BeginEvent
  <2>2. ToInt(BeginBlock(height, index + 1)) = height * HeightScale + (index + 1)
    BY <1>1, IdFacts
  <2> QED
    BY <1>6, <2>1, <2>2
<1>9. (phase = "txs" /\ tx = MaxTxs => index = 0)'
  BY <1>1, <1>5, NumberingAssumption
<1> QED
  BY <1>3, <1>7, <1>8, <1>9, NumberingIndexes DEF StepAscends

\* An event of the end phase.
LEMMA EndEventStep == WithinBudget /\ NumberingInv /\ EndEvent => StepAscends
<1> SUFFICES ASSUME WithinBudget, NumberingInv, EndEvent PROVE StepAscends
  OBVIOUS
<1>1. /\ height \in Nat /\ tx \in Nat /\ index \in Nat
      /\ index + 1 \in Nat /\ tx + 1 \in Nat /\ height + 1 \in Nat
      /\ Len(finalize) \in 0 .. MaxFinalize
      /\ index < Len(finalize)
  BY FinalizeLength, NumberingAssumption DEF NumberingInv, TypeOK, EndEvent
<1>2. EndBlock(height, index + 1) \in Ids /\ EndBlock(height, index + 1).height = height
  BY <1>1, IdFacts
<1>3. TypeOK'
  BY <1>1, <1>2, NumberingAssumption DEF NumberingInv, TypeOK, EndEvent
<1>4. Place(height, phase, tx, index) = height * HeightScale + 9 * TypeDigit + index
  BY <1>1, PlaceFacts DEF EndEvent
<1>5. height' = height /\ phase' = "end" /\ tx' = tx /\ index' = index + 1
  BY DEF EndEvent
<1>6. Place(height, phase, tx, index)' = height * HeightScale + 9 * TypeDigit + (index + 1)
  BY <1>1, <1>5, PlaceFacts
<1>7. Place(height, phase, tx, index) \in Nat /\ Place(height, phase, tx, index)' \in Nat
      /\ Place(height, phase, tx, index) < Place(height, phase, tx, index)'
  <2>1. height * HeightScale \in Nat /\ (tx + 1) * TxIndexScale \in Nat
    BY <1>1, PlaceFacts
  <2> QED
    BY <1>1, <1>4, <1>6, <2>1, ScalePositive
<1>8. last' = last \/ ToInt(last') = Place(height, phase, tx, index)'
  <2>1. last' = last \/ last' = EndBlock(height, index + 1)
    BY DEF EndEvent
  <2>2. ToInt(EndBlock(height, index + 1)) = height * HeightScale + 9 * TypeDigit + (index + 1)
    BY <1>1, IdFacts
  <2> QED
    BY <1>6, <2>1, <2>2
<1>9. (phase = "txs" /\ tx = MaxTxs => index = 0)'
  BY <1>1, <1>5, NumberingAssumption
<1> QED
  BY <1>3, <1>7, <1>8, <1>9, NumberingIndexes DEF StepAscends

\* An event of a transaction.
LEMMA TxEventStep == WithinBudget /\ NumberingInv /\ NumberTxEvent => StepAscends
<1> SUFFICES ASSUME WithinBudget, NumberingInv, NumberTxEvent PROVE StepAscends
  OBVIOUS
<1>1. /\ height \in Nat /\ tx \in Nat /\ index \in Nat
      /\ index + 1 \in Nat /\ tx + 1 \in Nat /\ height + 1 \in Nat
      /\ Len(finalize) \in 0 .. MaxFinalize
      /\ tx < MaxTxs /\ index < MaxTxEvents
  BY FinalizeLength, NumberingAssumption DEF NumberingInv, TypeOK, NumberTxEvent
<1>2. TxEvent(height, tx + 1, index + 1) \in Ids /\ TxEvent(height, tx + 1, index + 1).height = height
  BY <1>1, IdFacts
<1>3. TypeOK'
  BY <1>1, <1>2, NumberingAssumption DEF NumberingInv, TypeOK, NumberTxEvent
<1>4. Place(height, phase, tx, index) = height * HeightScale + TypeDigit + (tx + 1) * TxIndexScale + index
  BY <1>1, PlaceFacts DEF NumberTxEvent
<1>5. height' = height /\ phase' = "txs" /\ tx' = tx /\ index' = index + 1
  BY DEF NumberTxEvent
<1>6. Place(height, phase, tx, index)' = height * HeightScale + TypeDigit + (tx + 1) * TxIndexScale + (index + 1)
  BY <1>1, <1>5, PlaceFacts
<1>7. Place(height, phase, tx, index) \in Nat /\ Place(height, phase, tx, index)' \in Nat
      /\ Place(height, phase, tx, index) < Place(height, phase, tx, index)'
  <2>1. height * HeightScale \in Nat /\ (tx + 1) * TxIndexScale \in Nat
    BY <1>1, PlaceFacts
  <2> QED
    BY <1>1, <1>4, <1>6, <2>1, ScalePositive
<1>8. last' = last \/ ToInt(last') = Place(height, phase, tx, index)'
  <2>1. last' = last \/ last' = TxEvent(height, tx + 1, index + 1)
    BY DEF NumberTxEvent
  <2>2. ToInt(TxEvent(height, tx + 1, index + 1)) = height * HeightScale + TypeDigit + (tx + 1) * TxIndexScale + (index + 1)
    BY <1>1, IdFacts
  <2> QED
    BY <1>6, <2>1, <2>2
<1>9. (phase = "txs" /\ tx = MaxTxs => index = 0)'
  BY <1>1, <1>5, NumberingAssumption
<1> QED
  BY <1>3, <1>7, <1>8, <1>9, NumberingIndexes DEF StepAscends

\* The transactions lie above the begin phase.
LEMMA EnterTxsStep == WithinBudget /\ NumberingInv /\ EnterTxs => StepAscends
<1> SUFFICES ASSUME WithinBudget, NumberingInv, EnterTxs PROVE StepAscends
  OBVIOUS
<1>1. /\ height \in Nat /\ tx \in Nat /\ index \in Nat
      /\ index + 1 \in Nat /\ tx + 1 \in Nat /\ height + 1 \in Nat
      /\ Len(finalize) \in 0 .. MaxFinalize
      /\ index = Len(finalize)
  BY FinalizeLength, NumberingAssumption DEF NumberingInv, TypeOK, EnterTxs
<1>3. TypeOK'
  BY <1>1, NumberingAssumption DEF NumberingInv, TypeOK, EnterTxs
<1>4. Place(height, phase, tx, index) = height * HeightScale + index
  BY <1>1, PlaceFacts DEF EnterTxs
<1>5. height' = height /\ phase' = "txs" /\ tx' = 0 /\ index' = 0
  BY DEF EnterTxs
<1>6. Place(height, phase, tx, index)' = height * HeightScale + TypeDigit + (0 + 1) * TxIndexScale + 0
  BY <1>1, <1>5, PlaceFacts
<1>7. Place(height, phase, tx, index) \in Nat /\ Place(height, phase, tx, index)' \in Nat
      /\ Place(height, phase, tx, index) <= Place(height, phase, tx, index)'
  <2>1. index < TypeDigit
    BY <1>1, NumberingAssumption, ScalePositive DEF WithinBudget
  <2>2. height * HeightScale \in Nat
    BY <1>1, PlaceFacts
  <2>3. (0 + 1) * TxIndexScale = TxIndexScale
    BY ScaleAssumption
  <2> QED
    BY <1>1, <1>4, <1>6, <2>1, <2>2, <2>3, ScalePositive, ScaleAssumption
<1>8. last' = last
  BY DEF EnterTxs
<1>9. (phase = "txs" /\ tx = MaxTxs => index = 0)'
  BY <1>1, <1>5, NumberingAssumption
<1> QED
  BY <1>3, <1>7, <1>8, <1>9, NumberingIndexes DEF StepAscends

\* The next transaction lies above the events of this one.
LEMMA NextTxStep == WithinBudget /\ NumberingInv /\ NextTx => StepAscends
<1> SUFFICES ASSUME WithinBudget, NumberingInv, NextTx PROVE StepAscends
  OBVIOUS
<1>1. /\ height \in Nat /\ tx \in Nat /\ index \in Nat
      /\ index + 1 \in Nat /\ tx + 1 \in Nat /\ height + 1 \in Nat
      /\ Len(finalize) \in 0 .. MaxFinalize
      /\ tx < MaxTxs /\ index <= MaxTxEvents
  BY FinalizeLength, NumberingAssumption DEF NumberingInv, TypeOK, NextTx
<1>3. TypeOK'
  BY <1>1, NumberingAssumption DEF NumberingInv, TypeOK, NextTx
<1>4. Place(height, phase, tx, index) = height * HeightScale + TypeDigit + (tx + 1) * TxIndexScale + index
  BY <1>1, PlaceFacts DEF NextTx
<1>5. height' = height /\ phase' = "txs" /\ tx' = tx + 1 /\ index' = 0
  BY DEF NextTx
<1>6. Place(height, phase, tx, index)' = height * HeightScale + TypeDigit + ((tx + 1) + 1) * TxIndexScale + 0
  BY <1>1, <1>5, PlaceFacts
<1>7. Place(height, phase, tx, index) \in Nat /\ Place(height, phase, tx, index)' \in Nat
      /\ Place(height, phase, tx, index) <= Place(height, phase, tx, index)'
  <2>1. index < TxIndexScale
    BY <1>1, NumberingAssumption, ScaleAssumption DEF WithinBudget
  <2>2. /\ height * HeightScale \in Nat /\ (tx + 1) * TxIndexScale \in Nat
        /\ ((tx + 1) + 1) * TxIndexScale = (tx + 1) * TxIndexScale + TxIndexScale
    BY <1>1, PlaceFacts
  <2> QED
    BY <1>1, <1>4, <1>6, <2>1, <2>2, ScalePositive, ScaleAssumption
<1>8. last' = last
  BY DEF NextTx
<1>9. (phase = "txs" /\ tx = MaxTxs => index = 0)'
  BY <1>1, <1>5, NumberingAssumption
<1> QED
  BY <1>3, <1>7, <1>8, <1>9, NumberingIndexes DEF StepAscends

\* The end phase lies above the last transaction.
LEMMA EnterEndStep == WithinBudget /\ NumberingInv /\ EnterEnd => StepAscends
<1> SUFFICES ASSUME WithinBudget, NumberingInv, EnterEnd PROVE StepAscends
  OBVIOUS
<1>1. /\ height \in Nat /\ tx \in Nat /\ index \in Nat
      /\ index + 1 \in Nat /\ tx + 1 \in Nat /\ height + 1 \in Nat
      /\ Len(finalize) \in 0 .. MaxFinalize
      /\ tx <= MaxTxs /\ index <= MaxTxEvents /\ (tx = MaxTxs => index = 0)
  BY FinalizeLength, NumberingAssumption DEF NumberingInv, TypeOK, EnterEnd
<1>3. TypeOK'
  BY <1>1, NumberingAssumption DEF NumberingInv, TypeOK, EnterEnd
<1>4. Place(height, phase, tx, index) = height * HeightScale + TypeDigit + (tx + 1) * TxIndexScale + index
  BY <1>1, PlaceFacts DEF EnterEnd
<1>5. height' = height /\ phase' = "end" /\ tx' = tx /\ index' = 0
  BY DEF EnterEnd
<1>6. Place(height, phase, tx, index)' = height * HeightScale + 9 * TypeDigit + 0
  BY <1>1, <1>5, PlaceFacts
<1>7. Place(height, phase, tx, index) \in Nat /\ Place(height, phase, tx, index)' \in Nat
      /\ Place(height, phase, tx, index) <= Place(height, phase, tx, index)'
  <2>1. index < TxIndexScale
    BY <1>1, NumberingAssumption, ScaleAssumption DEF WithinBudget
  <2>2. /\ height * HeightScale \in Nat /\ (tx + 1) * TxIndexScale \in Nat
        /\ ((tx + 1) + 1) * TxIndexScale = (tx + 1) * TxIndexScale + TxIndexScale
    BY <1>1, PlaceFacts
  <2>3. (tx + 1) * TxIndexScale + index <= 8 * TypeDigit
    <3>1. CASE tx = MaxTxs
      BY <1>1, <2>2, <3>1, TxsFit
    <3>2. CASE tx < MaxTxs
      <4>1. tx + 1 <= MaxTxs
        BY <1>1, <3>2, NumberingAssumption
      <4>2. ((tx + 1) + 1) * TxIndexScale <= 8 * TypeDigit
        BY <1>1, <4>1, TxsFit
      <4> QED
        BY <1>1, <2>1, <2>2, <4>2, ScalePositive, ScaleAssumption
    <3> QED
      BY <1>1, <3>1, <3>2, NumberingAssumption
  <2> QED
    BY <1>1, <1>4, <1>6, <2>2, <2>3, ScalePositive
<1>8. last' = last
  BY DEF EnterEnd
<1>9. (phase = "txs" /\ tx = MaxTxs => index = 0)'
  BY <1>1, <1>5, NumberingAssumption
<1> QED
  BY <1>3, <1>7, <1>8, <1>9, NumberingIndexes DEF StepAscends

\* The next block lies above the whole of this one.
LEMMA NextBlockStep == WithinBudget /\ NumberingInv /\ NextBlock => StepAscends
<1> SUFFICES ASSUME WithinBudget, NumberingInv, NextBlock PROVE StepAscends
  OBVIOUS
<1>1. /\ height \in Nat /\ tx \in Nat /\ index \in Nat
      /\ index + 1 \in Nat /\ tx + 1 \in Nat /\ height + 1 \in Nat
      /\ Len(finalize) \in 0 .. MaxFinalize
      /\ index = Len(finalize) /\ height < MaxHeight
  BY FinalizeLength, NumberingAssumption DEF NumberingInv, TypeOK, NextBlock
<1>3. TypeOK'
  BY <1>1, FinalizeLength, NumberingAssumption DEF NumberingInv, TypeOK, NextBlock
<1>4. Place(height, phase, tx, index) = height * HeightScale + 9 * TypeDigit + index
  BY <1>1, PlaceFacts DEF NextBlock
<1>5. height' = height + 1 /\ phase' = "begin" /\ tx' = 0 /\ index' = 0
  BY DEF NextBlock
<1>6. Place(height, phase, tx, index)' = (height + 1) * HeightScale + 0
  BY <1>1, <1>5, PlaceFacts
<1>7. Place(height, phase, tx, index) \in Nat /\ Place(height, phase, tx, index)' \in Nat
      /\ Place(height, phase, tx, index) <= Place(height, phase, tx, index)'
  <2>1. index < TypeDigit
    BY <1>1, NumberingAssumption, ScalePositive DEF WithinBudget
  <2>2. height * HeightScale \in Nat /\ (height + 1) * HeightScale = height * HeightScale + HeightScale
    BY <1>1, PlaceFacts
  <2> QED
    BY <1>1, <1>4, <1>6, <2>1, <2>2, ScalePositive
<1>8. last' = last
  BY DEF NextBlock
<1>9. (phase = "txs" /\ tx = MaxTxs => index = 0)'
  BY <1>1, <1>5, NumberingAssumption
<1> QED
  BY <1>3, <1>7, <1>8, <1>9, NumberingIndexes DEF StepAscends

LEMMA NumberingStutter == NumberingInv /\ UNCHANGED vars => StepAscends
BY DEF NumberingInv, TypeOK, vars, StepAscends, Place

LEMMA EveryStepAscends == WithinBudget /\ NumberingInv /\ [Next]_vars => StepAscends
BY BeginEventStep, EnterTxsStep, TxEventStep, NextTxStep, EnterEndStep, EndEventStep,
   NextBlockStep, NumberingStutter DEF Next

LEMMA NumberingAlways == WithinBudget /\ Spec => []NumberingInv
<1>1. WithinBudget /\ NumberingInv /\ [Next]_vars => NumberingInv'
  BY EveryStepAscends DEF StepAscends
<1>2. WithinBudget => (Init /\ [][Next]_vars => []NumberingInv)
  <2>1. SUFFICES ASSUME WithinBudget PROVE Init /\ [][Next]_vars => []NumberingInv
    OBVIOUS
  <2>2. NumberingInv /\ [Next]_vars => NumberingInv'
    BY <1>1, <2>1
  <2> QED
    BY <2>2, NumberingInit, PTL
<1> QED
  BY <1>2 DEF Spec

\* Within the budget, every event gets a larger id than all events before it,
\* whatever the scales of the encoding and the chain.
THEOREM IdsAlwaysAscend == WithinBudget => (Spec => IdsAscend)
<1> SUFFICES ASSUME WithinBudget PROVE Spec => IdsAscend
  OBVIOUS
<1>1. NumberingInv /\ [Next]_vars => [last' # last => ToInt(last') > ToInt(last)]_vars
  BY EveryStepAscends DEF StepAscends
<1>2. Spec => []NumberingInv
  BY NumberingAlways
<1> QED
  BY <1>1, <1>2, PTL DEF Spec, IdsAscend

------------------------------------------------------------------------------
\* An id can be read back.

\* What lies in a block is divided into the block's height and the rest.
LEMMA RestOfBlock ==
  ASSUME NEW h \in Nat, NEW within \in Nat, within < HeightScale
  PROVE  LET id == h * HeightScale + within
         IN  /\ FirstIdAtHeight(h) <= id /\ id < FirstIdAfterHeight(h)
             /\ HeightOf(id) = h /\ id % HeightScale = within
<1>1. HeightScale \in Nat \ {0} /\ within \in 0 .. HeightScale - 1
  BY ScalePositive
<1>2. h * HeightScale \in Nat /\ (h + 1) * HeightScale = h * HeightScale + HeightScale
  BY <1>1
<1> QED BY <1>1, <1>2, DivisionOf DEF FirstIdAtHeight, FirstIdAfterHeight, HeightOf

\* The parts of an id given within the budget.
PartsInv ==
  CASE last.location = "BeginBlock" -> last.txIndex = 0 /\ last.eventIndex <= MaxFinalize
    [] last.location = "EndBlock" -> last.txIndex = 0 /\ last.eventIndex <= MaxFinalize
    [] last.location = "TxsResults" -> last.txIndex <= MaxTxs /\ last.eventIndex <= MaxTxEvents

LEMMA PartsInit == Init => PartsInv
BY NumberingAssumption DEF Init, PartsInv, BeginBlock

LEMMA PartsStep == NumberingInv /\ PartsInv /\ [Next]_vars => PartsInv'
<1> SUFFICES ASSUME NumberingInv, PartsInv, [Next]_vars PROVE PartsInv'
  OBVIOUS
<1>0. /\ Len(finalize) \in Nat /\ Len(finalize) <= MaxFinalize /\ MaxFinalize \in Nat
      /\ index \in Nat /\ tx \in Nat /\ MaxTxs \in Nat /\ MaxTxEvents \in Nat
  BY FinalizeLength, NumberingAssumption DEF NumberingInv, TypeOK
<1>1. CASE BeginEvent
  <2>1. index < Len(finalize) /\ (last' = last \/ last' = BeginBlock(height, index + 1))
    BY <1>1 DEF BeginEvent
  <2>2. CASE last' = last
    BY <2>2 DEF PartsInv
  <2>3. CASE last' = BeginBlock(height, index + 1)
    <3>1. last'.location = "BeginBlock" /\ last'.txIndex = 0 /\ last'.eventIndex = index + 1
      BY <2>3 DEF BeginBlock
    <3>2. index + 1 <= MaxFinalize
      BY <1>0, <2>1
    <3> QED BY <3>1, <3>2 DEF PartsInv
  <2> QED BY <2>1, <2>2, <2>3
<1>2. CASE NumberTxEvent
  BY <1>0, <1>2 DEF NumberTxEvent, PartsInv, TxEvent
<1>3. CASE EndEvent
  <2>1. index < Len(finalize) /\ (last' = last \/ last' = EndBlock(height, index + 1))
    BY <1>3 DEF EndEvent
  <2>2. CASE last' = last
    BY <2>2 DEF PartsInv
  <2>3. CASE last' = EndBlock(height, index + 1)
    <3>1. last'.location = "EndBlock" /\ last'.txIndex = 0 /\ last'.eventIndex = index + 1
      BY <2>3 DEF EndBlock
    <3>2. index + 1 <= MaxFinalize
      BY <1>0, <2>1
    <3> QED BY <3>1, <3>2 DEF PartsInv
  <2> QED BY <2>1, <2>2, <2>3
<1>4. CASE UNCHANGED last
  BY <1>4 DEF PartsInv
<1> QED
  BY <1>1, <1>2, <1>3, <1>4 DEF Next, EnterTxs, NextTx, EnterEnd, NextBlock, vars

\* Each kind of id is read back as what it was made of.
LEMMA BeginBlockParses ==
  ASSUME WithinBudget, NEW h \in Nat, NEW i \in Nat, i <= MaxFinalize
  PROVE  LET id == ToInt(BeginBlock(h, i))
         IN  /\ FirstIdAtHeight(h) <= id /\ id < FirstIdAfterHeight(h)
             /\ HeightOf(id) = h /\ Parse(id) = BeginBlock(h, i)
<1>1. i < TypeDigit /\ i < HeightScale
  BY ScalePositive, NumberingAssumption DEF WithinBudget
<1>2. ToInt(BeginBlock(h, i)) = h * HeightScale + i
  BY IdFacts
<1> DEFINE id == h * HeightScale + i
<1>3. /\ FirstIdAtHeight(h) <= id /\ id < FirstIdAfterHeight(h)
      /\ HeightOf(id) = h /\ id % HeightScale = i
  BY <1>1, RestOfBlock
<1> HIDE DEF id
<1>4. Parse(id) = BeginBlock(h, i)
  BY <1>1, <1>3, ScalePositive DEF Parse
<1> QED BY <1>2, <1>3, <1>4 DEF id

LEMMA EndBlockParses ==
  ASSUME WithinBudget, NEW h \in Nat, NEW i \in Nat, i <= MaxFinalize
  PROVE  LET id == ToInt(EndBlock(h, i))
         IN  /\ FirstIdAtHeight(h) <= id /\ id < FirstIdAfterHeight(h)
             /\ HeightOf(id) = h
             /\ Parse(id) = [EndBlock(h, i) EXCEPT !.txIndex = EndBlockPseudoTx]
<1> DEFINE within == 9 * TypeDigit + i
           id == h * HeightScale + within
<1>1. i < TypeDigit /\ within \in Nat /\ within < HeightScale /\ 9 * TypeDigit <= within
  BY ScalePositive, NumberingAssumption DEF WithinBudget
<1>2. ToInt(EndBlock(h, i)) = id
  <2>1. h * HeightScale \in Nat
    BY PlaceFacts
  <2> QED BY <2>1, IdFacts, ScalePositive
<1>5. within % TypeDigit = i
  <2>1. i \in 0 .. TypeDigit - 1 /\ TypeDigit \in Nat \ {0}
    BY <1>1, ScalePositive
  <2> QED BY <2>1, DivisionOf
<1> HIDE DEF within
<1>3. /\ FirstIdAtHeight(h) <= id /\ id < FirstIdAfterHeight(h)
      /\ HeightOf(id) = h /\ id % HeightScale = within
  BY <1>1, RestOfBlock
<1> HIDE DEF id
<1>4. Parse(id) = [EndBlock(h, i) EXCEPT !.txIndex = EndBlockPseudoTx]
  <2>1. ~(within < TypeDigit) /\ ~(within < 9 * TypeDigit) /\ within >= 9 * TypeDigit
    BY <1>1, ScalePositive
  <2>2. Parse(id) = [EndBlock(h, within % TypeDigit) EXCEPT !.txIndex = EndBlockPseudoTx]
    BY <1>3, <2>1 DEF Parse
  <2> QED BY <1>5, <2>2
<1> QED BY <1>2, <1>3, <1>4

LEMMA TxEventParses ==
  ASSUME WithinBudget, NEW h \in Nat, NEW t \in Nat, t <= MaxTxs, NEW i \in Nat, i <= MaxTxEvents
  PROVE  LET id == ToInt(TxEvent(h, t, i))
         IN  /\ FirstIdAtHeight(h) <= id /\ id < FirstIdAfterHeight(h)
             /\ HeightOf(id) = h /\ Parse(id) = TxEvent(h, t, i)
<1> DEFINE inTxs == t * TxIndexScale + i
           within == TypeDigit + inTxs
           id == h * HeightScale + within
<1>0. i \in 0 .. TxIndexScale - 1 /\ TxIndexScale \in Nat \ {0} /\ t * TxIndexScale \in Nat
  BY NumberingAssumption, ScaleAssumption DEF WithinBudget
<1>1. inTxs \in Nat /\ inTxs < 8 * TypeDigit
  <2>1. (t + 1) * TxIndexScale <= 8 * TypeDigit
    BY TxsFit
  <2>2. (t + 1) * TxIndexScale = t * TxIndexScale + TxIndexScale
    BY <1>0
  <2> QED BY <1>0, <2>1, <2>2, ScalePositive
<1>2. ToInt(TxEvent(h, t, i)) = id
  <2>1. h * HeightScale \in Nat
    BY PlaceFacts
  <2>2. ToInt(TxEvent(h, t, i)) = h * HeightScale + TypeDigit + t * TxIndexScale + i
    BY IdFacts
  <2> QED BY <1>0, <2>1, <2>2, ScalePositive
<1>3. inTxs \div TxIndexScale = t
  BY <1>0, DivisionOf
<1>4. within % TxIndexScale = i
  <2>1. within = (TxSlots + t) * TxIndexScale + i
    <3>1. (TxSlots + t) * TxIndexScale = TxSlots * TxIndexScale + t * TxIndexScale
      BY <1>0, ScaleAssumption
    <3>2. TxSlots * TxIndexScale \in Nat
      BY ScaleAssumption
    <3> QED BY <1>0, <3>1, <3>2 DEF TypeDigit
  <2> DEFINE a == TxSlots + t
  <2>2. a \in Int /\ within = a * TxIndexScale + i
    BY <2>1, ScaleAssumption
  <2> HIDE DEF within, a
  <2> QED BY <1>0, <2>2, DivisionOf
<1> HIDE DEF inTxs
<1>5. within \in Nat /\ within < HeightScale /\ TypeDigit <= within /\ within < 9 * TypeDigit
      /\ within - TypeDigit = inTxs
  BY <1>1, ScalePositive
<1> HIDE DEF within
<1>6. /\ FirstIdAtHeight(h) <= id /\ id < FirstIdAfterHeight(h)
      /\ HeightOf(id) = h /\ id % HeightScale = within
  BY <1>5, RestOfBlock
<1> HIDE DEF id
<1>7. Parse(id) = TxEvent(h, t, i)
  <2>1. ~(within < TypeDigit) /\ within >= TypeDigit /\ ~(within >= 9 * TypeDigit)
    BY <1>5, ScalePositive
  <2>2. Parse(id) = TxEvent(h, (within - TypeDigit) \div TxIndexScale, within % TxIndexScale)
    BY <1>5, <1>6, <2>1 DEF Parse
  <2> QED BY <1>3, <1>4, <1>5, <2>2
<1> QED BY <1>2, <1>6, <1>7

\* Within the budget, the bounds of a height enclose the ids of its block and no
\* others, and an id says which event of which transaction it is
\* (eventid.rs:82-140).
THEOREM IdsAlwaysCarryTheirPlace == WithinBudget => (Spec => []IdsCarryTheirPlace)
<1> SUFFICES ASSUME WithinBudget PROVE Spec => []IdsCarryTheirPlace
  OBVIOUS
<1>1. ASSUME NumberingInv, PartsInv
      PROVE  IdsCarryTheirPlace
  <2>1. last \in Ids
    BY <1>1 DEF NumberingInv, TypeOK
  <2>2. PICK h \in Nat, t \in Nat, i \in Nat, where \in Locations :
          last = [height |-> h, location |-> where, txIndex |-> t, eventIndex |-> i]
    BY <2>1 DEF Ids
  <2>3. CASE where = "BeginBlock"
    <3>1. t = 0 /\ i <= MaxFinalize /\ last = BeginBlock(h, i)
      BY <1>1, <2>2, <2>3 DEF PartsInv, BeginBlock
    <3> QED BY <2>2, <2>3, <3>1, BeginBlockParses DEF IdsCarryTheirPlace
  <2>4. CASE where = "EndBlock"
    <3>1. t = 0 /\ i <= MaxFinalize /\ last = EndBlock(h, i)
      BY <1>1, <2>2, <2>4 DEF PartsInv, EndBlock
    <3> QED BY <2>2, <2>4, <3>1, EndBlockParses DEF IdsCarryTheirPlace
  <2>5. CASE where = "TxsResults"
    <3>1. t <= MaxTxs /\ i <= MaxTxEvents /\ last = TxEvent(h, t, i)
      BY <1>1, <2>2, <2>5 DEF PartsInv, TxEvent
    <3> QED BY <2>2, <2>5, <3>1, TxEventParses DEF IdsCarryTheirPlace
  <2> QED BY <2>3, <2>4, <2>5 DEF Locations
<1>2. Spec => []NumberingInv
  BY NumberingAlways
<1> QED
  BY <1>1, <1>2, PartsInit, PartsStep, PTL DEF Spec

------------------------------------------------------------------------------
\* The depths.

\* Depths and rows are kept for the same names, and what is not due for a row
\* has its depth as the latest one.
RowsInv ==
  /\ DOMAIN depth = Names
  /\ LatestRowsSuffice

\* Adding moves changes no depth of a pool that is not moved.
LEMMA MovedElsewhere ==
  ASSUME NEW d, NEW moves
  PROVE  /\ DOMAIN Moved(d, moves) = DOMAIN d
         /\ \A k \in DOMAIN d \ DOMAIN moves : Moved(d, moves)[k] = d[k]
BY DEF Moved

LEMMA RowsInit == PoolInit => RowsInv
BY DEF PoolInit, RowsInv, LatestRowsSuffice

LEMMA RowsStep == RowsInv /\ [PoolNext]_poolVars => RowsInv'
<1> SUFFICES ASSUME RowsInv, [PoolNext]_poolVars PROVE RowsInv'
  OBVIOUS
<1>1. CASE Push
  <2>1. PICK e : IF Refused(e) THEN UNCHANGED <<depth, dirty, swaps>>
                 ELSE /\ depth' = Moved(depth, Moves(e))
                      /\ dirty' = Touch(DOMAIN Moves(e))
    BY <1>1 DEF Push
  <2>2. UNCHANGED written
    BY <1>1 DEF Push
  <2>3. CASE Refused(e)
    BY <2>1, <2>2, <2>3 DEF RowsInv, LatestRowsSuffice
  <2>4. CASE ~Refused(e)
    <3> DEFINE moves == Moves(e)
    <3>1. depth' = Moved(depth, moves) /\ dirty' = dirty \cup DOMAIN moves
      BY <2>1, <2>4 DEF Touch
    <3> HIDE DEF moves
    <3>2. /\ DOMAIN depth' = Names
          /\ \A k \in Names \ DOMAIN moves : depth'[k] = depth[k]
      BY <3>1, MovedElsewhere DEF RowsInv
    <3>3. \A k \in Names \ dirty' : written'[k] = depth'[k]
      BY <3>1, <3>2, <2>2 DEF RowsInv, LatestRowsSuffice
    <3> QED
      BY <3>2, <3>3 DEF RowsInv, LatestRowsSuffice
  <2> QED
    BY <2>3, <2>4
<1>2. CASE TakeChanged
  BY <1>2 DEF TakeChanged, RowsInv, LatestRowsSuffice
<1>3. CASE UNCHANGED poolVars
  BY <1>3 DEF poolVars, RowsInv, LatestRowsSuffice
<1> QED
  BY <1>1, <1>2, <1>3 DEF PoolNext

\* A pool's latest row is its depth unless it was touched in this block: the
\* diff of depth.rs, with no row for a pool that did not move.
THEOREM RowsAreCurrent == PoolSpec => []LatestRowsSuffice
<1>1. RowsInv => LatestRowsSuffice
  BY DEF RowsInv
<1> QED
  BY RowsInit, RowsStep, <1>1, PTL DEF PoolSpec

------------------------------------------------------------------------------
\* Whatever arrives of whatever THORNode sent, each pool's depth takes in what
\* can be read of it, and each recorded swap the RUNE that moved.

LEMMA AmountsAre == \A a, r, s, u \in Int : Amounts(a, r, s, u) \in Depths
BY DEF Amounts, Depths

LEMMA SumIsDepth ==
  ASSUME NEW d \in Depths, NEW e \in Depths
  PROVE  Sum2(d, e) \in Depths /\ Sum2(d, NoDepth) = d
BY DEF Sum2, Amounts, Depths, NoDepth

\* What some moves do to a pool.
Share(moves, p) == IF p \in DOMAIN moves THEN moves[p] ELSE NoDepth

\* A swap through a pool, from RUNE or to it.
SwapOf(sent, p, a, coin, emitted) ==
  /\ sent = Event("swap", [pool |-> p, coin |-> coin, emit_asset |-> emitted])
  /\ \/ coin = Coin(Rune, 7) /\ emitted = Coin(a, 2)
     \/ coin = Coin(a, 2) /\ emitted = Coin(Rune, 5)

LEMMA SwapIs ==
  ASSUME NEW sent \in ThorSwaps
  PROVE  \E p \in Pools : \E a \in Tradable(p) : \E coin, emitted :
           SwapOf(sent, p, a, coin, emitted)
<1>1. PICK p \in Pools : sent \in UNION {
    {Event("swap", [pool |-> p, coin |-> Coin(Rune, 7), emit_asset |-> Coin(a, 2)]),
     Event("swap", [pool |-> p, coin |-> Coin(a, 2), emit_asset |-> Coin(Rune, 5)])}
    : a \in Tradable(p)}
  BY DEF ThorSwaps
<1>2. PICK a \in Tradable(p) : sent \in 
    {Event("swap", [pool |-> p, coin |-> Coin(Rune, 7), emit_asset |-> Coin(a, 2)]),
     Event("swap", [pool |-> p, coin |-> Coin(a, 2), emit_asset |-> Coin(Rune, 5)])}
  BY <1>1
<1> QED
  BY <1>2 DEF SwapOf

\* A deposit in either spelling, a withdrawal or a donation.
LiquidityOf(sent, s) ==
  \/ sent = Event("add_liquidity", [pool |-> L1(s), asset_amount |-> 2, rune_amount |-> 4,
                                    liquidity_provider_units |-> 3])
  \/ sent = Event("add", [pool |-> L1(s), asset_amount |-> 1, rune_amount |-> 0,
                          stake_units |-> 1])
  \/ sent = Event("withdraw", [pool |-> L1(s), coin |-> Coin(Rune, 0), emit_asset |-> 1,
                               emit_rune |-> 3, liquidity_provider_units |-> 2,
                               imp_loss_protection |-> 1])
  \/ sent = Event("donate", [pool |-> L1(s), coin |-> <<Coin(L1(s), 1), Coin(Rune, 2)>>])

LEMMA LiquidityIs ==
  ASSUME NEW sent \in ThorLiquidity
  PROVE  \E s \in Symbols : LiquidityOf(sent, s)
BY DEF ThorLiquidity, LiquidityOf

\* A correction of both sides of a pool, one up and one down.
CorrectionOf(sent, s, add) ==
  \/ sent = Event("errata", [asset |-> L1(s), asset_amt |-> 1, asset_add |-> add,
                             rune_amt |-> 2, rune_add |-> ~add])
  \/ sent = Event("pool_balance_change", [asset |-> L1(s), asset_amt |-> 3, asset_add |-> add,
                                          rune_amt |-> 1, rune_add |-> ~add])

LEMMA SignedIs ==
  ASSUME NEW sent \in ThorSigned
  PROVE  \E s \in Symbols, add \in BOOLEAN : CorrectionOf(sent, s, add)
BY DEF ThorSigned, CorrectionOf

LEMMA SlashIs ==
  ASSUME NEW sent \in ThorSlashes
  PROVE  \E s \in Symbols :
        \/ sent = Event("slash", [pool |-> L1(s), slashed |-> <<Coin(L1(s), -2), Coin(Rune, 3)>>])
        \/ sent = Event("slash", [pool |-> L1(s), slashed |-> <<Coin(Rune, -1)>>])
BY DEF ThorSlashes

LEMMA FeeIs ==
  ASSUME NEW sent \in ThorFees
  PROVE  \E a \in Charged, n \in {0, 2} :
           sent = Event("fee", [coins |-> Coin(a, 1), pool_deduct |-> n])
BY DEF ThorFees
\* An event has a type and attributes, none of them garbled as it is sent.
LEMMA EventShape ==
  ASSUME NEW sent \in ThorEvents
  PROVE  /\ DOMAIN sent = {"type", "attr"}
         /\ \A k \in DOMAIN sent.attr : sent.attr[k] # Garbled
         /\ ~Refused(sent)
<1>1. DOMAIN sent = {"type", "attr"}
  <2>1. CASE sent \in ThorSwaps
    BY <2>1, SwapIs DEF Event, SwapOf
  <2>2. CASE sent \in ThorLiquidity
    BY <2>2, LiquidityIs DEF Event, LiquidityOf
  <2>3. CASE sent \in ThorSigned
    <3>1. PICK s \in Symbols, add \in BOOLEAN : CorrectionOf(sent, s, add)
      BY <2>3, SignedIs
    <3> QED
      BY <3>1 DEF Event, CorrectionOf
  <2>4. CASE sent \in ThorSlashes
    BY <2>4, SlashIs DEF Event
  <2>5. CASE sent \in ThorGas
    BY <2>5 DEF ThorGas, Event
  <2>6. CASE sent \in ThorFees
    <3>1. PICK a \in Charged, n \in {0, 2} :
            sent = Event("fee", [coins |-> Coin(a, 1), pool_deduct |-> n])
      BY <2>6, FeeIs
    <3> QED
      BY <3>1 DEF Event
  <2>7. CASE sent \in ThorRewards
    <3>1. PICK r : sent = Event("rewards", [bond_reward |-> 1, per_pool |-> r])
      BY <2>7 DEF ThorRewards
    <3> QED
      BY <3>1 DEF Event
  <2> QED
    BY <2>1, <2>2, <2>3, <2>4, <2>5, <2>6, <2>7 DEF ThorEvents, ThorAdjustments
<1>2. \A k \in DOMAIN sent.attr : sent.attr[k] # Garbled
  BY GarbledAssumption
<1> QED
  BY <1>1, <1>2 DEF Refused

LEMMA GarbledAttribute ==
  ASSUME NEW sent \in ThorEvents, NEW k \in DOMAIN sent.attr,
         NEW e, e = [sent EXCEPT !.attr[k] = Garbled]
  PROVE  /\ e.type = sent.type /\ e.attr[k] = Garbled /\ DOMAIN e.attr = DOMAIN sent.attr
         /\ \A j \in DOMAIN sent.attr : j # k => e.attr[j] = sent.attr[j]
         /\ Readable(e) = <<>>
         /\ Refused(e) <=> <<sent.type, k>> \notin Lenient
<1>1. DOMAIN sent = {"type", "attr"} /\ \A j \in DOMAIN sent.attr : sent.attr[j] # Garbled
  BY EventShape
<1>2. /\ e.type = sent.type /\ e.attr[k] = Garbled /\ DOMAIN e.attr = DOMAIN sent.attr
      /\ \A j \in DOMAIN sent.attr : j # k => e.attr[j] = sent.attr[j]
  BY <1>1
<1>3. Readable(e) = <<>>
  BY <1>2 DEF Readable
<1>4. Refused(e) <=> <<sent.type, k>> \notin Lenient
  BY <1>1, <1>2 DEF Refused
<1> QED
  BY <1>2, <1>3, <1>4

\* The depth tracker does to the pools what can be read of an event.
MovesTold(e) ==
  /\ DOMAIN Moves(e) \subseteq Names
  /\ \A k \in DOMAIN Moves(e) : Moves(e)[k] \in Depths
  /\ \A p \in Pools : Share(Moves(e), p) = Share(Readable(e), p)

LEMMA PoolNames ==
  /\ Pools \subseteq Names /\ \A s \in Symbols : L1(s) \in Pools
  /\ NoName \in Names /\ NoName \notin Pools /\ Rune \notin Pools
  /\ \A s \in Symbols : Asset("Secure", s) \in Names \ Pools
<1>1. /\ Pools \subseteq Names /\ \A s \in Symbols : L1(s) \in Pools
      /\ NoName \in Names /\ \A s \in Symbols : Asset("Secure", s) \in Names
  BY DEF Pools, Names, L1
<1>2. \A p \in Pools : p.kind \in {"Native", "Derived"}
  BY DEF Pools, Asset
<1>3. NoName.kind = "Unknown" /\ Rune.kind = "Rune" /\ \A s : Asset("Secure", s).kind = "Secure"
  BY DEF NoName, Rune, Asset
<1> QED
  BY <1>1, <1>2, <1>3

LEMMA OnlyIs ==
  ASSUME NEW p, NEW x
  PROVE  DOMAIN Only(p, x) = {p} /\ Only(p, x)[p] = x
BY DEF Only

LEMMA UnharmedReadable ==
  ASSUME NEW sent \in ThorEvents, sent.type \notin {"fee", "rewards", "slash"}
  PROVE  Readable(sent) = Effect(sent)
<1>1. \A k \in DOMAIN sent.attr : sent.attr[k] # Garbled
  BY EventShape
<1> QED
  BY <1>1 DEF Readable

LEMMA ToldOfOne ==
  ASSUME NEW e, NEW p \in Names, NEW x \in Depths, Moves(e) = Only(p, x),
         \/ Readable(e) = Only(p, x)
         \/ p \notin Pools /\ Readable(e) = <<>>
  PROVE  MovesTold(e)
<1>1. DOMAIN Moves(e) = {p} /\ Moves(e)[p] = x
  BY OnlyIs
<1>2. CASE Readable(e) = Only(p, x)
  BY <1>1, <1>2 DEF MovesTold, Share
<1>3. CASE p \notin Pools /\ Readable(e) = <<>>
  <2>1. DOMAIN Readable(e) = {}
    BY <1>3
  <2> QED
    BY <1>1, <1>3, <2>1 DEF MovesTold, Share
<1> QED
  BY <1>2, <1>3

LEMMA SwapTold == ASSUME NEW sent \in ThorSwaps PROVE MovesTold(sent)
<1>0. PICK p \in Pools : \E a \in Tradable(p) : \E coin, emitted :
            SwapOf(sent, p, a, coin, emitted)
  BY SwapIs
<1>1. PICK a \in Tradable(p) : \E coin, emitted : SwapOf(sent, p, a, coin, emitted)
  BY <1>0
<1>2. PICK coin, emitted : SwapOf(sent, p, a, coin, emitted)
  BY <1>1
<1>3. /\ sent.type = "swap" /\ sent.attr.pool = p /\ sent.attr.coin = coin
      /\ sent.attr.emit_asset = emitted
  BY <1>2 DEF Event, SwapOf
<1>4. /\ a.kind \in {"Native", "Derived", "Synth", "Trade", "Secure"} /\ a # Rune
      /\ Rune.kind = "Rune"
  BY DEF Tradable, Pools, Asset, Rune, Claims
<1>5. Moves(sent) = Only(p, SwapMove(Swap(sent)))
  BY <1>3 DEF Moves, Swap
<1>6. Readable(sent) = Only(p, Sum2(CreditOf(coin), Credit(emitted.asset, -emitted.e8)))
  <2>1. sent \in ThorEvents
    BY DEF ThorEvents
  <2> QED
    BY <1>3, <2>1, UnharmedReadable DEF Effect
<1>7. ASSUME NEW x \in Depths, SwapMove(Swap(sent)) = x,
             Sum2(CreditOf(coin), Credit(emitted.asset, -emitted.e8)) = x
      PROVE  MovesTold(sent)
  BY <1>5, <1>6, <1>7, ToldOfOne, PoolNames
<1>8. CASE coin = Coin(Rune, 7) /\ emitted = Coin(a, 2)
  <2>1. /\ Swap(sent).from_asset = Rune /\ Swap(sent).from_e8 = 7
        /\ Swap(sent).to_asset = a /\ Swap(sent).to_e8 = 2
    BY <1>3, <1>8 DEF Swap, Coin
  <2>2. CreditOf(coin) = Amounts(0, 7, 0, 0)
    BY <1>4, <1>8 DEF CreditOf, Credit, Coin
  <2>3. emitted.asset = a /\ emitted.e8 = 2
    BY <1>8 DEF Coin
  <2>4. CASE a.kind = "Synth"
    <3>1. SwapMove(Swap(sent)) = Amounts(0, 7, 2, 0)
      BY <2>1, <2>4 DEF SwapMove
    <3>2. Credit(a, -2) = Amounts(0, 0, 2, 0)
      BY <2>4 DEF Credit, Amounts
    <3>3. Sum2(Amounts(0, 7, 0, 0), Amounts(0, 0, 2, 0)) = Amounts(0, 7, 2, 0)
      BY DEF Sum2, Amounts
    <3> QED
      BY <1>7, <2>2, <2>3, <3>1, <3>2, <3>3, AmountsAre
  <2>5. CASE a.kind # "Synth"
    <3>1. SwapMove(Swap(sent)) = Amounts(-2, 7, 0, 0)
      BY <1>4, <2>1, <2>5 DEF SwapMove
    <3>2. Credit(a, -2) = Amounts(-2, 0, 0, 0)
      BY <1>4, <2>5 DEF Credit, Amounts
    <3>3. Sum2(Amounts(0, 7, 0, 0), Amounts(-2, 0, 0, 0)) = Amounts(-2, 7, 0, 0)
      BY DEF Sum2, Amounts
    <3> QED
      BY <1>7, <2>2, <2>3, <3>1, <3>2, <3>3, AmountsAre
  <2> QED
    BY <2>4, <2>5
<1>9. CASE coin = Coin(a, 2) /\ emitted = Coin(Rune, 5)
  <2>1. /\ Swap(sent).from_asset = a /\ Swap(sent).from_e8 = 2
        /\ Swap(sent).to_asset = Rune /\ Swap(sent).to_e8 = 5
    BY <1>3, <1>9 DEF Swap, Coin
  <2>2. Credit(Rune, -5) = Amounts(0, -5, 0, 0)
    BY <1>4 DEF Credit
  <2>3. emitted.asset = Rune /\ emitted.e8 = 5 /\ coin.asset = a /\ coin.e8 = 2
    BY <1>9 DEF Coin
  <2>4. CASE a.kind = "Synth"
    <3>1. SwapMove(Swap(sent)) = Amounts(0, -5, -2, 0)
      BY <1>4, <2>1, <2>4 DEF SwapMove
    <3>2. CreditOf(coin) = Amounts(0, 0, -2, 0)
      BY <2>3, <2>4 DEF CreditOf, Credit
    <3>3. Sum2(Amounts(0, 0, -2, 0), Amounts(0, -5, 0, 0)) = Amounts(0, -5, -2, 0)
      BY DEF Sum2, Amounts
    <3> QED
      BY <1>7, <2>2, <2>3, <3>1, <3>2, <3>3, AmountsAre
  <2>5. CASE a.kind # "Synth"
    <3>1. SwapMove(Swap(sent)) = Amounts(2, -5, 0, 0)
      BY <1>4, <2>1, <2>5 DEF SwapMove
    <3>2. CreditOf(coin) = Amounts(2, 0, 0, 0)
      BY <1>4, <2>3, <2>5 DEF CreditOf, Credit
    <3>3. Sum2(Amounts(2, 0, 0, 0), Amounts(0, -5, 0, 0)) = Amounts(2, -5, 0, 0)
      BY DEF Sum2, Amounts
    <3> QED
      BY <1>7, <2>2, <2>3, <3>1, <3>2, <3>3, AmountsAre
  <2> QED
    BY <2>4, <2>5
<1> QED
  BY <1>2, <1>8, <1>9 DEF SwapOf

LEMMA ShareOfOne ==
  ASSUME NEW k, NEW x, NEW p
  PROVE  Share(Only(k, x), p) = IF p = k THEN x ELSE NoDepth
BY DEF Share, Only

LEMMA L1Credit == \A s \in Symbols, n \in Int : Credit(L1(s), n) = Amounts(n, 0, 0, 0)
BY DEF L1, Asset, Credit

LEMMA RuneCredit == \A n \in Int : Credit(Rune, n) = Amounts(0, n, 0, 0)
BY DEF Rune, Asset, Credit

LEMMA PairToIs ==
  ASSUME NEW s \in Symbols, NEW a \in Int, NEW r \in Int
  PROVE  PairTo(L1(s), a, r) = Only(L1(s), Amounts(a, r, 0, 0))
<1>1. Sum2(Amounts(a, 0, 0, 0), Amounts(0, r, 0, 0)) = Amounts(a, r, 0, 0)
  BY DEF Sum2, Amounts
<1> QED
  BY <1>1, L1Credit, RuneCredit DEF PairTo

LEMMA CoinTotal ==
  ASSUME NEW coins, NEW S, NEW f, f = [i \in S |-> coins[i].e8]
  PROVE  SumOf(coins, S) = Total(f)
BY DEF SumOf, Total, MapThenSumSet, MapThenFoldSet

LEMMA DonatedRune ==
  ASSUME NEW coins, coins[2].e8 \in Int
  PROVE  SumOf(coins, {2}) = coins[2].e8
<1>1. PICK f : f = [i \in {2} |-> coins[i].e8]
  OBVIOUS
<1>2. SumOf(coins, {2}) = Total(f)
  BY <1>1, CoinTotal
<1>3. f \in [{2} -> Int] /\ f[2] = coins[2].e8 /\ Part(f, {2}) = f
  BY <1>1 DEF Part
<1>4. IsFiniteSet({2}) /\ {2} \ {2} = {}
  BY FS_Singleton
<1>5. \A x \in {2} : Over(f, {2}) = f[x] + Over(f, {2} \ {x})
  BY <1>3, <1>4, OverPick
<1>6. \A T \in SUBSET {2} : T = {} => Over(f, T) = 0
  BY <1>3, <1>4, OverPick
<1>7. Over(f, {2}) = f[2] + 0
  BY <1>4, <1>5, <1>6
<1> QED
  BY <1>2, <1>3, <1>7 DEF Over

LEMMA LiquidityTold == ASSUME NEW sent \in ThorLiquidity PROVE MovesTold(sent)
<1>1. PICK s \in Symbols : LiquidityOf(sent, s)
  BY LiquidityIs
<1> DEFINE pool == L1(s)
<1>2. pool \in Names
  BY PoolNames
<1>3. sent \in ThorEvents
  BY DEF ThorEvents
<1>4. CASE sent = Event("add_liquidity", [pool |-> pool, asset_amount |-> 2, rune_amount |-> 4,
                                          liquidity_provider_units |-> 3])
  <2>1. Readable(sent) = Only(pool, Amounts(2, 4, 0, 3))
    BY <1>3, <1>4, UnharmedReadable DEF Event, Effect
  <2>2. Moves(sent) = Only(pool, Amounts(2, 4, 0, 3))
    BY <1>4 DEF Event, Moves, Stake, Int0
  <2> QED
    BY <1>2, <2>1, <2>2, AmountsAre, ToldOfOne
<1>5. CASE sent = Event("add", [pool |-> pool, asset_amount |-> 1, rune_amount |-> 0,
                                stake_units |-> 1])
  <2>1. Readable(sent) = Only(pool, Amounts(1, 0, 0, 1))
    BY <1>3, <1>5, UnharmedReadable DEF Event, Effect
  <2>2. Moves(sent) = Only(pool, Amounts(1, 0, 0, 1))
    BY <1>5 DEF Event, Moves, Stake, Int0
  <2> QED
    BY <1>2, <2>1, <2>2, AmountsAre, ToldOfOne
<1>6. CASE sent = Event("withdraw", [pool |-> pool, coin |-> Coin(Rune, 0), emit_asset |-> 1,
                                     emit_rune |-> 3, liquidity_provider_units |-> 2,
                                     imp_loss_protection |-> 1])
  <2>1. Readable(sent) = Only(pool, Amounts(-1, -2, 0, -2))
    BY <1>3, <1>6, UnharmedReadable DEF Event, Effect
  <2>2. Moves(sent) = Only(pool, Amounts(-1, -2, 0, -2))
    BY <1>6 DEF Event, Moves, Withdraw, Int0
  <2> QED
    BY <1>2, <2>1, <2>2, AmountsAre, ToldOfOne
<1>7. CASE sent = Event("donate", [pool |-> pool, coin |-> <<Coin(pool, 1), Coin(Rune, 2)>>])
  <2> DEFINE coins == <<Coin(pool, 1), Coin(Rune, 2)>>
  <2>1. /\ sent.type = "donate" /\ sent.attr.pool = pool /\ sent.attr.coin = coins
    BY <1>7 DEF Event
  <2>2. /\ DOMAIN coins = {1, 2} /\ coins[1].asset = pool /\ coins[1].e8 = 1
        /\ coins[2].asset = Rune /\ coins[2].e8 = 2
    BY DEF Coin
  <2>3. Readable(sent) = Only(pool, Amounts(1, 2, 0, 0))
    <3>1. Readable(sent) = PairTo(pool, 1, 2)
      BY <1>3, <2>1, <2>2, UnharmedReadable DEF Effect
    <3> QED
      BY <3>1, PairToIs
  <2> HIDE DEF coins
  <2>4. {i \in DOMAIN coins : coins[i].asset # Rune} = {1} /\ DOMAIN coins \ {1} = {2}
    BY <2>2, PoolNames
  <2>5. Min({1}) = 1
    <3>1. {1} \in SUBSET Int /\ 1 \in {1} /\ \A m \in {1} : 1 <= m
      OBVIOUS
    <3> QED
      BY <3>1, MinIs
  <2>6. SumOf(coins, {2}) = 2
    BY <2>2, DonatedRune
  <2>7. SplitRune(coins) = [rune |-> 2, asset |-> 1]
    BY <2>2, <2>4, <2>5, <2>6 DEF SplitRune
  <2>8. Moves(sent) = Only(pool, Amounts(1, 2, 0, 0))
    BY <2>1, <2>7 DEF Moves, Donate
  <2> QED
    BY <1>2, <2>3, <2>8, AmountsAre, ToldOfOne
<1> QED
  BY <1>1, <1>4, <1>5, <1>6, <1>7 DEF LiquidityOf

LEMMA SignedNumber == ASSUME NEW n \in Int, NEW add PROVE Signed(n, add) \in Int
BY DEF Signed

LEMMA SignedTold == ASSUME NEW sent \in ThorSigned PROVE MovesTold(sent)
<1>1. PICK s \in Symbols, add \in BOOLEAN : CorrectionOf(sent, s, add)
  BY SignedIs
<1>2. L1(s) \in Names
  BY PoolNames
<1>3. sent \in ThorEvents /\ \A k \in DOMAIN sent.attr : sent.attr[k] # Garbled
  BY EventShape DEF ThorEvents, ThorAdjustments
<1>4. ASSUME NEW n \in Int, NEW m \in Int, sent.type \in {"errata", "pool_balance_change"},
             sent.attr = [asset |-> L1(s), asset_amt |-> n, asset_add |-> add,
                          rune_amt |-> m, rune_add |-> ~add]
      PROVE  MovesTold(sent)
  <2> DEFINE x == Amounts(Signed(n, add), Signed(m, ~add), 0, 0)
  <2>1. Signed(n, add) \in Int /\ Signed(m, ~add) \in Int
    BY SignedNumber
  <2>2. x \in Depths
    BY <2>1, AmountsAre
  <2>3. Readable(sent) = Only(L1(s), x)
    <3>1. Readable(sent) = PairTo(L1(s), Signed(n, add), Signed(m, ~add))
      BY <1>3, <1>4, UnharmedReadable DEF Effect
    <3> QED
      BY <2>1, <3>1, PairToIs
  <2>4. Moves(sent) = Only(L1(s), x)
    BY <1>3, <1>4 DEF Moves, Errata, PoolBalanceChange, Name, Int0
  <2> QED
    BY <1>2, <2>2, <2>3, <2>4, ToldOfOne
<1>5. \/ sent.type = "errata" /\ sent.attr = [asset |-> L1(s), asset_amt |-> 1, asset_add |-> add,
                                              rune_amt |-> 2, rune_add |-> ~add]
      \/ /\ sent.type = "pool_balance_change"
         /\ sent.attr = [asset |-> L1(s), asset_amt |-> 3, asset_add |-> add,
                         rune_amt |-> 1, rune_add |-> ~add]
  BY <1>1 DEF Event, CorrectionOf
<1> QED
  BY <1>4, <1>5

LEMMA GasTold == ASSUME NEW sent \in ThorGas PROVE MovesTold(sent)
<1>1. PICK s \in Symbols :
        sent = Event("gas", [asset |-> L1(s), asset_amt |-> 1, rune_amt |-> 3])
  BY DEF ThorGas
<1>2. L1(s) \in Names
  BY PoolNames
<1>3. sent \in ThorEvents /\ \A k \in DOMAIN sent.attr : sent.attr[k] # Garbled
  BY EventShape DEF ThorEvents, ThorAdjustments
<1>4. sent.type = "gas" /\ sent.attr = [asset |-> L1(s), asset_amt |-> 1, rune_amt |-> 3]
  BY <1>1 DEF Event
<1>5. Readable(sent) = Only(L1(s), Amounts(-1, 3, 0, 0))
  <2>1. Readable(sent) = PairTo(L1(s), -1, 3)
    BY <1>3, <1>4, UnharmedReadable DEF Effect
  <2> QED
    BY <2>1, PairToIs
<1>6. PoolOfAsset(L1(s)) = L1(s)
  BY DEF PoolOfAsset, L1, Asset
<1>7. Moves(sent) = Only(L1(s), Amounts(-1, 3, 0, 0))
  BY <1>3, <1>4, <1>6 DEF Moves, Gas, Name, Int0
<1> QED
  BY <1>2, <1>5, <1>7, AmountsAre, ToldOfOne

LEMMA FeeTold == ASSUME NEW sent \in ThorFees PROVE MovesTold(sent)
<1>1. PICK a \in Charged, n \in {0, 2} :
             sent = Event("fee", [coins |-> Coin(a, 1), pool_deduct |-> n])
  BY FeeIs
<1>2. PICK k \in {"Native"} \cup Claims, s \in Symbols : a = Asset(k, s)
  BY DEF Charged
<1>3. sent \in ThorEvents /\ \A j \in DOMAIN sent.attr : sent.attr[j] # Garbled
  BY EventShape DEF ThorEvents, ThorAdjustments
<1>4. /\ sent.type = "fee" /\ sent.attr = [coins |-> Coin(a, 1), pool_deduct |-> n]
      /\ sent.attr.coins.asset = a /\ a.kind = k /\ a.symbol = s
  BY <1>1, <1>2 DEF Event, Coin, Asset
<1>5. Fee(sent) = [asset |-> a, pool_deduct |-> n]
  BY <1>4 DEF Fee, Int0
<1>6. Readable(sent) = IF k = "Secure" THEN <<>> ELSE Only(L1(s), Amounts(0, -n, 0, 0))
  <2>1. Readable(sent) = IF k = "Secure" THEN <<>> ELSE Effect(sent)
    BY <1>3, <1>4 DEF Readable
  <2>2. Effect(sent) = PairTo(L1(s), 0, -n)
    BY <1>4 DEF Effect
  <2> QED
    BY <2>1, <2>2, PairToIs
<1>7. PoolOfAsset(a) = IF k = "Secure" THEN Asset("Secure", s) ELSE L1(s)
  BY <1>2, <1>4 DEF PoolOfAsset, Claims, L1, Asset
<1>8. CASE n = 0
  <2>1. Moves(sent) = <<>> /\ DOMAIN <<>> = {}
    BY <1>4, <1>5, <1>8 DEF Moves
  <2>2. \A p \in Pools : Share(Readable(sent), p) = NoDepth
    <3>1. CASE k = "Secure"
      BY <1>6, <2>1, <3>1 DEF Share
    <3>2. CASE k # "Secure"
      <4>1. Readable(sent) = Only(L1(s), NoDepth)
        BY <1>6, <1>8, <3>2 DEF NoDepth
      <4> QED
        BY <4>1, ShareOfOne
    <3> QED
      BY <3>1, <3>2
  <2> QED
    BY <2>1, <2>2 DEF MovesTold, Share
<1>9. CASE n = 2
  <2>1. Moves(sent) = Only(PoolOfAsset(a), Amounts(0, -2, 0, 0))
    BY <1>4, <1>5, <1>9 DEF Moves
  <2> QED
    BY <1>6, <1>7, <1>9, <2>1, AmountsAre, PoolNames, ToldOfOne
<1> QED
  BY <1>8, <1>9

\* The first readable amount of a slash moves the depth of its pool.
LEMMA SlashedTold ==
  ASSUME NEW e, NEW s \in Symbols, e.type = "slash", DOMAIN e.attr = {"pool", "slashed"},
         e.attr.pool = L1(s), e.attr.pool # Garbled, e.attr.slashed # Garbled,
         NEW list, list = e.attr.slashed, DOMAIN list \subseteq Nat,
         \A i \in DOMAIN list : /\ list[i].e8 = Garbled \/ list[i].e8 \in Int
                                /\ list[i].asset \in {L1(s), Rune}
  PROVE  MovesTold(e)
<1> DEFINE known == {i \in DOMAIN list : list[i].e8 # Garbled}
           first == CHOOSE i \in known : \A j \in known : i <= j
<1>1. L1(s) \in Names /\ NoName # Rune /\ L1(s) # Rune
  BY PoolNames DEF NoName, Rune, Asset
<1>2. Readable(e) = IF known = {} THEN <<>> ELSE Only(L1(s), CreditOf(list[first]))
  BY DEF Readable
<1>3. Slash(e) = [pool |-> L1(s),
                   slashed |-> IF known = {} THEN Coin(NoName, 0) ELSE list[Min(known)]]
  BY DEF Slash
<1>4. Moves(e) = LET c == Slash(e).slashed
                 IN  Only(L1(s), IF c.asset = Rune THEN Amounts(0, c.e8, 0, 0)
                                 ELSE Amounts(c.e8, 0, 0, 0))
  BY <1>3 DEF Moves
<1>5. CASE known = {}
  <2>1. Moves(e) = Only(L1(s), NoDepth)
    BY <1>1, <1>3, <1>4, <1>5 DEF Coin, NoDepth
  <2>2. Readable(e) = <<>> /\ DOMAIN <<>> = {}
    BY <1>2, <1>5
  <2>3. \A p : Share(Readable(e), p) = NoDepth /\ Share(Moves(e), p) = NoDepth
    BY <2>1, <2>2, ShareOfOne DEF Share
  <2>4. NoDepth \in Depths
    BY AmountsAre DEF NoDepth
  <2> HIDE DEF known, first
  <2>5. DOMAIN Only(L1(s), NoDepth) = {L1(s)} /\ Only(L1(s), NoDepth)[L1(s)] = NoDepth
    BY OnlyIs
  <2> QED
    BY <1>1, <2>1, <2>3, <2>4, <2>5 DEF MovesTold
<1>6. CASE known # {}
  <2>1. known \in SUBSET Nat
    OBVIOUS
  <2> HIDE DEF known
  <2>2. PICK n \in known : \A m \in known : n <= m
    BY <1>6, <2>1, LeastNatural
  <2>3. Min(known) = n
    BY <2>1, <2>2, MinIs
  <2>4. first = n
    <3>1. first \in known /\ \A m \in known : first <= m
      BY <2>2
    <3>2. first \in Nat /\ n \in Nat /\ first <= n /\ n <= first
      BY <2>1, <2>2, <3>1
    <3> QED
      BY <3>2
  <2> HIDE DEF first
  <2>5. list[n].e8 \in Int /\ list[n].asset \in {L1(s), Rune}
    BY DEF known
  <2>6. Slash(e).slashed = list[n]
    BY <1>3, <1>6, <2>3
  <2>7. CreditOf(list[n]) = IF list[n].asset = Rune THEN Amounts(0, list[n].e8, 0, 0)
                            ELSE Amounts(list[n].e8, 0, 0, 0)
    BY <1>1, <2>5, L1Credit, RuneCredit DEF CreditOf
  <2>8. Moves(e) = Only(L1(s), CreditOf(list[n]))
    BY <1>4, <2>6, <2>7
  <2>9. CreditOf(list[n]) \in Depths
    <3>1. 0 \in Int /\ list[n].e8 \in Int
      BY <2>5
    <3>2. /\ Amounts(0, list[n].e8, 0, 0) \in Depths
          /\ Amounts(list[n].e8, 0, 0, 0) \in Depths
      BY <3>1, AmountsAre
    <3> QED
      BY <2>7, <3>2
  <2> QED
    BY <1>1, <1>2, <1>6, <2>4, <2>8, <2>9, ToldOfOne
<1> QED
  BY <1>5, <1>6

\* A reward reaches every pool whose entry can be read.
LEMMA RewardsTold ==
  ASSUME NEW e, e.type = "rewards", DOMAIN e = {"type", "attr"},
         DOMAIN e.attr = {"bond_reward", "per_pool"}, e.attr.bond_reward # Garbled,
         NEW all, all = e.attr.per_pool, all # Garbled, DOMAIN all \subseteq Pools,
         \A p \in DOMAIN all : all[p] = Garbled \/ all[p] \in Int
  PROVE  MovesTold(e)
<1> DEFINE known == {p \in DOMAIN all : all[p] # Garbled}
<1>1. Moves(e) = [p \in known |-> Amounts(0, all[p], 0, 0)]
  BY DEF Moves, Rewards
<1>2. PICK seen : seen = [e EXCEPT !.attr.per_pool = [p \in known |-> all[p]]]
  OBVIOUS
<1>3. Readable(e) = Effect(seen)
  <2>1. ~\E k \in DOMAIN e.attr : e.attr[k] = Garbled
    OBVIOUS
  <2> QED
    BY <1>2, <2>1 DEF Readable
<1>4. seen.type = "rewards" /\ seen.attr.per_pool = [p \in known |-> all[p]]
  BY <1>2
<1>5. Effect(seen) = [p \in known |-> Credit(Rune, all[p])]
  BY <1>4 DEF Effect
<1>6. \A p \in known : all[p] \in Int
  OBVIOUS
<1>7. Readable(e) = Moves(e)
  BY <1>1, <1>3, <1>5, <1>6, RuneCredit
<1>8. \A p \in known : Amounts(0, all[p], 0, 0) \in Depths
  <2>1. ASSUME NEW n \in Int PROVE Amounts(0, n, 0, 0) \in Depths
    <3>1. 0 \in Int
      OBVIOUS
    <3> QED
      BY <3>1, AmountsAre
  <2> QED
    BY <1>6, <2>1
<1>9. DOMAIN Moves(e) = known /\ known \subseteq Names /\ \A p \in known : Moves(e)[p] \in Depths
  BY <1>1, <1>8, PoolNames
<1> QED
  BY <1>7, <1>9 DEF MovesTold

LEMMA ReceivedIs ==
  ASSUME NEW sent, NEW e \in Received(sent)
  PROVE  \/ e = sent
         \/ \E k \in DOMAIN sent.attr \ {"per_pool", "slashed"} :
              k \notin {"asset_add", "rune_add"} /\ e = [sent EXCEPT !.attr[k] = Garbled]
         \/ /\ "per_pool" \in DOMAIN sent.attr
            /\ \E p \in DOMAIN sent.attr.per_pool : e = [sent EXCEPT !.attr.per_pool[p] = Garbled]
         \/ /\ "slashed" \in DOMAIN sent.attr
            /\ \E i \in DOMAIN sent.attr.slashed : e = [sent EXCEPT !.attr.slashed[i].e8 = Garbled]
BY DEF Received

\* What the recorder does of an event is what can be read of it.
Right(e) ==
  /\ ~Refused(e) => MovesTold(e)
  /\ Refused(e) => Readable(e) = <<>>

\* Only a slash and the rewards have a list, and only these types a sender.
LEMMA TypesOfEvents ==
  ASSUME NEW sent \in ThorEvents
  PROVE  /\ sent.type = "swap" => sent \in ThorSwaps
         /\ sent.type = "errata" => sent \in ThorSigned
         /\ sent.type = "gas" => sent \in ThorGas
         /\ sent \in ThorSwaps => sent.type = "swap" /\ "per_pool" \notin DOMAIN sent.attr
                                                    /\ "slashed" \notin DOMAIN sent.attr
         /\ \/ sent \in ThorSlashes \cup ThorRewards
            \/ "per_pool" \notin DOMAIN sent.attr /\ "slashed" \notin DOMAIN sent.attr
<1> DEFINE listless == "per_pool" \notin DOMAIN sent.attr /\ "slashed" \notin DOMAIN sent.attr
<1>1. ASSUME sent \in ThorSwaps PROVE sent.type = "swap" /\ listless
  BY <1>1, SwapIs DEF Event, SwapOf
<1>2. ASSUME sent \in ThorLiquidity
      PROVE  sent.type \in {"add_liquidity", "add", "withdraw", "donate"} /\ listless
  BY <1>2, LiquidityIs DEF Event, LiquidityOf
<1>3. ASSUME sent \in ThorSigned
      PROVE  sent.type \in {"errata", "pool_balance_change"} /\ listless
  <2>1. PICK s \in Symbols, add \in BOOLEAN : CorrectionOf(sent, s, add)
    BY <1>3, SignedIs
  <2> QED
    BY <2>1 DEF Event, CorrectionOf
<1>4. ASSUME sent \in ThorSlashes PROVE sent.type = "slash"
  BY <1>4, SlashIs DEF Event
<1>5. ASSUME sent \in ThorGas PROVE sent.type = "gas" /\ listless
  BY <1>5 DEF ThorGas, Event
<1>6. ASSUME sent \in ThorFees PROVE sent.type = "fee" /\ listless
  <2>1. PICK a \in Charged, n \in {0, 2} :
          sent = Event("fee", [coins |-> Coin(a, 1), pool_deduct |-> n])
    BY <1>6, FeeIs
  <2> QED
    BY <2>1 DEF Event
<1>7. ASSUME sent \in ThorRewards PROVE sent.type = "rewards"
  <2>1. PICK r : sent = Event("rewards", [bond_reward |-> 1, per_pool |-> r])
    BY <1>7 DEF ThorRewards
  <2> QED
    BY <2>1 DEF Event
<1>8. sent \in ThorSwaps \/ sent \in ThorLiquidity \/ sent \in ThorSigned \/ sent \in ThorSlashes
      \/ sent \in ThorGas \/ sent \in ThorFees \/ sent \in ThorRewards
  BY DEF ThorEvents, ThorAdjustments
<1> HIDE DEF listless
<1>9. CASE sent \in ThorSwaps
  BY <1>1, <1>9 DEF listless
<1>10. CASE sent \in ThorLiquidity
  BY <1>2, <1>10, <1>1 DEF listless
<1>11. CASE sent \in ThorSigned
  BY <1>3, <1>11, <1>1 DEF listless
<1>12. CASE sent \in ThorSlashes
  BY <1>4, <1>12, <1>1 DEF listless
<1>13. CASE sent \in ThorGas
  BY <1>5, <1>13, <1>1 DEF listless
<1>14. CASE sent \in ThorFees
  BY <1>6, <1>14, <1>1 DEF listless
<1>15. CASE sent \in ThorRewards
  BY <1>7, <1>15, <1>1 DEF listless
<1> QED
  BY <1>8, <1>9, <1>10, <1>11, <1>12, <1>13, <1>14, <1>15

\* A correction or a gas report whose asset cannot be read moves nothing of a
\* pool.
LEMMA NamelessTold ==
  ASSUME NEW sent \in ThorEvents, sent.type \in {"errata", "gas"},
         NEW e, e.type = sent.type, e.attr["asset"] = Garbled, Readable(e) = <<>>,
         \A j \in DOMAIN sent.attr : j # "asset" => j \in DOMAIN e.attr /\ e.attr[j] = sent.attr[j]
  PROVE  MovesTold(e)
<1>1. NoName \in Names /\ NoName \notin Pools
  BY PoolNames
<1>2. CASE sent.type = "errata"
  <2>1. PICK s \in Symbols, add \in BOOLEAN : CorrectionOf(sent, s, add)
    BY <1>2, TypesOfEvents, SignedIs
  <2>2. sent.attr = [asset |-> L1(s), asset_amt |-> 1, asset_add |-> add,
                     rune_amt |-> 2, rune_add |-> ~add]
    BY <1>2, <2>1 DEF Event, CorrectionOf
  <2>3. /\ "asset_amt" \in DOMAIN e.attr /\ e.attr["asset_amt"] = 1
        /\ "rune_amt" \in DOMAIN e.attr /\ e.attr["rune_amt"] = 2
    BY <2>2
  <2>4. Moves(e) = Only(NoName,
                       Amounts(Signed(1, e.attr.asset_add), Signed(2, e.attr.rune_add), 0, 0))
    BY <1>2, <2>3 DEF Moves, Errata, Name, Int0
  <2>5. Signed(1, e.attr.asset_add) \in Int /\ Signed(2, e.attr.rune_add) \in Int
    BY SignedNumber
  <2>6. Amounts(Signed(1, e.attr.asset_add), Signed(2, e.attr.rune_add), 0, 0) \in Depths
    BY <2>5, AmountsAre
  <2> QED
    BY <1>1, <2>4, <2>6, ToldOfOne
<1>3. CASE sent.type = "gas"
  <2>1. PICK s \in Symbols : sent = Event("gas", [asset |-> L1(s), asset_amt |-> 1, rune_amt |-> 3])
    BY <1>3, TypesOfEvents DEF ThorGas
  <2>2. sent.attr = [asset |-> L1(s), asset_amt |-> 1, rune_amt |-> 3]
    BY <2>1 DEF Event
  <2>3. /\ "asset_amt" \in DOMAIN e.attr /\ e.attr["asset_amt"] = 1
        /\ "rune_amt" \in DOMAIN e.attr /\ e.attr["rune_amt"] = 3
    BY <2>2
  <2>4. PoolOfAsset(NoName) = NoName
    BY DEF PoolOfAsset, NoName, Asset
  <2>5. Moves(e) = Only(NoName, Amounts(-1, 3, 0, 0))
    BY <1>3, <2>3, <2>4 DEF Moves, Gas, Name, Int0
  <2>6. Amounts(-1, 3, 0, 0) \in Depths
    BY AmountsAre
  <2> QED
    BY <1>1, <2>5, <2>6, ToldOfOne
<1> QED
  BY <1>2, <1>3

LEMMA GarbledRight ==
  ASSUME NEW sent \in ThorEvents, NEW k \in DOMAIN sent.attr,
         NEW e, e = [sent EXCEPT !.attr[k] = Garbled]
  PROVE  Right(e)
<1>1. /\ e.type = sent.type /\ e.attr[k] = Garbled /\ DOMAIN e.attr = DOMAIN sent.attr
      /\ \A j \in DOMAIN sent.attr : j # k => e.attr[j] = sent.attr[j]
      /\ Readable(e) = <<>>
      /\ Refused(e) <=> <<sent.type, k>> \notin Lenient
  BY GarbledAttribute
<1>2. CASE <<sent.type, k>> \in Lenient
  <2>1. sent.type \in {"errata", "gas"} /\ k = "asset"
    BY <1>2 DEF Lenient
  <2>2. \A j \in DOMAIN sent.attr : j # "asset"
                                     => j \in DOMAIN e.attr /\ e.attr[j] = sent.attr[j]
    BY <1>1, <2>1
  <2>3. MovesTold(e)
    BY <1>1, <2>1, <2>2, NamelessTold
  <2> QED
    BY <1>1, <1>2, <2>3 DEF Right
<1>3. CASE <<sent.type, k>> \notin Lenient
  BY <1>1, <1>3 DEF Right
<1> QED
  BY <1>2, <1>3

\* The list of a slash, none of whose amounts, or one, came unreadable.
LEMMA SlashList ==
  ASSUME NEW sent \in ThorSlashes
  PROVE  \E s \in Symbols : \E list :
           /\ sent.type = "slash" /\ sent.attr = [pool |-> L1(s), slashed |-> list]
           /\ DOMAIN sent = {"type", "attr"}
           /\ DOMAIN list \subseteq Nat
           /\ \A i \in DOMAIN list : /\ list[i].e8 \in Int /\ list[i].asset \in {L1(s), Rune}
                                     /\ DOMAIN list[i] = {"asset", "e8"}
<1>1. PICK s \in Symbols :
        \/ sent = Event("slash", [pool |-> L1(s), slashed |-> <<Coin(L1(s), -2), Coin(Rune, 3)>>])
        \/ sent = Event("slash", [pool |-> L1(s), slashed |-> <<Coin(Rune, -1)>>])
  BY SlashIs
<1>2. PICK list : /\ list \in {<<Coin(L1(s), -2), Coin(Rune, 3)>>, <<Coin(Rune, -1)>>}
                  /\ sent = Event("slash", [pool |-> L1(s), slashed |-> list])
  BY <1>1
<1>3. /\ DOMAIN list \subseteq Nat
      /\ \A i \in DOMAIN list : /\ list[i].e8 \in Int /\ list[i].asset \in {L1(s), Rune}
                                /\ DOMAIN list[i] = {"asset", "e8"}
  BY <1>2 DEF Coin
<1>4. /\ sent.type = "slash" /\ sent.attr = [pool |-> L1(s), slashed |-> list]
      /\ DOMAIN sent = {"type", "attr"}
  BY <1>2 DEF Event
<1> QED
  BY <1>3, <1>4

LEMMA SlashRight ==
  ASSUME NEW sent \in ThorSlashes, NEW e \in Received(sent)
  PROVE  Right(e)
<1>1. PICK s \in Symbols : \E list :
           /\ sent.type = "slash" /\ sent.attr = [pool |-> L1(s), slashed |-> list]
           /\ DOMAIN sent = {"type", "attr"}
           /\ DOMAIN list \subseteq Nat
           /\ \A i \in DOMAIN list : /\ list[i].e8 \in Int /\ list[i].asset \in {L1(s), Rune}
                                     /\ DOMAIN list[i] = {"asset", "e8"}
  BY SlashList
<1>2. PICK list :
           /\ sent.type = "slash" /\ sent.attr = [pool |-> L1(s), slashed |-> list]
           /\ DOMAIN sent = {"type", "attr"}
           /\ DOMAIN list \subseteq Nat
           /\ \A i \in DOMAIN list : /\ list[i].e8 \in Int /\ list[i].asset \in {L1(s), Rune}
                                     /\ DOMAIN list[i] = {"asset", "e8"}
  BY <1>1
<1>3. sent \in ThorEvents
  BY DEF ThorEvents, ThorAdjustments
<1>4. /\ DOMAIN sent.attr = {"pool", "slashed"} /\ sent.attr["pool"] # Garbled
      /\ sent.attr["slashed"] = list /\ sent.attr["pool"] = L1(s)
  BY <1>2, <1>3, EventShape
<1>5. CASE \E k \in DOMAIN sent.attr \ {"per_pool", "slashed"} :
             k \notin {"asset_add", "rune_add"} /\ e = [sent EXCEPT !.attr[k] = Garbled]
  BY <1>3, <1>5, GarbledRight
<1>6. CASE e = sent \/ \E i \in DOMAIN list : e = [sent EXCEPT !.attr.slashed[i].e8 = Garbled]
  <2>1. e.type = "slash" /\ DOMAIN e = {"type", "attr"} /\ DOMAIN e.attr = {"pool", "slashed"}
        /\ e.attr["pool"] = L1(s)
    BY <1>2, <1>4, <1>6
  <2>2. PICK seen : seen = e.attr.slashed
    OBVIOUS
  <2>3. DOMAIN seen = DOMAIN list
    BY <1>2, <1>4, <1>6, <2>2
  <2>4. \A i \in DOMAIN list : /\ seen[i].e8 = Garbled \/ seen[i].e8 \in Int
                               /\ seen[i].asset \in {L1(s), Rune}
    <3>1. CASE e = sent
      BY <1>2, <1>4, <2>2, <3>1
    <3>2. ASSUME NEW i \in DOMAIN list, e = [sent EXCEPT !.attr.slashed[i].e8 = Garbled]
          PROVE  \A j \in DOMAIN list : /\ seen[j].e8 = Garbled \/ seen[j].e8 \in Int
                                        /\ seen[j].asset \in {L1(s), Rune}
      <4>1. seen = [list EXCEPT ![i].e8 = Garbled]
        BY <1>2, <1>4, <2>2, <3>2
      <4>2. seen[i].e8 = Garbled /\ seen[i].asset = list[i].asset
        BY <1>2, <4>1
      <4>3. \A j \in DOMAIN list : j # i => seen[j] = list[j]
        BY <4>1
      <4> QED
        BY <1>2, <4>2, <4>3
    <3> QED
      BY <1>6, <3>1, <3>2
  <2>5. seen # Garbled
    <3>1. "slashed" \in {"per_pool", "slashed"} \cap DOMAIN e.attr
      BY <2>1
    <3>2. e.attr["slashed"] # Garbled
      BY <1>3, <3>1, GarbledAssumption
    <3> QED
      BY <2>2, <3>2
  <2>6. MovesTold(e)
    BY <1>2, <1>4, <2>1, <2>2, <2>3, <2>4, <2>5, SlashedTold
  <2>7. ~Refused(e)
    BY <1>4, <2>1, <2>2, <2>5 DEF Refused
  <2> QED
    BY <2>6, <2>7 DEF Right
<1>7. "per_pool" \notin DOMAIN sent.attr
  BY <1>4
<1> QED
  BY <1>4, <1>5, <1>6, <1>7, ReceivedIs

LEMMA RewardsRight ==
  ASSUME NEW sent \in ThorRewards, NEW e \in Received(sent)
  PROVE  Right(e)
<1>1. PICK r \in [{L1(s) : s \in Symbols} -> {2, -1}] :
        sent = Event("rewards", [bond_reward |-> 1, per_pool |-> r])
  BY DEF ThorRewards
<1>2. /\ sent.type = "rewards" /\ DOMAIN sent = {"type", "attr"}
      /\ sent.attr = [bond_reward |-> 1, per_pool |-> r]
  BY <1>1 DEF Event
<1>3. sent \in ThorEvents
  BY DEF ThorEvents, ThorAdjustments
<1>4. /\ DOMAIN sent.attr = {"bond_reward", "per_pool"} /\ sent.attr["bond_reward"] # Garbled
      /\ sent.attr["per_pool"] = r /\ sent.attr["bond_reward"] = 1
  BY <1>2, <1>3, EventShape
<1>5. DOMAIN r \subseteq Pools /\ \A p \in DOMAIN r : r[p] \in Int
  BY PoolNames
<1>6. CASE \E k \in DOMAIN sent.attr \ {"per_pool", "slashed"} :
             k \notin {"asset_add", "rune_add"} /\ e = [sent EXCEPT !.attr[k] = Garbled]
  BY <1>3, <1>6, GarbledRight
<1>7. CASE e = sent \/ \E p \in DOMAIN r : e = [sent EXCEPT !.attr.per_pool[p] = Garbled]
  <2>1. /\ e.type = "rewards" /\ DOMAIN e = {"type", "attr"}
        /\ DOMAIN e.attr = {"bond_reward", "per_pool"} /\ e.attr["bond_reward"] # Garbled
    BY <1>2, <1>4, <1>7
  <2>2. PICK all : all = e.attr.per_pool
    OBVIOUS
  <2>3. DOMAIN all = DOMAIN r /\ \A p \in DOMAIN r : all[p] = Garbled \/ all[p] \in Int
    <3>1. CASE e = sent
      BY <1>4, <1>5, <2>2, <3>1
    <3>2. ASSUME NEW p \in DOMAIN r, e = [sent EXCEPT !.attr.per_pool[p] = Garbled]
          PROVE  DOMAIN all = DOMAIN r /\ \A q \in DOMAIN r : all[q] = Garbled \/ all[q] \in Int
      <4>1. all = [r EXCEPT ![p] = Garbled]
        BY <1>2, <1>4, <2>2, <3>2
      <4> QED
        BY <1>5, <4>1
    <3> QED
      BY <1>7, <3>1, <3>2
  <2>4. all # Garbled
    <3>1. "per_pool" \in {"per_pool", "slashed"} \cap DOMAIN e.attr
      BY <2>1
    <3>2. e.attr["per_pool"] # Garbled
      BY <1>3, <3>1, GarbledAssumption
    <3> QED
      BY <2>2, <3>2
  <2>5. MovesTold(e)
    BY <1>5, <2>1, <2>2, <2>3, <2>4, RewardsTold
  <2>6. ~Refused(e)
    BY <2>1, <2>2, <2>4 DEF Refused
  <2> QED
    BY <2>5, <2>6 DEF Right
<1>8. "slashed" \notin DOMAIN sent.attr
  BY <1>4
<1> QED
  BY <1>4, <1>6, <1>7, <1>8, ReceivedIs

\* Whatever arrives of an event, the recorder does with it what can be read.
LEMMA ReceivedRight ==
  ASSUME NEW sent \in ThorEvents, NEW e \in Received(sent)
  PROVE  Right(e)
<1>1. CASE sent \in ThorSlashes
  BY <1>1, SlashRight
<1>2. CASE sent \in ThorRewards
  BY <1>2, RewardsRight
<1>3. CASE sent \notin ThorSlashes \cup ThorRewards
  <2>1. "per_pool" \notin DOMAIN sent.attr /\ "slashed" \notin DOMAIN sent.attr
    BY <1>3, TypesOfEvents
  <2>2. MovesTold(sent)
    <3>1. \/ sent \in ThorSwaps \/ sent \in ThorLiquidity \/ sent \in ThorSigned
          \/ sent \in ThorGas \/ sent \in ThorFees
      BY <1>3 DEF ThorEvents, ThorAdjustments
    <3> QED
      BY <3>1, SwapTold, LiquidityTold, SignedTold, GasTold, FeeTold
  <2>3. CASE e = sent
    BY <2>2, <2>3, EventShape DEF Right
  <2>4. CASE \E k \in DOMAIN sent.attr : e = [sent EXCEPT !.attr[k] = Garbled]
    BY <2>4, GarbledRight
  <2> QED
    BY <2>1, <2>3, <2>4, ReceivedIs
<1> QED
  BY <1>1, <1>2, <1>3

LEMMA TypeIsKept ==
  ASSUME NEW sent \in ThorEvents, NEW e \in Received(sent)
  PROVE  e.type = sent.type
<1>1. DOMAIN sent = {"type", "attr"}
  BY EventShape
<1> QED
  BY <1>1, ReceivedIs

\* A swap that is not refused is the one that was sent.
LEMMA SwapReceived ==
  ASSUME NEW sent \in ThorEvents, NEW e \in Received(sent), e.type = "swap", ~Refused(e)
  PROVE  sent \in ThorSwaps /\ e = sent
<1>1. ASSUME NEW k \in DOMAIN sent.attr, e = [sent EXCEPT !.attr[k] = Garbled]
      PROVE  FALSE
  <2>1. e.type = sent.type /\ <<sent.type, k>> \in Lenient
    BY <1>1, GarbledAttribute
  <2> QED
    BY <2>1 DEF Lenient
<1>2. sent.type = "swap"
  BY TypeIsKept
<1>3. sent \in ThorSwaps /\ "per_pool" \notin DOMAIN sent.attr /\ "slashed" \notin DOMAIN sent.attr
  BY <1>2, TypesOfEvents
<1> QED
  BY <1>1, <1>3, ReceivedIs

LEMMA MovedIs ==
  ASSUME NEW S, NEW d \in [S -> Depths], NEW moves
  PROVE  \A p \in S : Moved(d, moves)[p] = Sum2(d[p], Share(moves, p))
<1>1. \A p \in S : d[p] \in Depths
  OBVIOUS
<1>2. \A p \in S : Sum2(d[p], NoDepth) = d[p]
  <2>1. NoDepth \in Depths
    BY AmountsAre DEF NoDepth
  <2> QED
    BY <1>1, <2>1, SumIsDepth
<1> QED
  BY <1>2 DEF Moved, Share

LEMMA MovedType ==
  ASSUME NEW S, NEW d \in [S -> Depths], NEW moves, \A p \in S : Share(moves, p) \in Depths
  PROVE  Moved(d, moves) \in [S -> Depths]
<1>1. \A p \in S : Sum2(d[p], Share(moves, p)) \in Depths
  BY SumIsDepth
<1>2. \A p \in S : Moved(d, moves)[p] \in Depths
  BY <1>1, MovedIs
<1>3. Moved(d, moves) = [p \in S |-> Moved(d, moves)[p]]
  BY DEF Moved
<1> QED
  BY <1>2, <1>3

\* What is kept of the swaps.
RecordedSwaps == {Swap(sent) : sent \in ThorSwaps}

LEMMA VolumeIsTheLeg ==
  ASSUME NEW sent \in ThorSwaps
  PROVE  /\ RuneLeg(sent) \in Nat
         /\ HistoryVolume(Swap(sent)) = RuneLeg(sent)
         /\ PoolVolume(Swap(sent)) = RuneLeg(sent)
<1>0. PICK p \in Pools : \E a \in Tradable(p) : \E coin, emitted :
            SwapOf(sent, p, a, coin, emitted)
  BY SwapIs
<1>1. PICK a \in Tradable(p) : \E coin, emitted : SwapOf(sent, p, a, coin, emitted)
  BY <1>0
<1>2. PICK coin, emitted : SwapOf(sent, p, a, coin, emitted)
  BY <1>1
<1>3. /\ sent.type = "swap" /\ sent.attr.pool = p /\ sent.attr.coin = coin
      /\ sent.attr.emit_asset = emitted
  BY <1>2 DEF Event, SwapOf
<1>4. /\ a.kind \in {"Native", "Derived", "Synth", "Trade", "Secure"} /\ a # Rune
      /\ Rune.kind = "Rune"
  BY DEF Tradable, Pools, Asset, Rune, Claims
<1> DEFINE class == IF a.kind \in {"Native", "Derived"} THEN "Asset" ELSE a.kind
<1>5. class \in {"Asset", "Synth", "Trade", "Secure"}
  BY <1>4
<1>6. /\ Classify(Rune, a) = <<"Rune", class>> /\ Classify(a, Rune) = <<class, "Rune">>
  BY <1>4 DEF Classify
<1> HIDE DEF class
<1>7. <<"Rune", class>> \in Directions /\ <<class, "Rune">> \in Directions
  BY <1>5 DEF Directions, Claims
<1>8. CASE coin = Coin(Rune, 7) /\ emitted = Coin(a, 2)
  <2>1. Swap(sent).from_e8 = 7 /\ Swap(sent).direction = <<"Rune", class>>
    BY <1>3, <1>6, <1>7, <1>8 DEF Swap, Coin
  <2>2. Swap(sent).direction \in ToAsset \cup {SynthMint}
    BY <1>5, <2>1 DEF ToAsset, SynthMint
  <2>3. RuneLeg(sent) = 7
    BY <1>3, <1>8 DEF RuneLeg, Coin
  <2>4. Swap(sent).direction \notin ToRune \cup {SynthRedeem}
    BY <1>5, <2>1 DEF ToRune, SynthRedeem
  <2> QED
    BY <2>1, <2>2, <2>3, <2>4 DEF HistoryVolume, PoolVolume
<1>9. CASE coin = Coin(a, 2) /\ emitted = Coin(Rune, 5)
  <2>1. Swap(sent).to_e8 = 5 /\ Swap(sent).direction = <<class, "Rune">>
    BY <1>3, <1>6, <1>7, <1>9 DEF Swap, Coin
  <2>2. Swap(sent).direction \notin ToAsset \cup {SynthMint}
    BY <1>5, <2>1 DEF ToAsset, SynthMint
  <2>3. RuneLeg(sent) = 5
    BY <1>3, <1>4, <1>9 DEF RuneLeg, Coin
  <2>4. Swap(sent).direction \in ToRune \cup {SynthRedeem}
    BY <1>5, <2>1 DEF ToRune, SynthRedeem
  <2> QED
    BY <2>1, <2>2, <2>3, <2>4 DEF HistoryVolume, PoolVolume
<1> QED
  BY <1>2, <1>8, <1>9 DEF SwapOf

HistoryFigure(s) == [i \in DOMAIN s |-> HistoryVolume(s[i])]
PoolFigure(s) == [i \in DOMAIN s |-> PoolVolume(s[i])]

LEMMA HistoryTotalIs == HistoryTotal = Total(HistoryFigure(swaps))
<1>1. PICK f : f = HistoryFigure(swaps)
  OBVIOUS
<1>2. f = [i \in DOMAIN swaps |-> HistoryVolume(swaps[i])]
  BY <1>1 DEF HistoryFigure
<1>3. HistoryTotal = Total(f)
  BY <1>2 DEF HistoryTotal, Total, MapThenSumSet, MapThenFoldSet
<1> QED
  BY <1>1, <1>3

LEMMA PoolTotalIs == PoolTotal = Total(PoolFigure(swaps))
<1>1. PICK f : f = PoolFigure(swaps)
  OBVIOUS
<1>2. f = [i \in DOMAIN swaps |-> PoolVolume(swaps[i])]
  BY <1>1 DEF PoolFigure
<1>3. PoolTotal = Total(f)
  BY <1>2 DEF PoolTotal, Total, MapThenSumSet, MapThenFoldSet
<1> QED
  BY <1>1, <1>3

LEMMA VolumesAppend ==
  ASSUME NEW s \in Seq(RecordedSwaps), NEW x \in RecordedSwaps, NEW v \in Nat,
         HistoryVolume(x) = v, PoolVolume(x) = v
  PROVE  /\ Total(HistoryFigure(Append(s, x))) = Total(HistoryFigure(s)) + v
         /\ Total(PoolFigure(Append(s, x))) = Total(PoolFigure(s)) + v
<1> DEFINE n == Len(s)
           t == Append(s, x)
<1>1. n \in Nat /\ DOMAIN s = 1 .. n /\ t \in Seq(RecordedSwaps) /\ DOMAIN t = 1 .. n + 1
      /\ t[n + 1] = x /\ \A i \in 1 .. n : t[i] = s[i]
  OBVIOUS
<1>2. \A y \in RecordedSwaps : HistoryVolume(y) \in Int /\ PoolVolume(y) \in Int
  BY VolumeIsTheLeg DEF RecordedSwaps
<1> HIDE DEF n, t
<1>3. /\ HistoryFigure(s) \in [1 .. n -> Int] /\ HistoryFigure(t) \in [1 .. n + 1 -> Int]
      /\ PoolFigure(s) \in [1 .. n -> Int] /\ PoolFigure(t) \in [1 .. n + 1 -> Int]
  BY <1>1, <1>2 DEF HistoryFigure, PoolFigure
<1>4. /\ \A i \in 1 .. n : HistoryFigure(t)[i] = HistoryFigure(s)[i]
      /\ \A i \in 1 .. n : PoolFigure(t)[i] = PoolFigure(s)[i]
  BY <1>1 DEF HistoryFigure, PoolFigure
<1>5. HistoryFigure(t)[n + 1] = v /\ PoolFigure(t)[n + 1] = v
  BY <1>1 DEF HistoryFigure, PoolFigure
<1>6. Total(HistoryFigure(t)) = Total(HistoryFigure(s)) + v
  BY <1>1, <1>3, <1>4, <1>5, TotalAppend
<1>7. Total(PoolFigure(t)) = Total(PoolFigure(s)) + v
  BY <1>1, <1>3, <1>4, <1>5, TotalAppend
<1> QED
  BY <1>6, <1>7 DEF t

\* Nothing adds up to nothing.
LEMMA NothingTotal == \A f \in [{} -> Int] : Total(f) = 0
<1>1. IsFiniteSet({}) /\ {} \in SUBSET {}
  BY FS_EmptySet
<1> TAKE f \in [{} -> Int]
<1>2. Over(f, {}) = 0
  BY <1>1, OverPick
<1>3. Part(f, {}) = f
  BY DEF Part
<1> QED
  BY <1>2, <1>3 DEF Over

LEMMA NoSwapsNoVolume == Total(HistoryFigure(<<>>)) = 0 /\ Total(PoolFigure(<<>>)) = 0
<1>1. HistoryFigure(<<>>) \in [{} -> Int] /\ PoolFigure(<<>>) \in [{} -> Int]
  BY DEF HistoryFigure, PoolFigure
<1> QED
  BY <1>1, NothingTotal

\* The depths and the volumes of what the recorder took in.
PoolInv ==
  /\ PoolTypeOK
  /\ DepthIsWhatWasAnnounced
  /\ swaps \in Seq(RecordedSwaps)
  /\ Total(HistoryFigure(swaps)) = runeMoved /\ Total(PoolFigure(swaps)) = runeMoved

LEMMA PoolInitInv == PoolInit => PoolInv
<1> SUFFICES ASSUME PoolInit PROVE PoolInv
  OBVIOUS
<1>1. NoDepth \in Depths
  BY AmountsAre DEF NoDepth
<1>2. PoolTypeOK
  BY <1>1, EventsAssumption DEF PoolInit, PoolTypeOK
<1>3. DepthIsWhatWasAnnounced
  BY PoolNames DEF PoolInit, DepthIsWhatWasAnnounced
<1>4. swaps = <<>> /\ runeMoved = 0
  BY DEF PoolInit
<1> QED
  BY <1>2, <1>3, <1>4, NoSwapsNoVolume DEF PoolInv

LEMMA PushInv == PoolInv /\ Push => PoolInv'
<1> SUFFICES ASSUME PoolInv, Push PROVE PoolInv'
  OBVIOUS
<1>1. PICK sent \in ThorEvents : \E e \in Received(sent) :
       /\ IF Refused(e) THEN UNCHANGED <<depth, dirty, swaps>>
          ELSE /\ depth' = Moved(depth, Moves(e))
               /\ dirty' = Touch(DOMAIN Moves(e))
               /\ swaps' = IF e.type = "swap" THEN Append(swaps, Swap(e)) ELSE swaps
       /\ announced' = Moved(announced, Readable(e))
       /\ runeMoved' = runeMoved + IF Readable(e) = <<>> THEN 0 ELSE RuneLeg(e)
  BY DEF Push
<1>2. PICK e \in Received(sent) :
       /\ IF Refused(e) THEN UNCHANGED <<depth, dirty, swaps>>
          ELSE /\ depth' = Moved(depth, Moves(e))
               /\ dirty' = Touch(DOMAIN Moves(e))
               /\ swaps' = IF e.type = "swap" THEN Append(swaps, Swap(e)) ELSE swaps
       /\ announced' = Moved(announced, Readable(e))
       /\ runeMoved' = runeMoved + IF Readable(e) = <<>> THEN 0 ELSE RuneLeg(e)
  BY <1>1
<1>3. /\ events < MaxEvents /\ events' = events + 1 /\ written' = written
      /\ events \in Nat
  BY DEF Push, PoolInv, PoolTypeOK
<1>4. Right(e) /\ NoDepth \in Depths
  BY ReceivedRight, AmountsAre DEF NoDepth
<1>5. \A p \in Pools : Share(Readable(e), p) \in Depths
  <2>1. CASE Refused(e)
    <3>1. DOMAIN Readable(e) = {}
      BY <1>4, <2>1 DEF Right
    <3> QED
      BY <1>4, <3>1 DEF Share
  <2>2. CASE ~Refused(e)
    BY <1>4, <2>2 DEF Right, MovesTold, Share
  <2> QED
    BY <2>1, <2>2
<1>6. announced' \in [Pools -> Depths]
  BY <1>2, <1>5, MovedType DEF PoolInv, PoolTypeOK
<1>7. /\ depth' \in [Names -> Depths] /\ dirty' \subseteq Names
      /\ \A p \in Pools : depth'[p] = announced'[p]
  <2>1. \A p \in Pools : announced'[p] = Sum2(announced[p], Share(Readable(e), p))
    BY <1>2, MovedIs DEF PoolInv, PoolTypeOK
  <2>2. CASE Refused(e)
    <3>1. \A p \in Pools : Share(Readable(e), p) = NoDepth
      <4>1. DOMAIN Readable(e) = {}
        BY <1>4, <2>2 DEF Right
      <4> QED
        BY <4>1 DEF Share
    <3>2. \A p \in Pools : announced[p] \in Depths
      BY DEF PoolInv, PoolTypeOK
    <3>3. \A p \in Pools : announced'[p] = announced[p]
      BY <1>4, <2>1, <3>1, <3>2, SumIsDepth
    <3> QED
      BY <1>2, <2>2, <3>3 DEF PoolInv, PoolTypeOK, DepthIsWhatWasAnnounced
  <2>3. CASE ~Refused(e)
    <3>1. MovesTold(e) /\ depth' = Moved(depth, Moves(e)) /\ dirty' = dirty \cup DOMAIN Moves(e)
      BY <1>2, <1>4, <2>3 DEF Right, Touch
    <3>2. \A k \in Names : Share(Moves(e), k) \in Depths
      BY <1>4, <3>1 DEF MovesTold, Share
    <3>3. depth' \in [Names -> Depths]
      BY <3>1, <3>2, MovedType DEF PoolInv, PoolTypeOK
    <3>4. \A p \in Pools : depth'[p] = Sum2(depth[p], Share(Moves(e), p))
      BY <3>1, PoolNames, MovedIs DEF PoolInv, PoolTypeOK
    <3>5. \A p \in Pools : depth'[p] = announced'[p]
      BY <2>1, <3>1, <3>4 DEF MovesTold, PoolInv, DepthIsWhatWasAnnounced
    <3> QED
      BY <3>1, <3>3, <3>5 DEF MovesTold, PoolInv, PoolTypeOK
  <2> QED
    BY <2>2, <2>3
<1>8. /\ swaps' \in Seq(RecordedSwaps) /\ Len(swaps') <= events + 1 /\ runeMoved' \in Nat
      /\ Total(HistoryFigure(swaps')) = runeMoved' /\ Total(PoolFigure(swaps')) = runeMoved'
  <2>1. /\ swaps \in Seq(RecordedSwaps) /\ Len(swaps) <= events /\ runeMoved \in Nat
        /\ Total(HistoryFigure(swaps)) = runeMoved /\ Total(PoolFigure(swaps)) = runeMoved
        /\ Len(swaps) \in Nat
    BY DEF PoolInv, PoolTypeOK
  <2>2. CASE Refused(e) \/ e.type # "swap"
    <3>1. swaps' = swaps
      BY <1>2, <2>2
    <3>2. (IF Readable(e) = <<>> THEN 0 ELSE RuneLeg(e)) = 0
      <4>1. CASE Refused(e)
        BY <1>4, <4>1 DEF Right
      <4>2. CASE e.type # "swap"
        BY <4>2 DEF RuneLeg
      <4> QED
        BY <2>2, <4>1, <4>2
    <3>3. runeMoved' = runeMoved
      BY <1>2, <2>1, <3>2
    <3> QED
      BY <1>3, <2>1, <3>1, <3>3
  <2>3. CASE ~Refused(e) /\ e.type = "swap"
    <3>1. sent \in ThorSwaps /\ e = sent
      BY <2>3, SwapReceived
    <3>2. Swap(e) \in RecordedSwaps /\ swaps' = Append(swaps, Swap(e))
      BY <1>2, <2>3, <3>1 DEF RecordedSwaps
    <3>3. /\ RuneLeg(e) \in Nat /\ HistoryVolume(Swap(e)) = RuneLeg(e)
          /\ PoolVolume(Swap(e)) = RuneLeg(e)
      BY <3>1, VolumeIsTheLeg
    <3>4. Readable(e) # <<>>
      <4>1. Readable(e) = Effect(e)
        BY <2>3, <3>1, UnharmedReadable
      <4>2. PICK x : Effect(e) = Only(e.attr.pool, x)
        BY <2>3 DEF Effect
      <4>3. DOMAIN Only(e.attr.pool, x) = {e.attr.pool}
        BY OnlyIs
      <4>4. DOMAIN <<>> = {}
        OBVIOUS
      <4> QED
        BY <4>1, <4>2, <4>3, <4>4
    <3>5. runeMoved' = runeMoved + RuneLeg(e)
      BY <1>2, <3>4
    <3>6. /\ Total(HistoryFigure(swaps')) = Total(HistoryFigure(swaps)) + RuneLeg(e)
          /\ Total(PoolFigure(swaps')) = Total(PoolFigure(swaps)) + RuneLeg(e)
      BY <2>1, <3>2, <3>3, VolumesAppend
    <3>7. swaps' \in Seq(RecordedSwaps) /\ Len(swaps') = Len(swaps) + 1
      BY <2>1, <3>2
    <3> QED
      BY <1>3, <2>1, <3>3, <3>5, <3>6, <3>7
  <2> QED
    BY <2>2, <2>3
<1>9. PoolTypeOK'
  BY <1>3, <1>6, <1>7, <1>8, EventsAssumption DEF PoolInv, PoolTypeOK
<1>10. DepthIsWhatWasAnnounced'
  BY <1>7 DEF DepthIsWhatWasAnnounced
<1> QED
  BY <1>8, <1>9, <1>10 DEF PoolInv, HistoryFigure, PoolFigure

LEMMA TakeChangedInv == PoolInv /\ TakeChanged => PoolInv'
<1> SUFFICES ASSUME PoolInv, TakeChanged PROVE PoolInv'
  OBVIOUS
<1>1. PoolTypeOK'
  BY DEF PoolInv, PoolTypeOK, TakeChanged
<1> QED
  BY <1>1 DEF PoolInv, TakeChanged, DepthIsWhatWasAnnounced, HistoryFigure, PoolFigure

LEMMA PoolInvariant == PoolSpec => []PoolInv
<1>1. PoolInv /\ UNCHANGED poolVars => PoolInv'
  BY DEF PoolInv, PoolTypeOK, poolVars, DepthIsWhatWasAnnounced, HistoryFigure, PoolFigure
<1>2. PoolInv /\ [PoolNext]_poolVars => PoolInv'
  BY <1>1, PushInv, TakeChangedInv DEF PoolNext
<1> QED
  BY <1>2, PoolInitInv, PTL DEF PoolSpec

\* Depths and rows are rows of four integers, and only a name that pool_of_asset
\* can give has one (depth.rs:205).
THEOREM PoolTypesHold == PoolSpec => []PoolTypeOK
<1>1. PoolInv => PoolTypeOK
  BY DEF PoolInv
<1> QED
  BY <1>1, PoolInvariant, PTL

\* Whatever events arrive, with whatever in them unreadable, the depth of every
\* pool is what THORNode did to it by all that could be read (depth.rs:12-16).
THEOREM DepthsAsAnnounced == PoolSpec => []DepthIsWhatWasAnnounced
<1>1. PoolInv => DepthIsWhatWasAnnounced
  BY DEF PoolInv
<1> QED
  BY <1>1, PoolInvariant, PTL

\* The volumes the API reads off the recorded swaps, by the history and by the
\* pool, are the RUNE that moved (swaps.rs:7, pools.rs:200).
THEOREM VolumesAreRune == PoolSpec => []VolumeIsTheRuneMoved
<1>1. PoolInv => VolumeIsTheRuneMoved
  BY HistoryTotalIs, PoolTotalIs DEF PoolInv, VolumeIsTheRuneMoved
<1> QED
  BY <1>1, PoolInvariant, PTL

------------------------------------------------------------------------------
\* For every range and every parallelism, what fetch_range answers is the range,
\* whatever the nodes send.

\* The chunks are equal and make up the range.
LEMMA ChunksMakeUpTheRange ==
  ASSUME count \in Nat \ {0}
  PROVE  /\ Chunks \in Nat \ {0} /\ PerChunk \in Nat \ {0}
         /\ Chunks * PerChunk = count
<1> USE RangeAssumption
<1>1. CASE count > 1 /\ Parallelism > 1 /\ count % Parallelism = 0
  <2>1. Chunks = Parallelism /\ PerChunk = count \div Parallelism
    BY <1>1 DEF Chunks, PerChunk
  <2>2. /\ count \div Parallelism \in Nat
        /\ (count \div Parallelism) * Parallelism = count
    BY <1>1, Division
  <2>3. count \div Parallelism # 0
    BY <2>2
  <2>4. Parallelism * (count \div Parallelism) = (count \div Parallelism) * Parallelism
    BY <2>2
  <2> QED
    BY <2>1, <2>2, <2>3, <2>4
<1>2. CASE ~(count > 1 /\ Parallelism > 1 /\ count % Parallelism = 0)
  <2>1. Chunks = 1 /\ PerChunk = count \div 1
    BY <1>2 DEF Chunks, PerChunk
  <2> QED
    BY <2>1
<1> QED
  BY <1>1, <1>2

\* The blocks of a chunk, if there are any, are the ones asked for.
PartOf(i) == [j \in Positions |-> [block |-> Requested(i, j), results |-> Requested(i, j)]]

RangeInv ==
  /\ count \in Nat \ {0}
  /\ \A i \in ChunkIds : parts[i] = Pending \/ parts[i] = PartOf(i)
  /\ DOMAIN parts = ChunkIds
  /\ result \in {Pending, Error} \/ result = TheRange

\* How a range is split depends on nothing but its length.
LEMMA Unmoved ==
  ASSUME UNCHANGED count
  PROVE  ChunkIds' = ChunkIds /\ TheRange' = TheRange /\ \A i : PartOf(i)' = PartOf(i)
<1>1. Chunks' = Chunks
  BY DEF Chunks
<1>2. PerChunk' = PerChunk
  BY <1>1 DEF PerChunk
<1>3. ChunkIds' = ChunkIds /\ Positions' = Positions
  BY <1>1, <1>2 DEF ChunkIds, Positions
<1>4. \A i, j : Requested(i, j)' = Requested(i, j)
  BY <1>2 DEF Requested
<1>5. TheRange' = TheRange
  BY DEF TheRange
<1>6. \A i : PartOf(i)' = PartOf(i)
  BY <1>3, <1>4 DEF PartOf
<1> QED
  BY <1>3, <1>5, <1>6

LEMMA RangeInit == FetchInit => RangeInv
BY RangeAssumption DEF FetchInit, RangeInv

\* The joined chunks are the range.
LEMMA JoinedIsTheRange == ASSUME RangeInv, Join PROVE result' = TheRange
<1>1. /\ Chunks \in Nat \ {0} /\ PerChunk \in Nat \ {0}
      /\ Chunks * PerChunk = count
  BY ChunksMakeUpTheRange DEF RangeInv
<1>2. ASSUME NEW n \in 0 .. count - 1
      PROVE  parts[n \div PerChunk][n % PerChunk] = [block |-> From + n, results |-> From + n]
  <2> DEFINE i == n \div PerChunk
             j == n % PerChunk
  <2>0. n \in Nat /\ n \in Int
    BY DEF RangeInv
  <2>1. i \in Nat /\ j \in 0 .. PerChunk - 1 /\ i * PerChunk + j = n
    BY <1>1, <2>0, Division
  <2> HIDE DEF i, j
  <2>2. i \in ChunkIds
    <3>1. i < Chunks
      <4>1. SUFFICES ASSUME i >= Chunks PROVE FALSE
        BY <1>1, <2>1
      <4>2. i * PerChunk >= Chunks * PerChunk
        BY <1>1, <2>1, <4>1
      <4> QED
        BY <1>1, <2>1, <4>2 DEF Positions, RangeInv
    <3> QED
      BY <1>1, <2>1, <3>1 DEF ChunkIds
  <2>3. parts[i] = PartOf(i)
    BY <2>2 DEF RangeInv, Join
  <2>4. Requested(i, j) = From + n
    BY <1>1, <2>1, RangeAssumption DEF Requested, Positions
  <2> QED
    BY <2>1, <2>3, <2>4 DEF PartOf, Positions, i, j
<1>3. result' = [n \in 0 .. count - 1 |-> parts[n \div PerChunk][n % PerChunk]]
  BY <1>1 DEF Join
<1> QED
  BY <1>2, <1>3 DEF TheRange

LEMMA JoinStep == RangeInv /\ Join => RangeInv' /\ result' = TheRange'
<1> SUFFICES ASSUME RangeInv, Join PROVE RangeInv' /\ result' = TheRange'
  OBVIOUS
<1>1. UNCHANGED <<count, parts>>
  BY DEF Join
<1> QED
  BY <1>1, JoinedIsTheRange, Unmoved DEF RangeInv

\* What assemble lets through is the chunk asked for.
LEMMA AssembleStep == ASSUME RangeInv, NEW i \in ChunkIds, Assemble(i) PROVE RangeInv'
<1>1. UNCHANGED count
  BY DEF Assemble
<1>2. \/ UNCHANGED parts
      \/ parts' = [parts EXCEPT ![i] = PartOf(i)] /\ UNCHANGED result
  <2>1. CASE \A j \in Positions : Matches(i, j)
    <3>1. \A j \in Positions : /\ calls[i]["block"][j] = Requested(i, j)
                               /\ calls[i]["block_results"][j] = Requested(i, j)
      BY <2>1 DEF Matches, Methods
    <3> QED
      BY <2>1, <3>1 DEF Assemble, PartOf
  <2>2. CASE ~\A j \in Positions : Matches(i, j)
    BY <2>2 DEF Assemble
  <2> QED
    BY <2>1, <2>2
<1>3. result' = result \/ result' = Error
  BY DEF Assemble
<1>4. ChunkIds' = ChunkIds /\ TheRange' = TheRange /\ \A k : PartOf(k)' = PartOf(k)
  BY <1>1, Unmoved
<1>5. DOMAIN parts' = ChunkIds /\ \A k \in ChunkIds : parts'[k] = Pending \/ parts'[k] = PartOf(k)
  BY <1>2 DEF RangeInv
<1>6. count' \in Nat \ {0} /\ (result' \in {Pending, Error} \/ result' = TheRange)
  BY <1>1, <1>3 DEF RangeInv
<1> QED
  BY <1>4, <1>5, <1>6 DEF RangeInv

LEMMA RangeStep == RangeInv /\ [FetchNext]_fetchVars => RangeInv'
<1> SUFFICES ASSUME RangeInv, [FetchNext]_fetchVars PROVE RangeInv'
  OBVIOUS
<1>1. ASSUME NEW i \in ChunkIds, NEW m \in Methods, Answer(i, m) PROVE RangeInv'
  <2>1. UNCHANGED <<count, parts>> /\ (result' = result \/ result' = Error)
    BY <1>1 DEF Answer
  <2> QED
    BY <2>1 DEF RangeInv, ChunkIds, Chunks, PartOf, Requested, PerChunk, Positions, TheRange
<1>2. ASSUME NEW i \in ChunkIds, NEW m \in Methods, Fail(i, m) PROVE RangeInv'
  BY <1>2 DEF Fail, RangeInv, ChunkIds, Chunks, PartOf, Requested, PerChunk, Positions, TheRange
<1>3. CASE UNCHANGED fetchVars
  BY <1>3 DEF fetchVars, RangeInv, ChunkIds, Chunks, PartOf, Requested, PerChunk, Positions, TheRange
<1> QED
  BY <1>1, <1>2, <1>3, AssembleStep, JoinStep DEF FetchNext

------------------------------------------------------------------------------
\* As long as the nodes are honest, every call is answered with the heights
\* asked for, so no check refuses it.
AskedOf(i) == [j \in Positions |-> Requested(i, j)]

HonestInv ==
  /\ DOMAIN calls = ChunkIds /\ \A i \in ChunkIds : DOMAIN calls[i] = Methods
  /\ honest => /\ \A i \in ChunkIds : \A m \in Methods : calls[i][m] \in {Pending, AskedOf(i)}
               /\ result \in {Pending, TheRange}

LEMMA AskedUnmoved == ASSUME UNCHANGED count PROVE \A i : AskedOf(i)' = AskedOf(i)
BY DEF AskedOf, Positions, Requested, PerChunk, Chunks

LEMMA HonestInit == FetchInit => HonestInv
BY DEF FetchInit, HonestInv

\* Entries of the heights asked for, put in the order of their ids.
LEMMA HonestEntries ==
  ASSUME RangeInv, NEW i \in ChunkIds, NEW entries \in Entries(i),
         Usable(entries), \A j \in Positions : ~entries[j].wrong
  PROVE  ById(i, entries) = AskedOf(i)
<1>1. Chunks \in Nat \ {0} /\ PerChunk \in Nat \ {0}
  BY ChunksMakeUpTheRange DEF RangeInv
<1>2. ASSUME NEW j \in Positions
      PROVE  EntryHeight(i, entries[CHOOSE k \in Positions : entries[k].id = j]) = Requested(i, j)
  <2> DEFINE k == CHOOSE k \in Positions : entries[k].id = j
  <2>1. k \in Positions /\ entries[k].id = j
    BY DEF Usable
  <2> HIDE DEF k
  <2>2. ~entries[k].wrong
    BY <2>1
  <2>3. Requested(i, j) \in Int
    BY <1>1, RangeAssumption DEF Requested, Positions, ChunkIds
  <2>4. EntryHeight(i, entries[k]) = Requested(i, j) + 0
    BY <2>1, <2>2 DEF EntryHeight
  <2> QED
    BY <2>3, <2>4 DEF k
<1> QED
  BY <1>2 DEF ById, AskedOf

LEMMA HonestAnswer ==
  ASSUME RangeInv, HonestInv, NEW i \in ChunkIds, NEW m \in Methods, Answer(i, m)
  PROVE  HonestInv'
<1>1. UNCHANGED count /\ result = Pending
  BY DEF Answer
<1>2. ChunkIds' = ChunkIds /\ TheRange' = TheRange /\ \A k : AskedOf(k)' = AskedOf(k)
  BY <1>1, Unmoved, AskedUnmoved
<1>3. PICK entries \in Entries(i) :
        /\ honest' = (honest /\ Usable(entries) /\ \A j \in Positions : ~entries[j].wrong)
        /\ IF Usable(entries)
           THEN /\ calls' = [calls EXCEPT ![i][m] = ById(i, entries)]
                /\ UNCHANGED result
           ELSE result' = Error /\ UNCHANGED calls
  BY DEF Answer
<1>4. CASE Usable(entries)
  <2>1. calls' = [calls EXCEPT ![i][m] = ById(i, entries)] /\ result' = Pending
    BY <1>1, <1>3, <1>4
  <2>2. DOMAIN calls' = ChunkIds /\ \A k \in ChunkIds : DOMAIN calls'[k] = Methods
    BY <2>1 DEF HonestInv
  <2>3. ASSUME honest'
        PROVE  \A k \in ChunkIds : \A n \in Methods : calls'[k][n] \in {Pending, AskedOf(k)}
    <3>1. honest /\ ById(i, entries) = AskedOf(i)
      BY <1>3, <1>4, <2>3, HonestEntries
    <3> QED
      BY <2>1, <3>1 DEF HonestInv
  <2> QED
    BY <1>2, <2>1, <2>2, <2>3 DEF HonestInv
<1>5. CASE ~Usable(entries)
  <2>1. ~honest' /\ calls' = calls
    BY <1>3, <1>5
  <2> QED
    BY <1>2, <2>1 DEF HonestInv
<1> QED
  BY <1>4, <1>5

\* Honest answers pass the check.
LEMMA HonestAssemble ==
  ASSUME RangeInv, HonestInv, NEW i \in ChunkIds, Assemble(i) PROVE HonestInv'
<1>1. UNCHANGED <<count, calls, honest>> /\ result = Pending
  BY DEF Assemble
<1>2. ASSUME honest PROVE \A j \in Positions : Matches(i, j)
  <2>1. \A m \in Methods : calls[i][m] = AskedOf(i)
    BY <1>2 DEF Assemble, HonestInv
  <2> QED
    BY <2>1 DEF Matches, AskedOf
<1>3. honest => result' = Pending
  BY <1>1, <1>2 DEF Assemble
<1> QED
  BY <1>1, <1>3, Unmoved, AskedUnmoved DEF HonestInv

LEMMA HonestStep == RangeInv /\ HonestInv /\ [FetchNext]_fetchVars => HonestInv'
<1> SUFFICES ASSUME RangeInv, HonestInv, [FetchNext]_fetchVars PROVE HonestInv'
  OBVIOUS
<1>1. ASSUME NEW i \in ChunkIds, NEW m \in Methods, Fail(i, m) PROVE HonestInv'
  BY <1>1, Unmoved DEF Fail, HonestInv
<1>2. CASE Join
  <2>1. UNCHANGED <<count, calls, honest>> /\ result' = TheRange'
    BY <1>2, JoinStep DEF Join
  <2> QED
    BY <2>1, Unmoved, AskedUnmoved DEF HonestInv
<1>3. CASE UNCHANGED fetchVars
  BY <1>3, Unmoved, AskedUnmoved DEF fetchVars, HonestInv
<1> QED
  BY <1>1, <1>2, <1>3, HonestAnswer, HonestAssemble DEF FetchNext

\* For any first height, count and parallelism: a range is answered with exactly
\* the blocks asked for, in order, each with its own results, or with an error,
\* whatever the nodes send; and it is never refused to honest ones.
THEOREM RangeIsAnswered == FetchSpec => []RangeAnswered
<1>1. RangeInv /\ HonestInv => RangeAnswered
  BY DEF RangeInv, HonestInv, RangeAnswered
<1> QED
  BY <1>1, RangeInit, RangeStep, HonestInit, HonestStep, PTL DEF FetchSpec

------------------------------------------------------------------------------
\* On whatever history of blocks, deaths and removals, the tables hold the rows of
\* the blocks that are written, and the depths are the sums of what these did.

\* The types of the others.
OtherTypes ==
  {"outbound", "refund", "transfer", "bond", "UpdateNodeAccountStatus", "ActiveVault",
   "InactiveVault", "set_mimir", "mint_burn", "switch", "pending_liquidity", "pool", "message",
   "wasm-contract/action", "new in 4.0"}

\* Which types of events move a depth, and which do not.
LEMMA TypesThatMove ==
  /\ PoolTypes \subseteq {"swap", "add_liquidity", "add", "withdraw", "donate", "errata",
                          "pool_balance_change", "slash", "gas", "fee", "rewards"}
  /\ \A sent \in OtherEvents :
       /\ DOMAIN sent = {"type", "attr"}
       /\ sent.type \in OtherTypes
<1>1. ASSUME NEW sent \in ThorEvents
      PROVE  sent.type \in {"swap", "add_liquidity", "add", "withdraw", "donate", "errata",
                            "pool_balance_change", "slash", "gas", "fee", "rewards"}
  <2>1. CASE sent \in ThorSwaps
    BY <2>1, SwapIs DEF Event, SwapOf
  <2>2. CASE sent \in ThorLiquidity
    BY <2>2, LiquidityIs DEF Event, LiquidityOf
  <2>3. CASE sent \in ThorSigned
    <3>1. PICK s \in Symbols, add \in BOOLEAN : CorrectionOf(sent, s, add)
      BY <2>3, SignedIs
    <3> QED
      BY <3>1 DEF Event, CorrectionOf
  <2>4. CASE sent \in ThorSlashes
    BY <2>4, SlashIs DEF Event
  <2>5. CASE sent \in ThorGas
    BY <2>5 DEF ThorGas, Event
  <2>6. CASE sent \in ThorFees
    <3>1. PICK a \in Charged, n \in {0, 2} :
            sent = Event("fee", [coins |-> Coin(a, 1), pool_deduct |-> n])
      BY <2>6, FeeIs
    <3> QED
      BY <3>1 DEF Event
  <2>7. CASE sent \in ThorRewards
    <3>1. PICK r : sent = Event("rewards", [bond_reward |-> 1, per_pool |-> r])
      BY <2>7 DEF ThorRewards
    <3> QED
      BY <3>1 DEF Event
  <2> QED
    BY <2>1, <2>2, <2>3, <2>4, <2>5, <2>6, <2>7 DEF ThorEvents, ThorAdjustments
<1> DEFINE Known(sent) == \E type \in OtherTypes : \E attr : sent = Event(type, attr)
<1>2. ASSUME NEW sent \in OtherEvents PROVE Known(sent)
  <2>1. CASE sent \in OutwardEvents
    BY <2>1 DEF OutwardEvents, OtherTypes
  <2>2. CASE sent \in NodeEvents
    BY <2>2 DEF NodeEvents, OtherTypes
  <2>3. CASE sent \in SupplyEvents
    BY <2>3 DEF SupplyEvents, OtherTypes
  <2>4. CASE sent \in SilentEvents
    BY <2>4 DEF SilentEvents, OtherTypes
  <2> QED
    BY <2>1, <2>2, <2>3, <2>4 DEF OtherEvents
<1>3. \A type, attr : DOMAIN Event(type, attr) = {"type", "attr"} /\ Event(type, attr).type = type
  BY DEF Event
<1>4. \A sent \in OtherEvents : DOMAIN sent = {"type", "attr"} /\ sent.type \in OtherTypes
  BY <1>2, <1>3
<1>5. PoolTypes \subseteq {"swap", "add_liquidity", "add", "withdraw", "donate", "errata",
                          "pool_balance_change", "slash", "gas", "fee", "rewards"}
  BY <1>1 DEF PoolTypes
<1> QED
  BY <1>4, <1>5

\* A list of the members of a finite set.
LEMMA ListOfSet ==
  ASSUME NEW S, IsFiniteSet(S)
  PROVE  SetToSeq(S) \in [1 .. Cardinality(S) -> S] /\ Cardinality(S) \in Nat
<1>1. Cardinality(S) \in Nat /\ ExistsBijection(1 .. Cardinality(S), S)
  BY FS_CardinalityType
<1>2. \E f \in [1 .. Cardinality(S) -> S] : IsInjective(f)
  BY <1>1 DEF ExistsBijection, Bijection, Injection, IsInjective
<1> QED
  BY <1>1, <1>2 DEF SetToSeq

\* The rows of an event are a list of rows of event tables.
IsList(rows) == \E n \in Nat : DOMAIN rows = 1 .. n
InEventTables(rows) == IsList(rows) /\ \A i \in DOMAIN rows : rows[i].table \in EventTableNames

LEMMA NoRows == InEventTables(<<>>)
<1>1. DOMAIN <<>> = 1 .. 0
  OBVIOUS
<1> QED
  BY <1>1 DEF InEventTables, IsList

LEMMA OneRow ==
  ASSUME NEW table \in EventTableNames, NEW columns
  PROVE  InEventTables(Row(table, columns))
<1>1. DOMAIN Row(table, columns) = 1 .. 1
  BY DEF Row
<1> QED
  BY <1>1 DEF InEventTables, IsList, Row

LEMMA PoolRowsTables ==
  ASSUME NEW e, e.type \in PoolTypes,
         e.type = "rewards" => IsFiniteSet(DOMAIN Rewards(e).per_pool)
  PROVE  InEventTables(PoolRows(e))
<1>1. e.type \in {"swap", "add_liquidity", "add", "withdraw", "donate", "errata",
                  "pool_balance_change", "slash", "gas", "fee", "rewards"}
  BY TypesThatMove
<1>2. {"swap_events", "stake_events", "withdraw_events", "fee_events", "gas_events", "add_events",
       "errata_events", "pool_balance_change_events", "slash_events", "rewards_events",
       "rewards_event_entries"} \subseteq EventTableNames
  BY DEF EventTableNames
<1>3. CASE e.type = "rewards"
  <2> DEFINE split == Rewards(e).per_pool
             pools == SetToSeq(DOMAIN split)
             entries == [i \in DOMAIN pools |->
                           [table |-> "rewards_event_entries",
                            columns |-> [pool |-> pools[i], rune_e8 |-> split[pools[i]],
                                         saver_e8 |-> 0]]]
             head == Row("rewards_events", [bond_e8 |-> Int0(e, "bond_reward")])
  <2>1. PICK n \in Nat : DOMAIN pools = 1 .. n
    BY <1>3, ListOfSet
  <2>2. PoolRows(e) = head \o entries
    BY <1>3 DEF PoolRows, RewardsRows
  <2>3. \A i \in DOMAIN entries : entries[i].table = "rewards_event_entries"
    OBVIOUS
  <2>4. DOMAIN entries = 1 .. n /\ entries = [i \in 1 .. n |-> entries[i]]
    BY <2>1
  <2> HIDE DEF entries
  <2>5. \E columns : head = <<[table |-> "rewards_events", columns |-> columns]>>
    BY DEF Row
  <2> HIDE DEF head
  <2>6. PICK row : head = <<row>> /\ row.table = "rewards_events"
    BY <2>5
  <2> DEFINE all == {row} \cup {entries[i] : i \in 1 .. n}
  <2>7. head \o entries \in Seq(all)
    <3>1. entries \in Seq(all)
      BY <2>4
    <3>2. head \in Seq(all)
      BY <2>6
    <3> QED
      BY <3>1, <3>2
  <2>8. \A r \in all : r.table \in EventTableNames
    BY <1>2, <2>3, <2>4, <2>6
  <2> HIDE DEF all
  <2>9. \A i \in DOMAIN (head \o entries) : (head \o entries)[i] \in all
    BY <2>7
  <2>10. IsList(head \o entries)
    BY <2>7 DEF IsList
  <2> QED
    BY <2>2, <2>8, <2>9, <2>10 DEF InEventTables
<1>4. CASE e.type # "rewards"
  <2>1. \E table \in EventTableNames : \E columns : PoolRows(e) = Row(table, columns)
    <3>1. CASE e.type = "swap"
      BY <1>2, <3>1 DEF PoolRows
    <3>2. CASE e.type \in {"add_liquidity", "add"}
      BY <1>2, <3>2 DEF PoolRows
    <3>3. CASE e.type = "withdraw"
      BY <1>2, <3>3 DEF PoolRows
    <3>4. CASE e.type = "donate"
      BY <1>2, <3>4 DEF PoolRows
    <3>5. CASE e.type = "errata"
      BY <1>2, <3>5 DEF PoolRows
    <3>6. CASE e.type = "pool_balance_change"
      BY <1>2, <3>6 DEF PoolRows
    <3>7. CASE e.type = "slash"
      BY <1>2, <3>7 DEF PoolRows
    <3>8. CASE e.type = "gas"
      BY <1>2, <3>8 DEF PoolRows
    <3>9. CASE e.type = "fee"
      BY <1>2, <3>9 DEF PoolRows
    <3> QED
      BY <1>1, <1>4, <3>1, <3>2, <3>3, <3>4, <3>5, <3>6, <3>7, <3>8, <3>9
  <2> QED
    BY <2>1, OneRow
<1> QED
  BY <1>3, <1>4

LEMMA OtherRowsTables ==
  ASSUME NEW e, e.type \in OtherTypes,
         e.type = "transfer" => IsList(e.attr.amount)
  PROVE  InEventTables(OtherRows(e))
<1>1. {"outbound_events", "refund_events", "transfer_events", "bond_events",
       "pending_liquidity_events", "set_mimir_events", "mint_burn_events", "switch_events",
       "active_vault_events", "inactive_vault_events", "update_node_account_status_events",
       "pool_events"} \subseteq EventTableNames
  BY DEF EventTableNames
<1>2. CASE Passed(e)
  <2>1. OtherRows(e) = <<>>
    BY <1>2 DEF OtherRows, Passed
  <2> QED
    BY <2>1, NoRows
<1>3. CASE e.type = "transfer"
  <2> DEFINE rows == [i \in DOMAIN Transfers(e) |->
                        [table |-> "transfer_events", columns |-> Transfers(e)[i]]]
  <2>1. OtherRows(e) = rows
    BY <1>3 DEF OtherRows, Passed
  <2>2. \A i \in DOMAIN rows : rows[i].table = "transfer_events"
    OBVIOUS
  <2>3. DOMAIN rows = DOMAIN e.attr.amount
    BY DEF Transfers
  <2> HIDE DEF rows
  <2> QED
    BY <1>1, <1>3, <2>1, <2>2, <2>3 DEF InEventTables, IsList
<1>4. CASE ~Passed(e) /\ e.type # "transfer"
  <2>1. \E table \in EventTableNames : \E columns : OtherRows(e) = Row(table, columns)
    <3>1. CASE e.type = "outbound"
      BY <1>1, <1>4, <3>1 DEF OtherRows
    <3>2. CASE e.type = "refund"
      BY <1>1, <1>4, <3>2 DEF OtherRows
    <3>3. CASE e.type = "bond"
      BY <1>1, <1>4, <3>3 DEF OtherRows
    <3>4. CASE e.type = "UpdateNodeAccountStatus"
      BY <1>1, <1>4, <3>4 DEF OtherRows
    <3>5. CASE e.type = "ActiveVault"
      BY <1>1, <1>4, <3>5 DEF OtherRows
    <3>6. CASE e.type = "InactiveVault"
      BY <1>1, <1>4, <3>6 DEF OtherRows
    <3>7. CASE e.type = "set_mimir"
      BY <1>1, <1>4, <3>7 DEF OtherRows
    <3>8. CASE e.type = "mint_burn"
      BY <1>1, <1>4, <3>8 DEF OtherRows
    <3>9. CASE e.type = "switch"
      BY <1>1, <1>4, <3>9 DEF OtherRows
    <3>10. CASE e.type = "pending_liquidity"
      BY <1>1, <1>4, <3>10 DEF OtherRows
    <3>11. CASE e.type = "pool"
      BY <1>1, <1>4, <3>11 DEF OtherRows
    <3> QED
      BY <1>4, <3>1, <3>2, <3>3, <3>4, <3>5, <3>6, <3>7, <3>8, <3>9, <3>10, <3>11 DEF Passed, OtherTypes
  <2> QED
    BY <2>1, OneRow
<1> QED
  BY <1>2, <1>3, <1>4

\* An event that arrives is of the type it was sent with.
LEMMA ArrivalKinds ==
  ASSUME NEW sent \in ThorEvents \cup OtherEvents, NEW got \in Arrivals(sent)
  PROVE  /\ got.type = sent.type
         /\ got.type \in PoolTypes => sent \in ThorEvents /\ got \in Received(sent)
         /\ got.type \notin PoolTypes => sent \in OtherEvents
<1>1. sent \in ThorEvents => sent.type \in PoolTypes
  BY DEF PoolTypes
<1>2. sent \in OtherEvents => sent.type \notin PoolTypes
  <2>1. \A type \in PoolTypes : type \notin OtherTypes
    BY TypesThatMove DEF OtherTypes
  <2> QED
    BY <2>1, TypesThatMove
<1>3. CASE sent \in ThorEvents
  <2>1. got \in Received(sent)
    BY <1>1, <1>3 DEF Arrivals
  <2> QED
    BY <1>1, <1>3, <2>1, TypeIsKept
<1>4. CASE sent \notin ThorEvents
  <2>1. DOMAIN sent = {"type", "attr"} /\ got \in ReceivedOther(sent)
    BY <1>2, <1>4, TypesThatMove DEF Arrivals
  <2>2. got = sent \/ \E value : got = [sent EXCEPT !.attr = value]
    <3>1. \/ got = sent
          \/ \E without \in DOMAIN sent.attr :
               got = [sent EXCEPT !.attr = [k \in DOMAIN sent.attr \ {without} |-> sent.attr[k]]]
          \/ \E k \in DOMAIN sent.attr : got = [sent EXCEPT !.attr[k] = Garbled]
          \/ \E k \in DOMAIN sent.attr : \E i \in DOMAIN sent.attr[k] :
               got = [sent EXCEPT !.attr[k][i] = Garbled]
      BY <2>1 DEF ReceivedOther
    <3>2. \A k : [sent EXCEPT !.attr[k] = Garbled]
                   = [sent EXCEPT !.attr = [sent.attr EXCEPT ![k] = Garbled]]
      OBVIOUS
    <3>3. \A k, i : [sent EXCEPT !.attr[k][i] = Garbled]
                      = [sent EXCEPT !.attr = [sent.attr EXCEPT ![k][i] = Garbled]]
      OBVIOUS
    <3> QED
      BY <3>1, <3>2, <3>3
  <2>3. got.type = sent.type
    BY <2>1, <2>2
  <2> QED
    BY <1>2, <1>4, <2>3
<1> QED
  BY <1>3, <1>4

\* What the depth tracker does with an arrival is what can be read of it.
Shared(e, p) == IF e.type \in PoolTypes THEN Share(Readable(e), p) ELSE NoDepth

LEMMA MovesOfArrival ==
  ASSUME NEW sent \in ThorEvents \cup OtherEvents, NEW got \in Arrivals(sent)
  PROVE  /\ DOMAIN MovesOfEvent(got) \subseteq Names
         /\ \A k \in DOMAIN MovesOfEvent(got) : MovesOfEvent(got)[k] \in Depths
         /\ \A p \in Pools : Share(MovesOfEvent(got), p) = Shared(got, p)
<1>1. DOMAIN <<>> = {}
  OBVIOUS
<1>2. CASE got.type \in PoolTypes
  <2>1. Right(got)
    BY <1>2, ArrivalKinds, ReceivedRight
  <2>2. CASE Refused(got)
    BY <1>1, <1>2, <2>1, <2>2 DEF Right, MovesOfEvent, Shared, Share
  <2>3. CASE ~Refused(got)
    <3>1. MovesOfEvent(got) = Moves(got)
      BY <1>2, <2>3 DEF MovesOfEvent
    <3> QED
      BY <1>2, <2>1, <2>3, <3>1 DEF Right, MovesTold, Shared
  <2> QED
    BY <2>2, <2>3
<1>3. CASE got.type \notin PoolTypes
  BY <1>1, <1>3 DEF MovesOfEvent, Shared, Share
<1> QED
  BY <1>2, <1>3

LEMMA RewardsOnly ==
  ASSUME NEW sent \in ThorEvents, sent.type = "rewards"
  PROVE  sent \in ThorRewards
<1>1. CASE sent \in ThorSwaps
  BY <1>1, SwapIs DEF Event, SwapOf
<1>2. CASE sent \in ThorLiquidity
  BY <1>2, LiquidityIs DEF Event, LiquidityOf
<1>3. CASE sent \in ThorSigned
  <2>1. PICK s \in Symbols, add \in BOOLEAN : CorrectionOf(sent, s, add)
    BY <1>3, SignedIs
  <2> QED
    BY <2>1 DEF Event, CorrectionOf
<1>4. CASE sent \in ThorSlashes
  BY <1>4, SlashIs DEF Event
<1>5. CASE sent \in ThorGas
  BY <1>5 DEF ThorGas, Event
<1>6. CASE sent \in ThorFees
  <2>1. PICK a \in Charged, n \in {0, 2} :
          sent = Event("fee", [coins |-> Coin(a, 1), pool_deduct |-> n])
    BY <1>6, FeeIs
  <2> QED
    BY <2>1 DEF Event
<1> QED
  BY <1>1, <1>2, <1>3, <1>4, <1>5, <1>6 DEF ThorEvents, ThorAdjustments

LEMMA RewardedFinite ==
  ASSUME NEW sent \in ThorRewards, NEW e \in Received(sent), ~Refused(e)
  PROVE  IsFiniteSet(DOMAIN Rewards(e).per_pool)
<1>1. PICK r \in [{L1(s) : s \in Symbols} -> {2, -1}] :
        sent = Event("rewards", [bond_reward |-> 1, per_pool |-> r])
  BY DEF ThorRewards
<1>2. /\ sent.type = "rewards" /\ DOMAIN sent = {"type", "attr"}
      /\ sent.attr = [bond_reward |-> 1, per_pool |-> r]
  BY <1>1 DEF Event
<1>3. DOMAIN sent.attr = {"bond_reward", "per_pool"} /\ sent.attr["per_pool"] = r
  BY <1>2
<1>4. DOMAIN e.attr["per_pool"] = DOMAIN r
  <2>1. CASE e = sent
    BY <1>3, <2>1
  <2>2. CASE \E k \in DOMAIN sent.attr \ {"per_pool", "slashed"} :
               e = [sent EXCEPT !.attr[k] = Garbled]
    BY <1>2, <1>3, <2>2
  <2>3. CASE \E p \in DOMAIN sent.attr.per_pool : e = [sent EXCEPT !.attr.per_pool[p] = Garbled]
    BY <1>2, <1>3, <2>3
  <2>4. "slashed" \notin DOMAIN sent.attr
    BY <1>3
  <2> QED
    BY <2>1, <2>2, <2>3, <2>4, ReceivedIs
<1>5. IsFiniteSet(DOMAIN r)
  <2> DEFINE f == [s \in Symbols |-> L1(s)]
  <2>1. f \in Surjection(Symbols, {L1(s) : s \in Symbols})
    BY Fun_IsSurj
  <2> QED
    BY <2>1, SymbolsAssumption, FS_Surjection
<1>6. DOMAIN Rewards(e).per_pool \subseteq DOMAIN r
  BY <1>4 DEF Rewards
<1> QED
  BY <1>5, <1>6, FS_Subset

\* A transfer that is not refused has its list of coins.
LEMMA TransferList ==
  ASSUME NEW sent \in OtherEvents, NEW got \in ReceivedOther(sent), sent.type = "transfer",
         got.type = "transfer", ~RefusedOther(got)
  PROVE  IsList(got.attr.amount)
<1>1. PICK coins \in {<<Coin(Lower(PlainRune), 14)>>,
                      <<Coin(Lower(Text("BTC-BTC")), 15), Coin(Lower(Text("TCY")), 16)>>} :
        sent = Event("transfer", [sender |-> Text("from"), recipient |-> Text("to"), amount |-> coins])
  <2>1. \A type, attr : Event(type, attr).type = type
    BY DEF Event
  <2>2. CASE sent \in OutwardEvents
    <3> DEFINE lists == {<<Coin(Lower(PlainRune), 14)>>,
                         <<Coin(Lower(Text("BTC-BTC")), 15), Coin(Lower(Text("TCY")), 16)>>}
               moved(coins) == Event("transfer", [sender |-> Text("from"), recipient |-> Text("to"),
                                                  amount |-> coins])
    <3>1. \/ \E attr : sent = Event("outbound", attr) \/ sent = Event("refund", attr)
          \/ sent \in {moved(coins) : coins \in lists}
      BY <2>2 DEF OutwardEvents
    <3>2. sent \in {moved(coins) : coins \in lists}
      <4> HIDE DEF lists, moved
      <4> QED
        BY <2>1, <3>1
    <3> QED
      BY <3>2
  <2>3. CASE sent \in NodeEvents
    <3>1. \E type \in OtherTypes \ {"transfer"} : \E attr : sent = Event(type, attr)
      BY <2>3 DEF NodeEvents, OtherTypes
    <3> QED
      BY <2>1, <3>1
  <2>4. CASE sent \in SupplyEvents
    <3>1. \E type \in OtherTypes \ {"transfer"} : \E attr : sent = Event(type, attr)
      BY <2>4 DEF SupplyEvents, OtherTypes
    <3> QED
      BY <2>1, <3>1
  <2>5. CASE sent \in SilentEvents
    BY <2>1, <2>5 DEF SilentEvents
  <2> QED
    BY <2>2, <2>3, <2>4, <2>5 DEF OtherEvents
<1>2. IsList(coins)
  <2>1. DOMAIN coins = 1 .. 1 \/ DOMAIN coins = 1 .. 2
    BY <1>1
  <2> QED
    BY <2>1 DEF IsList
<1>3. /\ DOMAIN sent = {"type", "attr"}
      /\ DOMAIN sent.attr = {"sender", "recipient", "amount"} /\ sent.attr["amount"] = coins
  BY <1>1 DEF Event
<1>4. "amount" \in DOMAIN got.attr
  BY DEF RefusedOther, Required
<1>5. Shape(sent, "amount") = "coins"
  BY DEF Shape
<1>6. DOMAIN got.attr["amount"] = DOMAIN coins
  <2>1. CASE got = sent
    BY <1>3, <2>1
  <2>2. CASE \E without \in DOMAIN sent.attr :
               got = [sent EXCEPT !.attr = [k \in DOMAIN sent.attr \ {without} |-> sent.attr[k]]]
    BY <1>3, <1>4, <2>2
  <2>3. CASE \E k \in DOMAIN sent.attr \ {"amount"} : got = [sent EXCEPT !.attr[k] = Garbled]
    BY <1>3, <2>3
  <2>4. CASE \E k \in DOMAIN sent.attr : \E i \in DOMAIN sent.attr[k] :
               got = [sent EXCEPT !.attr[k][i] = Garbled]
    BY <1>3, <2>4
  <2> QED
    BY <1>5, <2>1, <2>2, <2>3, <2>4 DEF ReceivedOther
<1> QED
  BY <1>2, <1>6 DEF IsList

LEMMA RowsOfArrival ==
  ASSUME NEW sent \in ThorEvents \cup OtherEvents, NEW got \in Arrivals(sent)
  PROVE  InEventTables(RowsOfEvent(got))
<1>1. CASE got.type \in PoolTypes
  <2>1. CASE Refused(got)
    <3>1. RowsOfEvent(got) = <<>>
      BY <1>1, <2>1 DEF RowsOfEvent
    <3> QED
      BY <3>1, NoRows
  <2>2. CASE ~Refused(got)
    <3>1. RowsOfEvent(got) = PoolRows(got)
      BY <1>1, <2>2 DEF RowsOfEvent
    <3>2. ASSUME got.type = "rewards" PROVE IsFiniteSet(DOMAIN Rewards(got).per_pool)
      <4>1. sent \in ThorEvents /\ sent.type = "rewards" /\ got \in Received(sent)
        BY <1>1, <3>2, ArrivalKinds
      <4>2. sent \in ThorRewards
        BY <4>1, RewardsOnly
      <4> QED
        BY <2>2, <4>1, <4>2, RewardedFinite
    <3> QED
      BY <1>1, <3>1, <3>2, PoolRowsTables
  <2> QED
    BY <2>1, <2>2
<1>2. CASE got.type \notin PoolTypes
  <2>1. CASE RefusedOther(got)
    <3>1. RowsOfEvent(got) = <<>>
      BY <1>2, <2>1 DEF RowsOfEvent
    <3> QED
      BY <3>1, NoRows
  <2>2. CASE ~RefusedOther(got)
    <3>1. RowsOfEvent(got) = OtherRows(got)
      BY <1>2, <2>2 DEF RowsOfEvent
    <3>2. sent \in OtherEvents /\ got.type = sent.type
      BY <1>2, ArrivalKinds
    <3>3. got.type \in OtherTypes
      BY <3>2, TypesThatMove
    <3>4. got.type = "transfer" => IsList(got.attr.amount)
      BY <1>2, <2>2, <3>2, TransferList DEF Arrivals
    <3>5. InEventTables(OtherRows(got))
      BY <3>3, <3>4, OtherRowsTables
    <3> QED
      BY <3>1, <3>5
  <2> QED
    BY <2>1, <2>2
<1> QED
  BY <1>1, <1>2

\* A block is any event with anything that can arrive of it.
ArrivedBlocks ==
  UNION {{[sent |-> sent, got |-> got] : got \in Arrivals(sent)} : sent \in ThorEvents \cup OtherEvents}

\* The pools a block touches, and what it does to one of them.
Touched(b) == DOMAIN MovesOfEvent(b.got)
Gain(b, k) == Share(MovesOfEvent(b.got), k)

LEMMA BlockIs ==
  ASSUME NEW b \in ArrivedBlocks
  PROVE  /\ b.sent \in ThorEvents \cup OtherEvents /\ b.got \in Arrivals(b.sent)
         /\ Touched(b) \subseteq Names
         /\ \A k : Gain(b, k) \in Depths
         /\ \A k : k \notin Touched(b) => Gain(b, k) = NoDepth
         /\ \A p \in Pools : Gain(b, p) = Shared(b.got, p)
         /\ InEventTables(RowsOfEvent(b.got))
<1>0. PICK sent \in ThorEvents \cup OtherEvents : \E got \in Arrivals(sent) :
        b = [sent |-> sent, got |-> got]
  BY DEF ArrivedBlocks
<1>1. PICK got \in Arrivals(sent) : b = [sent |-> sent, got |-> got]
  BY <1>0
<1>2. b.sent = sent /\ b.got = got
  BY <1>1
<1>3. NoDepth \in Depths
  BY AmountsAre DEF NoDepth
<1>4. \A k : Gain(b, k) \in Depths
  BY <1>2, <1>3, MovesOfArrival DEF Gain, Share
<1>5. \A k : k \notin Touched(b) => Gain(b, k) = NoDepth
  BY DEF Gain, Touched, Share
<1>6. Touched(b) \subseteq Names /\ \A p \in Pools : Gain(b, p) = Shared(b.got, p)
  BY <1>2, MovesOfArrival DEF Touched, Gain
<1> QED
  BY <1>2, <1>4, <1>5, <1>6, RowsOfArrival

LEMMA NewBlock ==
  ASSUME NEW sent \in ThorEvents \cup OtherEvents, NEW got \in Arrivals(sent)
  PROVE  [sent |-> sent, got |-> got] \in ArrivedBlocks
BY DEF ArrivedBlocks

\* The depth of a pool after the first n of some blocks.
GainOf(blocks, k, c, n) == [i \in 1 .. n |-> Gain(blocks[i], k)[c]]
Reached(blocks, k, n) == [c \in DOMAIN NoDepth |-> Total(GainOf(blocks, k, c, n))]

LEMMA DepthFields ==
  /\ DOMAIN NoDepth = {"asset", "rune", "synth", "units"}
  /\ NoDepth \in Depths
  /\ \A c \in DOMAIN NoDepth : NoDepth[c] = 0
  /\ \A d \in Depths : DOMAIN d = DOMAIN NoDepth /\ d = [c \in DOMAIN NoDepth |-> d[c]]
                       /\ \A c \in DOMAIN NoDepth : d[c] \in Int
  /\ \A f : (\A c \in DOMAIN NoDepth : f[c] \in Int) => [c \in DOMAIN NoDepth |-> f[c]] \in Depths
<1>1. NoDepth = [asset |-> 0, rune |-> 0, synth |-> 0, units |-> 0]
  BY DEF NoDepth, Amounts
<1>2. DOMAIN NoDepth = {"asset", "rune", "synth", "units"}
  BY <1>1
<1>3. \A d \in Depths : DOMAIN d = {"asset", "rune", "synth", "units"}
         /\ d = [c \in {"asset", "rune", "synth", "units"} |-> d[c]]
         /\ \A c \in {"asset", "rune", "synth", "units"} : d[c] \in Int
  BY DEF Depths
<1>4. ASSUME NEW f, \A c \in {"asset", "rune", "synth", "units"} : f[c] \in Int
      PROVE  [c \in {"asset", "rune", "synth", "units"} |-> f[c]] \in Depths
  BY <1>4 DEF Depths
<1>5. NoDepth \in Depths
  BY AmountsAre DEF NoDepth
<1>6. \A c \in {"asset", "rune", "synth", "units"} : NoDepth[c] = 0
  BY <1>1
<1> QED
  BY <1>2, <1>3, <1>4, <1>5, <1>6

\* Sums of whole numbers.
LEMMA GainType ==
  ASSUME NEW blocks \in Seq(ArrivedBlocks), NEW k, NEW n \in 0 .. Len(blocks),
         NEW c \in DOMAIN NoDepth
  PROVE  GainOf(blocks, k, c, n) \in [1 .. n -> Int]
<1>1. \A i \in 1 .. n : blocks[i] \in ArrivedBlocks
  OBVIOUS
<1>2. \A i \in 1 .. n : Gain(blocks[i], k)[c] \in Int
  BY <1>1, BlockIs, DepthFields
<1> QED
  BY <1>2 DEF GainOf

\* No block leaves no depth, and a block adds what it does.
LEMMA ReachedNone ==
  ASSUME NEW blocks \in Seq(ArrivedBlocks), NEW k
  PROVE  Reached(blocks, k, 0) = NoDepth
<1>1. ASSUME NEW c \in DOMAIN NoDepth PROVE Total(GainOf(blocks, k, c, 0)) = NoDepth[c]
  <2>1. GainOf(blocks, k, c, 0) \in [1 .. 0 -> Int] /\ 1 .. 0 = {}
    BY GainType
  <2> QED
    BY <2>1, NothingTotal, DepthFields
<1> QED
  BY <1>1, DepthFields DEF Reached

LEMMA ReachedNext ==
  ASSUME NEW blocks \in Seq(ArrivedBlocks), NEW k, NEW n \in 0 .. Len(blocks) - 1,
         Reached(blocks, k, n) \in Depths
  PROVE  Reached(blocks, k, n + 1) = Sum2(Reached(blocks, k, n), Gain(blocks[n + 1], k))
<1>1. n \in Nat /\ n \in 0 .. Len(blocks) /\ n + 1 \in 0 .. Len(blocks) /\ n + 1 \in 1 .. n + 1
  OBVIOUS
<1>2. ASSUME NEW c \in DOMAIN NoDepth
      PROVE  Total(GainOf(blocks, k, c, n + 1))
               = Total(GainOf(blocks, k, c, n)) + Gain(blocks[n + 1], k)[c]
  <2> DEFINE f == GainOf(blocks, k, c, n)
             g == GainOf(blocks, k, c, n + 1)
  <2>1. f \in [1 .. n -> Int] /\ g \in [1 .. n + 1 -> Int]
    BY <1>1, GainType
  <2>2. \A i \in 1 .. n : i \in 1 .. n + 1
    BY <1>1
  <2>3. (\A i \in 1 .. n : g[i] = f[i]) /\ g[n + 1] = Gain(blocks[n + 1], k)[c]
    BY <1>1, <2>2 DEF GainOf
  <2> HIDE DEF f, g
  <2>4. Total(g) = Total(f) + g[n + 1]
    BY <1>1, <2>1, <2>3, TotalAppend
  <2> QED
    BY <2>3, <2>4 DEF f, g
<1>3. \A c \in DOMAIN NoDepth : Reached(blocks, k, n)[c] = Total(GainOf(blocks, k, c, n))
  BY DEF Reached
<1>4. DOMAIN Reached(blocks, k, n) = DOMAIN NoDepth
  BY DEF Reached
<1>5. Sum2(Reached(blocks, k, n), Gain(blocks[n + 1], k))
        = [c \in DOMAIN NoDepth |-> Reached(blocks, k, n)[c] + Gain(blocks[n + 1], k)[c]]
  BY <1>4 DEF Sum2
<1> QED
  BY <1>2, <1>3, <1>5 DEF Reached

\* It is a depth, and only the blocks that touch the pool change it.
LEMMA ReachedType ==
  ASSUME NEW blocks \in Seq(ArrivedBlocks), NEW k, NEW n \in 0 .. Len(blocks)
  PROVE  Reached(blocks, k, n) \in Depths
<1> DEFINE S == {m \in Nat : m <= Len(blocks) => Reached(blocks, k, m) \in Depths}
<1>1. 0 \in S
  BY ReachedNone, DepthFields
<1>2. ASSUME NEW m \in S, m + 1 <= Len(blocks) PROVE Reached(blocks, k, m + 1) \in Depths
  <2>1. m \in 0 .. Len(blocks) - 1 /\ Reached(blocks, k, m) \in Depths /\ m + 1 \in 1 .. Len(blocks)
    BY <1>2
  <2>2. Gain(blocks[m + 1], k) \in Depths
    BY <2>1, BlockIs
  <2> QED
    BY <2>1, <2>2, ReachedNext, SumIsDepth
<1>3. \A m \in S : m + 1 \in S
  BY <1>2
<1>4. S \in SUBSET Nat
  OBVIOUS
<1> HIDE DEF S
<1>5. n \in S
  BY <1>1, <1>3, <1>4, NaturalInduction
<1> QED
  BY <1>5 DEF S

LEMMA ReachedIdle ==
  ASSUME NEW blocks \in Seq(ArrivedBlocks), NEW k, NEW n \in 0 .. Len(blocks), NEW i \in 0 .. n,
         \A j \in i + 1 .. n : k \notin Touched(blocks[j])
  PROVE  Reached(blocks, k, n) = Reached(blocks, k, i)
<1> DEFINE S == {m \in Nat : i + m <= n => Reached(blocks, k, i + m) = Reached(blocks, k, i)}
<1>1. 0 \in S
  OBVIOUS
<1>2. ASSUME NEW m \in S, i + (m + 1) <= n
      PROVE  Reached(blocks, k, i + (m + 1)) = Reached(blocks, k, i)
  <2>1. /\ i + m \in 0 .. Len(blocks) - 1 /\ i + m \in 0 .. Len(blocks)
        /\ (i + m) + 1 \in i + 1 .. n /\ (i + m) + 1 \in 1 .. Len(blocks)
        /\ i + (m + 1) = (i + m) + 1
        /\ Reached(blocks, k, i + m) = Reached(blocks, k, i)
    BY <1>2
  <2>2. blocks[(i + m) + 1] \in ArrivedBlocks /\ k \notin Touched(blocks[(i + m) + 1])
    BY <2>1
  <2>3. Gain(blocks[(i + m) + 1], k) = NoDepth
    BY <2>2, BlockIs
  <2>4. Reached(blocks, k, i + m) \in Depths
    BY <2>1, ReachedType
  <2>5. Reached(blocks, k, (i + m) + 1) = Sum2(Reached(blocks, k, i + m), NoDepth)
    BY <2>1, <2>3, <2>4, ReachedNext
  <2> QED
    BY <2>1, <2>4, <2>5, SumIsDepth
<1>3. \A m \in S : m + 1 \in S
  BY <1>2
<1>4. S \in SUBSET Nat
  OBVIOUS
<1> HIDE DEF S
<1>5. n - i \in S
  BY <1>1, <1>3, <1>4, NaturalInduction
<1> QED
  BY <1>5 DEF S

\* Later blocks do not matter.
LEMMA ReachedSame ==
  ASSUME NEW blocks, NEW others, NEW k, NEW n, \A i \in 1 .. n : others[i] = blocks[i]
  PROVE  Reached(others, k, n) = Reached(blocks, k, n)
BY DEF Reached, GainOf

------------------------------------------------------------------------------
\* The rows of the blocks, and the depths a start reads from them.

\* The rows of the i-th of some blocks, and of a range of them.
StampedAt(blocks, i) ==
  {Stamp(RowsOfEvent(blocks[i].got)[j], i) : j \in DOMAIN RowsOfEvent(blocks[i].got)}
DepthsAt(blocks, i) ==
  {Stamp(DepthRow(k, Reached(blocks, k, i)), i) : k \in Touched(blocks[i])}
RowsAt(blocks, i) == StampedAt(blocks, i) \cup DepthsAt(blocks, i)
RowsOver(blocks, m, n) == UNION {RowsAt(blocks, i) : i \in m .. n}

LEMMA StampIs ==
  \A row, i : /\ Stamp(row, i).table = row.table /\ Stamp(row, i).columns = row.columns
              /\ Stamp(row, i).id = i /\ Stamp(row, i).timestamp = TimeOf(i)
BY DEF Stamp

LEMMA DepthRowIs ==
  \A k, d : /\ DepthRow(k, d).table = "block_pool_depths"
            /\ DepthRow(k, d).columns.pool = k /\ DepthRow(k, d).columns.depth = d
BY DEF DepthRow

LEMMA TimesAscend ==
  \A i, j \in Nat : /\ TimeOf(i) < TimeOf(j) <=> i < j
                    /\ TimeOf(i) >= TimeOf(j) <=> i >= j
BY DEF TimeOf

\* A row tells its block, and its table which part of it it is from.
LEMMA RowFacts ==
  ASSUME NEW blocks \in Seq(ArrivedBlocks), NEW i \in 1 .. Len(blocks), NEW r \in RowsAt(blocks, i)
  PROVE  /\ r.table \in RollbackTables /\ r.id = i /\ r.timestamp = TimeOf(i)
         /\ r.table = "block_pool_depths" <=> r \in DepthsAt(blocks, i)
         /\ r.table # "block_pool_depths" <=> r \in StampedAt(blocks, i)
<1>1. InEventTables(RowsOfEvent(blocks[i].got))
  BY BlockIs
<1>2. "block_pool_depths" \notin EventTableNames /\ "block_pool_depths" \in RollbackTables
      /\ EventTableNames \subseteq RollbackTables
  BY DEF EventTableNames, RollbackTables
<1>3. \A q \in StampedAt(blocks, i) :
        q.table \in EventTableNames /\ q.id = i /\ q.timestamp = TimeOf(i)
  BY <1>1, StampIs DEF StampedAt, InEventTables
<1>4. \A q \in DepthsAt(blocks, i) :
        q.table = "block_pool_depths" /\ q.id = i /\ q.timestamp = TimeOf(i)
  BY StampIs, DepthRowIs DEF DepthsAt
<1>5. r \in StampedAt(blocks, i) \/ r \in DepthsAt(blocks, i)
  BY DEF RowsAt
<1> QED
  BY <1>2, <1>3, <1>4, <1>5

LEMMA RowsSame ==
  ASSUME NEW blocks, NEW others, NEW i \in Nat, i # 0, \A j \in 1 .. i : others[j] = blocks[j]
  PROVE  /\ StampedAt(others, i) = StampedAt(blocks, i)
         /\ RowsAt(others, i) = RowsAt(blocks, i)
<1>1. others[i] = blocks[i]
  OBVIOUS
<1>2. \A k : Reached(others, k, i) = Reached(blocks, k, i)
  BY ReachedSame
<1> QED
  BY <1>1, <1>2 DEF RowsAt, StampedAt, DepthsAt

LEMMA RowsOverSame ==
  ASSUME NEW blocks, NEW others, NEW m \in Nat, NEW n \in Nat, m # 0,
         \A j \in 1 .. n : others[j] = blocks[j]
  PROVE  RowsOver(others, m, n) = RowsOver(blocks, m, n)
<1>1. ASSUME NEW i \in m .. n PROVE RowsAt(others, i) = RowsAt(blocks, i)
  <2>1. i \in Nat /\ i # 0 /\ \A j \in 1 .. i : others[j] = blocks[j]
    OBVIOUS
  <2> QED
    BY <2>1, RowsSame
<1> QED
  BY <1>1 DEF RowsOver

LEMMA FirstRowsSame ==
  ASSUME NEW blocks, NEW others, NEW n \in Nat, \A j \in 1 .. n : others[j] = blocks[j]
  PROVE  RowsOver(others, 1, n) = RowsOver(blocks, 1, n)
<1>1. 1 \in Nat /\ 1 # 0
  OBVIOUS
<1> QED
  BY <1>1, RowsOverSame

LEMMA RowsOverNext ==
  ASSUME NEW blocks, NEW m \in Nat, NEW n \in Nat, m <= n + 1
  PROVE  RowsOver(blocks, m, n + 1) = RowsOver(blocks, m, n) \cup RowsAt(blocks, n + 1)
<1>1. m .. n + 1 = (m .. n) \cup {n + 1}
  OBVIOUS
<1> QED
  BY <1>1 DEF RowsOver

LEMMA RowsOverJoin ==
  ASSUME NEW blocks, NEW m \in Nat, NEW n \in Nat, m <= n
  PROVE  RowsOver(blocks, 1, n) = RowsOver(blocks, 1, m) \cup RowsOver(blocks, m + 1, n)
<1>1. 1 .. n = (1 .. m) \cup (m + 1 .. n)
  OBVIOUS
<1> QED
  BY <1>1 DEF RowsOver

LEMMA RowsOverNone ==
  ASSUME NEW blocks, NEW n \in Nat
  PROVE  RowsOver(blocks, n + 1, n) = {}
<1>1. n + 1 .. n = {}
  OBVIOUS
<1> QED
  BY <1>1 DEF RowsOver

\* The last of the blocks that touch a pool.
LEMMA LastTouch ==
  ASSUME NEW T \in SUBSET Nat, NEW n \in Nat, \A i \in T : i <= n, T # {}
  PROVE  \E i \in T : \A j \in T : j <= i
<1> DEFINE D == {n - i : i \in T}
<1>1. D \in SUBSET Nat /\ D # {}
  <2>1. \A i \in T : n - i \in Nat
    OBVIOUS
  <2> QED
    BY <2>1
<1>2. PICK d \in D : \A e \in D : d <= e
  BY <1>1, LeastNatural
<1>3. PICK i \in T : d = n - i
  BY <1>2
<1>4. \A j \in T : n - i <= n - j
  BY <1>2, <1>3
<1> QED
  BY <1>4

\* A start reads from the rows of some blocks the depths that these left.
LEMMA LatestIs ==
  ASSUME NEW blocks \in Seq(ArrivedBlocks), NEW n \in 0 .. Len(blocks)
  PROVE  Latest(RowsOver(blocks, 1, n)) = [k \in Names |-> Reached(blocks, k, n)]
<1> DEFINE rows == RowsOver(blocks, 1, n)
           own(k) == {r \in rows : r.table = "block_pool_depths" /\ r.columns.pool = k}
           touch(k) == {i \in 1 .. n : k \in Touched(blocks[i])}
           row(k, i) == Stamp(DepthRow(k, Reached(blocks, k, i)), i)
<1>1. n \in Nat /\ \A i \in 1 .. n : i \in 1 .. Len(blocks) /\ i \in Nat
  OBVIOUS
<1>2. \A k : own(k) = {row(k, i) : i \in touch(k)}
  <2> TAKE k
  <2>1. ASSUME NEW r \in own(k) PROVE r \in {row(k, i) : i \in touch(k)}
    <3>1. PICK i \in 1 .. n : r \in RowsAt(blocks, i)
      BY <2>1 DEF RowsOver
    <3>2. r \in DepthsAt(blocks, i)
      BY <1>1, <2>1, <3>1, RowFacts
    <3>3. PICK h \in Touched(blocks[i]) : r = row(h, i)
      BY <3>2 DEF DepthsAt
    <3>4. h = k
      BY <2>1, <3>3, StampIs, DepthRowIs
    <3> QED
      BY <3>3, <3>4
  <2>2. ASSUME NEW i \in touch(k) PROVE row(k, i) \in own(k)
    <3>1. row(k, i) \in DepthsAt(blocks, i)
      BY <2>2 DEF DepthsAt
    <3>2. row(k, i) \in rows
      BY <2>2, <3>1 DEF RowsAt, RowsOver
    <3> QED
      BY <3>2, StampIs, DepthRowIs
  <2> QED
    BY <2>1, <2>2
<1>3. ASSUME NEW k \in Names, touch(k) = {} PROVE Reached(blocks, k, n) = NoDepth
  <2>1. 0 \in 0 .. n /\ \A j \in 0 + 1 .. n : k \notin Touched(blocks[j])
    BY <1>3
  <2>2. Reached(blocks, k, n) = Reached(blocks, k, 0)
    BY <2>1, ReachedIdle
  <2> QED
    BY <2>2, ReachedNone
<1>4. ASSUME NEW k \in Names, touch(k) # {}
      PROVE  (CHOOSE r \in own(k) : \A q \in own(k) : r.timestamp >= q.timestamp).columns.depth
               = Reached(blocks, k, n)
  <2>1. PICK m \in touch(k) : \A j \in touch(k) : j <= m
    <3>1. touch(k) \in SUBSET Nat /\ \A i \in touch(k) : i <= n
      BY <1>1
    <3> QED
      BY <1>1, <1>4, <3>1, LastTouch
  <2>2. \A i \in touch(k) : row(k, i).timestamp = TimeOf(i) /\ i \in Nat
    BY <1>1, StampIs
  <2>3. \A i \in touch(k) : TimeOf(m) >= TimeOf(i)
    BY <2>1, <2>2, TimesAscend
  <2>4. row(k, m) \in own(k) /\ \A q \in own(k) : row(k, m).timestamp >= q.timestamp
    <3> HIDE DEF own, touch, row
    <3>1. \A q \in own(k) : \E i \in touch(k) : q = row(k, i)
      BY <1>2
    <3> QED
      BY <1>2, <2>1, <2>2, <2>3, <3>1
  <2> DEFINE latest == CHOOSE r \in own(k) : \A q \in own(k) : r.timestamp >= q.timestamp
  <2>5. latest \in own(k) /\ \A q \in own(k) : latest.timestamp >= q.timestamp
    BY <2>4
  <2> HIDE DEF latest, own, touch
  <2>6. PICK i \in touch(k) : latest = row(k, i)
    BY <1>2, <2>5
  <2>7. TimeOf(i) >= TimeOf(m)
    BY <2>1, <2>2, <2>4, <2>5, <2>6
  <2>8. i = m
    <3>1. i >= m /\ i <= m /\ i \in Nat /\ m \in Nat
      BY <2>1, <2>2, <2>6, <2>7, TimesAscend
    <3> QED
      BY <3>1
  <2>9. latest.columns.depth = Reached(blocks, k, m)
    BY <2>6, <2>8, StampIs, DepthRowIs
  <2>10. Reached(blocks, k, n) = Reached(blocks, k, m)
    <3>1. m \in 0 .. n
      BY <2>1 DEF touch
    <3>2. \A j \in m + 1 .. n : k \notin Touched(blocks[j])
      <4>1. \A j \in m + 1 .. n : j \in 1 .. n /\ ~(j <= m)
        BY <3>1
      <4> QED
        BY <2>1, <4>1 DEF touch
    <3> QED
      BY <3>1, <3>2, ReachedIdle
  <2> QED
    BY <2>9, <2>10 DEF latest
<1> HIDE DEF touch, row, own
<1>5. \A k : own(k) = {} <=> touch(k) = {}
  BY <1>2
<1> USE DEF own
<1>6. Latest(rows) = [k \in Names |->
        IF own(k) = {} THEN NoDepth
        ELSE (CHOOSE r \in own(k) : \A q \in own(k) : r.timestamp >= q.timestamp).columns.depth]
  BY DEF Latest
<1> HIDE DEF own
<1> QED
  BY <1>3, <1>4, <1>5, <1>6

LEMMA BagFacts ==
  /\ DOMAIN EmptyBag = {}
  /\ \A S : DOMAIN SetToBag(S) = S
  /\ \A s : DOMAIN ToBag(s) = {s[i] : i \in DOMAIN s}
BY DEF EmptyBag, (+), SetToBag, ToBag, Range

------------------------------------------------------------------------------
\* Every step keeps the rows and the depths.

\* All the blocks there are, in the database or on their way.
Chain == log \o batch

\* The rows are those of the blocks, written or pending, and the depths in
\* memory what the blocks left.
BlocksInv ==
  /\ log \in Seq(ArrivedBlocks) /\ batch \in Seq(ArrivedBlocks)
  /\ DOMAIN tables = RowsOver(Chain, 1, Len(log))
  /\ DOMAIN pending = RowsOver(Chain, Len(log) + 1, Len(Chain))
  /\ tracker = [k \in Names |-> Reached(Chain, k, Len(Chain))]

LEMMA ChainIs ==
  ASSUME NEW s \in Seq(ArrivedBlocks), NEW t \in Seq(ArrivedBlocks)
  PROVE  /\ s \o t \in Seq(ArrivedBlocks) /\ Len(s \o t) = Len(s) + Len(t)
         /\ Len(s) \in Nat /\ Len(t) \in Nat
         /\ \A j \in 1 .. Len(s) : (s \o t)[j] = s[j]
         /\ s \o <<>> = s
OBVIOUS

LEMMA ChainAppend ==
  ASSUME NEW s \in Seq(ArrivedBlocks), NEW t \in Seq(ArrivedBlocks), NEW b \in ArrivedBlocks
  PROVE  /\ Append(t, b) \in Seq(ArrivedBlocks)
         /\ Len(s \o Append(t, b)) = Len(s) + Len(t) + 1
         /\ (s \o Append(t, b))[Len(s) + Len(t) + 1] = b
         /\ \A j \in 1 .. Len(s) + Len(t) : (s \o Append(t, b))[j] = (s \o t)[j]
<1>1. Append(t, b) \in Seq(ArrivedBlocks) /\ Len(Append(t, b)) = Len(t) + 1
      /\ Append(t, b)[Len(t) + 1] = b /\ \A j \in 1 .. Len(t) : Append(t, b)[j] = t[j]
  OBVIOUS
<1> DEFINE u == Append(t, b)
<1>2. /\ u \in Seq(ArrivedBlocks) /\ Len(u) = Len(t) + 1
      /\ u[Len(t) + 1] = b /\ \A j \in 1 .. Len(t) : u[j] = t[j]
  BY <1>1
<1> HIDE DEF u
<1>3. Len(s \o u) = Len(s) + Len(t) + 1 /\ (s \o u)[Len(s) + Len(t) + 1] = b
  BY <1>2
<1>4. \A j \in 1 .. Len(s) + Len(t) : (s \o u)[j] = (s \o t)[j]
  BY <1>2
<1> QED
  BY <1>2, <1>3, <1>4 DEF u

LEMMA BlocksStart == BlocksInit => BlocksInv
<1> SUFFICES ASSUME BlocksInit PROVE BlocksInv
  OBVIOUS
<1>1. log = <<>> /\ batch = <<>> /\ <<>> \in Seq(ArrivedBlocks) /\ Len(<<>>) = 0
      /\ <<>> \o <<>> = <<>>
  BY DEF BlocksInit
<1>2. Chain = <<>> /\ Len(Chain) = 0 /\ Len(log) = 0
  BY <1>1 DEF Chain
<1>3. RowsOver(Chain, 1, 0) = {} /\ RowsOver(Chain, 0 + 1, 0) = {}
  BY RowsOverNone
<1>4. \A k : Reached(Chain, k, 0) = NoDepth
  BY <1>1, <1>2, ReachedNone
<1>5. DOMAIN tables = {} /\ DOMAIN pending = {}
  BY BagFacts DEF BlocksInit
<1>6. tracker = [k \in Names |-> NoDepth]
  BY DEF BlocksInit
<1> QED
  BY <1>1, <1>2, <1>3, <1>4, <1>5, <1>6 DEF BlocksInv

LEMMA AddBlockStep == BlocksInv /\ AddBlock => BlocksInv'
<1> SUFFICES ASSUME BlocksInv, AddBlock PROVE BlocksInv'
  OBVIOUS
<1> DEFINE n == Len(log) + Len(batch)
<1>1. PICK sent \in ThorEvents \cup OtherEvents : \E got \in Arrivals(sent) :
        LET rows == RowsOfEvent(got)
            moves == MovesOfEvent(got)
        IN  /\ batch' = Append(batch, [sent |-> sent, got |-> got])
            /\ tracker' = Moved(tracker, moves)
            /\ pending' = pending
                 (+) ToBag([i \in DOMAIN rows |-> Stamp(rows[i], n + 1)])
                 (+) SetToBag({Stamp(DepthRow(k, tracker'[k]), n + 1) : k \in DOMAIN moves})
  BY DEF AddBlock
<1>2. PICK got \in Arrivals(sent) :
        /\ batch' = Append(batch, [sent |-> sent, got |-> got])
        /\ tracker' = Moved(tracker, MovesOfEvent(got))
        /\ pending' = pending
             (+) ToBag([i \in DOMAIN RowsOfEvent(got) |-> Stamp(RowsOfEvent(got)[i], n + 1)])
             (+) SetToBag({Stamp(DepthRow(k, tracker'[k]), n + 1) : k \in DOMAIN MovesOfEvent(got)})
  BY <1>1
<1>3. log' = log /\ tables' = tables
  BY DEF AddBlock
<1> DEFINE b == [sent |-> sent, got |-> got]
<1>4. b \in ArrivedBlocks /\ b.got = got
  BY NewBlock
<1> HIDE DEF b
<1>5. /\ log \in Seq(ArrivedBlocks) /\ batch \in Seq(ArrivedBlocks) /\ batch' = Append(batch, b)
  BY <1>2 DEF BlocksInv, b
<1>6. /\ Chain \in Seq(ArrivedBlocks) /\ Len(Chain) = n /\ n \in Nat /\ Len(log) \in Nat
      /\ Len(log) <= n
  BY <1>5, ChainIs DEF Chain
<1>7. /\ batch' \in Seq(ArrivedBlocks) /\ Chain' \in Seq(ArrivedBlocks) /\ Len(Chain') = n + 1
      /\ Chain'[n + 1] = b /\ \A j \in 1 .. n : Chain'[j] = Chain[j]
  <2>1. batch' \in Seq(ArrivedBlocks) /\ Chain' = log \o Append(batch, b)
    <3>1. Chain' = log' \o batch'
      BY DEF Chain
    <3>2. Append(batch, b) \in Seq(ArrivedBlocks)
      BY <1>4, <1>5, ChainAppend
    <3> QED
      BY <1>3, <1>5, <3>1, <3>2
  <2> QED
    BY <1>4, <1>5, <2>1, ChainAppend, ChainIs DEF Chain
<1> HIDE DEF n
<1>8. Touched(b) = DOMAIN MovesOfEvent(got) /\ \A k : Gain(b, k) = Share(MovesOfEvent(got), k)
  BY <1>4 DEF Touched, Gain
<1>9. tracker' = [k \in Names |-> Reached(Chain', k, n + 1)]
  <2>1. tracker \in [Names -> Depths] /\ \A k \in Names : tracker[k] = Reached(Chain, k, n)
    <3>1. \A k \in Names : Reached(Chain, k, n) \in Depths
      BY <1>6, ReachedType
    <3> QED
      BY <1>6, <3>1 DEF BlocksInv
  <2>2. \A k \in Names : tracker'[k] = Sum2(tracker[k], Gain(b, k))
    BY <1>2, <1>8, <2>1, MovedIs
  <2>3. tracker' = [k \in Names |-> tracker'[k]]
    BY <1>2, <2>1 DEF Moved
  <2>4. ASSUME NEW k \in Names
        PROVE  Reached(Chain', k, n + 1) = Sum2(tracker[k], Gain(b, k))
    <3>1. Reached(Chain', k, n) = Reached(Chain, k, n)
      BY <1>7, ReachedSame
    <3>2. n \in 0 .. Len(Chain') - 1 /\ Reached(Chain', k, n) \in Depths
      BY <1>6, <1>7, ReachedType
    <3>3. Reached(Chain', k, n + 1) = Sum2(Reached(Chain', k, n), Gain(Chain'[n + 1], k))
      BY <1>7, <3>2, ReachedNext
    <3> QED
      BY <1>7, <2>1, <3>1, <3>3
  <2> QED
    BY <2>2, <2>3, <2>4
<1>10. DOMAIN pending' = DOMAIN pending \cup RowsAt(Chain', n + 1)
  <2> DEFINE stamped == [i \in DOMAIN RowsOfEvent(got) |-> Stamp(RowsOfEvent(got)[i], n + 1)]
             depths == {Stamp(DepthRow(k, tracker'[k]), n + 1) : k \in DOMAIN MovesOfEvent(got)}
  <2>1. pending' = pending (+) ToBag(stamped) (+) SetToBag(depths)
    BY <1>2
  <2>2. {stamped[i] : i \in DOMAIN stamped} = StampedAt(Chain', n + 1)
    BY <1>4, <1>7 DEF StampedAt
  <2>3. depths = DepthsAt(Chain', n + 1)
    <3>1. \A k \in DOMAIN MovesOfEvent(got) : k \in Names
      BY <1>4, <1>8, BlockIs
    <3>2. \A k \in DOMAIN MovesOfEvent(got) : tracker'[k] = Reached(Chain', k, n + 1)
      BY <1>9, <3>1
    <3> QED
      BY <1>7, <1>8, <3>2 DEF DepthsAt
  <2> HIDE DEF stamped, depths
  <2>4. DOMAIN pending' = (DOMAIN pending \cup {stamped[i] : i \in DOMAIN stamped}) \cup depths
    <3>1. /\ DOMAIN ToBag(stamped) = {stamped[i] : i \in DOMAIN stamped}
          /\ DOMAIN SetToBag(depths) = depths
      BY BagFacts
    <3>2. DOMAIN pending' = (DOMAIN pending \cup DOMAIN ToBag(stamped)) \cup DOMAIN SetToBag(depths)
      BY <2>1 DEF (+)
    <3> QED
      BY <3>1, <3>2
  <2> QED
    BY <2>2, <2>3, <2>4 DEF RowsAt
<1>11. DOMAIN tables' = RowsOver(Chain', 1, Len(log'))
  <2>1. \A j \in 1 .. Len(log) : Chain'[j] = Chain[j]
    BY <1>6, <1>7
  <2>2. RowsOver(Chain', 1, Len(log)) = RowsOver(Chain, 1, Len(log))
    BY <1>6, <2>1, FirstRowsSame
  <2> QED
    BY <1>3, <2>2 DEF BlocksInv
<1>12. DOMAIN pending' = RowsOver(Chain', Len(log') + 1, Len(Chain'))
  <2>1. RowsOver(Chain', Len(log) + 1, n) = RowsOver(Chain, Len(log) + 1, n)
    BY <1>6, <1>7, RowsOverSame
  <2>2. RowsOver(Chain', Len(log) + 1, n + 1)
          = RowsOver(Chain', Len(log) + 1, n) \cup RowsAt(Chain', n + 1)
    BY <1>6, RowsOverNext
  <2>3. DOMAIN pending = RowsOver(Chain, Len(log) + 1, n)
    BY <1>6 DEF BlocksInv
  <2> QED
    BY <1>3, <1>7, <1>10, <2>1, <2>2, <2>3
<1> QED
  BY <1>3, <1>5, <1>7, <1>9, <1>11, <1>12 DEF BlocksInv

LEMMA WriteBatchStep == BlocksInv /\ WriteBatch => BlocksInv'
<1> SUFFICES ASSUME BlocksInv, WriteBatch PROVE BlocksInv'
  OBVIOUS
<1>1. /\ tables' = tables (+) pending /\ log' = Chain /\ batch' = <<>> /\ pending' = EmptyBag
      /\ tracker' = tracker
  BY DEF WriteBatch, Chain
<1>2. Chain \in Seq(ArrivedBlocks) /\ Len(Chain) \in Nat /\ Len(log) \in Nat
      /\ Len(log) <= Len(Chain) /\ <<>> \in Seq(ArrivedBlocks)
  BY ChainIs DEF BlocksInv, Chain
<1>3. Chain' = Chain
  BY <1>1, <1>2, ChainIs DEF Chain
<1>4. DOMAIN tables' = RowsOver(Chain, 1, Len(Chain))
  <2>1. DOMAIN tables' = DOMAIN tables \cup DOMAIN pending
    BY <1>1 DEF (+)
  <2> QED
    BY <1>2, <2>1, RowsOverJoin DEF BlocksInv
<1>5. DOMAIN pending' = RowsOver(Chain, Len(Chain) + 1, Len(Chain))
  BY <1>1, <1>2, BagFacts, RowsOverNone
<1> QED
  BY <1>1, <1>2, <1>3, <1>4, <1>5 DEF BlocksInv

LEMMA RestartStep == BlocksInv /\ Restart => BlocksInv'
<1> SUFFICES ASSUME BlocksInv, Restart PROVE BlocksInv'
  OBVIOUS
<1>1. /\ tables' = tables /\ log' = log /\ batch' = <<>> /\ pending' = EmptyBag
      /\ tracker' = Latest(DOMAIN tables)
  BY DEF Restart
<1>2. /\ log \in Seq(ArrivedBlocks) /\ Len(log) \in Nat /\ <<>> \in Seq(ArrivedBlocks)
      /\ \A j \in 1 .. Len(log) : Chain[j] = log[j]
  BY ChainIs DEF BlocksInv, Chain
<1>3. Chain' = log
  BY <1>1, <1>2, ChainIs DEF Chain
<1>4. DOMAIN tables = RowsOver(log, 1, Len(log))
  BY <1>2, FirstRowsSame DEF BlocksInv
<1>5. tracker' = [k \in Names |-> Reached(log, k, Len(log))]
  BY <1>1, <1>2, <1>4, LatestIs
<1>6. DOMAIN pending' = RowsOver(log, Len(log) + 1, Len(log))
  BY <1>1, <1>2, BagFacts, RowsOverNone
<1> QED
  BY <1>1, <1>2, <1>3, <1>4, <1>5, <1>6 DEF BlocksInv

LEMMA PrefixIs ==
  ASSUME NEW s \in Seq(ArrivedBlocks), NEW h \in 1 .. Len(s)
  PROVE  /\ SubSeq(s, 1, h - 1) \in Seq(ArrivedBlocks) /\ Len(SubSeq(s, 1, h - 1)) = h - 1
         /\ \A j \in 1 .. h - 1 : SubSeq(s, 1, h - 1)[j] = s[j]
OBVIOUS

\* Removing the rows of a height and later ones leaves those of the blocks below.
LEMMA DeleteStep ==
  ASSUME BlocksInv, NEW cut \in DOMAIN log, DeleteFromHeight(cut)
  PROVE  BlocksInv'
<1> DEFINE left == {r \in DOMAIN tables :
                      r.table \in RollbackTables => r.timestamp < TimeOf(cut)}
           kept == SubSeq(log, 1, cut - 1)
<1>1. /\ batch = <<>> /\ tables' = [r \in left |-> tables[r]] /\ tracker' = Latest(left)
      /\ log' = kept /\ batch' = batch /\ pending' = pending
  BY DEF DeleteFromHeight
<1>2. /\ log \in Seq(ArrivedBlocks) /\ Len(log) \in Nat /\ <<>> \in Seq(ArrivedBlocks)
      /\ Chain = log /\ cut \in 1 .. Len(log) /\ cut - 1 \in Nat
  BY <1>1, ChainIs DEF BlocksInv, Chain
<1>3. /\ kept \in Seq(ArrivedBlocks) /\ Len(kept) = cut - 1
      /\ \A j \in 1 .. cut - 1 : kept[j] = log[j]
  BY <1>2, PrefixIs
<1> HIDE DEF kept
<1>4. Chain' = kept
  BY <1>1, <1>3, ChainIs DEF Chain
<1>5. DOMAIN tables = RowsOver(log, 1, Len(log))
  BY <1>2 DEF BlocksInv
<1>6. left = RowsOver(log, 1, cut - 1)
  <2>1. ASSUME NEW i \in 1 .. Len(log), NEW r \in RowsAt(log, i)
        PROVE  r \in left <=> i < cut
    <3>1. r \in DOMAIN tables
      BY <1>5, <2>1 DEF RowsOver
    <3>2. r.table \in RollbackTables /\ r.timestamp = TimeOf(i)
      BY <1>2, RowFacts
    <3>3. i \in Nat /\ cut \in Nat
      BY <1>2
    <3> QED
      BY <3>1, <3>2, <3>3, TimesAscend
  <2>2. \A r \in left : \E i \in 1 .. Len(log) : r \in RowsAt(log, i)
    BY <1>5 DEF RowsOver
  <2> HIDE DEF left
  <2>3. \A i \in 1 .. Len(log) : i < cut <=> i \in 1 .. cut - 1
    BY <1>2
  <2>4. \A i \in 1 .. cut - 1 : i \in 1 .. Len(log)
    BY <1>2
  <2> QED
    BY <2>1, <2>2, <2>3, <2>4 DEF RowsOver
<1>7. left = RowsOver(kept, 1, cut - 1)
  BY <1>2, <1>3, <1>6, FirstRowsSame
<1>8. DOMAIN tables' = left
  BY <1>1
<1> HIDE DEF left
<1>9. tracker' = [k \in Names |-> Reached(kept, k, cut - 1)]
  BY <1>1, <1>2, <1>3, <1>7, LatestIs
<1>10. DOMAIN pending' = RowsOver(kept, (cut - 1) + 1, cut - 1)
  <2>1. DOMAIN pending = {}
    BY <1>2, RowsOverNone DEF BlocksInv
  <2> QED
    BY <1>1, <1>2, <2>1, RowsOverNone
<1> QED
  BY <1>1, <1>2, <1>3, <1>4, <1>7, <1>8, <1>9, <1>10 DEF BlocksInv

LEMMA BlocksKeep == BlocksInv /\ [BlocksNext]_recordVars => BlocksInv'
<1> SUFFICES ASSUME BlocksInv, [BlocksNext]_recordVars PROVE BlocksInv'
  OBVIOUS
<1>1. CASE UNCHANGED recordVars
  BY <1>1 DEF recordVars, BlocksInv, Chain
<1> QED
  BY <1>1, AddBlockStep, WriteBatchStep, RestartStep, DeleteStep DEF BlocksNext

LEMMA BlocksInvariant == BlocksSpec => []BlocksInv
<1>1. BlocksInit => BlocksInv
  BY BlocksStart
<1>2. BlocksInv /\ [BlocksNext]_recordVars => BlocksInv'
  BY BlocksKeep
<1> QED
  BY <1>1, <1>2, PTL DEF BlocksSpec

\* The sum of what can be read of some blocks is the depth they left.
LEMMA DoneIs ==
  ASSUME NEW blocks \in Seq(ArrivedBlocks), NEW p \in Pools
  PROVE  DoneTo(blocks, p) = Reached(blocks, p, Len(blocks))
<1> DEFINE done(b) == IF b.got.type \in PoolTypes THEN Readable(b.got) ELSE <<>>
           share(b, k) == IF p \in DOMAIN done(b) THEN done(b)[p][k] ELSE 0
<1>1. DOMAIN blocks = 1 .. Len(blocks) /\ \A i \in 1 .. Len(blocks) : blocks[i] \in ArrivedBlocks
  OBVIOUS
<1>2. ASSUME NEW b \in ArrivedBlocks, NEW k \in DOMAIN NoDepth
      PROVE  share(b, k) = Gain(b, p)[k]
  <2>1. Gain(b, p) = Shared(b.got, p)
    BY BlockIs
  <2>2. DOMAIN <<>> = {} /\ NoDepth[k] = 0
    BY DepthFields
  <2> QED
    BY <2>1, <2>2 DEF Shared, Share
<1> HIDE DEF share
<1>3. ASSUME NEW k \in DOMAIN NoDepth
      PROVE  MapThenSumSet(LAMBDA i : share(blocks[i], k), DOMAIN blocks)
               = Total(GainOf(blocks, p, k, Len(blocks)))
  <2>1. PICK f : f = [i \in DOMAIN blocks |-> share(blocks[i], k)]
    OBVIOUS
  <2>2. f = GainOf(blocks, p, k, Len(blocks))
    BY <1>1, <1>2, <2>1 DEF GainOf
  <2>3. MapThenSumSet(LAMBDA i : share(blocks[i], k), DOMAIN blocks) = Total(f)
    BY <2>1 DEF Total, MapThenSumSet, MapThenFoldSet
  <2> QED
    BY <2>2, <2>3
<1>4. DoneTo(blocks, p)
        = [k \in DOMAIN NoDepth |->
             MapThenSumSet(LAMBDA i : share(blocks[i], k), DOMAIN blocks)]
  BY DEF DoneTo, share
<1> QED
  BY <1>3, <1>4 DEF Reached

\* On every history of arrivals, writes, deaths and removals the latest rows of
\* the pools and the depths in memory are what the events of the blocks did, as
\* far as these can be read (depth.rs:233-278, block_log.rs:145).
THEOREM DepthsTellAlways == BlocksSpec => []DepthsTellTheBlocks
<1>1. BlocksInv => DepthsTellTheBlocks
  <2> SUFFICES ASSUME BlocksInv, NEW p \in Pools
               PROVE  /\ Latest(DOMAIN tables)[p] = DoneTo(log, p)
                      /\ tracker[p] = DoneTo(log \o batch, p)
    BY DEF DepthsTellTheBlocks
  <2>1. p \in Names
    BY PoolNames
  <2>2. /\ log \in Seq(ArrivedBlocks) /\ Len(log) \in Nat /\ Chain \in Seq(ArrivedBlocks)
        /\ \A j \in 1 .. Len(log) : Chain[j] = log[j]
    BY ChainIs DEF BlocksInv, Chain
  <2>3. DOMAIN tables = RowsOver(log, 1, Len(log))
    BY <2>2, FirstRowsSame DEF BlocksInv
  <2>4. Latest(DOMAIN tables)[p] = Reached(log, p, Len(log))
    BY <2>1, <2>2, <2>3, LatestIs
  <2>5. tracker[p] = Reached(Chain, p, Len(Chain))
    BY <2>1 DEF BlocksInv
  <2> QED
    BY <2>2, <2>4, <2>5, DoneIs DEF Chain
<1> QED
  BY <1>1, BlocksInvariant, PTL

------------------------------------------------------------------------------
(* What an event says, and what its rows tell. *)

\* What an event says, in the parts of its definition.
Legible(e, shape) == {k \in DOMAIN e.attr : e.attr[k] # Garbled /\ Shape(e, k) = shape}
Known(e, k) ==
  {i \in DOMAIN e.attr[k] : IF k = "slashed" THEN e.attr[k][i].e8 # Garbled
                            ELSE e.attr[k][i] # Garbled}
Listed(e, k) ==
  {e.attr[k][i] : i \in {i \in Known(e, k) : k = "slashed" => \A j \in Known(e, k) : i <= j}}
CoinsSaid(e) ==
  {e.attr[k] : k \in Legible(e, "coin")} \cup UNION {Listed(e, k) : k \in Legible(e, "coins")}
PoolsSaid(e) ==
  {p \in UNION {DOMAIN e.attr[k] : k \in Legible(e, "pools")} : e.attr.per_pool[p] # Garbled}
OwnColumn(e) == IF e.type = "donate" THEN {Rune} ELSE {}

LEMMA SaysIs ==
  ASSUME NEW e
  PROVE  Says(e) =
           Said(({CaseFree(c.asset) : c \in CoinsSaid(e)} \ OwnColumn(e))
                  \cup {CaseFree(e.attr[k]) : k \in Legible(e, "name")} \cup PoolsSaid(e),
                {c.e8 : c \in CoinsSaid(e)} \cup {e.attr[k] : k \in Legible(e, "number")}
                  \cup {e.attr.per_pool[p] : p \in PoolsSaid(e)})
BY DEF Says, Legible, Known, Listed, CoinsSaid, PoolsSaid, OwnColumn

\* Nothing is said by an empty name or by 0.
AlikeBut(x, S, T) == S \ {x} = T \ {x}
Whole(A) == A \subseteq Int

LEMMA SaidAlike ==
  ASSUME NEW N1, NEW N2, NEW A1, NEW A2, AlikeBut(NoName, N1, N2),
         Whole(A1), Whole(A2), AlikeBut(0, A1, A2)
  PROVE  Said(N1, A1) = Said(N2, A2)
<1> DEFINE Abs(A) == {IF n < 0 THEN -n ELSE n : n \in A} \ {0}
<1>0. N1 \ {NoName} = N2 \ {NoName} /\ A1 \in SUBSET Int /\ A2 \in SUBSET Int /\ A1 \ {0} = A2 \ {0}
  BY DEF AlikeBut, Whole
<1>1. ASSUME NEW A \in SUBSET Int PROVE Abs(A) = Abs(A \ {0})
  <2>1. ASSUME NEW x \in Abs(A) PROVE x \in Abs(A \ {0})
    <3>1. PICK n \in A : x = IF n < 0 THEN -n ELSE n
      OBVIOUS
    <3>2. n # 0
      BY <2>1, <3>1
    <3> QED
      BY <2>1, <3>1, <3>2
  <2>2. ASSUME NEW x \in Abs(A \ {0}) PROVE x \in Abs(A)
    BY <2>2
  <2> QED
    BY <2>1, <2>2
<1>2. Abs(A1) = Abs(A2)
  <2> HIDE DEF Abs
  <2> QED
    BY <1>0, <1>1
<1> QED
  BY <1>0, <1>2 DEF Said

\* A name is spelled like itself but for three.
LEMMA PlainName ==
  ASSUME NEW kind, NEW symbol
  PROVE  /\ SpelledOut(Asset(kind, symbol)) = Asset(kind, symbol)
         /\ kind # "Text" => CaseFree(Asset(kind, symbol)) = Asset(kind, symbol)
         /\ symbol \notin {"RUNE", "AVAILABLE", "Available"} =>
              CaseFree(Asset(kind, symbol)) = Asset(kind, symbol)
<1>1. "kind" \in DOMAIN Asset(kind, symbol) /\ "kind" \notin {"lower"}
  BY DEF Asset
<1>2. SpelledOut(Asset(kind, symbol)) = Asset(kind, symbol)
  BY <1>1 DEF SpelledOut
<1>3. Asset(kind, symbol).kind = kind /\ Asset(kind, symbol).symbol = symbol
  BY DEF Asset
<1>4. /\ PlainRune.kind = "Text" /\ PlainRune.symbol = "RUNE"
      /\ Text("AVAILABLE").kind = "Text" /\ Text("AVAILABLE").symbol = "AVAILABLE"
      /\ Text("Available").kind = "Text" /\ Text("Available").symbol = "Available"
  BY DEF PlainRune, Text, Asset
<1>5. Asset(kind, symbol) \notin {PlainRune, Text("AVAILABLE"), Text("Available")}
        => CaseFree(Asset(kind, symbol)) = Asset(kind, symbol)
  BY <1>2 DEF CaseFree
<1> QED
  BY <1>2, <1>3, <1>4, <1>5

\* The names that are spelled like themselves.
LEMMA PlainNames ==
  /\ CaseFree(NoName) = NoName /\ CaseFree(Rune) = Rune
  /\ \A p \in Pools : CaseFree(p) = p
  /\ \A a \in Charged : CaseFree(a) = a
  /\ \A p \in Pools : \A a \in Tradable(p) : CaseFree(a) = a
<1>1. CaseFree(NoName) = NoName /\ CaseFree(Rune) = Rune
  BY PlainName DEF NoName, Rune
<1>2. \A p \in Pools : CaseFree(p) = p
  BY PlainName DEF Pools
<1>3. \A a \in Charged : CaseFree(a) = a
  BY PlainName DEF Charged, Claims
<1>4. \A p \in Pools : \A a \in Tradable(p) : CaseFree(a) = a
  BY <1>2, PlainName DEF Tradable, Claims
<1> QED
  BY <1>1, <1>2, <1>3, <1>4

\* What is read of a name, if it is there and can be read.
NameIn(e, k) == IF k \in DOMAIN e.attr /\ e.attr[k] # Garbled THEN e.attr[k] ELSE NoName

\* The attributes of an event are names, coins, numbers and the rest.
Sorted(e, names, coins, numbers, lists) ==
  /\ DOMAIN e.attr \subseteq names \cup coins \cup numbers \cup lists
                              \cup {"asset_add", "rune_add"}
  /\ \A k \in names : Shape(e, k) = "name"
  /\ \A k \in coins : Shape(e, k) = "coin"
  /\ \A k \in numbers : Shape(e, k) = "number"
  /\ \A k \in lists : Shape(e, k) = "coins"
  /\ \A k \in numbers : Int0(e, k) \in Int
  /\ \A k \in coins : CoinOrNone(e, k).e8 \in Int

\* What the lists say.
ListsSaid(e, lists) == UNION {IF k \in DOMAIN e.attr /\ e.attr[k] # Garbled THEN Listed(e, k)
                              ELSE {} : k \in lists}

\* An event says what its names, coins, numbers and lists say.
LEMMA SaysOfFields ==
  ASSUME NEW e, NEW names, NEW coins, NEW numbers, NEW lists,
         Sorted(e, names, coins, numbers, lists),
         \A c \in ListsSaid(e, lists) : c.e8 \in Int
  PROVE  Says(e) =
           Said((({CaseFree(CoinOrNone(e, k).asset) : k \in coins}
                   \cup {CaseFree(c.asset) : c \in ListsSaid(e, lists)}) \ OwnColumn(e))
                  \cup {CaseFree(NameIn(e, k)) : k \in names},
                {CoinOrNone(e, k).e8 : k \in coins} \cup {Int0(e, k) : k \in numbers}
                  \cup {c.e8 : c \in ListsSaid(e, lists)})
<1> DEFINE L == ListsSaid(e, lists)
           N1 == ({CaseFree(c.asset) : c \in CoinsSaid(e)} \ OwnColumn(e))
                  \cup {CaseFree(e.attr[k]) : k \in Legible(e, "name")} \cup PoolsSaid(e)
           A1 == {c.e8 : c \in CoinsSaid(e)} \cup {e.attr[k] : k \in Legible(e, "number")}
                  \cup {e.attr.per_pool[p] : p \in PoolsSaid(e)}
           N2 == (({CaseFree(CoinOrNone(e, k).asset) : k \in coins}
                    \cup {CaseFree(c.asset) : c \in L}) \ OwnColumn(e))
                  \cup {CaseFree(NameIn(e, k)) : k \in names}
           A2 == {CoinOrNone(e, k).e8 : k \in coins} \cup {Int0(e, k) : k \in numbers}
                  \cup {c.e8 : c \in L}
<1>1. /\ \A k \in DOMAIN e.attr : k \in names \cup coins \cup numbers \cup lists
                                        \cup {"asset_add", "rune_add"}
      /\ \A k \in names : Shape(e, k) = "name"
      /\ \A k \in coins : Shape(e, k) = "coin"
      /\ \A k \in numbers : Shape(e, k) = "number"
      /\ \A k \in lists : Shape(e, k) = "coins"
      /\ Shape(e, "asset_add") = "flag" /\ Shape(e, "rune_add") = "flag"
  BY DEF Sorted, Shape
<1>2. /\ Legible(e, "name") = {k \in names : k \in DOMAIN e.attr /\ e.attr[k] # Garbled}
      /\ Legible(e, "coin") = {k \in coins : k \in DOMAIN e.attr /\ e.attr[k] # Garbled}
      /\ Legible(e, "number") = {k \in numbers : k \in DOMAIN e.attr /\ e.attr[k] # Garbled}
      /\ Legible(e, "coins") = {k \in lists : k \in DOMAIN e.attr /\ e.attr[k] # Garbled}
      /\ Legible(e, "pools") = {}
  BY <1>1 DEF Legible
<1>3. PoolsSaid(e) = {}
  BY <1>2 DEF PoolsSaid
<1>4. L = UNION {Listed(e, k) : k \in Legible(e, "coins")}
  BY <1>2 DEF ListsSaid
<1>5. \A c : c \in CoinsSaid(e) <=> c \in L \/ \E k \in Legible(e, "coin") : c = e.attr[k]
  BY <1>4 DEF CoinsSaid
<1>6. \A k \in Legible(e, "coin") : CoinOrNone(e, k) = e.attr[k]
  BY <1>2 DEF CoinOrNone
<1>7. \A k \in coins \ Legible(e, "coin") :
        CoinOrNone(e, k).asset = NoName /\ CoinOrNone(e, k).e8 = 0
  BY <1>2 DEF CoinOrNone, Coin
<1>8. \A k \in Legible(e, "name") : NameIn(e, k) = e.attr[k]
  BY <1>2 DEF NameIn
<1>9. \A k \in names \ Legible(e, "name") : NameIn(e, k) = NoName
  BY <1>2 DEF NameIn
<1>10. CaseFree(NoName) = NoName
  BY PlainNames
<1>11. Garbled \notin Int
  BY GarbledAssumption
<1>12. \A k \in numbers : Int0(e, k) \in Int
  BY DEF Sorted
<1>13. \A k \in Legible(e, "number") : Int0(e, k) = e.attr[k]
  BY <1>2 DEF Int0
<1>14. \A k \in numbers \ Legible(e, "number") : Int0(e, k) = 0
  BY <1>2, <1>11, <1>12 DEF Int0
<1>15. Legible(e, "name") \subseteq names /\ Legible(e, "coin") \subseteq coins
       /\ Legible(e, "number") \subseteq numbers
  BY <1>2
<1>16. \A k \in coins : CoinOrNone(e, k).e8 \in Int
  BY DEF Sorted
<1> HIDE DEF L
<1>17. N1 \ {NoName} = N2 \ {NoName}
  <2>1. ASSUME NEW n \in N1 PROVE n \in N2
    <3>1. CASE \E c \in CoinsSaid(e) : n = CaseFree(c.asset) /\ n \notin OwnColumn(e)
      BY <3>1, <1>5, <1>6, <1>15
    <3>2. CASE \E k \in Legible(e, "name") : n = CaseFree(e.attr[k])
      BY <3>2, <1>8, <1>15
    <3> QED
      BY <2>1, <3>1, <3>2, <1>3
  <2>2. ASSUME NEW n \in N2, n # NoName PROVE n \in N1
    <3>1. CASE \E k \in coins : n = CaseFree(CoinOrNone(e, k).asset) /\ n \notin OwnColumn(e)
      BY <2>2, <3>1, <1>5, <1>6, <1>7, <1>10
    <3>2. CASE \E c \in L : n = CaseFree(c.asset) /\ n \notin OwnColumn(e)
      BY <3>2, <1>5
    <3>3. CASE \E k \in names : n = CaseFree(NameIn(e, k))
      BY <2>2, <3>3, <1>8, <1>9, <1>10
    <3> QED
      BY <2>2, <3>1, <3>2, <3>3
  <2> QED
    BY <2>1, <2>2
<1>18. A1 \ {0} = A2 \ {0}
  <2>1. ASSUME NEW n \in A1 PROVE n \in A2
    BY <2>1, <1>3, <1>5, <1>6, <1>13, <1>15
  <2>2. ASSUME NEW n \in A2, n # 0 PROVE n \in A1
    <3>1. CASE \E k \in coins : n = CoinOrNone(e, k).e8
      BY <2>2, <3>1, <1>5, <1>6, <1>7
    <3>2. CASE \E c \in L : n = c.e8
      BY <3>2, <1>5
    <3>3. CASE \E k \in numbers : n = Int0(e, k)
      BY <2>2, <3>3, <1>13, <1>14
    <3> QED
      BY <2>2, <3>1, <3>2, <3>3
  <2> QED
    BY <2>1, <2>2
<1>19. A1 \in SUBSET Int /\ A2 \in SUBSET Int
  <2>1. \A n \in A2 : n \in Int
    BY <1>12, <1>16 DEF L
  <2>2. \A n \in A1 : n \in Int
    BY <2>1, <1>18
  <2> QED
    BY <2>1, <2>2
<1>20. Said(N1, A1) = Said(N2, A2)
  <2>1. AlikeBut(NoName, N1, N2) /\ AlikeBut(0, A1, A2) /\ Whole(A1) /\ Whole(A2)
    BY <1>17, <1>18, <1>19 DEF AlikeBut, Whole
  <2> HIDE DEF N1, N2, A1, A2
  <2> QED
    BY <2>1, SaidAlike
<1> QED
  BY <1>20, SaysIs DEF N1, N2, A1, A2, L

\* What a row tells.
NamesTold(c) ==
  {c[k] : k \in DOMAIN c \cap
                  (DOMAIN c \ (AmountColumns \cup {"direction", "rune_add", "asset_add"}))}
AmountsTold(c) == {c[k] : k \in DOMAIN c \cap AmountColumns}

LEMMA RowTells ==
  ASSUME NEW table, NEW c
  PROVE  Told(ToSet(Row(table, c))) = Said(NamesTold(c), AmountsTold(c))
<1> DEFINE r == [table |-> table, columns |-> c]
<1>1. ToSet(Row(table, c)) = {r}
  BY DEF ToSet, Row
<1>2. r.columns = c
  OBVIOUS
<1> HIDE DEF r
<1>3. Told({r}) = Said(NamesTold(c), AmountsTold(c))
  BY <1>2 DEF Told, NamesTold, AmountsTold
<1> QED
  BY <1>1, <1>3

\* An event as it is read: without some of its attributes, or with some of its
\* names and coins garbled.
ReadOf(sent, got) ==
  /\ got.type = sent.type /\ DOMAIN got.attr \subseteq DOMAIN sent.attr
  /\ \A k \in DOMAIN got.attr :
       \/ got.attr[k] = sent.attr[k]
       \/ got.attr[k] = Garbled /\ Shape(sent, k) \in {"name", "coin"}

\* The attributes of an event without lists, whose names are spelled like themselves.
Plain(sent, names, coins, numbers) ==
  /\ DOMAIN sent.attr \subseteq names \cup coins \cup numbers \cup {"asset_add", "rune_add"}
  /\ \A k \in names : Shape(sent, k) = "name"
                        /\ (k \in DOMAIN sent.attr => CaseFree(sent.attr[k]) = sent.attr[k])
  /\ \A k \in coins :
       Shape(sent, k) = "coin"
         /\ (k \in DOMAIN sent.attr => /\ CaseFree(sent.attr[k].asset) = sent.attr[k].asset
                                       /\ sent.attr[k].e8 \in Int)
  /\ \A k \in numbers :
       Shape(sent, k) = "number" /\ (k \in DOMAIN sent.attr => sent.attr[k] \in Int)

NamesRead(e, names, coins) ==
  {CoinOrNone(e, k).asset : k \in coins} \cup {NameIn(e, k) : k \in names}
AmountsRead(e, coins, numbers) ==
  {CoinOrNone(e, k).e8 : k \in coins} \cup {Int0(e, k) : k \in numbers}

\* What an event without lists says, however it is read.
LEMMA PlainSays ==
  ASSUME NEW sent, NEW got, NEW names, NEW coins, NEW numbers,
         Plain(sent, names, coins, numbers), ReadOf(sent, got), sent.type # "donate"
  PROVE  /\ Says(got) = Said(NamesRead(got, names, coins), AmountsRead(got, coins, numbers))
         /\ AmountsRead(got, coins, numbers) \subseteq Int
<1>1. /\ got.type = sent.type /\ DOMAIN got.attr \subseteq DOMAIN sent.attr
      /\ \A k : Shape(got, k) = Shape(sent, k)
  BY DEF ReadOf, Shape
<1>2. CaseFree(NoName) = NoName
  BY PlainNames
<1>3. ASSUME NEW k \in names PROVE CaseFree(NameIn(got, k)) = NameIn(got, k)
  BY <1>1, <1>2 DEF NameIn, Plain, ReadOf
<1>4. Coin(NoName, 0).asset = NoName /\ Coin(NoName, 0).e8 = 0
  BY DEF Coin
<1>5. ASSUME NEW k \in coins
      PROVE  CaseFree(CoinOrNone(got, k).asset) = CoinOrNone(got, k).asset
             /\ CoinOrNone(got, k).e8 \in Int
  BY <1>1, <1>2, <1>4 DEF CoinOrNone, Plain, ReadOf
<1>6. ASSUME NEW k \in numbers PROVE Int0(got, k) \in Int
  BY <1>1 DEF Int0, Plain, ReadOf
<1>7. Sorted(got, names, coins, numbers, {})
  BY <1>1, <1>5, <1>6 DEF Sorted, Plain
<1>8. ListsSaid(got, {}) = {} /\ OwnColumn(got) = {}
  BY <1>1 DEF ListsSaid, OwnColumn
<1>9. Says(got) = Said((({CaseFree(CoinOrNone(got, k).asset) : k \in coins}
                   \cup {CaseFree(c.asset) : c \in ListsSaid(got, {})}) \ OwnColumn(got))
                  \cup {CaseFree(NameIn(got, k)) : k \in names},
                {CoinOrNone(got, k).e8 : k \in coins} \cup {Int0(got, k) : k \in numbers}
                  \cup {c.e8 : c \in ListsSaid(got, {})})
  <2>1. \A c \in ListsSaid(got, {}) : c.e8 \in Int
    BY <1>8
  <2> QED
    BY <1>7, <2>1, SaysOfFields
<1>10. NamesRead(got, names, coins) =
         (({CaseFree(CoinOrNone(got, k).asset) : k \in coins}
                   \cup {CaseFree(c.asset) : c \in ListsSaid(got, {})}) \ OwnColumn(got))
                  \cup {CaseFree(NameIn(got, k)) : k \in names}
  <2>1. {CaseFree(CoinOrNone(got, k).asset) : k \in coins} = {CoinOrNone(got, k).asset : k \in coins}
    BY <1>5
  <2>2. {CaseFree(NameIn(got, k)) : k \in names} = {NameIn(got, k) : k \in names}
    BY <1>3
  <2>3. {CaseFree(c.asset) : c \in ListsSaid(got, {})} = {}
    BY <1>8
  <2> QED
    BY <1>8, <2>1, <2>2, <2>3 DEF NamesRead
<1>11. AmountsRead(got, coins, numbers) =
         {CoinOrNone(got, k).e8 : k \in coins} \cup {Int0(got, k) : k \in numbers}
                  \cup {c.e8 : c \in ListsSaid(got, {})}
  BY <1>8 DEF AmountsRead
<1>12. AmountsRead(got, coins, numbers) \subseteq Int
  BY <1>5, <1>6 DEF AmountsRead
<1> QED
  BY <1>9, <1>10, <1>11, <1>12

\* A row tells what its event says if its columns hold the same but for what is empty.
LEMMA RowSays ==
  ASSUME NEW table, NEW c, NEW sent, NEW got, NEW names, NEW coins, NEW numbers,
         Plain(sent, names, coins, numbers), ReadOf(sent, got), sent.type # "donate",
         AlikeBut(NoName, NamesTold(c), NamesRead(got, names, coins)),
         AlikeBut(0, AmountsTold(c), AmountsRead(got, coins, numbers)), Whole(AmountsTold(c))
  PROVE  Told(ToSet(Row(table, c))) = Says(got)
<1>1. Whole(AmountsRead(got, coins, numbers))
  BY PlainSays DEF Whole
<1> QED
  BY <1>1, PlainSays, RowTells, SaidAlike

\* The attributes of the events that move no depth.
OutboundAttr == Also(Tx, [coin |-> Coin(Rune, 11), in_tx_id |-> Text("in")])
RefundAttr(coins) == Also(Tx, [coin |-> coins, code |-> 105, reason |-> Text("refused")])
TransferAttr(coins) == [sender |-> Text("from"), recipient |-> Text("to"), amount |-> coins]
BondAttr == Also(Tx, [coin |-> Coin(Rune, 17), bond_type |-> Text("paid"), amount |-> 18])
StatusAttr == Also([Address |-> Text("node")],
                   Also(Only("Former:", Text("Standby")), Only("Current:", Text("Active"))))
MintAttr == [denom |-> Text("rune"), amount |-> 19, supply |-> Text("mint"),
             reason |-> Text("reason")]
SwitchAttr == [burn |-> Coin(Text("OLD"), 20), mint |-> Coin(Rune, 21), txid |-> Text("id"),
               from |-> Text("from"), to |-> Text("to")]
PendingAttr ==
  [pool |-> Text("POOL"), asset_amount |-> 22, rune_amount |-> 23, type |-> Text("add"),
   asset_tx_id |-> Text("id"), asset_chain |-> Text("chain"), asset_address |-> Text("from"),
   rune_tx_id |-> Text("id2"), rune_address |-> Text("to")]
RefundedCoins == {<<Coin(Rune, 12), Coin(Text("TCY"), 13)>>, <<Coin(Rune, 12)>>}
TransferredCoins == {<<Coin(Lower(PlainRune), 14)>>,
                     <<Coin(Lower(Text("BTC-BTC")), 15), Coin(Lower(Text("TCY")), 16)>>}
MimirAttr == [key |-> Text("key"), value |-> Text("value")]
PoolAttr(status) == [pool |-> Text("POOL"), pool_status |-> status]
NoAttr == <<>>
VaultAttrs == {Only("add new asgard vault", Text("vault")), Only("set_asgard_vault", Text("vault"))}

OtherForm(sent) ==
  \/ sent = Event("outbound", OutboundAttr)
  \/ \E coins \in RefundedCoins : sent = Event("refund", RefundAttr(coins))
  \/ \E coins \in TransferredCoins : sent = Event("transfer", TransferAttr(coins))
  \/ sent = Event("bond", BondAttr)
  \/ sent = Event("UpdateNodeAccountStatus", StatusAttr)
  \/ \E attr \in VaultAttrs : sent \in {Event("ActiveVault", attr), Event("InactiveVault", attr)}
  \/ sent = Event("set_mimir", MimirAttr)
  \/ sent = Event("mint_burn", MintAttr)
  \/ sent = Event("switch", SwitchAttr)
  \/ sent = Event("pending_liquidity", PendingAttr)
  \/ \E status \in {Lower(Text("AVAILABLE")), Text("Available")} :
       sent = Event("pool", PoolAttr(status))
  \/ \E type \in {"message", "wasm-contract/action", "new in 4.0"} : sent = Event(type, NoAttr)

\* The twelve kinds of event that move no depth.
LEMMA OtherIs == ASSUME NEW sent \in OtherEvents PROVE OtherForm(sent)
<1>1. CASE sent \in OutwardEvents
  <2>1. \/ sent = Event("outbound", OutboundAttr)
        \/ \E coins \in RefundedCoins : sent = Event("refund", RefundAttr(coins))
        \/ \E coins \in TransferredCoins : sent = Event("transfer", TransferAttr(coins))
    BY <1>1 DEF OutwardEvents, OutboundAttr, RefundAttr, TransferAttr, RefundedCoins, TransferredCoins
  <2> QED
    BY <2>1 DEF OtherForm
<1>2. CASE sent \in NodeEvents
  <2>1. \/ sent = Event("bond", BondAttr)
        \/ sent = Event("UpdateNodeAccountStatus", StatusAttr)
        \/ \E attr \in VaultAttrs : sent \in {Event("ActiveVault", attr), Event("InactiveVault", attr)}
        \/ sent = Event("set_mimir", MimirAttr)
    BY <1>2 DEF NodeEvents, BondAttr, StatusAttr, VaultAttrs, MimirAttr
  <2> QED
    BY <2>1 DEF OtherForm
<1>3. CASE sent \in SupplyEvents
  <2>1. \/ sent = Event("mint_burn", MintAttr)
        \/ sent = Event("switch", SwitchAttr)
        \/ sent = Event("pending_liquidity", PendingAttr)
        \/ \E status \in {Lower(Text("AVAILABLE")), Text("Available")} :
             sent = Event("pool", PoolAttr(status))
    BY <1>3 DEF SupplyEvents, MintAttr, SwitchAttr, PendingAttr, PoolAttr
  <2> QED
    BY <2>1 DEF OtherForm
<1>4. CASE sent \in SilentEvents
  BY <1>4 DEF SilentEvents, OtherForm, NoAttr
<1> QED
  BY <1>1, <1>2, <1>3, <1>4 DEF OtherEvents

\* What the decoders need of each kind.
LEMMA RequiredIs ==
  ASSUME NEW sent \in OtherEvents
  PROVE  /\ sent.type = "outbound" => {"coin", "in_tx_id"} \subseteq Required[sent.type]
         /\ sent.type = "transfer" => "amount" \in Required[sent.type]
         /\ sent.type = "pending_liquidity" => "pool" \in Required[sent.type]
         /\ sent.type = "set_mimir" => "key" \in Required[sent.type]
         /\ sent.type = "mint_burn" => "denom" \in Required[sent.type]
         /\ sent.type = "pool" => {"pool", "pool_status"} \subseteq Required[sent.type]
<1>1. sent.type \in {e.type : e \in OtherEvents}
  OBVIOUS
<1>2. Required[sent.type] =
        CASE sent.type = "outbound" -> {"coin", "in_tx_id"}
          [] sent.type = "transfer" -> {"amount"}
          [] sent.type = "pending_liquidity" -> {"pool"}
          [] sent.type = "set_mimir" -> {"key"}
          [] sent.type = "mint_burn" -> {"denom"}
          [] sent.type = "pool" -> {"pool", "pool_status"}
          [] OTHER -> {}
  BY <1>1 DEF Required
<1> QED
  BY <1>2

\* Of events that move no depth, what is read and not refused.
LEMMA OtherRead ==
  ASSUME NEW sent \in OtherEvents, NEW got \in ReceivedOther(sent), ~RefusedOther(got)
  PROVE  /\ got.type = sent.type /\ DOMAIN got.attr \subseteq DOMAIN sent.attr
         /\ Required[sent.type] \subseteq DOMAIN got.attr
         /\ \A k \in DOMAIN got.attr :
              \/ got.attr[k] = sent.attr[k]
              \/ got.attr[k] = Garbled /\ <<sent.type, k>> \in OtherLenient
<1>0. DOMAIN sent = {"type", "attr"}
  BY TypesThatMove
<1>1. \/ got = sent
      \/ \E without \in DOMAIN sent.attr :
           got = [sent EXCEPT !.attr = [k \in DOMAIN sent.attr \ {without} |-> sent.attr[k]]]
      \/ \E k \in DOMAIN sent.attr : got = [sent EXCEPT !.attr[k] = Garbled]
      \/ \E k \in DOMAIN sent.attr : \E i \in DOMAIN sent.attr[k] :
           Shape(sent, k) = "coins" /\ got = [sent EXCEPT !.attr[k][i] = Garbled]
  BY DEF ReceivedOther
<1>2. \A k : Shape(got, k) = Shape(sent, k) \/ got.type # sent.type
  BY DEF Shape
<1>7. /\ \A k \in Required[got.type] : k \in DOMAIN got.attr
      /\ \A k \in DOMAIN got.attr : got.attr[k] = Garbled => <<got.type, k>> \in OtherLenient
  BY DEF RefusedOther
<1>3. CASE got = sent
  BY <1>3, <1>7
<1>4. CASE \E without \in DOMAIN sent.attr :
           got = [sent EXCEPT !.attr = [k \in DOMAIN sent.attr \ {without} |-> sent.attr[k]]]
  <2>1. /\ got.type = sent.type /\ DOMAIN got.attr \subseteq DOMAIN sent.attr
        /\ \A k \in DOMAIN got.attr : got.attr[k] = sent.attr[k]
    BY <1>0, <1>4
  <2> QED
    BY <1>7, <2>1
<1>5. CASE \E k \in DOMAIN sent.attr : got = [sent EXCEPT !.attr[k] = Garbled]
  <2>1. /\ got.type = sent.type /\ DOMAIN got.attr = DOMAIN sent.attr
        /\ \A k \in DOMAIN got.attr : got.attr[k] # Garbled => got.attr[k] = sent.attr[k]
    BY <1>0, <1>5
  <2> QED
    BY <1>7, <2>1
<1>6. CASE \E k \in DOMAIN sent.attr : \E i \in DOMAIN sent.attr[k] :
           Shape(sent, k) = "coins" /\ got = [sent EXCEPT !.attr[k][i] = Garbled]
  <2>1. PICK k \in DOMAIN sent.attr : \E i \in DOMAIN sent.attr[k] :
          Shape(sent, k) = "coins" /\ got = [sent EXCEPT !.attr[k][i] = Garbled]
    BY <1>6
  <2>2. /\ got.type = sent.type /\ k \in DOMAIN got.attr
        /\ \E i \in DOMAIN got.attr[k] : got.attr[k][i] = Garbled
    BY <1>0, <2>1
  <2>3. RefusedOther(got)
    BY <1>2, <2>1, <2>2 DEF RefusedOther
  <2> QED
    BY <2>3
<1> QED
  BY <1>1, <1>3, <1>4, <1>5, <1>6

\* It is of a form that SaysOfFields takes.
LEMMA OtherReadOf ==
  ASSUME NEW sent \in OtherEvents, NEW got \in ReceivedOther(sent), ~RefusedOther(got)
  PROVE  ReadOf(sent, got)
<1>1. \A k : <<sent.type, k>> \in OtherLenient => Shape(sent, k) = "coin"
  BY DEF OtherLenient, Shape
<1> QED
  BY <1>1, OtherRead DEF ReadOf

\* The row of such an event tells it if its columns are its attributes.
LEMMA OtherRowSays ==
  ASSUME NEW sent \in OtherEvents, NEW got \in ReceivedOther(sent), ~RefusedOther(got),
         NEW names, NEW coins, NEW numbers, Plain(sent, names, coins, numbers),
         NEW table, NEW c,
         NamesTold(c) = {CoinOrNone(got, k).asset : k \in coins} \cup {TextOf(got, k) : k \in names},
         AmountsTold(c) = {CoinOrNone(got, k).e8 : k \in coins} \cup {Int0(got, k) : k \in numbers}
  PROVE  Told(ToSet(Row(table, c))) = Says(got)
<1>1. ReadOf(sent, got) /\ sent.type # "donate"
  BY OtherReadOf, TypesThatMove DEF OtherTypes
<1>2. ASSUME NEW k \in names PROVE TextOf(got, k) = NameIn(got, k)
  <2>1. <<sent.type, k>> \notin OtherLenient
    BY DEF OtherLenient, Shape, Plain
  <2>2. k \in DOMAIN got.attr => got.attr[k] = sent.attr[k] /\ sent.attr[k] # Garbled
    BY <2>1, OtherRead, UnreadableAssumption
  <2> QED
    BY <2>2 DEF TextOf, NameIn
<1>3. NamesTold(c) = NamesRead(got, names, coins)
  <2>1. {TextOf(got, k) : k \in names} = {NameIn(got, k) : k \in names}
    BY <1>2
  <2> QED
    BY <2>1 DEF NamesRead
<1>4. AmountsTold(c) = AmountsRead(got, coins, numbers)
  BY DEF AmountsRead
<1>5. Whole(AmountsTold(c))
  <2>1. AmountsRead(got, coins, numbers) \subseteq Int
    BY <1>1, PlainSays
  <2> QED
    BY <1>4, <2>1 DEF Whole
<1>6. AlikeBut(NoName, NamesTold(c), NamesRead(got, names, coins))
      /\ AlikeBut(0, AmountsTold(c), AmountsRead(got, coins, numbers))
  BY <1>3, <1>4 DEF AlikeBut
<1> QED
  BY <1>1, <1>5, <1>6, RowSays

\* One kind at a time.
LEMMA BondSays ==
  ASSUME NEW sent \in OtherEvents, sent = Event("bond", BondAttr),
         NEW got \in ReceivedOther(sent), ~RefusedOther(got)
  PROVE  Told(ToSet(OtherRows(got))) = Says(got)
<1> DEFINE names == {"id", "chain", "from", "to", "memo", "bond_type"}
<1>1. /\ sent.type = "bond" /\ got.type = "bond"
      /\ DOMAIN sent.attr = names \cup {"coin"} \cup {"amount"}
  BY OtherRead DEF Event, BondAttr, Also, Tx
<1>2. \A k \in names : Shape(sent, k) = "name" /\ CaseFree(sent.attr[k]) = sent.attr[k]
  <2>1. \A k \in names : Shape(sent, k) = "name"
    BY <1>1 DEF Shape
  <2>2. \A k \in names : CaseFree(sent.attr[k]) = sent.attr[k]
    BY <1>1, PlainName DEF Event, Text, BondAttr, Also, Tx
  <2> QED
    BY <2>1, <2>2
<1>3. /\ Shape(sent, "coin") = "coin" /\ sent.attr["coin"].e8 \in Int
      /\ CaseFree(sent.attr["coin"].asset) = sent.attr["coin"].asset
      /\ Shape(sent, "amount") = "number" /\ sent.attr["amount"] \in Int
  BY <1>1, PlainName, PlainNames DEF Shape, Event, Text, Coin, BondAttr, Also, Tx
<1>4. Plain(sent, names, {"coin"}, {"amount"})
  BY <1>1, <1>2, <1>3 DEF Plain
<1>5. OtherRows(got) = Row("bond_events", Bond(got))
  BY <1>1 DEF OtherRows, Passed
<1>6. NamesTold(Bond(got)) = {CoinOrNone(got, k).asset : k \in {"coin"}} \cup {TextOf(got, k) : k \in names}
  BY DEF NamesTold, Bond, AmountColumns
<1>7. AmountsTold(Bond(got)) = {CoinOrNone(got, k).e8 : k \in {"coin"}} \cup {Int0(got, k) : k \in {"amount"}}
  BY DEF AmountsTold, Bond, AmountColumns
<1> QED
  BY <1>4, <1>5, <1>6, <1>7, OtherRowSays

LEMMA OutboundSays ==
  ASSUME NEW sent \in OtherEvents, sent = Event("outbound", OutboundAttr),
         NEW got \in ReceivedOther(sent), ~RefusedOther(got)
  PROVE  Told(ToSet(OtherRows(got))) = Says(got)
<1> DEFINE names == {"id", "chain", "from", "to", "memo", "in_tx_id"}
<1>1. /\ sent.type = "outbound" /\ got.type = "outbound"
      /\ DOMAIN sent.attr = names \cup {"coin"}
  BY OtherRead DEF Event, OutboundAttr, Also, Tx
<1>2. \A k \in names : Shape(sent, k) = "name" /\ CaseFree(sent.attr[k]) = sent.attr[k]
  <2>1. \A k \in names : Shape(sent, k) = "name"
    BY <1>1 DEF Shape
  <2>2. \A k \in names : CaseFree(sent.attr[k]) = sent.attr[k]
    BY <1>1, PlainName DEF Event, Text, OutboundAttr, Also, Tx
  <2> QED
    BY <2>1, <2>2
<1>3. /\ Shape(sent, "coin") = "coin" /\ sent.attr["coin"].e8 \in Int
      /\ CaseFree(sent.attr["coin"].asset) = sent.attr["coin"].asset
  BY <1>1, PlainName, PlainNames DEF Shape, Event, Text, Coin, OutboundAttr, Also, Tx
<1>4. Plain(sent, names, {"coin"}, {})
  BY <1>1, <1>2, <1>3 DEF Plain
<1>5. OtherRows(got) = Row("outbound_events", Outbound(got))
  BY <1>1 DEF OtherRows, Passed
<1>8. got.attr.in_tx_id = TextOf(got, "in_tx_id") /\ got.attr.coin = CoinOrNone(got, "coin")
  <2>1. "in_tx_id" \in DOMAIN got.attr /\ "coin" \in DOMAIN got.attr
    BY <1>1, OtherRead, RequiredIs
  <2>2. got.attr["coin"] # Garbled
    BY <1>1, <2>1, OtherRead, UnreadableAssumption DEF OtherLenient
  <2> QED
    BY <2>1, <2>2 DEF TextOf, CoinOrNone
<1>6. NamesTold(Outbound(got)) = {CoinOrNone(got, k).asset : k \in {"coin"}} \cup {TextOf(got, k) : k \in names}
  BY <1>8 DEF NamesTold, Outbound, AmountColumns
<1>7. AmountsTold(Outbound(got)) = {CoinOrNone(got, k).e8 : k \in {"coin"}} \cup {Int0(got, k) : k \in {}}
  BY <1>8 DEF AmountsTold, Outbound, AmountColumns
<1> QED
  BY <1>4, <1>5, <1>6, <1>7, OtherRowSays

LEMMA StatusSays ==
  ASSUME NEW sent \in OtherEvents, sent = Event("UpdateNodeAccountStatus", StatusAttr),
         NEW got \in ReceivedOther(sent), ~RefusedOther(got)
  PROVE  Told(ToSet(OtherRows(got))) = Says(got)
<1> DEFINE names == {"Address", "Former:", "Current:"}
<1>1. /\ sent.type = "UpdateNodeAccountStatus" /\ got.type = "UpdateNodeAccountStatus"
      /\ DOMAIN sent.attr = names
  BY OtherRead DEF Event, StatusAttr, Also, Only
<1>2. \A k \in names : Shape(sent, k) = "name" /\ CaseFree(sent.attr[k]) = sent.attr[k]
  <2>1. \A k \in names : Shape(sent, k) = "name"
    BY <1>1 DEF Shape
  <2>2. \A k \in names : CaseFree(sent.attr[k]) = sent.attr[k]
    BY <1>1, PlainName DEF Event, Text, StatusAttr, Also, Only
  <2> QED
    BY <2>1, <2>2
<1>4. Plain(sent, names, {}, {})
  BY <1>1, <1>2 DEF Plain
<1>5. OtherRows(got) = Row("update_node_account_status_events", NodeStatus(got))
  BY <1>1 DEF OtherRows, Passed
<1>6. NamesTold(NodeStatus(got)) = {CoinOrNone(got, k).asset : k \in {}} \cup {TextOf(got, k) : k \in names}
  BY DEF NamesTold, NodeStatus, AmountColumns
<1>7. AmountsTold(NodeStatus(got)) = {CoinOrNone(got, k).e8 : k \in {}} \cup {Int0(got, k) : k \in {}}
  BY DEF AmountsTold, NodeStatus, AmountColumns
<1> QED
  BY <1>4, <1>5, <1>6, <1>7, OtherRowSays

LEMMA MimirSays ==
  ASSUME NEW sent \in OtherEvents, sent = Event("set_mimir", MimirAttr),
         NEW got \in ReceivedOther(sent), ~RefusedOther(got)
  PROVE  Told(ToSet(OtherRows(got))) = Says(got)
<1> DEFINE names == {"key", "value"}
<1>1. /\ sent.type = "set_mimir" /\ got.type = "set_mimir"
      /\ DOMAIN sent.attr = names
  BY OtherRead DEF Event, MimirAttr
<1>2. \A k \in names : Shape(sent, k) = "name" /\ CaseFree(sent.attr[k]) = sent.attr[k]
  <2>1. \A k \in names : Shape(sent, k) = "name"
    BY <1>1 DEF Shape
  <2>2. \A k \in names : CaseFree(sent.attr[k]) = sent.attr[k]
    BY <1>1, PlainName DEF Event, Text, MimirAttr
  <2> QED
    BY <2>1, <2>2
<1>4. Plain(sent, names, {}, {})
  BY <1>1, <1>2 DEF Plain
<1>5. OtherRows(got) = Row("set_mimir_events", SetMimir(got))
  BY <1>1 DEF OtherRows, Passed
<1>8. got.attr.key = TextOf(got, "key")
  <2>1. "key" \in DOMAIN got.attr
    BY <1>1, OtherRead, RequiredIs
  <2> QED
    BY <2>1 DEF TextOf
<1>6. NamesTold(SetMimir(got)) = {CoinOrNone(got, k).asset : k \in {}} \cup {TextOf(got, k) : k \in names}
  BY <1>8 DEF NamesTold, SetMimir, AmountColumns
<1>7. AmountsTold(SetMimir(got)) = {CoinOrNone(got, k).e8 : k \in {}} \cup {Int0(got, k) : k \in {}}
  BY <1>8 DEF AmountsTold, SetMimir, AmountColumns
<1> QED
  BY <1>4, <1>5, <1>6, <1>7, OtherRowSays

LEMMA MintSays ==
  ASSUME NEW sent \in OtherEvents, sent = Event("mint_burn", MintAttr),
         NEW got \in ReceivedOther(sent), ~RefusedOther(got)
  PROVE  Told(ToSet(OtherRows(got))) = Says(got)
<1> DEFINE names == {"denom", "supply", "reason"}
<1>1. /\ sent.type = "mint_burn" /\ got.type = "mint_burn"
      /\ DOMAIN sent.attr = names \cup {"amount"}
  BY OtherRead DEF Event, MintAttr
<1>2. \A k \in names : Shape(sent, k) = "name" /\ CaseFree(sent.attr[k]) = sent.attr[k]
  <2>1. \A k \in names : Shape(sent, k) = "name"
    BY <1>1 DEF Shape
  <2>2. \A k \in names : CaseFree(sent.attr[k]) = sent.attr[k]
    BY <1>1, PlainName DEF Event, Text, MintAttr
  <2> QED
    BY <2>1, <2>2
<1>3. /\ Shape(sent, "amount") = "number" /\ sent.attr["amount"] \in Int
  BY <1>1, PlainName, PlainNames DEF Shape, Event, Text, Coin, MintAttr
<1>4. Plain(sent, names, {}, {"amount"})
  BY <1>1, <1>2, <1>3 DEF Plain
<1>5. OtherRows(got) = Row("mint_burn_events", MintBurn(got))
  BY <1>1 DEF OtherRows, Passed
<1>8. got.attr.denom = TextOf(got, "denom")
  <2>1. "denom" \in DOMAIN got.attr
    BY <1>1, OtherRead, RequiredIs
  <2> QED
    BY <2>1 DEF TextOf
<1>6. NamesTold(MintBurn(got)) = {CoinOrNone(got, k).asset : k \in {}} \cup {TextOf(got, k) : k \in names}
  BY <1>8 DEF NamesTold, MintBurn, AmountColumns
<1>7. AmountsTold(MintBurn(got)) = {CoinOrNone(got, k).e8 : k \in {}} \cup {Int0(got, k) : k \in {"amount"}}
  BY <1>8 DEF AmountsTold, MintBurn, AmountColumns
<1> QED
  BY <1>4, <1>5, <1>6, <1>7, OtherRowSays

LEMMA SwitchSays ==
  ASSUME NEW sent \in OtherEvents, sent = Event("switch", SwitchAttr),
         NEW got \in ReceivedOther(sent), ~RefusedOther(got)
  PROVE  Told(ToSet(OtherRows(got))) = Says(got)
<1> DEFINE names == {"txid", "from", "to"}
<1>1. /\ sent.type = "switch" /\ got.type = "switch"
      /\ DOMAIN sent.attr = names \cup {"burn", "mint"}
  BY OtherRead DEF Event, SwitchAttr
<1>2. \A k \in names : Shape(sent, k) = "name" /\ CaseFree(sent.attr[k]) = sent.attr[k]
  <2>1. \A k \in names : Shape(sent, k) = "name"
    BY <1>1 DEF Shape
  <2>2. \A k \in names : CaseFree(sent.attr[k]) = sent.attr[k]
    BY <1>1, PlainName DEF Event, Text, SwitchAttr
  <2> QED
    BY <2>1, <2>2
<1>3. /\ Shape(sent, "burn") = "coin" /\ sent.attr["burn"].e8 \in Int
      /\ CaseFree(sent.attr["burn"].asset) = sent.attr["burn"].asset
      /\ Shape(sent, "mint") = "coin" /\ sent.attr["mint"].e8 \in Int
      /\ CaseFree(sent.attr["mint"].asset) = sent.attr["mint"].asset
  BY <1>1, PlainName, PlainNames DEF Shape, Event, Text, Coin, SwitchAttr
<1>4. Plain(sent, names, {"burn", "mint"}, {})
  BY <1>1, <1>2, <1>3 DEF Plain
<1>5. OtherRows(got) = Row("switch_events", Switch(got))
  BY <1>1 DEF OtherRows, Passed
<1>6. NamesTold(Switch(got)) = {CoinOrNone(got, k).asset : k \in {"burn", "mint"}} \cup {TextOf(got, k) : k \in names}
  BY DEF NamesTold, Switch, AmountColumns
<1>7. AmountsTold(Switch(got)) = {CoinOrNone(got, k).e8 : k \in {"burn", "mint"}} \cup {Int0(got, k) : k \in {}}
  BY DEF AmountsTold, Switch, AmountColumns
<1> QED
  BY <1>4, <1>5, <1>6, <1>7, OtherRowSays

LEMMA PendingSays ==
  ASSUME NEW sent \in OtherEvents, sent = Event("pending_liquidity", PendingAttr),
         NEW got \in ReceivedOther(sent), ~RefusedOther(got)
  PROVE  Told(ToSet(OtherRows(got))) = Says(got)
<1> DEFINE names == {"pool", "asset_tx_id", "asset_chain", "asset_address", "rune_tx_id", "rune_address", "type"}
<1>1. /\ sent.type = "pending_liquidity" /\ got.type = "pending_liquidity"
      /\ DOMAIN sent.attr = names \cup {"asset_amount", "rune_amount"}
  BY OtherRead DEF Event, PendingAttr
<1>2. \A k \in names : Shape(sent, k) = "name" /\ CaseFree(sent.attr[k]) = sent.attr[k]
  <2>1. \A k \in names : Shape(sent, k) = "name"
    BY <1>1 DEF Shape
  <2>2. \A k \in names : CaseFree(sent.attr[k]) = sent.attr[k]
    BY <1>1, PlainName DEF Event, Text, PendingAttr
  <2> QED
    BY <2>1, <2>2
<1>3. /\ Shape(sent, "asset_amount") = "number" /\ sent.attr["asset_amount"] \in Int
      /\ Shape(sent, "rune_amount") = "number" /\ sent.attr["rune_amount"] \in Int
  BY <1>1, PlainName, PlainNames DEF Shape, Event, Text, Coin, PendingAttr
<1>4. Plain(sent, names, {}, {"asset_amount", "rune_amount"})
  BY <1>1, <1>2, <1>3 DEF Plain
<1>5. OtherRows(got) = Row("pending_liquidity_events", PendingLiquidity(got))
  BY <1>1 DEF OtherRows, Passed
<1>8. got.attr.pool = TextOf(got, "pool")
  <2>1. "pool" \in DOMAIN got.attr
    BY <1>1, OtherRead, RequiredIs
  <2> QED
    BY <2>1 DEF TextOf
<1>6. NamesTold(PendingLiquidity(got)) = {CoinOrNone(got, k).asset : k \in {}} \cup {TextOf(got, k) : k \in names}
  BY <1>8 DEF NamesTold, PendingLiquidity, AmountColumns
<1>7. AmountsTold(PendingLiquidity(got)) = {CoinOrNone(got, k).e8 : k \in {}} \cup {Int0(got, k) : k \in {"asset_amount", "rune_amount"}}
  BY <1>8 DEF AmountsTold, PendingLiquidity, AmountColumns
<1> QED
  BY <1>4, <1>5, <1>6, <1>7, OtherRowSays

VaultLabels == {"add new asgard vault", "set_asgard_vault"}

\* A vault has one of two labels.
LEMMA VaultSays ==
  ASSUME NEW type \in {"ActiveVault", "InactiveVault"},
         NEW label \in VaultLabels,
         NEW sent \in OtherEvents, sent.type = type,
         DOMAIN sent.attr = {label}, sent.attr[label] = Text("vault"),
         NEW got \in ReceivedOther(sent), ~RefusedOther(got)
  PROVE  Told(ToSet(OtherRows(got))) = Says(got)
<1> DEFINE names == {label}
<1>1. sent.type = type /\ got.type = type /\ DOMAIN sent.attr = {label} /\ sent.attr[label] = Text("vault")
  BY OtherRead
<1>2. Shape(sent, label) = "name" /\ CaseFree(sent.attr[label]) = sent.attr[label]
  BY <1>1, PlainName DEF Shape, Text, VaultLabels
<1>3. Plain(sent, names, {}, {})
  BY <1>1, <1>2 DEF Plain
<1>4. \E table : OtherRows(got) = Row(table, Vault(got))
  BY <1>1 DEF OtherRows, Passed
<1>5. Vault(got).add_asgard_addr = TextOf(got, label)
  BY <1>1, OtherRead DEF Vault, TextOf, VaultLabels
<1>6. NamesTold(Vault(got)) = {CoinOrNone(got, k).asset : k \in {}} \cup {TextOf(got, k) : k \in names}
  BY <1>5 DEF NamesTold, Vault, AmountColumns
<1>7. AmountsTold(Vault(got)) = {CoinOrNone(got, k).e8 : k \in {}} \cup {Int0(got, k) : k \in {}}
  BY DEF AmountsTold, Vault, AmountColumns
<1>8. ASSUME NEW table PROVE Told(ToSet(Row(table, Vault(got)))) = Says(got)
  <2> HIDE DEF names
  <2> QED
    BY <1>3, <1>6, <1>7, OtherRowSays
<1> QED
  BY <1>4, <1>8

\* The status of a pool is written in the lower case.
LEMMA StatusIsLower ==
  /\ CaseFree(Lower(Text("AVAILABLE"))) = LowerCase(Lower(Text("AVAILABLE")))
  /\ CaseFree(Text("Available")) = LowerCase(Text("Available"))
<1>1. DOMAIN Lower(Text("AVAILABLE")) = {"lower"} /\ Lower(Text("AVAILABLE")).lower = Text("AVAILABLE")
  BY DEF Lower
<1>2. SpelledOut(Lower(Text("AVAILABLE"))) = Text("AVAILABLE")
  BY <1>1 DEF SpelledOut
<1>3. SpelledOut(Text("Available")) = Text("Available")
  BY PlainName DEF Text
<1>4. Text("AVAILABLE") # PlainRune /\ Text("Available") # PlainRune
  BY DEF Text, PlainRune, Asset
<1> QED
  BY <1>2, <1>3, <1>4 DEF CaseFree, LowerCase

LEMMA PoolSays ==
  ASSUME NEW sent \in OtherEvents, NEW status \in {Lower(Text("AVAILABLE")), Text("Available")},
         sent = Event("pool", PoolAttr(status)),
         NEW got \in ReceivedOther(sent), ~RefusedOther(got)
  PROVE  Told(ToSet(OtherRows(got))) = Says(got)
<1> DEFINE names == {"pool", "pool_status"}
<1>1. sent.type = "pool" /\ got.type = "pool" /\ DOMAIN sent.attr = names
      /\ sent.attr["pool"] = Text("POOL") /\ sent.attr["pool_status"] = status
  BY OtherRead DEF Event, PoolAttr
<1>2. DOMAIN got.attr = names /\ \A k \in names : got.attr[k] = sent.attr[k] /\ got.attr[k] # Garbled
  BY <1>1, OtherRead, RequiredIs, UnreadableAssumption DEF OtherLenient
<1>3. \A k \in names : Shape(got, k) = "name"
  BY <1>1 DEF Shape
<1>4. Sorted(got, names, {}, {}, {}) /\ ListsSaid(got, {}) = {} /\ OwnColumn(got) = {}
  BY <1>1, <1>2, <1>3 DEF Sorted, ListsSaid, OwnColumn
<1>5. Says(got) = Said({CaseFree(NameIn(got, k)) : k \in names}, {})
  <2>1. \A c \in ListsSaid(got, {}) : c.e8 \in Int
    BY <1>4
  <2>2. (({CaseFree(CoinOrNone(got, k).asset) : k \in {}}
           \cup {CaseFree(c.asset) : c \in ListsSaid(got, {})}) \ OwnColumn(got))
          \cup {CaseFree(NameIn(got, k)) : k \in names} = {CaseFree(NameIn(got, k)) : k \in names}
    BY <1>4
  <2>3. {CoinOrNone(got, k).e8 : k \in {}} \cup {Int0(got, k) : k \in {}}
          \cup {c.e8 : c \in ListsSaid(got, {})} = {}
    BY <1>4
  <2> HIDE DEF names
  <2> QED
    BY <1>4, <2>1, <2>2, <2>3, SaysOfFields
<1>6. NameIn(got, "pool") = Text("POOL") /\ NameIn(got, "pool_status") = status
  BY <1>1, <1>2 DEF NameIn
<1>7. CaseFree(Text("POOL")) = Text("POOL") /\ CaseFree(status) = LowerCase(status)
  BY PlainName, StatusIsLower DEF Text
<1>8. OtherRows(got) = Row("pool_events", PoolStatus(got))
  BY <1>1 DEF OtherRows, Passed
<1>9. PoolStatus(got) = [asset |-> Text("POOL"), status |-> LowerCase(status)]
  BY <1>1, <1>2 DEF PoolStatus
<1>10. NamesTold(PoolStatus(got)) = {Text("POOL"), LowerCase(status)}
       /\ AmountsTold(PoolStatus(got)) = {}
  BY <1>9 DEF NamesTold, AmountsTold, AmountColumns
<1>11. {CaseFree(NameIn(got, k)) : k \in names} = {Text("POOL"), LowerCase(status)}
  BY <1>6, <1>7
<1> QED
  BY <1>5, <1>8, <1>10, <1>11, RowTells

\* No row has no index.
LEMMA NothingListed == DOMAIN <<>> = {}
<1>1. DOMAIN <<>> = 1 .. 0
  OBVIOUS
<1> QED
  BY <1>1

\* An event that is passed over says nothing.
LEMMA SilentSays ==
  ASSUME NEW sent \in OtherEvents, NEW type \in {"message", "wasm-contract/action", "new in 4.0"},
         sent = Event(type, NoAttr), NEW got \in ReceivedOther(sent), ~RefusedOther(got)
  PROVE  Told(ToSet(OtherRows(got))) = Says(got)
<1>1. got.type = type /\ DOMAIN got.attr = {} /\ sent.type = type
  BY NothingListed, OtherRead DEF Event, NoAttr
<1>2. OtherRows(got) = <<>>
  BY <1>1 DEF OtherRows, Passed
<1>3. ToSet(OtherRows(got)) = {}
  BY NothingListed, <1>2 DEF ToSet
<1>4. Told({}) = Said({}, {})
  BY DEF Told
<1>5. /\ \A shape : Legible(got, shape) = {}
  BY <1>1 DEF Legible
<1>6. CoinsSaid(got) = {} /\ PoolsSaid(got) = {}
  BY <1>5 DEF CoinsSaid, PoolsSaid
<1>7. Says(got) = Said({}, {})
  BY <1>5, <1>6, SaysIs
<1> QED
  BY <1>3, <1>4, <1>7

\* A list of which every entry can be read is told in full.
LEMMA ListedIs ==
  ASSUME NEW e, NEW k, k # "slashed", \A i \in DOMAIN e.attr[k] : e.attr[k][i] # Garbled
  PROVE  Listed(e, k) = {e.attr[k][i] : i \in DOMAIN e.attr[k]}
<1>1. Known(e, k) = DOMAIN e.attr[k]
  BY DEF Known
<1> QED
  BY <1>1 DEF Listed

\* The first two of a list that is padded with two.
LEMMA PaddedIs ==
  ASSUME NEW a, NEW b, NEW x
  PROVE  /\ (<<>> \o <<x, x>>)[1] = x /\ (<<>> \o <<x, x>>)[2] = x
         /\ (<<a>> \o <<x, x>>)[1] = a /\ (<<a>> \o <<x, x>>)[2] = x
         /\ (<<a, b>> \o <<x, x>>)[1] = a /\ (<<a, b>> \o <<x, x>>)[2] = b
OBVIOUS

\* A refund has room for two coins.
LEMMA RefundSays ==
  ASSUME NEW sent \in OtherEvents, NEW coins \in RefundedCoins,
         sent = Event("refund", RefundAttr(coins)),
         NEW got \in ReceivedOther(sent), ~RefusedOther(got)
  PROVE  Told(ToSet(OtherRows(got))) = Says(got)
<1> DEFINE names == {"id", "chain", "from", "to", "memo", "reason"}
           empty == Coin(NoName, 0)
           padded == CoinsOf(got, "coin") \o <<empty, empty>>
           L == ListsSaid(got, {"coin"})
<1>1. /\ sent.type = "refund" /\ got.type = "refund"
      /\ DOMAIN sent.attr = names \cup {"coin"} \cup {"code"}
      /\ sent.attr["coin"] = coins /\ sent.attr["code"] = 105
  BY OtherRead DEF Event, RefundAttr, Also, Tx
<1>2. \A k \in names : Shape(sent, k) = "name" /\ CaseFree(sent.attr[k]) = sent.attr[k]
  <2>1. \A k \in names : Shape(sent, k) = "name"
    BY <1>1 DEF Shape
  <2>2. \A k \in names : CaseFree(sent.attr[k]) = sent.attr[k]
    BY <1>1, PlainName DEF Event, Text, RefundAttr, Also, Tx
  <2> QED
    BY <2>1, <2>2
<1>3. \A k \in DOMAIN got.attr : got.attr[k] = sent.attr[k] /\ got.attr[k] # Garbled
  BY <1>1, OtherRead, UnreadableAssumption DEF OtherLenient
<1>4. /\ \A k \in names : Shape(got, k) = "name"
      /\ Shape(got, "code") = "number" /\ Shape(got, "coin") = "coins" /\ Shape(sent, "coin") = "coins"
  BY <1>1 DEF Shape
<1>5. \A k \in names : CaseFree(NameIn(got, k)) = TextOf(got, k)
  <2>1. CaseFree(NoName) = NoName
    BY PlainNames
  <2> QED
    BY <1>2, <1>3, <2>1 DEF NameIn, TextOf
<1>6. Int0(got, "code") \in Int
  BY <1>1, <1>3 DEF Int0
<1>7. OwnColumn(got) = {} /\ empty.asset = NoName /\ empty.e8 = 0
  BY <1>1 DEF OwnColumn, Coin
<1>8. L = {CoinsOf(got, "coin")[i] : i \in DOMAIN CoinsOf(got, "coin")}
  <2>1. CASE "coin" \in DOMAIN got.attr
    <3>1. \A i \in DOMAIN got.attr["coin"] : got.attr["coin"][i] # Garbled
      BY <1>1, <1>3, <1>4, <2>1, UnreadableAssumption
    <3> QED
      BY <1>3, <2>1, <3>1, ListedIs DEF ListsSaid, CoinsOf
  <2>2. CASE "coin" \notin DOMAIN got.attr
    <3>1. DOMAIN <<>> = {}
      OBVIOUS
    <3> QED
      BY <2>2, <3>1 DEF ListsSaid, CoinsOf
  <2> QED
    BY <2>1, <2>2
<1>9. CoinsOf(got, "coin") \in {coins, <<>>}
  BY <1>1, <1>3 DEF CoinsOf
<1>10. /\ \A c \in L : CaseFree(c.asset) = c.asset /\ c.e8 \in Int
       /\ padded[1].e8 \in Int /\ padded[2].e8 \in Int
       /\ {padded[1], padded[2]} \ {empty} = L \ {empty}
  <2>1. CaseFree(Rune) = Rune /\ CaseFree(Text("TCY")) = Text("TCY")
    BY PlainName, PlainNames DEF Text
  <2>2. CASE CoinsOf(got, "coin") = <<>>
    <3>1. L = {}
      BY <1>8, <2>2
    <3>2. padded[1] = empty /\ padded[2] = empty
      BY <2>2, PaddedIs
    <3> QED
      BY <1>7, <3>1, <3>2
  <2>3. CASE CoinsOf(got, "coin") = <<Coin(Rune, 12)>>
    <3>1. L = {Coin(Rune, 12)}
      BY <1>8, <2>3
    <3>2. padded[1] = Coin(Rune, 12) /\ padded[2] = empty
      BY <2>3, PaddedIs
    <3> QED
      BY <1>7, <2>1, <3>1, <3>2 DEF Coin
  <2>4. CASE CoinsOf(got, "coin") = <<Coin(Rune, 12), Coin(Text("TCY"), 13)>>
    <3>1. L = {Coin(Rune, 12), Coin(Text("TCY"), 13)}
      BY <1>8, <2>4
    <3>2. padded[1] = Coin(Rune, 12) /\ padded[2] = Coin(Text("TCY"), 13)
      BY <2>4, PaddedIs
    <3> QED
      BY <1>7, <2>1, <3>1, <3>2 DEF Coin
  <2> QED
    BY <1>9, <2>2, <2>3, <2>4 DEF RefundedCoins
<1> HIDE DEF padded, L
<1>11. /\ NamesTold(Refund(got)) = {padded[1].asset, padded[2].asset} \cup {TextOf(got, k) : k \in names}
       /\ AmountsTold(Refund(got)) = {padded[1].e8, padded[2].e8, Int0(got, "code")}
  BY DEF NamesTold, AmountsTold, AmountColumns, Refund, padded
<1>12. OtherRows(got) = Row("refund_events", Refund(got))
  BY <1>1 DEF OtherRows, Passed
<1> DEFINE N == (({CaseFree(CoinOrNone(got, k).asset) : k \in {}}
                    \cup {CaseFree(c.asset) : c \in L}) \ OwnColumn(got))
                  \cup {CaseFree(NameIn(got, k)) : k \in names}
           A == {CoinOrNone(got, k).e8 : k \in {}} \cup {Int0(got, k) : k \in {"code"}}
                  \cup {c.e8 : c \in L}
<1>13. Says(got) = Said(N, A)
  <2>1. Sorted(got, names, {}, {"code"}, {"coin"})
    BY <1>1, <1>4, <1>6, OtherRead DEF Sorted
  <2> QED
    BY <1>10, <2>1, SaysOfFields DEF L
<1>14. AlikeBut(NoName, NamesTold(Refund(got)), N)
  <2>1. N = {c.asset : c \in L} \cup {TextOf(got, k) : k \in names}
    <3>1. {CaseFree(NameIn(got, k)) : k \in names} = {TextOf(got, k) : k \in names}
      BY <1>5
    <3>2. {CaseFree(c.asset) : c \in L} = {c.asset : c \in L}
      BY <1>10
    <3> QED
      BY <1>7, <3>1, <3>2
  <2>2. {padded[1].asset, padded[2].asset} \ {NoName} = {c.asset : c \in L} \ {NoName}
    BY <1>7, <1>10
  <2> QED
    BY <1>11, <2>1, <2>2 DEF AlikeBut
<1>15. AlikeBut(0, AmountsTold(Refund(got)), A) /\ Whole(A) /\ Whole(AmountsTold(Refund(got)))
  <2>1. {padded[1].e8, padded[2].e8} \ {0} = {c.e8 : c \in L} \ {0}
    BY <1>7, <1>10
  <2>2. A = {Int0(got, "code")} \cup {c.e8 : c \in L}
    OBVIOUS
  <2> QED
    BY <1>6, <1>10, <1>11, <2>1, <2>2 DEF AlikeBut, Whole
<1> HIDE DEF N, A
<1> QED
  BY <1>12, <1>13, <1>14, <1>15, RowTells, SaidAlike

\* What the rows of an event tell.
LEMMA RowsTell ==
  ASSUME NEW rows
  PROVE  Told(ToSet(rows)) = Said(UNION {NamesTold(rows[i].columns) : i \in DOMAIN rows},
                                  UNION {AmountsTold(rows[i].columns) : i \in DOMAIN rows})
<1>1. Told(ToSet(rows)) = Said(UNION {NamesTold(r.columns) : r \in ToSet(rows)},
                               UNION {AmountsTold(r.columns) : r \in ToSet(rows)})
  BY DEF Told, NamesTold, AmountsTold
<1>2. ToSet(rows) = {rows[i] : i \in DOMAIN rows}
  BY DEF ToSet
<1>3. /\ UNION {NamesTold(r.columns) : r \in ToSet(rows)}
           = UNION {NamesTold(rows[i].columns) : i \in DOMAIN rows}
      /\ UNION {AmountsTold(r.columns) : r \in ToSet(rows)}
           = UNION {AmountsTold(rows[i].columns) : i \in DOMAIN rows}
  BY <1>2
<1> QED
  BY <1>1, <1>3

\* The bank module spells names in the lower case.
LEMMA BankNames ==
  /\ CaseFree(Lower(PlainRune)) = Rune
  /\ CaseFree(Lower(Text("BTC-BTC"))) = Text("BTC-BTC") /\ CaseFree(Lower(Text("TCY"))) = Text("TCY")
  /\ Lower(Text("BTC-BTC")) # Lower(PlainRune) /\ Lower(Text("TCY")) # Lower(PlainRune)
  /\ \A name : Lower(name).lower = name
<1>1. \A name : DOMAIN Lower(name) = {"lower"} /\ Lower(name).lower = name
  BY DEF Lower
<1>2. \A name : SpelledOut(Lower(name)) = name
  BY <1>1 DEF SpelledOut
<1>3. /\ Text("BTC-BTC") \notin {PlainRune, Text("AVAILABLE"), Text("Available")}
      /\ Text("TCY") \notin {PlainRune, Text("AVAILABLE"), Text("Available")}
  <2>1. \A t : Text(t).symbol = t
    BY DEF Text, Asset
  <2> QED
    BY <2>1 DEF PlainRune
<1>4. Lower(Text("BTC-BTC")) # Lower(PlainRune) /\ Lower(Text("TCY")) # Lower(PlainRune)
  BY <1>1, <1>3
<1>5. CaseFree(Lower(PlainRune)) = Rune
  <2>1. PlainRune \notin {Text("AVAILABLE"), Text("Available")}
    BY DEF PlainRune, Text, Asset
  <2> QED
    BY <1>2, <2>1 DEF CaseFree
<1>6. \A name : name \notin {PlainRune, Text("AVAILABLE"), Text("Available")}
                 => CaseFree(Lower(name)) = name
  BY <1>2 DEF CaseFree
<1> QED
  BY <1>1, <1>3, <1>4, <1>5, <1>6

\* The coins of a transfer.
LEMMA TransferredAre ==
  ASSUME NEW coins \in TransferredCoins
  PROVE  /\ DOMAIN coins # {}
         /\ \A i \in DOMAIN coins : /\ CaseFree(coins[i].asset) = ParseCosmosCoin(coins[i]).asset
                                    /\ coins[i].e8 = ParseCosmosCoin(coins[i]).e8
                                    /\ coins[i].e8 \in Int
         /\ \A i, j \in DOMAIN coins : coins[i].e8 = coins[j].e8 => i = j
<1>1. \A a, n : Coin(a, n).asset = a /\ Coin(a, n).e8 = n
  BY DEF Coin
<1>2. ASSUME NEW n \in Int, NEW name \in {PlainRune, Text("BTC-BTC"), Text("TCY")}
      PROVE  LET c == Coin(Lower(name), n)
             IN  /\ CaseFree(c.asset) = ParseCosmosCoin(c).asset
                 /\ c.e8 = ParseCosmosCoin(c).e8 /\ c.e8 \in Int
  BY <1>1, BankNames DEF ParseCosmosCoin
<1>3. CASE coins = <<Coin(Lower(PlainRune), 14)>>
  <2>1. DOMAIN coins = {1} /\ coins[1] = Coin(Lower(PlainRune), 14)
    BY <1>3
  <2> QED
    BY <1>2, <2>1
<1>4. CASE coins = <<Coin(Lower(Text("BTC-BTC")), 15), Coin(Lower(Text("TCY")), 16)>>
  <2>1. DOMAIN coins = {1, 2} /\ coins[1] = Coin(Lower(Text("BTC-BTC")), 15)
        /\ coins[2] = Coin(Lower(Text("TCY")), 16)
    BY <1>4
  <2> QED
    BY <1>1, <1>2, <2>1
<1> QED
  BY <1>3, <1>4 DEF TransferredCoins

\* A transfer has a row for each of its coins.
LEMMA TransferSays ==
  ASSUME NEW sent \in OtherEvents, NEW coins \in TransferredCoins,
         sent = Event("transfer", TransferAttr(coins)),
         NEW got \in ReceivedOther(sent), ~RefusedOther(got)
  PROVE  /\ Told(ToSet(OtherRows(got))) = Says(got)
         /\ \A i, j \in DOMAIN OtherRows(got) :
              OtherRows(got)[i].columns = OtherRows(got)[j].columns => i = j
<1> DEFINE names == {"sender", "recipient"}
           rows == OtherRows(got)
           cosmos(i) == ParseCosmosCoin(coins[i])
           L == ListsSaid(got, {"amount"})
<1>1. /\ sent.type = "transfer" /\ got.type = "transfer"
      /\ DOMAIN sent.attr = names \cup {"amount"} /\ sent.attr["amount"] = coins
      /\ sent.attr["sender"] = Text("from") /\ sent.attr["recipient"] = Text("to")
  BY OtherRead DEF Event, TransferAttr
<1>2. \A k \in DOMAIN got.attr : got.attr[k] = sent.attr[k] /\ got.attr[k] # Garbled
  BY <1>1, OtherRead, UnreadableAssumption DEF OtherLenient
<1>3. "amount" \in DOMAIN got.attr /\ got.attr["amount"] = coins
  BY <1>1, <1>2, OtherRead, RequiredIs
<1>4. /\ \A k \in names : Shape(got, k) = "name"
      /\ Shape(got, "amount") = "coins" /\ Shape(sent, "amount") = "coins"
  BY <1>1 DEF Shape
<1>5. \A k \in names : CaseFree(NameIn(got, k)) = TextOf(got, k)
  <2>1. CaseFree(NoName) = NoName
    BY PlainNames
  <2>2. CaseFree(Text("from")) = Text("from") /\ CaseFree(Text("to")) = Text("to")
    BY PlainName DEF Text
  <2> QED
    BY <1>1, <1>2, <2>1, <2>2 DEF NameIn, TextOf
<1>6. L = {coins[i] : i \in DOMAIN coins}
  <2>1. \A i \in DOMAIN got.attr["amount"] : got.attr["amount"][i] # Garbled
    BY <1>1, <1>3, <1>4, UnreadableAssumption
  <2> QED
    BY <1>2, <1>3, <2>1, ListedIs DEF ListsSaid
<1>7. OwnColumn(got) = {}
  BY <1>1 DEF OwnColumn
<1>8. /\ DOMAIN rows = DOMAIN coins
      /\ \A i \in DOMAIN coins :
           rows[i].columns = [from_addr |-> TextOf(got, "sender"), to_addr |-> TextOf(got, "recipient"),
                              asset |-> cosmos(i).asset, amount_e8 |-> cosmos(i).e8]
  <2>1. rows = [i \in DOMAIN Transfers(got) |->
                  [table |-> "transfer_events", columns |-> Transfers(got)[i]]]
    BY <1>1 DEF OtherRows, Passed
  <2>2. Transfers(got) = [i \in DOMAIN coins |->
          [from_addr |-> TextOf(got, "sender"), to_addr |-> TextOf(got, "recipient"),
           asset |-> cosmos(i).asset, amount_e8 |-> cosmos(i).e8]]
    BY <1>3 DEF Transfers
  <2> HIDE DEF rows, cosmos
  <2> QED
    BY <2>1, <2>2
<1>9. \A i \in DOMAIN coins :
        /\ NamesTold(rows[i].columns) = {TextOf(got, k) : k \in names} \cup {CaseFree(coins[i].asset)}
        /\ AmountsTold(rows[i].columns) = {coins[i].e8}
  <2> TAKE i \in DOMAIN coins
  <2> DEFINE c == [from_addr |-> TextOf(got, "sender"), to_addr |-> TextOf(got, "recipient"),
                   asset |-> cosmos(i).asset, amount_e8 |-> cosmos(i).e8]
  <2>1. rows[i].columns = c
    BY <1>8
  <2>2. cosmos(i).asset = CaseFree(coins[i].asset) /\ cosmos(i).e8 = coins[i].e8
    BY TransferredAre
  <2>3. NamesTold(c) = {TextOf(got, k) : k \in names} \cup {cosmos(i).asset}
    <3> HIDE DEF cosmos
    <3> QED
      BY DEF NamesTold, AmountColumns
  <2>4. AmountsTold(c) = {cosmos(i).e8}
    <3> HIDE DEF cosmos
    <3> QED
      BY DEF AmountsTold, AmountColumns
  <2> HIDE DEF rows, cosmos, c
  <2> QED
    BY <2>1, <2>2, <2>3, <2>4
<1> HIDE DEF rows, cosmos, L
<1> DEFINE N == (({CaseFree(CoinOrNone(got, k).asset) : k \in {}}
                    \cup {CaseFree(c.asset) : c \in L}) \ OwnColumn(got))
                  \cup {CaseFree(NameIn(got, k)) : k \in names}
           A == {CoinOrNone(got, k).e8 : k \in {}} \cup {Int0(got, k) : k \in {}}
                  \cup {c.e8 : c \in L}
<1>10. Says(got) = Said(N, A)
  <2>1. Sorted(got, names, {}, {}, {"amount"})
    BY <1>1, <1>4, OtherRead DEF Sorted
  <2>2. \A c \in L : c.e8 \in Int
    BY <1>6, TransferredAre
  <2> QED
    BY <2>1, <2>2, SaysOfFields DEF L
<1>11. N = UNION {NamesTold(rows[i].columns) : i \in DOMAIN rows}
  <2>1. N = {TextOf(got, k) : k \in names} \cup {CaseFree(coins[i].asset) : i \in DOMAIN coins}
    <3>1. {CaseFree(NameIn(got, k)) : k \in names} = {TextOf(got, k) : k \in names}
      BY <1>5
    <3>2. {CaseFree(c.asset) : c \in L} = {CaseFree(coins[i].asset) : i \in DOMAIN coins}
      BY <1>6
    <3> QED
      BY <1>7, <3>1, <3>2
  <2> HIDE DEF N
  <2>2. ASSUME NEW n \in N PROVE \E i \in DOMAIN rows : n \in NamesTold(rows[i].columns)
    <3>1. CASE n \in {TextOf(got, k) : k \in names}
      <4>1. PICK i \in DOMAIN coins : TRUE
        BY TransferredAre
      <4> QED
        BY <1>8, <1>9, <3>1, <4>1
    <3>2. CASE n \in {CaseFree(coins[i].asset) : i \in DOMAIN coins}
      <4>1. PICK i \in DOMAIN coins : n = CaseFree(coins[i].asset)
        BY <3>2
      <4> QED
        BY <1>8, <1>9, <4>1
    <3> QED
      BY <2>1, <2>2, <3>1, <3>2
  <2>3. \A i \in DOMAIN rows : NamesTold(rows[i].columns) \subseteq N
    BY <1>8, <1>9, <2>1
  <2> QED
    BY <2>2, <2>3
<1>12. A = UNION {AmountsTold(rows[i].columns) : i \in DOMAIN rows}
  <2>1. A = {coins[i].e8 : i \in DOMAIN coins}
    BY <1>6
  <2> HIDE DEF A
  <2> QED
    BY <1>8, <1>9, <2>1
<1>13. Told(ToSet(rows)) = Says(got)
  <2> HIDE DEF N, A
  <2> QED
    BY <1>10, <1>11, <1>12, RowsTell
<1>14. ASSUME NEW i \in DOMAIN rows, NEW j \in DOMAIN rows, rows[i].columns = rows[j].columns
       PROVE  i = j
  <2>1. coins[i].e8 = coins[j].e8
    BY <1>8, <1>9, <1>14
  <2> QED
    BY <1>8, <2>1, TransferredAre
<1> QED
  BY <1>13, <1>14 DEF rows

\* The forms by type.
LEMMA OtherOfType ==
  ASSUME NEW sent \in OtherEvents
  PROVE  /\ sent.type = "outbound" => sent = Event("outbound", OutboundAttr)
         /\ sent.type = "transfer" =>
              \E coins \in TransferredCoins : sent = Event("transfer", TransferAttr(coins))
         /\ sent.type = "pending_liquidity" => sent = Event("pending_liquidity", PendingAttr)
         /\ sent.type = "set_mimir" =>
              sent = Event("set_mimir", MimirAttr)
         /\ sent.type = "mint_burn" => sent = Event("mint_burn", MintAttr)
         /\ sent.type = "pool" =>
              \E status : sent = Event("pool", PoolAttr(status))
<1>1. \A type, attr : Event(type, attr).type = type
  BY DEF Event
<1>2. CASE sent = Event("outbound", OutboundAttr)
  <2>1. sent.type = "outbound"
    BY <1>1, <1>2
  <2> QED
    BY <1>2, <2>1
<1>3. CASE \E coins \in RefundedCoins : sent = Event("refund", RefundAttr(coins))
  <2>1. sent.type = "refund"
    BY <1>1, <1>3
  <2> QED
    BY <1>3, <2>1
<1>4. CASE \E coins \in TransferredCoins : sent = Event("transfer", TransferAttr(coins))
  <2>1. sent.type = "transfer"
    BY <1>1, <1>4
  <2> QED
    BY <1>4, <2>1
<1>5. CASE sent = Event("bond", BondAttr)
  <2>1. sent.type = "bond"
    BY <1>1, <1>5
  <2> QED
    BY <1>5, <2>1
<1>6. CASE sent = Event("UpdateNodeAccountStatus", StatusAttr)
  <2>1. sent.type = "UpdateNodeAccountStatus"
    BY <1>1, <1>6
  <2> QED
    BY <1>6, <2>1
<1>7. CASE \E attr \in VaultAttrs : sent \in {Event("ActiveVault", attr), Event("InactiveVault", attr)}
  <2>1. sent.type \in {"ActiveVault", "InactiveVault"}
    BY <1>1, <1>7
  <2> QED
    BY <1>7, <2>1
<1>8. CASE sent = Event("set_mimir", MimirAttr)
  <2>1. sent.type = "set_mimir"
    BY <1>1, <1>8
  <2> QED
    BY <1>8, <2>1
<1>9. CASE sent = Event("mint_burn", MintAttr)
  <2>1. sent.type = "mint_burn"
    BY <1>1, <1>9
  <2> QED
    BY <1>9, <2>1
<1>10. CASE sent = Event("switch", SwitchAttr)
  <2>1. sent.type = "switch"
    BY <1>1, <1>10
  <2> QED
    BY <1>10, <2>1
<1>11. CASE sent = Event("pending_liquidity", PendingAttr)
  <2>1. sent.type = "pending_liquidity"
    BY <1>1, <1>11
  <2> QED
    BY <1>11, <2>1
<1>12. CASE \E status \in {Lower(Text("AVAILABLE")), Text("Available")} :
             sent = Event("pool", PoolAttr(status))
  <2>1. sent.type = "pool"
    BY <1>1, <1>12
  <2> QED
    BY <1>12, <2>1
<1>13. CASE \E type \in {"message", "wasm-contract/action", "new in 4.0"} : sent = Event(type, NoAttr)
  <2>1. sent.type \in {"message", "wasm-contract/action", "new in 4.0"}
    BY <1>1, <1>13
  <2> QED
    BY <1>13, <2>1
<1> QED
  BY <1>2, <1>3, <1>4, <1>5, <1>6, <1>7, <1>8, <1>9, <1>10, <1>11, <1>12, <1>13, OtherIs DEF OtherForm

\* No event is refused as it is sent, and no number is required.
LEMMA RequiredThere ==
  ASSUME NEW sent \in OtherEvents
  PROVE  \A k \in Required[sent.type] : k \in DOMAIN sent.attr /\ Shape(sent, k) # "number"
<1>1. sent.type \in {e.type : e \in OtherEvents}
  OBVIOUS
<1>2. Required[sent.type] =
        CASE sent.type = "outbound" -> {"coin", "in_tx_id"}
          [] sent.type = "transfer" -> {"amount"}
          [] sent.type = "pending_liquidity" -> {"pool"}
          [] sent.type = "set_mimir" -> {"key"}
          [] sent.type = "mint_burn" -> {"denom"}
          [] sent.type = "pool" -> {"pool", "pool_status"}
          [] OTHER -> {}
  BY <1>1 DEF Required
<1>3. CASE sent.type = "outbound"
  <2>1. sent = Event("outbound", OutboundAttr)
    BY <1>3, OtherOfType
  <2>2. {"coin", "in_tx_id"} \subseteq DOMAIN sent.attr
    BY <2>1 DEF Event, OutboundAttr, Also
  <2>3. Shape(sent, "coin") # "number" /\ Shape(sent, "in_tx_id") # "number"
    BY <1>3 DEF Shape
  <2> QED
    BY <1>2, <1>3, <2>2, <2>3
<1>4. CASE sent.type = "transfer"
  <2>1. \E coins : sent = Event("transfer", TransferAttr(coins))
    BY <1>4, OtherOfType
  <2>2. "amount" \in DOMAIN sent.attr
    BY <2>1 DEF Event, TransferAttr
  <2>3. Shape(sent, "amount") # "number"
    BY <1>4 DEF Shape
  <2> QED
    BY <1>2, <1>4, <2>2, <2>3
<1>5. CASE sent.type = "pending_liquidity"
  <2>1. sent = Event("pending_liquidity", PendingAttr)
    BY <1>5, OtherOfType
  <2>2. "pool" \in DOMAIN sent.attr
    BY <2>1 DEF Event, PendingAttr
  <2>3. Shape(sent, "pool") # "number"
    BY <1>5 DEF Shape
  <2> QED
    BY <1>2, <1>5, <2>2, <2>3
<1>6. CASE sent.type = "set_mimir"
  <2>1. sent = Event("set_mimir", MimirAttr)
    BY <1>6, OtherOfType
  <2>2. "key" \in DOMAIN sent.attr
    BY <2>1 DEF Event, MimirAttr
  <2>3. Shape(sent, "key") # "number"
    BY <1>6 DEF Shape
  <2> QED
    BY <1>2, <1>6, <2>2, <2>3
<1>7. CASE sent.type = "mint_burn"
  <2>1. sent = Event("mint_burn", MintAttr)
    BY <1>7, OtherOfType
  <2>2. "denom" \in DOMAIN sent.attr
    BY <2>1 DEF Event, MintAttr
  <2>3. Shape(sent, "denom") # "number"
    BY <1>7 DEF Shape
  <2> QED
    BY <1>2, <1>7, <2>2, <2>3
<1>8. CASE sent.type = "pool"
  <2>1. \E status : sent = Event("pool", PoolAttr(status))
    BY <1>8, OtherOfType
  <2>2. {"pool", "pool_status"} \subseteq DOMAIN sent.attr
    BY <2>1 DEF Event, PoolAttr
  <2>3. Shape(sent, "pool") # "number" /\ Shape(sent, "pool_status") # "number"
    BY <1>8 DEF Shape
  <2> QED
    BY <1>2, <1>8, <2>2, <2>3
<1> QED
  BY <1>2, <1>3, <1>4, <1>5, <1>6, <1>7, <1>8

\* An event that is refused did not come whole.
LEMMA OtherRefused ==
  ASSUME NEW sent \in OtherEvents, NEW got \in ReceivedOther(sent), RefusedOther(got),
         got.type = sent.type, DOMAIN got.attr \subseteq DOMAIN sent.attr
  PROVE  ~Complete(sent, got)
<1> SUFFICES ASSUME Complete(sent, got) PROVE FALSE
  OBVIOUS
<1>1. \A k \in DOMAIN sent.attr : k \in DOMAIN got.attr \/ Shape(sent, k) = "number"
  BY DEF Complete
<1>2. \A k \in DOMAIN got.attr : got.attr[k] = sent.attr[k]
  BY DEF Complete
<1>3. \A k : Shape(got, k) = Shape(sent, k)
  BY DEF Shape
<1>4. CASE \E k \in Required[got.type] : k \notin DOMAIN got.attr
  BY <1>1, <1>4, RequiredThere
<1>5. CASE \E k \in DOMAIN got.attr : got.attr[k] = Garbled
  BY <1>2, <1>5, UnreadableAssumption
<1>6. CASE \E k \in DOMAIN got.attr :
             Shape(got, k) = "coins" /\ \E i \in DOMAIN got.attr[k] : got.attr[k][i] = Garbled
  BY <1>2, <1>3, <1>6, UnreadableAssumption
<1> QED
  BY <1>4, <1>5, <1>6 DEF RefusedOther

\* But for transfers there is one row at most.
LEMMA OneOther ==
  ASSUME NEW e, e.type \in OtherTypes, e.type # "transfer"
  PROVE  DOMAIN OtherRows(e) \subseteq {1}
<1>1. \A table, c : DOMAIN Row(table, c) = {1}
  BY DEF Row
<1>2. CASE Passed(e)
  <2>1. OtherRows(e) = <<>>
    BY <1>2 DEF OtherRows, Passed
  <2> QED
    BY <2>1, NothingListed
<1>3. CASE ~Passed(e)
  <2>1. \E table, c : OtherRows(e) = Row(table, c)
    BY <1>3 DEF OtherRows, OtherTypes, Passed
  <2> QED
    BY <1>1, <2>1
<1> QED
  BY <1>2, <1>3

\* Whatever is not refused is told.
LEMMA OthersSay ==
  ASSUME NEW sent \in OtherEvents, NEW got \in ReceivedOther(sent), ~RefusedOther(got)
  PROVE  Told(ToSet(OtherRows(got))) = Says(got)
<1>1. CASE sent = Event("outbound", OutboundAttr)
  BY <1>1, OutboundSays
<1>2. CASE \E coins \in RefundedCoins : sent = Event("refund", RefundAttr(coins))
  BY <1>2, RefundSays
<1>3. CASE \E coins \in TransferredCoins : sent = Event("transfer", TransferAttr(coins))
  BY <1>3, TransferSays
<1>4. CASE sent = Event("bond", BondAttr)
  BY <1>4, BondSays
<1>5. CASE sent = Event("UpdateNodeAccountStatus", StatusAttr)
  BY <1>5, StatusSays
<1>6. CASE \E attr \in VaultAttrs : sent \in {Event("ActiveVault", attr), Event("InactiveVault", attr)}
  <2>1. PICK type \in {"ActiveVault", "InactiveVault"},
             k \in VaultLabels :
          sent = Event(type, Only(k, Text("vault")))
    BY <1>6 DEF VaultAttrs, VaultLabels
  <2>2. sent.type = type /\ DOMAIN sent.attr = {k} /\ sent.attr[k] = Text("vault")
    BY <2>1 DEF Event, Only
  <2> QED
    BY <2>2, VaultSays
<1>7. CASE sent = Event("set_mimir", MimirAttr)
  BY <1>7, MimirSays
<1>8. CASE sent = Event("mint_burn", MintAttr)
  BY <1>8, MintSays
<1>9. CASE sent = Event("switch", SwitchAttr)
  BY <1>9, SwitchSays
<1>10. CASE sent = Event("pending_liquidity", PendingAttr)
  BY <1>10, PendingSays
<1>11. CASE \E status \in {Lower(Text("AVAILABLE")), Text("Available")} :
              sent = Event("pool", PoolAttr(status))
  BY <1>11, PoolSays
<1>12. CASE \E type \in {"message", "wasm-contract/action", "new in 4.0"} : sent = Event(type, NoAttr)
  BY <1>12, SilentSays
<1> QED
  BY <1>1, <1>2, <1>3, <1>4, <1>5, <1>6, <1>7, <1>8, <1>9, <1>10, <1>11, <1>12, OtherIs DEF OtherForm

\* What is decoded of an event: rows that tell it, none alike; or none, of one
\* that came damaged.
DecodedRight(sent, got) ==
  LET rows == RowsOfEvent(got)
  IN  /\ \/ Told(ToSet(rows)) = Says(got)
         \/ rows = <<>> /\ ~Complete(sent, got)
      /\ \A i, j \in DOMAIN rows :
           rows[i].table = rows[j].table /\ rows[i].columns = rows[j].columns => i = j

\* An event that moves no depth is decoded right.
LEMMA OthersDecoded ==
  ASSUME NEW sent \in OtherEvents, NEW got \in Arrivals(sent)
  PROVE  DecodedRight(sent, got)
<1>1. got.type = sent.type /\ got.type \in OtherTypes
  BY ArrivalKinds, TypesThatMove
<1>2. got.type \notin PoolTypes
  BY <1>1, TypesThatMove DEF OtherTypes
<1>3. got \in ReceivedOther(sent)
  BY <1>1, <1>2 DEF Arrivals
<1>4. CASE RefusedOther(got)
  <2>1. RowsOfEvent(got) = <<>>
    BY <1>2, <1>4 DEF RowsOfEvent
  <2>2. DOMAIN got.attr \subseteq DOMAIN sent.attr
    <3>1. DOMAIN sent = {"type", "attr"}
      BY TypesThatMove
    <3>2. \/ got = sent
          \/ \E without \in DOMAIN sent.attr :
               got = [sent EXCEPT !.attr = [k \in DOMAIN sent.attr \ {without} |-> sent.attr[k]]]
          \/ \E k \in DOMAIN sent.attr : got = [sent EXCEPT !.attr[k] = Garbled]
          \/ \E k \in DOMAIN sent.attr : \E i \in DOMAIN sent.attr[k] :
               got = [sent EXCEPT !.attr[k][i] = Garbled]
      BY <1>3 DEF ReceivedOther
    <3>3. CASE \E without \in DOMAIN sent.attr :
                 got = [sent EXCEPT !.attr = [k \in DOMAIN sent.attr \ {without} |-> sent.attr[k]]]
      BY <3>1, <3>3
    <3>4. CASE \E k \in DOMAIN sent.attr : got = [sent EXCEPT !.attr[k] = Garbled]
      BY <3>1, <3>4
    <3>5. CASE \E k \in DOMAIN sent.attr : \E i \in DOMAIN sent.attr[k] :
                 got = [sent EXCEPT !.attr[k][i] = Garbled]
      BY <3>1, <3>5
    <3> QED
      BY <3>2, <3>3, <3>4, <3>5
  <2>3. ~Complete(sent, got)
    BY <1>1, <1>3, <1>4, <2>2, OtherRefused
  <2> QED
    BY <2>1, <2>3, NothingListed DEF DecodedRight
<1>5. CASE ~RefusedOther(got)
  <2>1. RowsOfEvent(got) = OtherRows(got)
    BY <1>2, <1>5 DEF RowsOfEvent
  <2>2. Told(ToSet(OtherRows(got))) = Says(got)
    BY <1>3, <1>5, OthersSay
  <2>3. ASSUME NEW i \in DOMAIN OtherRows(got), NEW j \in DOMAIN OtherRows(got),
               OtherRows(got)[i].columns = OtherRows(got)[j].columns
        PROVE  i = j
    <3>1. CASE got.type = "transfer"
      <4>1. \E coins \in TransferredCoins : sent = Event("transfer", TransferAttr(coins))
        BY <1>1, <3>1, OtherOfType
      <4> QED
        BY <1>3, <1>5, <2>3, <4>1, TransferSays
    <3>2. CASE got.type # "transfer"
      BY <1>1, <3>2, OneOther
    <3> QED
      BY <3>1, <3>2
  <2> QED
    BY <2>1, <2>2, <2>3 DEF DecodedRight
<1> QED
  BY <1>4, <1>5

\* What a row of an event tells that came whole.
LEMMA WholeRowSays ==
  ASSUME NEW sent \in ThorEvents, NEW names, NEW coins, NEW numbers,
         Plain(sent, names, coins, numbers), sent.type # "donate", NEW table, NEW c,
         AlikeBut(NoName, NamesTold(c), NamesRead(sent, names, coins)),
         AlikeBut(0, AmountsTold(c), AmountsRead(sent, coins, numbers)), Whole(AmountsTold(c))
  PROVE  Told(ToSet(Row(table, c))) = Says(sent)
<1>1. ReadOf(sent, sent)
  BY DEF ReadOf
<1> QED
  BY <1>1, RowSays

\* The attributes of an event as it is sent.
LEMMA AttributesRead ==
  ASSUME NEW sent \in ThorEvents, NEW k \in DOMAIN sent.attr
  PROVE  NameIn(sent, k) = sent.attr[k] /\ CoinOrNone(sent, k) = sent.attr[k]
         /\ Int0(sent, k) = sent.attr[k]
BY EventShape DEF NameIn, CoinOrNone, Int0

\* The rows of an event of a pool tell it, and they differ.
TellApart(e) ==
  /\ Told(ToSet(PoolRows(e))) = Says(e)
  /\ \A i, j \in DOMAIN PoolRows(e) : PoolRows(e)[i].columns = PoolRows(e)[j].columns => i = j

LEMMA OneRowTells ==
  ASSUME NEW e, NEW table, NEW c, PoolRows(e) = Row(table, c),
         Told(ToSet(Row(table, c))) = Says(e)
  PROVE  TellApart(e)
<1>1. DOMAIN Row(table, c) = {1}
  BY DEF Row
<1> QED
  BY <1>1 DEF TellApart

\* Of a swap, both sides are told.
LEMMA SwapTells == ASSUME NEW sent \in ThorSwaps PROVE TellApart(sent)
<1>0. PICK p \in Pools : \E a \in Tradable(p) : \E coin, emitted :
            SwapOf(sent, p, a, coin, emitted)
  BY SwapIs
<1>1. PICK a \in Tradable(p) : \E coin, emitted : SwapOf(sent, p, a, coin, emitted)
  BY <1>0
<1>2. PICK coin, emitted : SwapOf(sent, p, a, coin, emitted)
  BY <1>1
<1>3. /\ sent.type = "swap" /\ sent.attr["pool"] = p /\ sent.attr["coin"] = coin
      /\ sent.attr["emit_asset"] = emitted /\ DOMAIN sent.attr = {"pool", "coin", "emit_asset"}
  BY <1>2 DEF Event, SwapOf
<1>4. /\ coin.asset \in {Rune, a} /\ emitted.asset \in {Rune, a}
      /\ coin.e8 \in Int /\ emitted.e8 \in Int
  BY <1>2 DEF SwapOf, Coin
<1>5. CaseFree(Rune) = Rune /\ CaseFree(a) = a /\ CaseFree(p) = p
  BY PlainNames
<1>6. sent \in ThorEvents
  BY DEF ThorEvents
<1>7. Plain(sent, {"pool"}, {"coin", "emit_asset"}, {})
  <2>1. /\ Shape(sent, "pool") = "name" /\ Shape(sent, "coin") = "coin"
        /\ Shape(sent, "emit_asset") = "coin"
    BY <1>3 DEF Shape
  <2> QED
    BY <1>3, <1>4, <1>5, <2>1 DEF Plain
<1>8. /\ NamesRead(sent, {"pool"}, {"coin", "emit_asset"}) = {p, coin.asset, emitted.asset}
      /\ AmountsRead(sent, {"coin", "emit_asset"}, {}) = {coin.e8, emitted.e8}
  <2>1. NameIn(sent, "pool") = p /\ CoinOrNone(sent, "coin") = coin
        /\ CoinOrNone(sent, "emit_asset") = emitted
    BY <1>3, <1>6, AttributesRead
  <2> QED
    BY <2>1 DEF NamesRead, AmountsRead
<1>9. /\ NamesTold(Swap(sent)) = {p, coin.asset, emitted.asset}
      /\ AmountsTold(Swap(sent)) = {coin.e8, emitted.e8}
  <2>1. PICK d : Swap(sent) = [pool |-> p, from_asset |-> coin.asset, from_e8 |-> coin.e8,
                               to_asset |-> emitted.asset, to_e8 |-> emitted.e8, direction |-> d]
    BY <1>3 DEF Swap
  <2> QED
    BY <2>1 DEF NamesTold, AmountsTold, AmountColumns
<1>10. PoolRows(sent) = Row("swap_events", Swap(sent))
  BY <1>3 DEF PoolRows
<1>11. Told(ToSet(Row("swap_events", Swap(sent)))) = Says(sent)
  <2>1. /\ AlikeBut(NoName, NamesTold(Swap(sent)), NamesRead(sent, {"pool"}, {"coin", "emit_asset"}))
        /\ AlikeBut(0, AmountsTold(Swap(sent)), AmountsRead(sent, {"coin", "emit_asset"}, {}))
        /\ Whole(AmountsTold(Swap(sent)))
    BY <1>4, <1>8, <1>9 DEF AlikeBut, Whole
  <2> QED
    BY <1>3, <1>6, <1>7, <2>1, WholeRowSays
<1> QED
  BY <1>10, <1>11, OneRowTells

\* Liquidity that is added, under either spelling of its units.
LEMMA DepositTells ==
  ASSUME NEW sent \in ThorEvents, NEW s \in Symbols, NEW type \in {"add_liquidity", "add"},
         NEW spelling \in {"liquidity_provider_units", "stake_units"}, sent.type = type,
         DOMAIN sent.attr = {"pool", "asset_amount", "rune_amount", spelling},
         sent.attr["pool"] = L1(s), sent.attr["asset_amount"] \in Int,
         sent.attr["rune_amount"] \in Int, sent.attr[spelling] \in Int
  PROVE  TellApart(sent)
<1> DEFINE numbers == {"asset_amount", "rune_amount", spelling}
           c == Also(Stake(sent), [asset_in_rune_e8 |-> 0])
<1>1. CaseFree(L1(s)) = L1(s)
  BY PlainNames, PoolNames
<1>2. Plain(sent, {"pool"}, {}, numbers)
  <2>1. Shape(sent, "pool") = "name" /\ \A k \in numbers : Shape(sent, k) = "number"
    BY DEF Shape
  <2> QED
    BY <1>1, <2>1 DEF Plain
<1>3. /\ NamesRead(sent, {"pool"}, {}) = {L1(s)}
      /\ AmountsRead(sent, {}, numbers)
           = {sent.attr["asset_amount"], sent.attr["rune_amount"], sent.attr[spelling]}
  <2>1. NameIn(sent, "pool") = L1(s) /\ \A k \in numbers : Int0(sent, k) = sent.attr[k]
    BY AttributesRead
  <2> QED
    BY <2>1 DEF NamesRead, AmountsRead
<1>4. Stake(sent) = [pool |-> L1(s), asset_e8 |-> sent.attr["asset_amount"],
                     rune_e8 |-> sent.attr["rune_amount"], stake_units |-> sent.attr[spelling]]
  BY DEF Stake, Int0
<1>5. /\ DOMAIN c = {"pool", "asset_e8", "rune_e8", "stake_units", "asset_in_rune_e8"}
      /\ c["pool"] = L1(s) /\ c["asset_e8"] = sent.attr["asset_amount"]
      /\ c["rune_e8"] = sent.attr["rune_amount"] /\ c["stake_units"] = sent.attr[spelling]
      /\ c["asset_in_rune_e8"] = 0
  <2>1. PICK f : f = Stake(sent)
    OBVIOUS
  <2>2. PICK g : g = [asset_in_rune_e8 |-> 0]
    OBVIOUS
  <2>3. c = Also(f, g)
    BY <2>1, <2>2
  <2>4. /\ DOMAIN f = {"pool", "asset_e8", "rune_e8", "stake_units"}
        /\ f["pool"] = L1(s) /\ f["asset_e8"] = sent.attr["asset_amount"]
        /\ f["rune_e8"] = sent.attr["rune_amount"] /\ f["stake_units"] = sent.attr[spelling]
    BY <1>4, <2>1
  <2>5. DOMAIN g = {"asset_in_rune_e8"} /\ g["asset_in_rune_e8"] = 0
    BY <2>2
  <2> HIDE DEF c
  <2> QED
    BY <2>3, <2>4, <2>5 DEF Also
<1> HIDE DEF c
<1>6. /\ NamesTold(c) = {L1(s)}
      /\ AmountsTold(c) = {sent.attr["asset_amount"], sent.attr["rune_amount"], sent.attr[spelling], 0}
  BY <1>5 DEF NamesTold, AmountsTold, AmountColumns
<1>7. PoolRows(sent) = Row("stake_events", c)
  BY DEF PoolRows, c
<1>8. Told(ToSet(Row("stake_events", c))) = Says(sent)
  <2>1. /\ AlikeBut(NoName, NamesTold(c), NamesRead(sent, {"pool"}, {}))
        /\ AlikeBut(0, AmountsTold(c), AmountsRead(sent, {}, numbers))
        /\ Whole(AmountsTold(c))
    BY <1>3, <1>6 DEF AlikeBut, Whole
  <2> HIDE DEF numbers
  <2> QED
    BY <1>2, <2>1, WholeRowSays
<1> QED
  BY <1>7, <1>8, OneRowTells

\* Liquidity that is withdrawn.
LEMMA WithdrawTells ==
  ASSUME NEW sent \in ThorEvents, NEW s \in Symbols,
         sent = Event("withdraw", [pool |-> L1(s), coin |-> Coin(Rune, 0), emit_asset |-> 1,
                                   emit_rune |-> 3, liquidity_provider_units |-> 2,
                                   imp_loss_protection |-> 1])
  PROVE  TellApart(sent)
<1> DEFINE numbers == {"emit_asset", "emit_rune", "liquidity_provider_units", "imp_loss_protection"}
           c == Also(Withdraw(sent), [asset |-> sent.attr.coin.asset, asset_e8 |-> sent.attr.coin.e8,
                                      emit_asset_in_rune_e8 |-> 0])
<1>1. /\ sent.type = "withdraw" /\ DOMAIN sent.attr = {"pool", "coin"} \cup numbers
      /\ sent.attr["pool"] = L1(s) /\ sent.attr["coin"].asset = Rune /\ sent.attr["coin"].e8 = 0
      /\ sent.attr["emit_asset"] = 1 /\ sent.attr["emit_rune"] = 3
      /\ sent.attr["liquidity_provider_units"] = 2 /\ sent.attr["imp_loss_protection"] = 1
  BY DEF Event, Coin
<1>2. CaseFree(L1(s)) = L1(s) /\ CaseFree(Rune) = Rune
  BY PlainNames, PoolNames
<1>3. Plain(sent, {"pool"}, {"coin"}, numbers)
  <2>1. Shape(sent, "pool") = "name" /\ Shape(sent, "coin") = "coin"
        /\ \A k \in numbers : Shape(sent, k) = "number"
    BY <1>1 DEF Shape
  <2> QED
    BY <1>1, <1>2, <2>1 DEF Plain
<1>4. /\ NamesRead(sent, {"pool"}, {"coin"}) = {L1(s), Rune}
      /\ AmountsRead(sent, {"coin"}, numbers) = {0, 1, 2, 3}
  <2>1. NameIn(sent, "pool") = L1(s) /\ CoinOrNone(sent, "coin") = sent.attr["coin"]
        /\ \A k \in numbers : Int0(sent, k) = sent.attr[k]
    BY <1>1, AttributesRead
  <2> QED
    BY <1>1, <2>1 DEF NamesRead, AmountsRead
<1>5. Withdraw(sent) = [pool |-> L1(s), emit_asset_e8 |-> 1, emit_rune_e8 |-> 3, stake_units |-> 2,
                        imp_loss_protection_e8 |-> 1]
  BY <1>1 DEF Withdraw, Int0
<1>6. /\ DOMAIN c = {"pool", "emit_asset_e8", "emit_rune_e8", "stake_units",
                     "imp_loss_protection_e8", "asset", "asset_e8", "emit_asset_in_rune_e8"}
      /\ c["pool"] = L1(s) /\ c["emit_asset_e8"] = 1 /\ c["emit_rune_e8"] = 3
      /\ c["stake_units"] = 2 /\ c["imp_loss_protection_e8"] = 1
      /\ c["asset"] = Rune /\ c["asset_e8"] = 0 /\ c["emit_asset_in_rune_e8"] = 0
  <2>1. PICK f : f = Withdraw(sent)
    OBVIOUS
  <2>2. PICK g : g = [asset |-> sent.attr.coin.asset, asset_e8 |-> sent.attr.coin.e8,
                      emit_asset_in_rune_e8 |-> 0]
    OBVIOUS
  <2>3. c = Also(f, g)
    BY <2>1, <2>2
  <2>4. /\ DOMAIN f = {"pool", "emit_asset_e8", "emit_rune_e8", "stake_units",
                       "imp_loss_protection_e8"}
        /\ f["pool"] = L1(s) /\ f["emit_asset_e8"] = 1 /\ f["emit_rune_e8"] = 3
        /\ f["stake_units"] = 2 /\ f["imp_loss_protection_e8"] = 1
    BY <1>5, <2>1
  <2>5. /\ DOMAIN g = {"asset", "asset_e8", "emit_asset_in_rune_e8"}
        /\ g["asset"] = Rune /\ g["asset_e8"] = 0 /\ g["emit_asset_in_rune_e8"] = 0
    BY <1>1, <2>2
  <2> HIDE DEF c
  <2> QED
    BY <2>3, <2>4, <2>5 DEF Also
<1>7. PoolRows(sent) = Row("withdraw_events", c)
  BY <1>1 DEF PoolRows
<1> HIDE DEF c
<1>8. NamesTold(c) = {L1(s), Rune} /\ AmountsTold(c) = {0, 1, 2, 3}
  BY <1>6 DEF NamesTold, AmountsTold, AmountColumns
<1>9. Told(ToSet(Row("withdraw_events", c))) = Says(sent)
  <2>1. /\ AlikeBut(NoName, NamesTold(c), NamesRead(sent, {"pool"}, {"coin"}))
        /\ AlikeBut(0, AmountsTold(c), AmountsRead(sent, {"coin"}, numbers))
        /\ Whole(AmountsTold(c))
    BY <1>4, <1>8 DEF AlikeBut, Whole
  <2> HIDE DEF numbers
  <2> QED
    BY <1>1, <1>3, <2>1, WholeRowSays
<1> QED
  BY <1>7, <1>9, OneRowTells

\* A fee, and what was deducted for it.
LEMMA FeeTells == ASSUME NEW sent \in ThorFees PROVE TellApart(sent)
<1> DEFINE c == Also(Fee(sent), [asset_e8 |-> sent.attr.coins.e8])
<1>0. PICK a \in Charged, n \in {0, 2} :
             sent = Event("fee", [coins |-> Coin(a, 1), pool_deduct |-> n])
  BY FeeIs
<1>1. /\ sent.type = "fee" /\ DOMAIN sent.attr = {"coins", "pool_deduct"}
      /\ sent.attr["coins"].asset = a /\ sent.attr["coins"].e8 = 1 /\ sent.attr["pool_deduct"] = n
      /\ n \in Int
  BY <1>0 DEF Event, Coin
<1>2. CaseFree(a) = a
  BY PlainNames
<1>3. sent \in ThorEvents
  BY DEF ThorEvents, ThorAdjustments
<1>4. Plain(sent, {}, {"coins"}, {"pool_deduct"})
  <2>1. Shape(sent, "coins") = "coin" /\ Shape(sent, "pool_deduct") = "number"
    BY <1>1 DEF Shape
  <2> QED
    BY <1>1, <1>2, <2>1 DEF Plain
<1>5. /\ NamesRead(sent, {}, {"coins"}) = {a}
      /\ AmountsRead(sent, {"coins"}, {"pool_deduct"}) = {1, n}
  <2>1. CoinOrNone(sent, "coins") = sent.attr["coins"] /\ Int0(sent, "pool_deduct") = n
    BY <1>1, <1>3, AttributesRead
  <2> QED
    BY <1>1, <2>1 DEF NamesRead, AmountsRead
<1>6. Fee(sent) = [asset |-> a, pool_deduct |-> n]
  BY <1>1 DEF Fee, Int0
<1>7. /\ DOMAIN c = {"asset", "pool_deduct", "asset_e8"}
      /\ c["asset"] = a /\ c["pool_deduct"] = n /\ c["asset_e8"] = 1
  <2>1. PICK f : f = Fee(sent)
    OBVIOUS
  <2>2. PICK g : g = [asset_e8 |-> sent.attr.coins.e8]
    OBVIOUS
  <2>3. c = Also(f, g)
    BY <2>1, <2>2
  <2>4. DOMAIN f = {"asset", "pool_deduct"} /\ f["asset"] = a /\ f["pool_deduct"] = n
    BY <1>6, <2>1
  <2>5. DOMAIN g = {"asset_e8"} /\ g["asset_e8"] = 1
    BY <1>1, <2>2
  <2> HIDE DEF c
  <2> QED
    BY <2>3, <2>4, <2>5 DEF Also
<1>8. PoolRows(sent) = Row("fee_events", c)
  BY <1>1 DEF PoolRows
<1> HIDE DEF c
<1>9. NamesTold(c) = {a} /\ AmountsTold(c) = {1, n}
  BY <1>7 DEF NamesTold, AmountsTold, AmountColumns
<1>10. Told(ToSet(Row("fee_events", c))) = Says(sent)
  <2>1. /\ AlikeBut(NoName, NamesTold(c), NamesRead(sent, {}, {"coins"}))
        /\ AlikeBut(0, AmountsTold(c), AmountsRead(sent, {"coins"}, {"pool_deduct"}))
        /\ Whole(AmountsTold(c))
    BY <1>1, <1>5, <1>9 DEF AlikeBut, Whole
  <2> QED
    BY <1>1, <1>3, <1>4, <2>1, WholeRowSays
<1> QED
  BY <1>8, <1>10, OneRowTells

\* A change of balance, up or down.
LEMMA BalanceTells ==
  ASSUME NEW sent \in ThorEvents, NEW s \in Symbols, NEW add \in BOOLEAN,
         sent = Event("pool_balance_change", [asset |-> L1(s), asset_amt |-> 3, asset_add |-> add,
                                              rune_amt |-> 1, rune_add |-> ~add])
  PROVE  TellApart(sent)
<1> DEFINE numbers == {"asset_amt", "rune_amt"}
           c == PoolBalanceChange(sent)
<1>1. /\ sent.type = "pool_balance_change"
      /\ DOMAIN sent.attr = {"asset", "asset_add", "rune_add"} \cup numbers
      /\ sent.attr["asset"] = L1(s) /\ sent.attr["asset_amt"] = 3 /\ sent.attr["rune_amt"] = 1
  BY DEF Event
<1>2. CaseFree(L1(s)) = L1(s)
  BY PlainNames, PoolNames
<1>3. Plain(sent, {"asset"}, {}, numbers)
  <2>1. Shape(sent, "asset") = "name" /\ \A k \in numbers : Shape(sent, k) = "number"
    BY <1>1 DEF Shape
  <2> QED
    BY <1>1, <1>2, <2>1 DEF Plain
<1>4. NamesRead(sent, {"asset"}, {}) = {L1(s)} /\ AmountsRead(sent, {}, numbers) = {1, 3}
  <2>1. NameIn(sent, "asset") = L1(s) /\ \A k \in numbers : Int0(sent, k) = sent.attr[k]
    BY <1>1, AttributesRead
  <2> QED
    BY <1>1, <2>1 DEF NamesRead, AmountsRead
<1>5. PICK r, a : c = [asset |-> L1(s), rune_amt |-> 1, rune_add |-> r, asset_amt |-> 3,
                       asset_add |-> a]
  BY <1>1 DEF PoolBalanceChange, Int0
<1> HIDE DEF c
<1>6. NamesTold(c) = {L1(s)} /\ AmountsTold(c) = {1, 3}
  BY <1>5 DEF NamesTold, AmountsTold, AmountColumns
<1>7. PoolRows(sent) = Row("pool_balance_change_events", c)
  BY <1>1 DEF PoolRows, c
<1>8. Told(ToSet(Row("pool_balance_change_events", c))) = Says(sent)
  <2>1. /\ AlikeBut(NoName, NamesTold(c), NamesRead(sent, {"asset"}, {}))
        /\ AlikeBut(0, AmountsTold(c), AmountsRead(sent, {}, numbers))
        /\ Whole(AmountsTold(c))
    BY <1>4, <1>6 DEF AlikeBut, Whole
  <2> HIDE DEF numbers
  <2> QED
    BY <1>1, <1>3, <2>1, WholeRowSays
<1> QED
  BY <1>7, <1>8, OneRowTells

\* Amounts are said alike if they are the same but for their signs.
AlikeInSize(A, B) ==
  {IF n < 0 THEN -n ELSE n : n \in A} = {IF n < 0 THEN -n ELSE n : n \in B}

LEMMA SaidInSize ==
  ASSUME NEW N, NEW A, NEW B, AlikeInSize(A, B)
  PROVE  Said(N, A) = Said(N, B)
BY DEF AlikeInSize, Said

\* A correction or a report of gas that is not refused: the name may be unreadable.
LEMMA NamelessSays ==
  ASSUME NEW sent \in ThorEvents, NEW s \in Symbols, sent.type \in {"errata", "gas"},
         {"asset", "asset_amt", "rune_amt"} \subseteq DOMAIN sent.attr,
         DOMAIN sent.attr \subseteq {"asset", "asset_amt", "rune_amt", "asset_add", "rune_add"},
         sent.attr["asset"] = L1(s), sent.attr["asset_amt"] \in Int, sent.attr["rune_amt"] \in Int,
         NEW got, got.type = sent.type, DOMAIN got.attr = DOMAIN sent.attr,
         \A k \in DOMAIN got.attr :
           got.attr[k] = sent.attr[k] \/ (k = "asset" /\ got.attr[k] = Garbled)
  PROVE  /\ Says(got) = Said({Name(got, "asset")}, {sent.attr["asset_amt"], sent.attr["rune_amt"]})
         /\ Int0(got, "asset_amt") = sent.attr["asset_amt"]
         /\ Int0(got, "rune_amt") = sent.attr["rune_amt"]
<1> DEFINE numbers == {"asset_amt", "rune_amt"}
<1>1. CaseFree(L1(s)) = L1(s)
  BY PlainNames, PoolNames
<1>2. Shape(sent, "asset") = "name" /\ \A k \in numbers : Shape(sent, k) = "number"
  BY DEF Shape
<1>3. Plain(sent, {"asset"}, {}, numbers)
  BY <1>1, <1>2 DEF Plain
<1>4. ReadOf(sent, got)
  BY <1>2 DEF ReadOf
<1>5. \A k \in numbers : Int0(got, k) = sent.attr[k]
  BY DEF Int0
<1>6. NamesRead(got, {"asset"}, {}) = {Name(got, "asset")}
  <2>1. NameIn(got, "asset") = Name(got, "asset")
    BY DEF NameIn, Name
  <2> QED
    BY <2>1 DEF NamesRead
<1>7. AmountsRead(got, {}, numbers) = {sent.attr["asset_amt"], sent.attr["rune_amt"]}
  BY <1>5 DEF AmountsRead
<1>8. Says(got) = Said(NamesRead(got, {"asset"}, {}), AmountsRead(got, {}, numbers))
  <2> HIDE DEF numbers
  <2> QED
    BY <1>3, <1>4, PlainSays
<1> QED
  BY <1>5, <1>6, <1>7, <1>8

\* Gas, of an asset that could be read or not.
LEMMA GasTells ==
  ASSUME NEW sent \in ThorGas, NEW got, got.type = sent.type, DOMAIN got.attr = DOMAIN sent.attr,
         \A k \in DOMAIN got.attr :
           got.attr[k] = sent.attr[k] \/ (k = "asset" /\ got.attr[k] = Garbled)
  PROVE  TellApart(got)
<1>1. PICK s \in Symbols : sent = Event("gas", [asset |-> L1(s), asset_amt |-> 1, rune_amt |-> 3])
  BY DEF ThorGas
<1>2. /\ sent.type = "gas" /\ DOMAIN sent.attr = {"asset", "asset_amt", "rune_amt"}
      /\ sent.attr["asset"] = L1(s) /\ sent.attr["asset_amt"] = 1 /\ sent.attr["rune_amt"] = 3
  BY <1>1 DEF Event
<1>3. sent \in ThorEvents
  BY DEF ThorEvents, ThorAdjustments
<1>4. /\ Says(got) = Said({Name(got, "asset")}, {1, 3})
      /\ Int0(got, "asset_amt") = 1 /\ Int0(got, "rune_amt") = 3
  <2>1. /\ sent.type \in {"errata", "gas"}
        /\ {"asset", "asset_amt", "rune_amt"} \subseteq DOMAIN sent.attr
        /\ DOMAIN sent.attr \subseteq {"asset", "asset_amt", "rune_amt", "asset_add", "rune_add"}
        /\ sent.attr["asset_amt"] \in Int /\ sent.attr["rune_amt"] \in Int
    BY <1>2
  <2>2. /\ Says(got) = Said({Name(got, "asset")}, {sent.attr["asset_amt"], sent.attr["rune_amt"]})
        /\ Int0(got, "asset_amt") = sent.attr["asset_amt"]
        /\ Int0(got, "rune_amt") = sent.attr["rune_amt"]
    BY <1>2, <1>3, <2>1, NamelessSays
  <2> QED
    BY <1>2, <2>2
<1>5. Gas(got) = [asset |-> Name(got, "asset"), asset_e8 |-> 1, rune_e8 |-> 3]
  BY <1>4 DEF Gas
<1>6. NamesTold(Gas(got)) = {Name(got, "asset")} /\ AmountsTold(Gas(got)) = {1, 3}
  BY <1>5 DEF NamesTold, AmountsTold, AmountColumns
<1>7. PoolRows(got) = Row("gas_events", Gas(got))
  BY <1>2 DEF PoolRows
<1> QED
  BY <1>4, <1>6, <1>7, RowTells, OneRowTells

\* A correction, of an asset that could be read or not.
LEMMA ErrataTells ==
  ASSUME NEW sent \in ThorEvents, NEW s \in Symbols, NEW add \in BOOLEAN,
         sent = Event("errata", [asset |-> L1(s), asset_amt |-> 1, asset_add |-> add,
                                 rune_amt |-> 2, rune_add |-> ~add]),
         NEW got, got.type = sent.type, DOMAIN got.attr = DOMAIN sent.attr,
         \A k \in DOMAIN got.attr :
           got.attr[k] = sent.attr[k] \/ (k = "asset" /\ got.attr[k] = Garbled)
  PROVE  TellApart(got)
<1> DEFINE c == Errata(got)
<1>2. /\ sent.type = "errata"
      /\ DOMAIN sent.attr = {"asset", "asset_amt", "rune_amt", "asset_add", "rune_add"}
      /\ sent.attr["asset"] = L1(s) /\ sent.attr["asset_amt"] = 1 /\ sent.attr["rune_amt"] = 2
  BY DEF Event
<1>4. /\ Says(got) = Said({Name(got, "asset")}, {1, 2})
      /\ Int0(got, "asset_amt") = 1 /\ Int0(got, "rune_amt") = 2
  <2>1. /\ sent.type \in {"errata", "gas"}
        /\ {"asset", "asset_amt", "rune_amt"} \subseteq DOMAIN sent.attr
        /\ DOMAIN sent.attr \subseteq {"asset", "asset_amt", "rune_amt", "asset_add", "rune_add"}
        /\ sent.attr["asset_amt"] \in Int /\ sent.attr["rune_amt"] \in Int
    BY <1>2
  <2>2. /\ Says(got) = Said({Name(got, "asset")}, {sent.attr["asset_amt"], sent.attr["rune_amt"]})
        /\ Int0(got, "asset_amt") = sent.attr["asset_amt"]
        /\ Int0(got, "rune_amt") = sent.attr["rune_amt"]
    BY <1>2, <2>1, NamelessSays
  <2> QED
    BY <1>2, <2>2
<1>5. PICK n \in {1, -1}, m \in {2, -2} :
        c = [asset |-> Name(got, "asset"), asset_e8 |-> n, rune_e8 |-> m]
  BY <1>4 DEF Errata, Signed
<1> HIDE DEF c
<1>6. NamesTold(c) = {Name(got, "asset")} /\ AmountsTold(c) = {n, m}
  BY <1>5 DEF NamesTold, AmountsTold, AmountColumns
<1>7. PoolRows(got) = Row("errata_events", c)
  BY <1>2 DEF PoolRows, c
<1>8. Said({Name(got, "asset")}, {n, m}) = Said({Name(got, "asset")}, {1, 2})
  <2>1. AlikeInSize({n, m}, {1, 2})
    BY DEF AlikeInSize
  <2> QED
    BY <2>1, SaidInSize
<1> QED
  BY <1>4, <1>6, <1>7, <1>8, RowTells, OneRowTells

\* Of the amounts of a slash the first that can be read is told.
LEMMA SlashTells ==
  ASSUME NEW e, NEW s \in Symbols, e.type = "slash", DOMAIN e.attr = {"pool", "slashed"},
         e.attr["pool"] = L1(s), e.attr["pool"] # Garbled, e.attr["slashed"] # Garbled,
         NEW list, list = e.attr["slashed"], DOMAIN list \subseteq Nat,
         \A i \in DOMAIN list : /\ list[i].e8 = Garbled \/ list[i].e8 \in Int
                                /\ list[i].asset \in {L1(s), Rune}
  PROVE  TellApart(e)
<1> DEFINE L == ListsSaid(e, {"slashed"})
           known == {i \in DOMAIN list : list[i].e8 # Garbled}
           coin == IF known = {} THEN Coin(NoName, 0) ELSE list[Min(known)]
           c == [pool |-> L1(s), asset |-> coin.asset, asset_e8 |-> coin.e8]
<1>1. CaseFree(L1(s)) = L1(s) /\ CaseFree(Rune) = Rune
  BY PlainNames, PoolNames
<1>2. L = {list[i] : i \in {i \in known : \A j \in known : i <= j}}
  <2>1. L = Listed(e, "slashed")
    BY DEF ListsSaid
  <2>2. Known(e, "slashed") = known
    BY DEF Known
  <2> HIDE DEF known
  <2> QED
    BY <2>1, <2>2 DEF Listed
<1>3. /\ L = {coin} \/ (L = {} /\ coin.asset = NoName /\ coin.e8 = 0)
      /\ coin.e8 \in Int /\ coin.asset \in {L1(s), Rune, NoName}
  <2>1. CASE known = {}
    BY <1>2, <2>1 DEF Coin
  <2>2. CASE known # {}
    <3>1. known \in SUBSET Nat
      OBVIOUS
    <3>2. \A i \in known : list[i].e8 \in Int /\ list[i].asset \in {L1(s), Rune}
      OBVIOUS
    <3> HIDE DEF known, L
    <3>3. PICK n \in known : \A m \in known : n <= m
      BY <2>2, <3>1, LeastNatural
    <3>4. Min(known) = n
      BY <3>1, <3>3, MinIs
    <3>5. \A i \in known : (\A j \in known : i <= j) <=> i = n
      <4>1. \A i \in known : i \in Nat
        BY <3>1
      <4> QED
        BY <3>3, <4>1
    <3>6. L = {list[n]}
      BY <1>2, <3>3, <3>5
    <3>7. coin = list[n]
      BY <2>2, <3>4
    <3> HIDE DEF coin
    <3> QED
      BY <3>2, <3>3, <3>6, <3>7
  <2> QED
    BY <2>1, <2>2
<1>4. Slash(e) = [pool |-> L1(s), slashed |-> coin]
  BY DEF Slash
<1>5. PoolRows(e) = Row("slash_events", c)
  <2> HIDE DEF coin
  <2> QED
    BY <1>4 DEF PoolRows
<1> HIDE DEF L, known, coin
<1>6. NamesTold(c) = {L1(s), coin.asset} /\ AmountsTold(c) = {coin.e8}
  BY DEF NamesTold, AmountsTold, AmountColumns
<1> HIDE DEF c
<1> DEFINE N == (({CaseFree(CoinOrNone(e, k).asset) : k \in {}}
                    \cup {CaseFree(x.asset) : x \in L}) \ OwnColumn(e))
                  \cup {CaseFree(NameIn(e, k)) : k \in {"pool"}}
           A == {CoinOrNone(e, k).e8 : k \in {}} \cup {Int0(e, k) : k \in {}}
                  \cup {x.e8 : x \in L}
<1>7. Says(e) = Said(N, A)
  <2>1. Shape(e, "pool") = "name" /\ Shape(e, "slashed") = "coins"
    BY DEF Shape
  <2>2. Sorted(e, {"pool"}, {}, {}, {"slashed"})
    BY <2>1 DEF Sorted
  <2>3. \A x \in ListsSaid(e, {"slashed"}) : x.e8 \in Int
    BY <1>3 DEF L
  <2> QED
    BY <2>2, <2>3, SaysOfFields DEF L
<1>8. N = {CaseFree(x.asset) : x \in L} \cup {L1(s)}
  <2>1. NameIn(e, "pool") = L1(s) /\ OwnColumn(e) = {}
    BY DEF NameIn, OwnColumn
  <2> QED
    BY <1>1, <2>1
<1>9. A = {x.e8 : x \in L}
  OBVIOUS
<1>10. AlikeBut(NoName, NamesTold(c), N)
  <2>1. CaseFree(NoName) = NoName
    BY PlainNames
  <2>2. CASE L = {coin}
    <3>1. {CaseFree(x.asset) : x \in L} = {coin.asset}
      BY <1>1, <1>3, <2>1, <2>2
    <3> QED
      BY <1>6, <1>8, <3>1 DEF AlikeBut
  <2>3. CASE L = {} /\ coin.asset = NoName
    <3>1. {CaseFree(x.asset) : x \in L} = {} /\ coin.asset = NoName
      BY <2>3
    <3> QED
      BY <1>6, <1>8, <3>1 DEF AlikeBut
  <2> QED
    BY <1>3, <2>2, <2>3
<1>11. AlikeBut(0, AmountsTold(c), A) /\ Whole(A) /\ Whole(AmountsTold(c))
  <2>2. A = {coin.e8} \/ (A = {} /\ coin.e8 = 0)
    BY <1>3, <1>9
  <2> QED
    BY <1>3, <1>6, <2>2 DEF AlikeBut, Whole
<1> HIDE DEF N, A
<1>12. Told(ToSet(Row("slash_events", c))) = Says(e)
  BY <1>7, <1>10, <1>11, RowTells, SaidAlike
<1> QED
  BY <1>5, <1>12, OneRowTells

\* A list of all members of a finite set, each once.
LEMMA ListOfAll ==
  ASSUME NEW S, IsFiniteSet(S)
  PROVE  \E n \in Nat : /\ DOMAIN SetToSeq(S) = 1 .. n
                        /\ \A i \in 1 .. n : SetToSeq(S)[i] \in S
                        /\ \A x \in S : \E i \in 1 .. n : SetToSeq(S)[i] = x
                        /\ \A i, j \in 1 .. n : SetToSeq(S)[i] = SetToSeq(S)[j] => i = j
<1> DEFINE f == SetToSeq(S)
           n == Cardinality(S)
<1>1. n \in Nat /\ ExistsBijection(1 .. n, S)
  BY FS_CardinalityType
<1>2. \E g \in [1 .. n -> S] : IsInjective(g)
  BY <1>1 DEF ExistsBijection, Bijection, Injection, IsInjective
<1>3. f \in [1 .. n -> S] /\ IsInjective(f)
  BY <1>2 DEF SetToSeq
<1>4. f \in Injection(1 .. n, S)
  <2> HIDE DEF f, n
  <2> QED
    BY <1>3 DEF Injection, IsInjective
<1>5. Cardinality(1 .. n) = n
  BY <1>1, FS_Interval
<1>6. f \in Surjection(1 .. n, S)
  BY <1>4, <1>5, FS_Injection
<1> HIDE DEF f, n
<1>7. /\ DOMAIN f = 1 .. n /\ \A i \in 1 .. n : f[i] \in S
      /\ \A i, j \in 1 .. n : f[i] = f[j] => i = j
  BY <1>3 DEF IsInjective
<1>8. \A x \in S : \E i \in 1 .. n : f[i] = x
  BY <1>6 DEF Surjection
<1> QED
  BY <1>1, <1>7, <1>8 DEF f

\* A list with one more in front.
LEMMA BeforeAll ==
  ASSUME NEW x, NEW n \in Nat, NEW s, s = [i \in 1 .. n |-> s[i]]
  PROVE  /\ DOMAIN (<<x>> \o s) = 1 .. n + 1
         /\ (<<x>> \o s)[1] = x
         /\ \A i \in 1 .. n : (<<x>> \o s)[i + 1] = s[i]
<1> DEFINE T == {x} \cup {s[i] : i \in 1 .. n}
<1>1. s \in Seq(T) /\ <<x>> \in Seq(T) /\ Len(s) = n /\ Len(<<x>>) = 1
  OBVIOUS
<1> HIDE DEF T
<1>2. Len(<<x>> \o s) = n + 1 /\ (<<x>> \o s) \in Seq(T)
  BY <1>1
<1>3. (<<x>> \o s)[1] = x
  BY <1>1
<1>4. \A i \in 1 .. n : (<<x>> \o s)[i + 1] = s[i]
  BY <1>1
<1> QED
  BY <1>2, <1>3, <1>4

\* The columns of an entry of the rewards.
LEMMA RewardColumns ==
  ASSUME NEW p, NEW n, NEW c, c = [pool |-> p, rune_e8 |-> n, saver_e8 |-> 0]
  PROVE  NamesTold(c) = {p} /\ AmountsTold(c) = {n, 0} /\ c["pool"] = p
         /\ DOMAIN c = {"pool", "rune_e8", "saver_e8"}
BY DEF NamesTold, AmountsTold, AmountColumns

\* Every entry of the rewards that can be read has a row.
LEMMA RewardsTell ==
  ASSUME NEW e, e.type = "rewards", DOMAIN e.attr = {"bond_reward", "per_pool"},
         e.attr["bond_reward"] = 1, NEW all, all = e.attr["per_pool"], all # Garbled,
         IsFiniteSet(DOMAIN all), \A p \in DOMAIN all : all[p] = Garbled \/ all[p] \in Int
  PROVE  TellApart(e)
<1> DEFINE known == {p \in DOMAIN all : all[p] # Garbled}
           split == [p \in known |-> all[p]]
           pools == SetToSeq(known)
           entries == [i \in DOMAIN pools |->
                         [table |-> "rewards_event_entries",
                          columns |-> [pool |-> pools[i], rune_e8 |-> split[pools[i]],
                                       saver_e8 |-> 0]]]
           bond == [table |-> "rewards_events", columns |-> [bond_e8 |-> Int0(e, "bond_reward")]]
           rows == PoolRows(e)
<1>1. rows = <<bond>> \o entries
  <2>1. Rewards(e).per_pool = split
    BY DEF Rewards
  <2>2. DOMAIN split = known
    OBVIOUS
  <2>3. PoolRows(e) = RewardsRows(e)
    BY DEF PoolRows
  <2> HIDE DEF known, split
  <2> QED
    BY <2>1, <2>2, <2>3 DEF RewardsRows, Row
<1>2. IsFiniteSet(known)
  BY FS_Subset
<1>3. \A p \in known : all[p] \in Int /\ split[p] = all[p]
  OBVIOUS
<1> HIDE DEF known
<1>4. PICK n \in Nat : /\ DOMAIN pools = 1 .. n
                       /\ \A i \in 1 .. n : pools[i] \in known
                       /\ \A x \in known : \E i \in 1 .. n : pools[i] = x
                       /\ \A i, j \in 1 .. n : pools[i] = pools[j] => i = j
  BY <1>2, ListOfAll
<1> HIDE DEF pools
<1>5. /\ bond.columns = [bond_e8 |-> 1]
      /\ NamesTold(bond.columns) = {} /\ AmountsTold(bond.columns) = {1}
      /\ DOMAIN bond.columns = {"bond_e8"}
  <2>1. bond.columns = [bond_e8 |-> 1]
    BY Zenon, GarbledAssumption DEF Int0
  <2>2. NamesTold([bond_e8 |-> 1]) = {} /\ AmountsTold([bond_e8 |-> 1]) = {1}
    BY DEF NamesTold, AmountsTold, AmountColumns
  <2> HIDE DEF bond
  <2> QED
    BY <2>1, <2>2
<1>6. /\ DOMAIN entries = 1 .. n
      /\ \A i \in 1 .. n : /\ NamesTold(entries[i].columns) = {pools[i]}
                           /\ AmountsTold(entries[i].columns) = {all[pools[i]], 0}
                           /\ entries[i].columns["pool"] = pools[i]
                           /\ DOMAIN entries[i].columns = {"pool", "rune_e8", "saver_e8"}
  <2>1. ASSUME NEW i \in 1 .. n
        PROVE  entries[i].columns = [pool |-> pools[i], rune_e8 |-> all[pools[i]], saver_e8 |-> 0]
    BY <1>3, <1>4
  <2> HIDE DEF entries
  <2>2. DOMAIN entries = 1 .. n
    BY <1>4 DEF entries
  <2>3. ASSUME NEW i \in 1 .. n
        PROVE  /\ NamesTold(entries[i].columns) = {pools[i]}
               /\ AmountsTold(entries[i].columns) = {all[pools[i]], 0}
               /\ entries[i].columns["pool"] = pools[i]
               /\ DOMAIN entries[i].columns = {"pool", "rune_e8", "saver_e8"}
    <3>1. PICK c : c = entries[i].columns
      OBVIOUS
    <3>2. c = [pool |-> pools[i], rune_e8 |-> all[pools[i]], saver_e8 |-> 0]
      BY <2>1, <3>1
    <3>3. /\ NamesTold(c) = {pools[i]} /\ AmountsTold(c) = {all[pools[i]], 0}
          /\ c["pool"] = pools[i] /\ DOMAIN c = {"pool", "rune_e8", "saver_e8"}
      BY ONLY <3>2, RewardColumns
    <3> QED
      BY ONLY <3>1, <3>3
  <2> QED
    BY <2>2, <2>3
<1>7. entries = [i \in 1 .. n |-> entries[i]]
  BY <1>4
<1> HIDE DEF bond, entries, split
<1>8. /\ DOMAIN rows = 1 .. n + 1 /\ rows[1] = bond
      /\ \A i \in 1 .. n : rows[i + 1] = entries[i]
  BY <1>1, <1>7, BeforeAll
<1> HIDE DEF rows
<1>9. \A i \in DOMAIN rows : i = 1 \/ \E j \in 1 .. n : i = j + 1 /\ rows[i] = entries[j]
  <2> TAKE i \in DOMAIN rows
  <2>1. CASE i # 1
    <3>1. i - 1 \in 1 .. n /\ i = (i - 1) + 1
      BY <1>8, <2>1
    <3> QED
      BY <1>8, <3>1
  <2> QED
    BY <2>1
<1>10. UNION {NamesTold(rows[i].columns) : i \in DOMAIN rows} = known
  <2>1. ASSUME NEW i \in DOMAIN rows PROVE NamesTold(rows[i].columns) \subseteq known
    <3>1. CASE i = 1
      BY ONLY <1>5, <1>8, <3>1
    <3>2. ASSUME NEW j \in 1 .. n, rows[i] = entries[j]
          PROVE  NamesTold(rows[i].columns) \subseteq known
      <4>1. NamesTold(rows[i].columns) = {pools[j]} /\ pools[j] \in known
        BY ONLY <1>4, <1>6, <3>2
      <4> QED
        BY ONLY <4>1
    <3> QED
      BY ONLY <1>9, <3>1, <3>2, i \in DOMAIN rows
  <2>2. ASSUME NEW p \in known PROVE \E i \in DOMAIN rows : p \in NamesTold(rows[i].columns)
    <3>1. PICK i \in 1 .. n : pools[i] = p
      BY <1>4
    <3>2. i + 1 \in DOMAIN rows /\ rows[i + 1] = entries[i]
      BY <1>8
    <3> QED
      BY <1>6, <3>1, <3>2
  <2> QED
    BY <2>1, <2>2
<1> DEFINE A == UNION {AmountsTold(rows[i].columns) : i \in DOMAIN rows}
           B == {1} \cup {all[p] : p \in known}
<1>11. A \ {0} = B \ {0}
  <2>1. ASSUME NEW i \in DOMAIN rows, NEW x \in AmountsTold(rows[i].columns)
        PROVE  x \in {0, 1} \/ \E p \in known : x = all[p]
    <3>1. CASE i = 1
      BY ONLY <1>5, <1>8, <2>1, <3>1
    <3>2. ASSUME NEW j \in 1 .. n, rows[i] = entries[j]
          PROVE  x \in {0, 1} \/ \E p \in known : x = all[p]
      <4>1. AmountsTold(rows[i].columns) = {all[pools[j]], 0} /\ pools[j] \in known
        BY ONLY <1>4, <1>6, <3>2
      <4> QED
        BY ONLY <2>1, <4>1
    <3> QED
      BY ONLY <1>9, <3>1, <3>2, i \in DOMAIN rows
  <2>2. 1 \in DOMAIN rows /\ 1 \in AmountsTold(rows[1].columns)
    BY <1>5, <1>8
  <2>3. ASSUME NEW p \in known PROVE \E i \in DOMAIN rows : all[p] \in AmountsTold(rows[i].columns)
    <3>1. PICK i \in 1 .. n : pools[i] = p
      BY <1>4
    <3>2. i + 1 \in DOMAIN rows /\ rows[i + 1] = entries[i]
      BY <1>8
    <3> QED
      BY <1>6, <3>1, <3>2
  <2>4. ASSUME NEW x, \E i \in DOMAIN rows : x \in AmountsTold(rows[i].columns), x # 0
        PROVE  x = 1 \/ \E p \in known : x = all[p]
    BY <2>1, <2>4
  <2>5. \A x : x \in A <=> \E i \in DOMAIN rows : x \in AmountsTold(rows[i].columns)
    OBVIOUS
  <2>6. \A x : x \in B <=> x = 1 \/ \E p \in known : x = all[p]
    OBVIOUS
  <2> HIDE DEF A, B
  <2>7. ASSUME NEW x \in A, x # 0 PROVE x \in B
    BY ONLY <2>4, <2>5, <2>6, <2>7
  <2>8. ASSUME NEW x \in B PROVE x \in A
    BY ONLY <2>2, <2>3, <2>5, <2>6, <2>8
  <2> QED
    BY ONLY <2>7, <2>8
<1>12. ASSUME NEW i \in DOMAIN rows PROVE AmountsTold(rows[i].columns) \subseteq Int
  <2>1. CASE i = 1
    BY ONLY <1>5, <1>8, <2>1
  <2>2. ASSUME NEW j \in 1 .. n, rows[i] = entries[j]
        PROVE  AmountsTold(rows[i].columns) \subseteq Int
    <3>1. AmountsTold(rows[i].columns) = {all[pools[j]], 0} /\ all[pools[j]] \in Int
      BY ONLY <1>3, <1>4, <1>6, <2>2
    <3> QED
      BY ONLY <3>1
  <2> QED
    BY ONLY <1>9, <2>1, <2>2, i \in DOMAIN rows
<1>13. Says(e) = Said(known, {1} \cup {all[p] : p \in known})
  <2>1. Shape(e, "bond_reward") = "number" /\ Shape(e, "per_pool") = "pools"
    BY DEF Shape
  <2>2. e.attr["bond_reward"] # Garbled
    BY GarbledAssumption
  <2>3. /\ Legible(e, "coin") = {} /\ Legible(e, "coins") = {} /\ Legible(e, "name") = {}
        /\ Legible(e, "number") = {"bond_reward"} /\ Legible(e, "pools") = {"per_pool"}
    BY <2>1, <2>2 DEF Legible
  <2>4. CoinsSaid(e) = {}
    BY <2>3 DEF CoinsSaid
  <2>5. PoolsSaid(e) = known
    BY <2>3 DEF PoolsSaid, known
  <2>6. (({CaseFree(c.asset) : c \in CoinsSaid(e)} \ OwnColumn(e))
                  \cup {CaseFree(e.attr[k]) : k \in Legible(e, "name")}) \cup PoolsSaid(e) = known
    BY <2>3, <2>4, <2>5
  <2>7. ({c.e8 : c \in CoinsSaid(e)} \cup {e.attr[k] : k \in Legible(e, "number")})
                  \cup {e.attr.per_pool[p] : p \in PoolsSaid(e)}
          = {1} \cup {all[p] : p \in known}
    BY <2>3, <2>4, <2>5
  <2> QED
    BY <2>6, <2>7, SaysIs
<1>14. Told(ToSet(rows)) = Says(e)
  <2>1. Told(ToSet(rows)) = Said(known, A)
    BY <1>10, RowsTell
  <2>2. AlikeBut(NoName, known, known)
    BY ONLY DEF AlikeBut
  <2>4. AlikeBut(0, A, B)
    <3> HIDE DEF A, B
    <3> QED
      BY ONLY <1>11 DEF AlikeBut
  <2>5. Whole(A)
    BY ONLY <1>12 DEF Whole
  <2>6. Whole(B)
    BY ONLY <1>3 DEF Whole
  <2> HIDE DEF A, B
  <2>7. Said(known, A) = Said(known, B)
    BY <2>2, <2>4, <2>5, <2>6, SaidAlike
  <2> QED
    BY <1>13, <2>1, <2>7 DEF B
<1>15. ASSUME NEW i \in DOMAIN rows, NEW j \in DOMAIN rows, rows[i].columns = rows[j].columns
       PROVE  i = j
  <2>1. CASE i = 1
    BY <1>5, <1>6, <1>8, <1>9, <1>15, <2>1
  <2>2. CASE j = 1
    BY <1>5, <1>6, <1>8, <1>9, <1>15, <2>2
  <2>3. CASE i # 1 /\ j # 1
    <3>1. PICK k \in 1 .. n : i = k + 1 /\ rows[i] = entries[k]
      BY <1>9, <2>3
    <3>2. PICK l \in 1 .. n : j = l + 1 /\ rows[j] = entries[l]
      BY <1>9, <2>3
    <3>3. pools[k] = pools[l]
      BY <1>6, <1>15, <3>1, <3>2
    <3> QED
      BY <1>4, <3>1, <3>2, <3>3
  <2> QED
    BY <2>1, <2>2, <2>3
<1> QED
  BY <1>14, <1>15 DEF TellApart, rows

\* A donation: the RUNE has a column of its own.
LEMMA DonateTells ==
  ASSUME NEW sent \in ThorEvents, NEW s \in Symbols,
         sent = Event("donate", [pool |-> L1(s), coin |-> <<Coin(L1(s), 1), Coin(Rune, 2)>>])
  PROVE  TellApart(sent)
<1> DEFINE coins == <<Coin(L1(s), 1), Coin(Rune, 2)>>
           others == {x \in ToSet(sent.attr.coin) : x.asset # Rune}
           c == Also(Donate(sent), [asset |-> (CHOOSE x \in others : TRUE).asset])
           L == ListsSaid(sent, {"coin"})
<1>1. /\ sent.type = "donate" /\ DOMAIN sent.attr = {"pool", "coin"}
      /\ sent.attr["pool"] = L1(s) /\ sent.attr["coin"] = coins
  BY DEF Event
<1>2. /\ DOMAIN coins = {1, 2} /\ coins[1].asset = L1(s) /\ coins[1].e8 = 1
      /\ coins[2].asset = Rune /\ coins[2].e8 = 2
      /\ coins[1] = Coin(L1(s), 1) /\ coins[2] = Coin(Rune, 2)
  BY DEF Coin
<1>3. L1(s) # Rune /\ CaseFree(L1(s)) = L1(s) /\ CaseFree(Rune) = Rune
  BY PlainNames, PoolNames
<1> HIDE DEF coins
<1>4. SplitRune(coins) = [rune |-> 2, asset |-> 1]
  <2>1. {i \in DOMAIN coins : coins[i].asset # Rune} = {1} /\ DOMAIN coins \ {1} = {2}
    BY <1>2, <1>3
  <2>2. Min({1}) = 1
    <3>1. {1} \in SUBSET Int /\ 1 \in {1} /\ \A m \in {1} : 1 <= m
      OBVIOUS
    <3> QED
      BY <3>1, MinIs
  <2>3. SumOf(coins, {2}) = 2
    BY <1>2, DonatedRune
  <2> QED
    BY <1>2, <2>1, <2>2, <2>3 DEF SplitRune
<1>5. others = {coins[1]}
  BY <1>1, <1>2, <1>3 DEF ToSet
<1>6. (CHOOSE x \in others : TRUE).asset = L1(s)
  BY <1>2, <1>5
<1> HIDE DEF others
<1>7. /\ DOMAIN c = {"pool", "rune_e8", "asset_e8", "asset"}
      /\ c["pool"] = L1(s) /\ c["rune_e8"] = 2 /\ c["asset_e8"] = 1 /\ c["asset"] = L1(s)
  <2>1. PICK f : f = Donate(sent)
    OBVIOUS
  <2>2. PICK g : g = [asset |-> (CHOOSE x \in others : TRUE).asset]
    OBVIOUS
  <2>3. c = Also(f, g)
    BY <2>1, <2>2
  <2>4. /\ DOMAIN f = {"pool", "rune_e8", "asset_e8"}
        /\ f["pool"] = L1(s) /\ f["rune_e8"] = 2 /\ f["asset_e8"] = 1
    BY <1>1, <1>4, <2>1 DEF Donate
  <2>5. DOMAIN g = {"asset"} /\ g["asset"] = L1(s)
    BY <1>6, <2>2
  <2> HIDE DEF c
  <2> QED
    BY <2>3, <2>4, <2>5 DEF Also
<1>8. PoolRows(sent) = Row("add_events", c)
  BY <1>1 DEF PoolRows, others
<1> HIDE DEF c
<1>9. NamesTold(c) = {L1(s)} /\ AmountsTold(c) = {1, 2}
  BY <1>7 DEF NamesTold, AmountsTold, AmountColumns
<1>10. L = {coins[1], coins[2]}
  <2>1. sent.attr["coin"] # Garbled /\ \A i \in {1, 2} : coins[i] # Garbled
    <3>1. Shape(sent, "coin") = "coins" /\ sent.attr["coin"] # Garbled
      BY <1>1, EventShape DEF Shape
    <3> QED
      BY <1>1, <1>2, <3>1, UnreadableAssumption
  <2>2. Known(sent, "coin") = {1, 2}
    BY <1>1, <1>2, <2>1 DEF Known
  <2>3. Listed(sent, "coin") = {coins[1], coins[2]}
    BY <1>1, <2>2 DEF Listed
  <2> QED
    BY <1>1, <2>1, <2>3 DEF ListsSaid
<1> HIDE DEF L
<1> DEFINE N == (({CaseFree(CoinOrNone(sent, k).asset) : k \in {}}
                    \cup {CaseFree(x.asset) : x \in L}) \ OwnColumn(sent))
                  \cup {CaseFree(NameIn(sent, k)) : k \in {"pool"}}
           A == {CoinOrNone(sent, k).e8 : k \in {}} \cup {Int0(sent, k) : k \in {}}
                  \cup {x.e8 : x \in L}
<1>11. Says(sent) = Said(N, A)
  <2>1. Shape(sent, "pool") = "name" /\ Shape(sent, "coin") = "coins"
    BY <1>1 DEF Shape
  <2>2. Sorted(sent, {"pool"}, {}, {}, {"coin"})
    BY <1>1, <2>1 DEF Sorted
  <2>3. \A x \in ListsSaid(sent, {"coin"}) : x.e8 \in Int
    BY <1>2, <1>10 DEF L
  <2> QED
    BY <2>2, <2>3, SaysOfFields DEF L
<1>12. N = {L1(s)}
  <2>1. NameIn(sent, "pool") = L1(s) /\ OwnColumn(sent) = {Rune}
    BY <1>1, AttributesRead DEF OwnColumn
  <2>2. {CaseFree(x.asset) : x \in L} = {L1(s), Rune}
    BY <1>2, <1>3, <1>10
  <2> QED
    BY <1>3, <2>1, <2>2
<1>13. A = {1, 2}
  BY <1>2, <1>10
<1> HIDE DEF N, A
<1> QED
  BY <1>8, <1>9, <1>11, <1>12, <1>13, RowTells, OneRowTells

\* An event of a pool of which an attribute is garbled did not come whole.
LEMMA GarbledIncomplete ==
  ASSUME NEW sent \in ThorEvents, NEW k \in DOMAIN sent.attr,
         NEW got, got = [sent EXCEPT !.attr[k] = Garbled]
  PROVE  ~Complete(sent, got)
<1>1. k \in DOMAIN got.attr /\ got.attr[k] = Garbled /\ sent.attr[k] # Garbled
  BY GarbledAttribute, EventShape
<1> QED
  BY <1>1 DEF Complete

\* What arrives of a slash, or of rewards, has its list, with an amount garbled or none.
LEMMA SlashSeen ==
  ASSUME NEW sent \in ThorSlashes, NEW got,
         got = sent \/ \E i \in DOMAIN sent.attr.slashed :
                         got = [sent EXCEPT !.attr.slashed[i].e8 = Garbled]
  PROVE  TellApart(got) /\ ~Refused(got)
<1>1. PICK s \in Symbols : \E list :
           /\ sent.type = "slash" /\ sent.attr = [pool |-> L1(s), slashed |-> list]
           /\ DOMAIN sent = {"type", "attr"}
           /\ DOMAIN list \subseteq Nat
           /\ \A i \in DOMAIN list : /\ list[i].e8 \in Int /\ list[i].asset \in {L1(s), Rune}
                                     /\ DOMAIN list[i] = {"asset", "e8"}
  BY SlashList
<1>2. PICK list :
           /\ sent.type = "slash" /\ sent.attr = [pool |-> L1(s), slashed |-> list]
           /\ DOMAIN sent = {"type", "attr"}
           /\ DOMAIN list \subseteq Nat
           /\ \A i \in DOMAIN list : /\ list[i].e8 \in Int /\ list[i].asset \in {L1(s), Rune}
                                     /\ DOMAIN list[i] = {"asset", "e8"}
  BY <1>1
<1>3. sent \in ThorEvents
  BY DEF ThorEvents, ThorAdjustments
<1>4. /\ DOMAIN sent.attr = {"pool", "slashed"} /\ sent.attr["pool"] # Garbled
      /\ sent.attr["slashed"] = list /\ sent.attr["pool"] = L1(s)
  BY <1>2, <1>3, EventShape
<1>5. got \in Received(sent)
  BY <1>4 DEF Received
<1>6. got.type = "slash" /\ DOMAIN got = {"type", "attr"} /\ DOMAIN got.attr = {"pool", "slashed"}
      /\ got.attr["pool"] = L1(s)
  BY <1>2, <1>4
<1>7. PICK seen : seen = got.attr["slashed"]
  OBVIOUS
<1>8. DOMAIN seen = DOMAIN list
  BY <1>2, <1>4, <1>7
<1>9. \A i \in DOMAIN list : /\ seen[i].e8 = Garbled \/ seen[i].e8 \in Int
                             /\ seen[i].asset \in {L1(s), Rune}
  <2>1. CASE got = sent
    BY <1>2, <1>4, <1>7, <2>1
  <2>2. ASSUME NEW i \in DOMAIN list, got = [sent EXCEPT !.attr.slashed[i].e8 = Garbled]
        PROVE  \A j \in DOMAIN list : /\ seen[j].e8 = Garbled \/ seen[j].e8 \in Int
                                      /\ seen[j].asset \in {L1(s), Rune}
    <3>1. seen = [list EXCEPT ![i].e8 = Garbled]
      BY <1>2, <1>4, <1>7, <2>2
    <3>2. seen[i].e8 = Garbled /\ seen[i].asset = list[i].asset
      BY <1>2, <3>1
    <3>3. \A j \in DOMAIN list : j # i => seen[j] = list[j]
      BY <3>1
    <3> QED
      BY <1>2, <3>2, <3>3
  <2> QED
    BY <1>4, <2>1, <2>2
<1>10. seen # Garbled
  <2>1. "slashed" \in {"per_pool", "slashed"} \cap DOMAIN got.attr
    BY <1>6
  <2>2. got.attr["slashed"] # Garbled
    BY <1>3, <1>5, <2>1, GarbledAssumption
  <2> QED
    BY <1>7, <2>2
<1>11. ~Refused(got)
  BY <1>4, <1>6, <1>7, <1>10 DEF Refused
<1>12. TellApart(got)
  <2>1. /\ DOMAIN seen \subseteq Nat /\ got.attr["pool"] # Garbled
        /\ \A i \in DOMAIN seen : /\ seen[i].e8 = Garbled \/ seen[i].e8 \in Int
                                 /\ seen[i].asset \in {L1(s), Rune}
    BY <1>2, <1>4, <1>6, <1>8, <1>9
  <2> QED
    BY <1>6, <1>7, <1>10, <2>1, SlashTells
<1> QED
  BY <1>11, <1>12

LEMMA RewardsSeen ==
  ASSUME NEW sent \in ThorRewards, NEW got,
         got = sent \/ \E p \in DOMAIN sent.attr.per_pool :
                         got = [sent EXCEPT !.attr.per_pool[p] = Garbled]
  PROVE  TellApart(got) /\ ~Refused(got)
<1>1. PICK r \in [{L1(s) : s \in Symbols} -> {2, -1}] :
        sent = Event("rewards", [bond_reward |-> 1, per_pool |-> r])
  BY DEF ThorRewards
<1>2. /\ sent.type = "rewards" /\ DOMAIN sent = {"type", "attr"}
      /\ sent.attr = [bond_reward |-> 1, per_pool |-> r]
  BY <1>1 DEF Event
<1>3. sent \in ThorEvents
  BY DEF ThorEvents, ThorAdjustments
<1>4. /\ DOMAIN sent.attr = {"bond_reward", "per_pool"}
      /\ sent.attr["per_pool"] = r /\ sent.attr["bond_reward"] = 1
  BY <1>2
<1>5. got \in Received(sent)
  BY <1>4 DEF Received
<1>6. /\ got.type = "rewards" /\ DOMAIN got = {"type", "attr"}
      /\ DOMAIN got.attr = {"bond_reward", "per_pool"} /\ got.attr["bond_reward"] = 1
  BY <1>2, <1>4
<1>7. PICK all : all = got.attr["per_pool"]
  OBVIOUS
<1>8. DOMAIN all = DOMAIN r /\ \A p \in DOMAIN r : all[p] = Garbled \/ all[p] \in Int
  <2>1. CASE got = sent
    BY <1>4, <1>7, <2>1
  <2>2. ASSUME NEW p \in DOMAIN r, got = [sent EXCEPT !.attr.per_pool[p] = Garbled]
        PROVE  DOMAIN all = DOMAIN r /\ \A q \in DOMAIN r : all[q] = Garbled \/ all[q] \in Int
    <3>1. all = [r EXCEPT ![p] = Garbled]
      BY <1>2, <1>4, <1>7, <2>2
    <3> QED
      BY <3>1
  <2> QED
    BY <1>4, <2>1, <2>2
<1>9. all # Garbled
  <2>1. "per_pool" \in {"per_pool", "slashed"} \cap DOMAIN got.attr
    BY <1>6
  <2>2. got.attr["per_pool"] # Garbled
    BY <1>3, <1>5, <2>1, GarbledAssumption
  <2> QED
    BY <1>7, <2>2
<1>10. IsFiniteSet(DOMAIN all)
  <2>1. DOMAIN r = {L1(s) : s \in Symbols}
    OBVIOUS
  <2> DEFINE f == [s \in Symbols |-> L1(s)]
  <2>2. f \in Surjection(Symbols, {L1(s) : s \in Symbols})
    BY Fun_IsSurj
  <2> QED
    BY <1>8, <2>1, <2>2, SymbolsAssumption, FS_Surjection
<1>11. ~Refused(got)
  <2>1. got.attr["bond_reward"] # Garbled
    BY <1>3, <1>4, <1>6, EventShape
  <2> QED
    BY <1>6, <1>7, <1>9, <2>1 DEF Refused
<1>12. TellApart(got)
  BY <1>6, <1>7, <1>8, <1>9, <1>10, RewardsTell
<1> QED
  BY <1>11, <1>12

\* An event of a pool that came as it was sent.
LEMMA WholeTells ==
  ASSUME NEW sent \in ThorEvents
  PROVE  TellApart(sent)
<1>1. CASE sent \in ThorSwaps
  BY <1>1, SwapTells
<1>2. CASE sent \in ThorLiquidity
  <2>1. PICK s \in Symbols : LiquidityOf(sent, s)
    BY <1>2, LiquidityIs
  <2>2. CASE sent = Event("add_liquidity", [pool |-> L1(s), asset_amount |-> 2, rune_amount |-> 4,
                                            liquidity_provider_units |-> 3])
    <3>1. /\ sent.type = "add_liquidity" /\ sent.attr["pool"] = L1(s)
          /\ DOMAIN sent.attr = {"pool", "asset_amount", "rune_amount", "liquidity_provider_units"}
          /\ sent.attr["asset_amount"] \in Int /\ sent.attr["rune_amount"] \in Int
          /\ sent.attr["liquidity_provider_units"] \in Int
      BY <2>2 DEF Event
    <3> QED
      BY <3>1, DepositTells
  <2>3. CASE sent = Event("add", [pool |-> L1(s), asset_amount |-> 1, rune_amount |-> 0,
                                  stake_units |-> 1])
    <3>1. /\ sent.type = "add" /\ sent.attr["pool"] = L1(s)
          /\ DOMAIN sent.attr = {"pool", "asset_amount", "rune_amount", "stake_units"}
          /\ sent.attr["asset_amount"] \in Int /\ sent.attr["rune_amount"] \in Int
          /\ sent.attr["stake_units"] \in Int
      BY <2>3 DEF Event
    <3> QED
      BY <3>1, DepositTells
  <2> QED
    BY <2>1, <2>2, <2>3, WithdrawTells, DonateTells DEF LiquidityOf
<1>3. CASE sent \in ThorSigned
  <2>1. PICK s \in Symbols, add \in BOOLEAN : CorrectionOf(sent, s, add)
    BY <1>3, SignedIs
  <2>2. CASE sent.type = "errata"
    <3>1. sent = Event("errata", [asset |-> L1(s), asset_amt |-> 1, asset_add |-> add,
                                  rune_amt |-> 2, rune_add |-> ~add])
      BY <2>1, <2>2 DEF CorrectionOf, Event
    <3>2. \A k \in DOMAIN sent.attr :
            sent.attr[k] = sent.attr[k] \/ (k = "asset" /\ sent.attr[k] = Garbled)
      OBVIOUS
    <3> QED
      BY <3>1, <3>2, ErrataTells
  <2>3. CASE sent.type # "errata"
    <3>1. sent = Event("pool_balance_change", [asset |-> L1(s), asset_amt |-> 3, asset_add |-> add,
                                               rune_amt |-> 1, rune_add |-> ~add])
      BY <2>1, <2>3 DEF CorrectionOf, Event
    <3> QED
      BY <3>1, BalanceTells
  <2> QED
    BY <2>2, <2>3
<1>4. CASE sent \in ThorGas
  <2>1. \A k \in DOMAIN sent.attr :
          sent.attr[k] = sent.attr[k] \/ (k = "asset" /\ sent.attr[k] = Garbled)
    OBVIOUS
  <2> QED
    BY <1>4, <2>1, GasTells
<1> QED
  BY <1>1, <1>2, <1>3, <1>4, FeeTells, SlashSeen, RewardsSeen DEF ThorEvents, ThorAdjustments

\* One whose asset could not be read.
LEMMA NamelessTells ==
  ASSUME NEW sent \in ThorEvents, sent.type \in {"errata", "gas"}, "asset" \in DOMAIN sent.attr,
         NEW got, got = [sent EXCEPT !.attr["asset"] = Garbled]
  PROVE  TellApart(got)
<1>1. /\ got.type = sent.type /\ DOMAIN got.attr = DOMAIN sent.attr
      /\ \A k \in DOMAIN got.attr :
           got.attr[k] = sent.attr[k] \/ (k = "asset" /\ got.attr[k] = Garbled)
  BY GarbledAttribute
<1>2. CASE sent.type = "gas"
  BY <1>1, <1>2, TypesOfEvents, GasTells
<1>3. CASE sent.type = "errata"
  <2>1. PICK s \in Symbols, add \in BOOLEAN : CorrectionOf(sent, s, add)
    BY <1>3, TypesOfEvents, SignedIs
  <2>2. sent = Event("errata", [asset |-> L1(s), asset_amt |-> 1, asset_add |-> add,
                                rune_amt |-> 2, rune_add |-> ~add])
    BY <1>3, <2>1 DEF CorrectionOf, Event
  <2> QED
    BY <1>1, <2>2, ErrataTells
<1> QED
  BY <1>2, <1>3

\* An event of a pool is decoded right.
LEMMA PoolsDecoded ==
  ASSUME NEW sent \in ThorEvents, NEW got \in Received(sent)
  PROVE  DecodedRight(sent, got)
<1>1. got.type \in PoolTypes
  BY TypeIsKept DEF PoolTypes
<1>2. CASE ~Refused(got) /\ TellApart(got)
  <2>1. RowsOfEvent(got) = PoolRows(got)
    BY <1>1, <1>2 DEF RowsOfEvent
  <2> QED
    BY <1>2, <2>1 DEF DecodedRight, TellApart
<1>3. CASE Refused(got) /\ ~Complete(sent, got)
  <2>1. RowsOfEvent(got) = <<>>
    BY <1>1, <1>3 DEF RowsOfEvent
  <2> QED
    BY <1>3, <2>1, NothingListed DEF DecodedRight
<1>4. CASE got = sent
  BY <1>2, <1>4, EventShape, WholeTells
<1>5. ASSUME NEW k \in DOMAIN sent.attr, got = [sent EXCEPT !.attr[k] = Garbled]
      PROVE  DecodedRight(sent, got)
  <2>1. Refused(got) <=> <<sent.type, k>> \notin Lenient
    BY <1>5, GarbledAttribute
  <2>2. ~Complete(sent, got)
    BY <1>5, GarbledIncomplete
  <2>3. CASE <<sent.type, k>> \in Lenient
    <3>1. sent.type \in {"errata", "gas"} /\ k = "asset"
      BY <2>3 DEF Lenient
    <3>2. TellApart(got)
      BY <1>5, <3>1, NamelessTells
    <3> QED
      BY <1>2, <2>1, <2>3, <3>2
  <2> QED
    BY <1>3, <2>1, <2>2, <2>3
<1>6. CASE sent \in ThorSlashes /\ \E i \in DOMAIN sent.attr.slashed :
                                     got = [sent EXCEPT !.attr.slashed[i].e8 = Garbled]
  BY <1>2, <1>6, SlashSeen
<1>7. CASE sent \in ThorRewards /\ \E p \in DOMAIN sent.attr.per_pool :
                                     got = [sent EXCEPT !.attr.per_pool[p] = Garbled]
  BY <1>2, <1>7, RewardsSeen
<1>8. /\ "slashed" \in DOMAIN sent.attr => sent \in ThorSlashes
      /\ "per_pool" \in DOMAIN sent.attr => sent \in ThorRewards
  <2>1. ASSUME sent \in ThorSlashes PROVE "per_pool" \notin DOMAIN sent.attr
    <3>1. PICK s \in Symbols :
            \/ sent = Event("slash", [pool |-> L1(s), slashed |-> <<Coin(L1(s), -2), Coin(Rune, 3)>>])
            \/ sent = Event("slash", [pool |-> L1(s), slashed |-> <<Coin(Rune, -1)>>])
      BY <2>1, SlashIs
    <3> QED
      BY <3>1 DEF Event
  <2>2. ASSUME sent \in ThorRewards PROVE "slashed" \notin DOMAIN sent.attr
    <3>1. PICK r : sent = Event("rewards", [bond_reward |-> 1, per_pool |-> r])
      BY <2>2 DEF ThorRewards
    <3> QED
      BY <3>1 DEF Event
  <2> QED
    BY <2>1, <2>2, TypesOfEvents
<1> QED
  BY <1>4, <1>5, <1>6, <1>7, <1>8, ReceivedIs

\* One event at a time, of whatever kind and however it arrives: the rows
\* written for it tell what it says, and no two of them are alike.
THEOREM EventsAreDecoded == EventsDecoded
<1>1. ASSUME NEW sent \in ThorEvents \cup OtherEvents, NEW got \in Arrivals(sent)
      PROVE  DecodedRight(sent, got)
  BY ArrivalKinds, PoolsDecoded, OthersDecoded
<1> QED
  BY <1>1 DEF EventsDecoded, DecodedRight

------------------------------------------------------------------------------
\* Every row once, and what they say.

\* One copy of everything.
OnceEach(bag) == \A r \in DOMAIN bag : bag[r] = 1

\* The rows of an event differ when they are stamped.
LEMMA StampedOnce ==
  ASSUME NEW sent \in ThorEvents \cup OtherEvents, NEW got \in Arrivals(sent), NEW n
  PROVE  OnceEach(ToBag([i \in DOMAIN RowsOfEvent(got) |-> Stamp(RowsOfEvent(got)[i], n)]))
<1> DEFINE rows == RowsOfEvent(got)
           stamped == [i \in DOMAIN rows |-> Stamp(rows[i], n)]
<1>1. \A i, j \in DOMAIN rows :
        rows[i].table = rows[j].table /\ rows[i].columns = rows[j].columns => i = j
  BY EventsAreDecoded DEF EventsDecoded
<1>2. DOMAIN stamped = DOMAIN rows
  OBVIOUS
<1>3. \A i, j \in DOMAIN stamped : stamped[i] = stamped[j] => i = j
  <2>1. ASSUME NEW i \in DOMAIN rows, NEW j \in DOMAIN rows, stamped[i] = stamped[j] PROVE i = j
    <3>1. Stamp(rows[i], n) = Stamp(rows[j], n)
      BY <2>1
    <3>2. rows[i].table = rows[j].table /\ rows[i].columns = rows[j].columns
      BY <3>1, StampIs
    <3> QED
      BY <1>1, <3>2
  <2> QED
    BY <1>2, <2>1
<1> HIDE DEF stamped
<1>4. ASSUME NEW x \in DOMAIN ToBag(stamped) PROVE ToBag(stamped)[x] = 1
  <2>1. PICK j \in DOMAIN stamped : stamped[j] = x
    BY <1>4 DEF ToBag, Range
  <2>2. {i \in DOMAIN stamped : stamped[i] = x} = {j}
    BY <1>3, <2>1
  <2>3. Cardinality({j}) = 1
    BY FS_Singleton
  <2>4. ToBag(stamped)[x] = Cardinality({i \in DOMAIN stamped : stamped[i] = x})
    BY <1>4 DEF ToBag, Range
  <2> QED
    BY <2>2, <2>3, <2>4
<1> QED
  BY <1>4 DEF OnceEach, stamped

\* Every row is there once.
CopiesInv == OnceEach(tables) /\ OnceEach(pending)

\* Rows of different blocks have different ids.
LEMMA RowsApart ==
  ASSUME NEW blocks \in Seq(ArrivedBlocks), NEW m \in Nat, NEW n \in 0 .. Len(blocks), m # 0,
         NEW r \in RowsOver(blocks, m, n)
  PROVE  r.id \in m .. n
<1>1. PICK i \in m .. n : r \in RowsAt(blocks, i)
  BY DEF RowsOver
<1>2. i \in 1 .. Len(blocks)
  OBVIOUS
<1> QED
  BY <1>1, <1>2, RowFacts

LEMMA CopiesAdd == BlocksInv /\ CopiesInv /\ AddBlock => CopiesInv'
<1> SUFFICES ASSUME BlocksInv, CopiesInv, AddBlock PROVE CopiesInv'
  OBVIOUS
<1> DEFINE n == Len(log) + Len(batch)
<1>1. PICK sent \in ThorEvents \cup OtherEvents : \E got \in Arrivals(sent) :
        LET rows == RowsOfEvent(got)
            moves == MovesOfEvent(got)
        IN  pending' = pending
              (+) ToBag([i \in DOMAIN rows |-> Stamp(rows[i], n + 1)])
              (+) SetToBag({Stamp(DepthRow(k, tracker'[k]), n + 1) : k \in DOMAIN moves})
  BY DEF AddBlock
<1>2. PICK got \in Arrivals(sent) :
        pending' = pending
          (+) ToBag([i \in DOMAIN RowsOfEvent(got) |-> Stamp(RowsOfEvent(got)[i], n + 1)])
          (+) SetToBag({Stamp(DepthRow(k, tracker'[k]), n + 1) : k \in DOMAIN MovesOfEvent(got)})
  BY <1>1
<1>3. Chain \in Seq(ArrivedBlocks) /\ Len(Chain) = n /\ n \in Nat /\ Len(log) \in Nat
  BY ChainIs DEF BlocksInv, Chain
<1> HIDE DEF n
<1> DEFINE stamped == [i \in DOMAIN RowsOfEvent(got) |-> Stamp(RowsOfEvent(got)[i], n + 1)]
           depths == {Stamp(DepthRow(k, tracker'[k]), n + 1) : k \in DOMAIN MovesOfEvent(got)}
<1>4. OnceEach(ToBag(stamped))
  BY StampedOnce
<1>5. OnceEach(SetToBag(depths))
  BY DEF OnceEach, SetToBag
<1>6. \A r \in DOMAIN ToBag(stamped) : r.id = n + 1 /\ r.table # "block_pool_depths"
  <2>1. InEventTables(RowsOfEvent(got)) /\ "block_pool_depths" \notin EventTableNames
    BY RowsOfArrival DEF EventTableNames
  <2>2. \A i \in DOMAIN stamped : stamped[i].id = n + 1 /\ stamped[i].table \in EventTableNames
    BY <2>1, StampIs DEF InEventTables
  <2> HIDE DEF stamped
  <2>3. DOMAIN ToBag(stamped) = {stamped[i] : i \in DOMAIN stamped}
    BY BagFacts
  <2> QED
    BY <2>1, <2>2, <2>3
<1>7. \A r \in DOMAIN SetToBag(depths) : r.id = n + 1 /\ r.table = "block_pool_depths"
  <2>1. \A r \in depths : r.id = n + 1 /\ r.table = "block_pool_depths"
    BY StampIs, DepthRowIs
  <2> HIDE DEF depths
  <2> QED
    BY <2>1, BagFacts
<1>8. \A r \in DOMAIN pending : r.id # n + 1
  <2>1. \A r \in DOMAIN pending : r.id \in Len(log) + 1 .. n
    BY <1>3, RowsApart DEF BlocksInv
  <2> QED
    BY <1>3, <2>1
<1> HIDE DEF stamped, depths
<1>9. pending' = pending (+) ToBag(stamped) (+) SetToBag(depths)
  BY <1>2 DEF stamped, depths
<1>10. \A r \in DOMAIN ToBag(stamped) : r \notin DOMAIN pending /\ r \notin DOMAIN SetToBag(depths)
  BY <1>6, <1>7, <1>8
<1>11. \A r \in DOMAIN pending : r \notin DOMAIN SetToBag(depths)
  BY <1>7, <1>8
<1>12. OnceEach(pending')
  <2> DEFINE both == pending (+) ToBag(stamped)
  <2>1. OnceEach(both)
    BY <1>4, <1>10 DEF OnceEach, CopiesInv, (+)
  <2>2. \A r \in DOMAIN both : r \notin DOMAIN SetToBag(depths)
    BY <1>10, <1>11 DEF (+)
  <2>3. pending' = both (+) SetToBag(depths)
    BY <1>9
  <2> HIDE DEF both
  <2> QED
    BY <1>5, <2>1, <2>2, <2>3 DEF OnceEach, (+)
<1> QED
  BY <1>12 DEF CopiesInv, AddBlock

LEMMA CopiesStep == BlocksInv /\ CopiesInv /\ [BlocksNext]_recordVars => CopiesInv'
<1> SUFFICES ASSUME BlocksInv, CopiesInv, [BlocksNext]_recordVars PROVE CopiesInv'
  OBVIOUS
<1>1. CASE WriteBatch
  <2>1. tables' = tables (+) pending /\ pending' = EmptyBag
    BY <1>1 DEF WriteBatch
  <2>2. Chain \in Seq(ArrivedBlocks) /\ Len(Chain) \in Nat /\ Len(log) \in Nat /\ Len(log) <= Len(Chain)
    BY ChainIs DEF BlocksInv, Chain
  <2>3. \A r \in DOMAIN tables : r.id \in 1 .. Len(log)
    BY <2>2, RowsApart DEF BlocksInv
  <2>4. \A r \in DOMAIN pending : r.id \in Len(log) + 1 .. Len(Chain)
    BY <2>2, RowsApart DEF BlocksInv
  <2>5. \A r \in DOMAIN tables : r \notin DOMAIN pending
    BY <2>2, <2>3, <2>4
  <2>6. OnceEach(tables')
    BY <2>1, <2>5 DEF OnceEach, CopiesInv, (+)
  <2>7. OnceEach(EmptyBag)
    BY BagFacts DEF OnceEach
  <2> QED
    BY <2>1, <2>6, <2>7 DEF CopiesInv
<1>2. CASE Restart
  <2>1. OnceEach(EmptyBag)
    BY BagFacts DEF OnceEach
  <2> QED
    BY <1>2, <2>1 DEF Restart, CopiesInv
<1>3. ASSUME NEW cut \in DOMAIN log, DeleteFromHeight(cut) PROVE CopiesInv'
  BY <1>3 DEF DeleteFromHeight, CopiesInv, OnceEach
<1>4. CASE UNCHANGED recordVars
  BY <1>4 DEF recordVars, CopiesInv
<1> QED
  BY <1>1, <1>2, <1>3, <1>4, CopiesAdd DEF BlocksNext

LEMMA CopiesInvariant == BlocksSpec => []CopiesInv
<1>1. BlocksInit => CopiesInv
  <2>1. OnceEach(EmptyBag)
    BY BagFacts DEF OnceEach
  <2> QED
    BY <2>1 DEF BlocksInit, CopiesInv
<1>2. BlocksInv /\ CopiesInv /\ [BlocksNext]_recordVars => CopiesInv'
  BY CopiesStep
<1> QED
  BY <1>1, <1>2, BlocksInvariant, PTL DEF BlocksSpec

\* What rows tell lies in their columns.
LEMMA ColumnsTell ==
  ASSUME NEW R, NEW Q, {r.columns : r \in R} = {q.columns : q \in Q}
  PROVE  Told(R) = Told(Q)
<1> DEFINE cells(c, columns) == {c[k] : k \in DOMAIN c \cap columns}
           others == AmountColumns \cup {"direction", "rune_add", "asset_add"}
           T(C) == Said(UNION {cells(c, DOMAIN c \ others) : c \in C},
                        UNION {cells(c, AmountColumns) : c \in C})
<1>1. \A X : Told(X) = T({r.columns : r \in X})
  <2> TAKE X
  <2>1. UNION {cells(r.columns, DOMAIN r.columns \ others) : r \in X}
          = UNION {cells(c, DOMAIN c \ others) : c \in {r.columns : r \in X}}
    OBVIOUS
  <2>2. UNION {cells(r.columns, AmountColumns) : r \in X}
          = UNION {cells(c, AmountColumns) : c \in {r.columns : r \in X}}
    OBVIOUS
  <2> QED
    BY <2>1, <2>2 DEF Told
<1> HIDE DEF T
<1> QED
  BY <1>1

\* What is in the tables of a block is what was decoded of its event.
LEMMA RowsTellOf ==
  ASSUME BlocksInv, CopiesInv
  PROVE  RowsTellTheEvents
<1>1. /\ log \in Seq(ArrivedBlocks) /\ Len(log) \in Nat /\ DOMAIN log = 1 .. Len(log)
      /\ \A j \in 1 .. Len(log) : Chain[j] = log[j]
  BY ChainIs DEF BlocksInv, Chain
<1>2. DOMAIN tables = RowsOver(log, 1, Len(log))
  BY <1>1, FirstRowsSame DEF BlocksInv
<1>3. ASSUME NEW r \in DOMAIN tables
      PROVE  tables[r] = 1 /\ r.id \in DOMAIN log /\ r.timestamp = TimeOf(r.id)
  <2>1. PICK i \in 1 .. Len(log) : r \in RowsAt(log, i)
    BY <1>2 DEF RowsOver
  <2>2. r.id = i /\ r.timestamp = TimeOf(i)
    BY <1>1, <2>1, RowFacts
  <2> QED
    BY <1>1, <2>2 DEF CopiesInv, OnceEach
<1>4. ASSUME NEW h \in DOMAIN log
      PROVE  \/ Told(EventRows(h)) = Says(log[h].got)
             \/ EventRows(h) = {} /\ ~Complete(log[h].sent, log[h].got)
  <2> DEFINE rows == RowsOfEvent(log[h].got)
  <2>1. /\ log[h].sent \in ThorEvents \cup OtherEvents /\ log[h].got \in Arrivals(log[h].sent)
        /\ h \in 1 .. Len(log)
    BY <1>1, BlockIs
  <2>2. EventRows(h) = StampedAt(log, h)
    <3>1. ASSUME NEW r \in EventRows(h) PROVE r \in StampedAt(log, h)
      <4>1. PICK i \in 1 .. Len(log) : r \in RowsAt(log, i)
        BY <1>2, <3>1 DEF EventRows, RowsOver
      <4>2. r.id = h /\ r.table # "block_pool_depths"
        BY <3>1 DEF EventRows
      <4>3. i = h /\ r \in StampedAt(log, i)
        BY <1>1, <4>1, <4>2, RowFacts
      <4> QED
        BY <4>3
    <3>2. ASSUME NEW r \in StampedAt(log, h) PROVE r \in EventRows(h)
      <4>1. r \in RowsAt(log, h)
        BY DEF RowsAt
      <4>2. r \in DOMAIN tables
        BY <1>2, <2>1, <4>1 DEF RowsOver
      <4>3. r.id = h /\ r.table # "block_pool_depths"
        BY <1>1, <2>1, <4>1, RowFacts
      <4> QED
        BY <4>2, <4>3 DEF EventRows
    <3> QED
      BY <3>1, <3>2
  <2>3. \/ Told(ToSet(rows)) = Says(log[h].got)
        \/ rows = <<>> /\ ~Complete(log[h].sent, log[h].got)
    BY <2>1, EventsAreDecoded DEF EventsDecoded
  <2>4. {r.columns : r \in StampedAt(log, h)} = {q.columns : q \in ToSet(rows)}
    <3>1. \A q : Stamp(q, h).columns = q.columns
      BY StampIs
    <3>2. StampedAt(log, h) = {Stamp(q, h) : q \in ToSet(rows)}
      BY DEF StampedAt, ToSet
    <3> QED
      BY <3>1, <3>2
  <2>5. Told(StampedAt(log, h)) = Told(ToSet(rows))
    BY <2>4, ColumnsTell
  <2>6. CASE rows = <<>>
    <3>1. DOMAIN rows = {}
      BY <2>6
    <3>2. StampedAt(log, h) = {}
      BY <3>1 DEF StampedAt
    <3> QED
      BY <2>2, <2>3, <2>5, <3>2
  <2> QED
    BY <2>2, <2>3, <2>5, <2>6
<1> QED
  BY <1>3, <1>4 DEF RowsTellTheEvents

\* On every history of arrivals, writes, deaths and removals the tables tell the
\* events of the blocks in the database, each row once, and of no other, and the
\* depths are their sums (pipeline.rs:191-201, block_log.rs:145).
THEOREM TablesTellAlways == BlocksSpec => []TablesTellTheBlocks
<1>1. BlocksInv /\ CopiesInv => RowsTellTheEvents
  BY RowsTellOf
<1>2. BlocksSpec => []CopiesInv
  BY CopiesInvariant
<1>3. DepthsTellTheBlocks /\ RowsTellTheEvents => TablesTellTheBlocks
  BY DEF TablesTellTheBlocks
<1> QED
  BY <1>1, <1>2, <1>3, BlocksInvariant, DepthsTellAlways, PTL

------------------------------------------------------------------------------
(* The parts together *)

\* The parts move as if each were on its own.
LEMMA PartsStart ==
  RecorderInit => Init /\ PoolInit /\ FetchInit /\ BlocksInit /\ ConfigInit
BY DEF RecorderInit, NumberingRest, FetchRest, ConfigRest

LEMMA PartsMove ==
  [RecorderNext]_recorderVars =>
    [Next]_vars /\ [PoolNext]_poolVars /\ [FetchNext]_fetchVars /\ [BlocksNext]_recordVars
      /\ [ConfigNext]_configVars
<1>1. CASE NumberingStep
  BY <1>1 DEF NumberingStep
<1>2. CASE PoolStep
  BY <1>2 DEF PoolStep
<1>3. CASE FetchStep
  BY <1>3 DEF FetchStep
<1>4. CASE BlocksStep
  BY <1>4 DEF BlocksStep
<1>5. CASE ConfigStep
  BY <1>5 DEF ConfigStep
<1>6. CASE UNCHANGED recorderVars
  BY <1>6 DEF recorderVars
<1> QED
  BY <1>1, <1>2, <1>3, <1>4, <1>5, <1>6 DEF RecorderNext

\* The recorder is its five parts: what holds of one of them holds of it.
THEOREM RecorderIsItsParts ==
  RecorderSpec => Spec /\ PoolSpec /\ FetchSpec /\ BlocksSpec /\ ConfigSpec
BY PartsStart, PartsMove, PTL DEF RecorderSpec, Spec, PoolSpec, FetchSpec, BlocksSpec, ConfigSpec

\* The loops of the numbering stay within the block, whether or not its events are
\* within the budget of the ids.
LEMMA PlacesStart == Init => TypeOK
<1> SUFFICES ASSUME Init PROVE TypeOK
  OBVIOUS
<1>1. Len(finalize) \in 0 .. MaxFinalize
  BY FinalizeLength DEF Init
<1>2. last \in Ids /\ last.height = FirstHeight
  BY IdFacts, NumberingAssumption DEF Init
<1> QED
  BY <1>1, <1>2, NumberingAssumption DEF Init, TypeOK

LEMMA PlacesKeep == TypeOK /\ [Next]_vars => TypeOK'
<1> SUFFICES ASSUME TypeOK, [Next]_vars PROVE TypeOK'
  OBVIOUS
<1>1. /\ height \in FirstHeight .. MaxHeight /\ height \in Nat /\ FirstHeight \in Nat /\ MaxHeight \in Nat
      /\ Len(finalize) \in Nat /\ tx \in 0 .. MaxTxs /\ MaxTxs \in Nat /\ MaxTxEvents \in Nat
      /\ index \in Nat /\ finalize \in FinalizeLists
      /\ last \in Ids /\ last.height \in FirstHeight .. height
  BY FinalizeLength, NumberingAssumption DEF TypeOK
<1>2. ASSUME NEW t \in Nat, NEW i \in Nat
      PROVE  \A id \in {BeginBlock(height, i), TxEvent(height, t, i), EndBlock(height, i)} :
               id \in Ids /\ id.height = height
  <2>1. height \in Nat
    BY <1>1
  <2>2. /\ {BeginBlock(height, i), TxEvent(height, t, i), EndBlock(height, i)} \in SUBSET Ids
        /\ \A id \in {BeginBlock(height, i), TxEvent(height, t, i), EndBlock(height, i)} : id.height = height
    BY <2>1, IdFacts
  <2> QED
    BY <2>2
<1>3. CASE BeginEvent
  <2>1. last' = last \/ last' = BeginBlock(height, index + 1)
    BY <1>3 DEF BeginEvent
  <2>2. last' \in Ids /\ last'.height \in FirstHeight .. height
    BY <1>1, <1>2, <2>1
  <2>3. phase = "begin" /\ index < Len(finalize) /\ index' = index + 1
        /\ UNCHANGED <<height, finalize, phase, tx>>
    BY <1>3 DEF BeginEvent
  <2> QED
    BY <1>1, <2>2, <2>3 DEF TypeOK
<1>4. CASE EndEvent
  <2>1. last' = last \/ last' = EndBlock(height, index + 1)
    BY <1>4 DEF EndEvent
  <2>2. last' \in Ids /\ last'.height \in FirstHeight .. height
    BY <1>1, <1>2, <2>1
  <2>3. phase = "end" /\ index < Len(finalize) /\ index' = index + 1
        /\ UNCHANGED <<height, finalize, phase, tx>>
    BY <1>4 DEF EndEvent
  <2> QED
    BY <1>1, <2>2, <2>3 DEF TypeOK
<1>5. CASE NumberTxEvent
  <2>1. last' = TxEvent(height, tx + 1, index + 1) /\ tx + 1 \in Nat /\ index + 1 \in Nat
    BY <1>1, <1>5 DEF NumberTxEvent
  <2>2. last' \in Ids /\ last'.height \in FirstHeight .. height
    BY <1>1, <1>2, <2>1
  <2>3. phase = "txs" /\ index < MaxTxEvents /\ index' = index + 1
        /\ UNCHANGED <<height, finalize, phase, tx>>
    BY <1>5 DEF NumberTxEvent
  <2> QED
    BY <1>1, <2>2, <2>3 DEF TypeOK
<1>6. CASE EnterTxs
  BY <1>1, <1>6 DEF EnterTxs, TypeOK
<1>7. CASE NextTx
  BY <1>1, <1>7 DEF NextTx, TypeOK
<1>8. CASE EnterEnd
  BY <1>1, <1>8 DEF EnterEnd, TypeOK
<1>9. CASE NextBlock
  <2>1. Len(finalize') \in Nat
    BY <1>9, FinalizeLength DEF NextBlock
  <2> QED
    BY <1>1, <1>9, <2>1 DEF NextBlock, TypeOK
<1>10. CASE UNCHANGED vars
  BY <1>10 DEF vars, TypeOK
<1> QED
  BY <1>3, <1>4, <1>5, <1>6, <1>7, <1>8, <1>9, <1>10 DEF Next

\* What the calls of a range were answered, and that a chunk is put together from
\* answers.
FetchInv ==
  /\ FetchTypeOK
  /\ \A i \in ChunkIds : DOMAIN calls[i] = Methods

LEMMA HeightOfEntry ==
  ASSUME count \in Nat \ {0}, NEW i \in ChunkIds, NEW entry \in [id : Positions, wrong : BOOLEAN]
  PROVE  EntryHeight(i, entry) \in AnswerHeights
<1>1. /\ Chunks \in Nat \ {0} /\ PerChunk \in Nat \ {0}
      /\ Chunks * PerChunk = count
  BY ChunksMakeUpTheRange
<1>2. i \in Nat /\ i + 1 <= Chunks /\ entry.id \in Nat /\ entry.id + 1 <= PerChunk
  BY <1>1 DEF ChunkIds, Positions
<1>3. i * PerChunk \in Nat /\ (i + 1) * PerChunk = i * PerChunk + PerChunk
      /\ (i + 1) * PerChunk <= Chunks * PerChunk
  BY <1>1, <1>2, ProductGrows
<1>4. Requested(i, entry.id) \in Nat /\ From <= Requested(i, entry.id)
      /\ Requested(i, entry.id) + 1 <= From + count
  BY <1>1, <1>2, <1>3, RangeAssumption DEF Requested
<1> QED
  BY <1>4, RangeAssumption DEF EntryHeight, AnswerHeights

LEMMA FetchStarts == FetchInit => FetchInv
BY DEF FetchInit, FetchInv, FetchTypeOK, Methods

LEMMA FetchKeeps == FetchInv /\ [FetchNext]_fetchVars => FetchInv'
<1> SUFFICES ASSUME FetchInv, [FetchNext]_fetchVars PROVE FetchInv'
  OBVIOUS
<1>1. UNCHANGED count
  BY DEF FetchNext, fetchVars, Answer, Fail, Assemble, Join
<1>2. /\ ChunkIds' = ChunkIds /\ Positions' = Positions
      /\ AnswerHeights' = AnswerHeights
  BY <1>1 DEF ChunkIds, Chunks, Positions, PerChunk, AnswerHeights
<1>3. /\ count \in Nat \ {0} /\ count \in Counts /\ honest \in BOOLEAN
      /\ DOMAIN calls = ChunkIds /\ DOMAIN parts = ChunkIds
      /\ \A i \in ChunkIds :
           /\ DOMAIN calls[i] = Methods
           /\ \A m \in Methods : calls[i][m] = Pending \/ calls[i][m] \in [Positions -> AnswerHeights]
           /\ parts[i] # Pending => \A m \in Methods : calls[i][m] # Pending
  BY RangeAssumption DEF FetchInv, FetchTypeOK
<1>4. ASSUME NEW i \in ChunkIds, NEW m \in Methods, Answer(i, m) PROVE FetchInv'
  <2>1. PICK entries \in Entries(i) :
          /\ honest' = (honest /\ Usable(entries) /\ \A j \in Positions : ~entries[j].wrong)
          /\ \/ Usable(entries) /\ calls' = [calls EXCEPT ![i][m] = ById(i, entries)]
             \/ UNCHANGED calls
    BY <1>4 DEF Answer
  <2>2. honest' \in BOOLEAN
    BY <2>1
  <2>3. parts' = parts /\ calls[i][m] = Pending
    BY <1>4 DEF Answer
  <2>4. ASSUME Usable(entries) PROVE ById(i, entries) \in [Positions -> AnswerHeights]
    <3>1. ASSUME NEW j \in Positions
          PROVE  EntryHeight(i, entries[CHOOSE k \in Positions : entries[k].id = j]) \in AnswerHeights
      <4>1. (CHOOSE k \in Positions : entries[k].id = j) \in Positions
        BY <2>4 DEF Usable
      <4>2. entries[CHOOSE k \in Positions : entries[k].id = j] \in [id : Positions, wrong : BOOLEAN]
        BY <4>1 DEF Entries
      <4> QED
        BY <1>3, <4>2, HeightOfEntry
    <3> QED
      BY <3>1 DEF ById
  <2>5. CASE UNCHANGED calls
    BY <1>1, <1>2, <1>3, <2>2, <2>3, <2>5 DEF FetchInv, FetchTypeOK
  <2>6. CASE Usable(entries) /\ calls' = [calls EXCEPT ![i][m] = ById(i, entries)]
    <3>1. DOMAIN calls' = ChunkIds /\ \A k \in ChunkIds : DOMAIN calls'[k] = Methods
      BY <1>3, <2>6
    <3>2. \A k \in ChunkIds, a \in Methods :
            calls'[k][a] = IF k = i /\ a = m THEN ById(i, entries) ELSE calls[k][a]
      BY <1>3, <2>6
    <3>3. \A k \in ChunkIds, a \in Methods :
            calls'[k][a] = Pending \/ calls'[k][a] \in [Positions -> AnswerHeights]
      BY <1>3, <2>4, <2>6, <3>2
    <3>4. \A k \in ChunkIds : parts'[k] # Pending => \A a \in Methods : calls'[k][a] # Pending
      BY <1>3, <2>3, <3>2
    <3> QED
      BY <1>1, <1>2, <1>3, <2>2, <2>3, <3>1, <3>3, <3>4 DEF FetchInv, FetchTypeOK
  <2> QED
    BY <2>1, <2>5, <2>6
<1>5. ASSUME NEW i \in ChunkIds, NEW m \in Methods, Fail(i, m) PROVE FetchInv'
  BY <1>1, <1>2, <1>3, <1>5 DEF Fail, FetchInv, FetchTypeOK
<1>6. ASSUME NEW i \in ChunkIds, Assemble(i) PROVE FetchInv'
  <2>1. /\ UNCHANGED <<calls, honest>> /\ DOMAIN parts' = ChunkIds
        /\ \A m \in Methods : calls[i][m] # Pending
        /\ \A k \in ChunkIds : k # i => parts'[k] = parts[k]
    BY <1>3, <1>6 DEF Assemble
  <2>2. \A k \in ChunkIds : parts'[k] # Pending => \A m \in Methods : calls[k][m] # Pending
    BY <1>3, <2>1
  <2> QED
    BY <1>1, <1>2, <1>3, <2>1, <2>2 DEF FetchInv, FetchTypeOK
<1>7. CASE Join
  BY <1>1, <1>2, <1>3, <1>7 DEF Join, FetchInv, FetchTypeOK
<1>8. CASE UNCHANGED fetchVars
  BY <1>1, <1>2, <1>3, <1>8 DEF fetchVars, FetchInv, FetchTypeOK
<1> QED
  BY <1>4, <1>5, <1>6, <1>7, <1>8 DEF FetchNext

\* What is added to a bag, counted.
LEMMA BagOfNone == IsABag(EmptyBag)
BY DEF IsABag, EmptyBag, SetToBag

LEMMA BagOfSet == ASSUME NEW S PROVE IsABag(SetToBag(S))
BY DEF IsABag, SetToBag

LEMMA BagsAdded == ASSUME NEW a, NEW b, IsABag(a), IsABag(b) PROVE IsABag(a (+) b)
BY DEF IsABag, (+)

LEMMA BagOfList == ASSUME NEW n \in Nat, NEW s, DOMAIN s = 1 .. n PROVE IsABag(ToBag(s))
<1>1. ASSUME NEW x \in DOMAIN ToBag(s) PROVE ToBag(s)[x] \in Nat /\ ToBag(s)[x] > 0
  <2> DEFINE at == {i \in DOMAIN s : s[i] = x}
  <2>1. PICK j \in DOMAIN s : s[j] = x
    BY DEF ToBag, Range
  <2>2. IsFiniteSet(at)
    <3>1. IsFiniteSet(1 .. n)
      BY FS_Interval
    <3> QED
      BY <3>1, FS_Subset
  <2>3. at # {}
    BY <2>1
  <2>4. ToBag(s)[x] = Cardinality(at)
    BY DEF ToBag, Range
  <2> HIDE DEF at
  <2> QED
    BY <2>2, <2>3, <2>4, FS_EmptySet, FS_CardinalityType
<1>2. ToBag(s) = [x \in DOMAIN ToBag(s) |-> ToBag(s)[x]]
  BY DEF ToBag
<1> QED
  BY <1>1, <1>2 DEF IsABag

\* How many blocks there are, and that rows are counted.
BagsInv ==
  /\ Len(log) + Len(batch) <= MaxBlocks
  /\ IsABag(tables) /\ IsABag(pending)
  /\ batch = <<>> => pending = EmptyBag

LEMMA BagsStart == BlocksInit => BagsInv
BY BagOfNone, BlocksAssumption DEF BlocksInit, BagsInv

LEMMA BagsAdd == BlocksInv /\ BagsInv /\ AddBlock => BagsInv'
<1> SUFFICES ASSUME BlocksInv, BagsInv, AddBlock PROVE BagsInv'
  OBVIOUS
<1> DEFINE n == Len(log) + Len(batch)
<1>1. PICK sent \in ThorEvents \cup OtherEvents : \E got \in Arrivals(sent) :
        LET rows == RowsOfEvent(got)
            moves == MovesOfEvent(got)
        IN  /\ batch' = Append(batch, [sent |-> sent, got |-> got])
            /\ pending' = pending
                 (+) ToBag([i \in DOMAIN rows |-> Stamp(rows[i], n + 1)])
                 (+) SetToBag({Stamp(DepthRow(k, tracker'[k]), n + 1) : k \in DOMAIN moves})
  BY DEF AddBlock
<1>2. PICK got \in Arrivals(sent) :
        /\ batch' = Append(batch, [sent |-> sent, got |-> got])
        /\ pending' = pending
             (+) ToBag([i \in DOMAIN RowsOfEvent(got) |-> Stamp(RowsOfEvent(got)[i], n + 1)])
             (+) SetToBag({Stamp(DepthRow(k, tracker'[k]), n + 1) : k \in DOMAIN MovesOfEvent(got)})
  BY <1>1
<1>3. n + 1 <= MaxBlocks /\ log' = log /\ tables' = tables
  BY DEF AddBlock
<1>4. PICK m \in Nat : DOMAIN RowsOfEvent(got) = 1 .. m
  BY RowsOfArrival DEF InEventTables, IsList
<1>5. IsABag(pending')
  <2> DEFINE stamped == [i \in DOMAIN RowsOfEvent(got) |-> Stamp(RowsOfEvent(got)[i], n + 1)]
             depths == {Stamp(DepthRow(k, tracker'[k]), n + 1) : k \in DOMAIN MovesOfEvent(got)}
  <2>1. pending' = pending (+) ToBag(stamped) (+) SetToBag(depths) /\ DOMAIN stamped = 1 .. m
    BY <1>2, <1>4
  <2> HIDE DEF stamped, depths
  <2>2. IsABag(ToBag(stamped)) /\ IsABag(SetToBag(depths)) /\ IsABag(pending)
    BY <2>1, BagOfList, BagOfSet DEF BagsInv
  <2>3. IsABag(pending (+) ToBag(stamped))
    BY <2>2, BagsAdded
  <2> QED
    BY <2>1, <2>2, <2>3, BagsAdded
<1>6. batch \in Seq(ArrivedBlocks) /\ log \in Seq(ArrivedBlocks)
  BY DEF BlocksInv
<1>7. Len(batch') = Len(batch) + 1 /\ batch' # <<>>
  <2>1. batch' = Append(batch, [sent |-> sent, got |-> got])
    BY <1>2
  <2>2. [sent |-> sent, got |-> got] \in ArrivedBlocks
    BY NewBlock
  <2> QED
    BY <1>6, <2>1, <2>2
<1>8. Len(log') + Len(batch') <= MaxBlocks
  BY <1>3, <1>6, <1>7, BlocksAssumption
<1> QED
  BY <1>3, <1>5, <1>7, <1>8 DEF BagsInv

LEMMA BagsKeep == BlocksInv /\ BagsInv /\ [BlocksNext]_recordVars => BagsInv'
<1> SUFFICES ASSUME BlocksInv, BagsInv, [BlocksNext]_recordVars PROVE BagsInv'
  OBVIOUS
<1>1. log \in Seq(ArrivedBlocks) /\ batch \in Seq(ArrivedBlocks) /\ Len(<<>>) = 0
  BY DEF BlocksInv
<1>2. CASE WriteBatch
  <2>1. /\ tables' = tables (+) pending /\ log' = log \o batch
        /\ batch' = <<>> /\ pending' = EmptyBag
    BY <1>2 DEF WriteBatch
  <2>2. Len(log') + Len(batch') <= MaxBlocks
    BY <1>1, <2>1, ChainIs DEF BagsInv
  <2> QED
    BY <2>1, <2>2, BagOfNone, BagsAdded DEF BagsInv
<1>3. CASE Restart
  <2>1. UNCHANGED <<log, tables>> /\ batch' = <<>> /\ pending' = EmptyBag
    BY <1>3 DEF Restart
  <2>2. Len(log') + Len(batch') <= MaxBlocks
    BY <1>1, <2>1, BlocksAssumption DEF BagsInv
  <2> QED
    BY <2>1, <2>2, BagOfNone DEF BagsInv
<1>4. ASSUME NEW cut \in DOMAIN log, DeleteFromHeight(cut) PROVE BagsInv'
  <2>1. /\ \E left \in SUBSET DOMAIN tables : tables' = [r \in left |-> tables[r]]
        /\ log' = SubSeq(log, 1, cut - 1) /\ UNCHANGED <<batch, pending>>
    BY <1>4 DEF DeleteFromHeight
  <2>2. IsABag(tables')
    BY <2>1 DEF BagsInv, IsABag
  <2>3. Len(log') <= Len(log) /\ Len(log') \in Nat
    BY <1>1, <2>1, PrefixIs
  <2>4. Len(log') + Len(batch') <= MaxBlocks
    BY <1>1, <2>1, <2>3, BlocksAssumption DEF BagsInv
  <2> QED
    BY <2>1, <2>2, <2>4 DEF BagsInv
<1>5. CASE UNCHANGED recordVars
  BY <1>5 DEF recordVars, BagsInv
<1> QED
  BY <1>2, <1>3, <1>4, <1>5, BagsAdd DEF BlocksNext

LEMMA BlocksTyped == BlocksInv /\ BagsInv => BlocksTypeOK
<1> SUFFICES ASSUME BlocksInv, BagsInv PROVE BlocksTypeOK
  OBVIOUS
<1>1. ASSUME NEW r \in DOMAIN tables PROVE r.table \in RollbackTables
  <2>1. /\ Chain \in Seq(ArrivedBlocks) /\ Len(log) <= Len(Chain)
        /\ Len(log) \in Nat /\ Len(Chain) \in Nat
    BY ChainIs DEF BlocksInv, Chain
  <2>2. PICK i \in 1 .. Len(log) : r \in RowsAt(Chain, i)
    BY DEF BlocksInv, RowsOver
  <2>3. i \in 1 .. Len(Chain)
    BY <2>1
  <2> QED
    BY <2>1, <2>2, <2>3, RowFacts
<1> QED
  BY <1>1 DEF BlocksTypeOK, BagsInv

\* Whatever the constants, every variable of the recorder keeps its type: the loops of the
\* numbering are at places of their block, the tables have rows of declared tables only,
\* each as often as it was written, and a chunk is assembled from answers.
THEOREM RecorderTypes == RecorderSpec => []RecorderTypeOK
<1>1. Spec => []TypeOK
  BY PlacesStart, PlacesKeep, PTL DEF Spec
<1>2. FetchSpec => []FetchTypeOK
  <2>1. FetchInv => FetchTypeOK
    BY DEF FetchInv
  <2> QED
    BY <2>1, FetchStarts, FetchKeeps, PTL DEF FetchSpec
<1>3. BlocksSpec => []BlocksTypeOK
  BY BlocksInvariant, BagsStart, BagsKeep, BlocksTyped, PTL DEF BlocksSpec
<1>4. TypeOK /\ PoolTypeOK /\ FetchTypeOK /\ BlocksTypeOK => RecorderTypeOK
  BY DEF RecorderTypeOK
<1> QED
  BY <1>1, <1>2, <1>3, <1>4, PoolTypesHold, RecorderIsItsParts, PTL

=============================================================================
