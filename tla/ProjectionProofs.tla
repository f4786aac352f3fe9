--------------------------- MODULE ProjectionProofs --------------------------
(***************************************************************************)
(* Proofs for a database whose flushes tell the truth: no transaction is   *)
(* rolled back or committed behind the writer's back (MaxDbErrors = 0),    *)
(* and one INSERT carries a configured batch (CommitBatch <= InsertLimit). *)
(* Crashes, signals, shutdown timeouts and failing fetches are unlimited.  *)
(* The depths are absolute when the replay starts at block 1               *)
(* (FirstHeight = 1).                                                      *)
(***************************************************************************)
EXTENDS SyncerProofs

\* Every row exists once, and the next block to fetch is not taken in yet.
ExactInv ==
  /\ \A h \in Heights : events[h] = IF h \in Buffered THEN 1 ELSE 0
  /\ \A h \in Heights : eventRows[h] = IF h \in blockLog THEN 1 ELSE 0
  /\ Buffered \cap blockLog = {}
  /\ BetweenBlocks => FirstToFetch \notin blockLog \cup Buffered
  /\ pc = "stopped" => blocks = <<>>
  /\ Len(blocks) <= CommitBatch

\* The depth rows, committed and buffered, and the tracker are the true depths.
IsTrueRow(r) ==
  /\ r.at \in Heights
  /\ r.pool \in Touched[r.at]
  /\ r.depth = TrueDepth(r.pool, r.at)

DepthInv ==
  /\ pc # "seed"
  /\ \A r \in depthRows \cup depths : IsTrueRow(r)
  /\ Running => \E m \in 0 .. MaxTip :
       /\ blockLog \cup Buffered = FirstHeight .. m
       /\ tracker = [p \in Pools |-> TrueDepth(p, m)]

\* No flush fails: there is no fault left, and the batch fits one INSERT.
LEMMA NoFlushFails ==
  ASSUME MaxDbErrors = 0, CommitBatch <= InsertLimit, TypeOK, ExactInv
  PROVE  ~FlushFails
<1>1. Len(blocks) \in Nat /\ Len(blocks) <= CommitBatch
  BY DEF TypeOK, ExactInv
<1>2. FitsOneInsert
  BY <1>1, CommitBatchAssumption, InsertLimitAssumption DEF FitsOneInsert
<1> QED BY <1>2 DEF TypeOK, FlushFails

\* A committed batch: no block of it was in the database before.
LEMMA TransactExact ==
  ASSUME TypeOK, ExactInv, Transact
  PROVE  /\ blockLog' = blockLog \cup Buffered
         /\ \A h \in Heights : eventRows'[h] = IF h \in blockLog' THEN 1 ELSE 0
<1>1. blockLog' = blockLog \cup Buffered
  BY DEF Transact, WriteDepths, WriteEvents, WriteBlocks, Buffered
<1>2. ASSUME NEW h \in Heights
      PROVE  eventRows'[h] = IF h \in blockLog' THEN 1 ELSE 0
  <2>1. eventRows'[h] = eventRows[h] + events[h]
    BY DEF Transact, WriteDepths, WriteEvents, WriteBlocks
  <2>2. ~(h \in Buffered /\ h \in blockLog)
    BY DEF ExactInv
  <2> QED BY <1>1, <2>1, <2>2 DEF ExactInv
<1> QED BY <1>1, <1>2

LEMMA ExactStep ==
  ASSUME MaxDbErrors = 0, CommitBatch <= InsertLimit, SafetyInv, ExactInv, [Next]_vars
  PROVE  ExactInv'
<1> USE DEF Restarting, BetweenBlocks, Writing
<1>a. TypeOK /\ HoldsBlock
  BY DEF SafetyInv, TypeInv
<1>0. PICK n \in 0 .. MaxTip, m \in 0 .. MaxTip : Ends(n, m) /\ BatchInv(n, m)
  BY DEF SafetyInv, LogInv
<1>b. /\ FirstToFetch \in Nat /\ FirstHeight <= FirstToFetch /\ n \in Nat /\ m \in Nat
      /\ blockLog \cup Buffered = FirstHeight .. m
  BY <1>0, <1>a, FirstToFetchType, Parameters DEF Ends
<1> DEFINE Kept == UNCHANGED <<blocks, events, blockLog, eventRows, cursorLast>>
<1>c. ASSUME Kept, BetweenBlocks' => BetweenBlocks, pc' = "stopped" => pc = "stopped"
      PROVE  ExactInv'
  BY <1>c DEF ExactInv, Buffered, FirstToFetch, NextHeight
<1>1. CASE StartUp
  BY <1>1 DEF StartUp, dbVars, writerVars, ExactInv, Buffered
<1>2. CASE Seed
  BY <1>2 DEF Seed, writerVars, ExactInv, Buffered
<1>3. CASE RestoreDepths
  <2>1. Kept /\ pc = "restore" /\ pc' = "loop"
    BY <1>3 DEF RestoreDepths, Restore, bufferVars, dbVars, cursorVars
  <2>2. m = FirstToFetch - 1
    BY <1>0, <2>1 DEF BatchInv
  <2>3. FirstToFetch \notin blockLog \cup Buffered
    BY <1>b, <2>2, Parameters
  <2> QED BY <2>1, <2>3 DEF ExactInv, Buffered, FirstToFetch, NextHeight
<1>4. CASE Step \/ Wake \/ NextBlock \/ EndRange \/ FetchErr \/ DropBlock \/ LeaveLoop
  <2>1. Kept /\ BetweenBlocks /\ pc' # "stopped"
    BY <1>4 DEF Step, Wake, NextBlock, EndRange, FetchErr, DropBlock, LeaveLoop, dbVars,
                writerVars, cursorVars
  <2> QED BY <1>c, <2>1
<1>5. CASE Add
  <2>1. /\ pc = "add" /\ block \in Heights /\ Buffer(block)
        /\ pc' \in {"flushAdd", "observe", "flush"}
        /\ blockLog' = blockLog /\ eventRows' = eventRows
    BY <1>5, <1>a DEF Add, HoldsBlock, dbVars
  <2>2. block \notin blockLog \cup Buffered
    BY <1>0, <2>1 DEF BatchInv, ExactInv
  <2>3. Buffered' = Buffered \cup {block}
    BY <1>a, <2>1, RangeOfAppend DEF Buffered, Buffer, TypeOK
  <2>4. events' = [events EXCEPT ![block] = @ + 1] /\ events \in [Heights -> Nat]
    BY <1>a, <2>1 DEF Buffer, TypeOK
  <2>5. ASSUME NEW h \in Heights
        PROVE  events'[h] = IF h \in Buffered' THEN 1 ELSE 0
    BY <2>1, <2>2, <2>3, <2>4 DEF ExactInv
  <2>6. Len(blocks') <= CommitBatch
    <3>1. m = FirstToFetch - 1 /\ Len(blocks) < CommitBatch
      <4>1. FirstToFetch \notin FirstHeight .. m
        BY <1>b, <2>1 DEF ExactInv
      <4>2. m \in {FirstToFetch - 1, FirstToFetch}
        BY <1>0, <2>1 DEF BatchInv
      <4> QED BY <1>0, <1>b, <2>1, <4>1, <4>2, Parameters DEF BatchInv
    <3>2. Len(blocks') = Len(blocks) + 1 /\ Len(blocks) \in Nat
      BY <1>a, <2>1 DEF Buffer, TypeOK
    <3> QED BY <3>1, <3>2, Parameters
  <2> QED BY <2>1, <2>2, <2>3, <2>5, <2>6 DEF ExactInv
<1>6. CASE Flush
  <2>1. /\ Transact /\ blocks' = <<>> /\ events' = NoEvents /\ FirstToFetch' = FirstToFetch
    BY <1>6 DEF Flush, FlushOk, ClearBuffers, cursorVars, FirstToFetch, NextHeight
  <2>2. Buffered' = {}
    BY <2>1, RangeOfEmpty DEF Buffered
  <2>3. (pc' = "stopped" /\ pc = "lastFlush") \/ pc' \in {"flush", "observe"}
    BY <1>6 DEF Flush
  <2>4. Len(blocks') <= CommitBatch
    BY <2>1, Parameters
  <2> QED BY <1>a, <2>1, <2>2, <2>3, <2>4, TransactExact DEF ExactInv, NoEvents
<1>7. CASE ObserveBlock
  <2>1. /\ pc = "observe" /\ pc' = "next" /\ cursorLast' = block
        /\ UNCHANGED <<blocks, events, blockLog, eventRows>>
    BY <1>7 DEF ObserveBlock, Observe, dbVars, writerVars
  <2>2. m = block /\ block = FirstToFetch
    BY <1>0, <2>1 DEF BatchInv
  <2>3. FirstToFetch' = block + 1
    BY <1>b, <2>1, <2>2, Parameters DEF FirstToFetch, NextHeight
  <2>4. FirstToFetch' \notin blockLog \cup Buffered
    BY <1>b, <2>2, <2>3, Parameters
  <2> QED BY <2>1, <2>4 DEF ExactInv, Buffered
<1>8. CASE Exit \/ ShutdownTimeout \/ Crash
  <2>1. Die
    BY <1>8 DEF Exit, ShutdownTimeout, Crash
  <2>2. Buffered' = {} /\ pc' = "down" /\ events' = NoEvents /\ UNCHANGED <<blockLog, eventRows>>
    BY <2>1, RangeOfEmpty DEF Die, dbVars, Buffered
  <2>3. Len(blocks') <= CommitBatch
    BY <2>1, Parameters DEF Die
  <2> QED BY <2>2, <2>3 DEF ExactInv, NoEvents
<1>9. CASE NewBlock \/ Signal \/ UNCHANGED vars
  <2>1. Kept /\ pc' = pc
    BY <1>9 DEF NewBlock, Signal, vars, dbVars, writerVars, cursorVars
  <2> QED BY <1>c, <2>1
<1> QED
  BY <1>1, <1>2, <1>3, <1>4, <1>5, <1>6, <1>7, <1>8, <1>9, <1>a, NoFlushFails
  DEF Next, Daemon, Faults

LEMMA InitExact == Init => ExactInv
BY RangeOfEmpty, Parameters
   DEF Init, DatabaseInit, WriterInit, ExactInv, Buffered, NoEvents, BetweenBlocks

LEMMA ExactHolds ==
  ASSUME MaxDbErrors = 0, CommitBatch <= InsertLimit
  PROVE  Spec => []ExactInv
<1>1. SafetyInv /\ ExactInv /\ [Next]_vars => ExactInv'
  BY ExactStep
<1> QED BY <1>1, InitExact, SafetyHolds, PTL DEF Spec

\* As long as flushes tell the truth, no block's event rows are written twice,
\* whatever crashes, timeouts and restarts there are.
THEOREM EventsExactlyOnce ==
  ASSUME MaxDbErrors = 0, CommitBatch <= InsertLimit
  PROVE  Spec => []ExactlyOnce
<1>1. SafetyInv /\ ExactInv => ExactlyOnce
  BY DEF SafetyInv, TypeInv, TypeOK, ExactInv, ExactlyOnce
<1> QED BY <1>1, ExactHolds, SafetyHolds, PTL

\* A shutdown that runs to its end commits all the cursor announced.
THEOREM CleanStopIsClean ==
  ASSUME MaxDbErrors = 0, CommitBatch <= InsertLimit
  PROVE  Spec => []CleanStopKeepsBatch
<1>1. SafetyInv /\ NothingSkipped /\ ExactInv => CleanStopKeepsBatch
  BY RangeOfEmpty DEF ExactInv, CleanStopKeepsBatch, NothingSkipped, Buffered
<1> QED BY <1>1, ExactHolds, SafetyHolds, CursorSkipsNothing, PTL

------------------------------------------------------------------------------
\* Depths.

\* Adding block b to the true depths before it gives the true depths after it.
LEMMA AppliedTrue ==
  ASSUME NEW b \in Heights, tracker = [p \in Pools |-> TrueDepth(p, b - 1)]
  PROVE  Applied(b) = [p \in Pools |-> TrueDepth(p, b)]
<1>0. b \in Int /\ Heights \subseteq Int
  BY MaxTipAssumption DEF Heights
<1>1. ASSUME NEW p \in Pools, p \in Touched[b]
      PROVE  Plus(TrueDepth(p, b - 1), b) = TrueDepth(p, b)
  <2>1. TrueDepth(p, b - 1)[b] = 0
    BY <1>0 DEF TrueDepth
  <2>2. ASSUME NEW k \in Heights
        PROVE  Plus(TrueDepth(p, b - 1), b)[k] = TrueDepth(p, b)[k]
    BY <1>0, <1>1, <2>1 DEF Plus, TrueDepth
  <2> QED BY <2>2 DEF Plus, TrueDepth
<1>2. ASSUME NEW p \in Pools, p \notin Touched[b]
      PROVE  TrueDepth(p, b - 1) = TrueDepth(p, b)
  <2>1. ASSUME NEW k \in Heights
        PROVE  (k <= b - 1 /\ p \in Touched[k]) <=> (k <= b /\ p \in Touched[k])
    BY <1>0, <1>2
  <2> QED BY <2>1 DEF TrueDepth
<1> QED BY <1>1, <1>2 DEF Applied

\* What restore reads back: the newest row of a pool holds its true depth at
\* the end of the log, because a row exists for every block that moved it.
LEMMA RestoredTrue ==
  ASSUME FirstHeight = 1, TypeOK, RowsWithTheirBlock, \A r \in depthRows : IsTrueRow(r),
         NEW n \in 0 .. MaxTip, blockLog = FirstHeight .. n, NEW p \in Pools,
         NEW d \in LatestDepths(p)
  PROVE  d = TrueDepth(p, n)
<1>0. n \in Int /\ Heights \subseteq Int /\ Heights = FirstHeight .. MaxTip
  BY MaxTipAssumption DEF Heights
<1>1. \A k \in Heights : (k <= n /\ p \in Touched[k]) => \E r \in RowsOf(p) : r.at = k
  BY <1>0 DEF RowsWithTheirBlock
<1>2. CASE RowsOf(p) = {}
  <2>1. d = ZeroDepth
    BY <1>2 DEF LatestDepths
  <2>2. \A k \in Heights : ~(k <= n /\ p \in Touched[k])
    BY <1>1, <1>2
  <2> QED BY <2>1, <2>2 DEF ZeroDepth, TrueDepth
<1>3. CASE RowsOf(p) # {}
  <2>1. PICK s \in RowsOf(p) : d = s.depth /\ \A q \in RowsOf(p) : q.at <= s.at
    BY <1>3 DEF LatestDepths
  <2>2. /\ s.pool = p /\ s.at \in Heights /\ p \in Touched[s.at]
        /\ s.depth = TrueDepth(p, s.at)
    BY <2>1 DEF RowsOf, IsTrueRow
  <2>3. s.at \in blockLog
    BY <1>0, <2>1, <2>2 DEF RowsWithTheirBlock
  <2>4. ASSUME NEW k \in Heights
        PROVE  (k <= n /\ p \in Touched[k]) <=> (k <= s.at /\ p \in Touched[k])
    <3>1. s.at \in Int /\ s.at <= n /\ k \in Int
      BY <1>0, <2>2, <2>3
    <3>2. (k <= n /\ p \in Touched[k]) => k <= s.at
      BY <1>1, <2>1
    <3> QED BY <1>0, <3>1, <3>2
  <2> QED BY <2>1, <2>2, <2>4 DEF TrueDepth
<1> QED BY <1>2, <1>3

LEMMA DepthStep ==
  ASSUME MaxDbErrors = 0, CommitBatch <= InsertLimit, FirstHeight = 1, SafetyInv, ExactInv,
         DepthInv, [Next]_vars
  PROVE  DepthInv'
<1> USE DEF Restarting, BetweenBlocks, Writing, Running
<1>a. TypeOK /\ HoldsBlock
  BY DEF SafetyInv, TypeInv
<1>0. PICK n \in 0 .. MaxTip, m \in 0 .. MaxTip : Ends(n, m) /\ BatchInv(n, m)
  BY DEF SafetyInv, LogInv
<1> DEFINE Kept == UNCHANGED <<blocks, depths, tracker, blockLog, depthRows>>
<1>c. ASSUME Kept, Running' => Running, pc' # "seed" PROVE DepthInv'
  BY <1>c DEF DepthInv, Buffered, IsTrueRow
<1>1. CASE StartUp
  <2>1. Kept /\ ~Running' /\ pc' # "seed"
    BY <1>1 DEF StartUp, dbVars, writerVars
  <2> QED BY <1>c, <2>1
<1>2. CASE Seed
  BY <1>2 DEF Seed, DepthInv
<1>3. CASE RestoreDepths
  <2>1. /\ pc = "restore" /\ Restore /\ pc' = "loop"
        /\ UNCHANGED <<blocks, depths, blockLog, depthRows>>
    BY <1>3 DEF RestoreDepths, Restore, bufferVars, dbVars
  <2>2. Len(blocks) = 0 /\ Buffered = {} /\ Buffered' = {}
    BY <1>0, <2>1, RangeOfEmpty DEF BatchInv, Buffered
  <2>3. blockLog = FirstHeight .. n /\ blockLog \cup Buffered = FirstHeight .. n
    BY <1>0, <2>2 DEF Ends
  <2>4. /\ tracker' \in [Pools -> UNION {LatestDepths(p) : p \in Pools}]
        /\ \A p \in Pools : tracker'[p] \in LatestDepths(p)
    BY <2>1 DEF Restore
  <2>5. \A p \in Pools : tracker'[p] = TrueDepth(p, n)
    BY <1>a, <2>3, <2>4, RestoredTrue DEF SafetyInv, DepthInv
  <2>6. tracker' = [p \in Pools |-> TrueDepth(p, n)]
    BY <2>4, <2>5
  <2>7. \A r \in depthRows' \cup depths' : IsTrueRow(r)
    BY <2>1 DEF DepthInv
  <2> QED BY <2>1, <2>2, <2>3, <2>6, <2>7 DEF DepthInv, IsTrueRow
<1>4. CASE Step \/ Wake \/ NextBlock \/ EndRange \/ FetchErr \/ DropBlock \/ LeaveLoop
           \/ ObserveBlock \/ NewBlock \/ Signal \/ UNCHANGED vars
  <2>1. Kept /\ (Running' => Running) /\ pc' # "seed"
    BY <1>4 DEF DepthInv, Step, Wake, NextBlock, EndRange, FetchErr, DropBlock, LeaveLoop, ObserveBlock,
                NewBlock, Signal, vars, dbVars, writerVars
  <2> QED BY <1>c, <2>1
<1>5. CASE Add
  <2>1. /\ pc = "add" /\ block \in Heights /\ Buffer(block) /\ pc' # "seed"
        /\ blockLog' = blockLog /\ depthRows' = depthRows
    BY <1>5, <1>a DEF Add, HoldsBlock, dbVars
  <2> PICK b \in Heights : b = block
    BY <2>1
  <2>2. PICK k \in 0 .. MaxTip :
          /\ blockLog \cup Buffered = FirstHeight .. k
          /\ tracker = [p \in Pools |-> TrueDepth(p, k)]
    BY <2>1 DEF DepthInv
  <2>3. k = b - 1
    <3>1. b = FirstToFetch /\ blockLog \cup Buffered = FirstHeight .. m /\ m \in {b - 1, b}
      BY <1>0, <2>1 DEF BatchInv, Ends
    <3>2. b \notin FirstHeight .. m
      BY <2>1, <3>1 DEF ExactInv
    <3>3. b \in Int /\ FirstHeight <= b
      BY MaxTipAssumption DEF Heights
    <3>4. m = b - 1
      BY <3>1, <3>2, <3>3, Parameters
    <3>5. 1 .. k = 1 .. m
      BY <2>2, <3>1
    <3> QED BY <3>3, <3>4, <3>5, Parameters
  <2>4. Applied(b) = [p \in Pools |-> TrueDepth(p, b)]
    BY <2>2, <2>3, AppliedTrue
  <2>5. ASSUME NEW r \in Changed(b) PROVE IsTrueRow(r)
    <3>1. PICK p \in Touched[b] : r = [pool |-> p, at |-> b, depth |-> Applied(b)[p]]
      BY DEF Changed
    <3>2. p \in Pools
      BY TouchedAssumption
    <3> QED BY <2>4, <3>1, <3>2 DEF IsTrueRow
  <2>6. \A r \in depthRows' \cup depths' : IsTrueRow(r)
    BY <2>1, <2>5 DEF Buffer, DepthInv
  <2>7. Buffered' = Buffered \cup {b}
    BY <1>a, <2>1, RangeOfAppend DEF Buffered, Buffer, TypeOK
  <2>8. blockLog' \cup Buffered' = FirstHeight .. b
    BY <2>1, <2>2, <2>3, <2>7, Parameters DEF Heights
  <2>9. tracker' = [p \in Pools |-> TrueDepth(p, b)] /\ b \in 0 .. MaxTip
    BY <2>1, <2>4, Parameters DEF Buffer, Heights
  <2> QED BY <2>1, <2>6, <2>8, <2>9 DEF DepthInv, IsTrueRow
<1>6. CASE Flush
  <2>1. /\ Transact /\ blocks' = <<>> /\ depths' = {} /\ tracker' = tracker /\ Running
        /\ pc' # "seed"
    BY <1>6 DEF Flush, FlushOk, ClearBuffers
  <2>2. blockLog' \cup Buffered' = blockLog \cup Buffered
    BY <2>1, RangeOfEmpty DEF Buffered, Transact, WriteDepths, WriteEvents, WriteBlocks
  <2>3. depthRows' \cup depths' = depthRows \cup depths
    BY <2>1 DEF Transact, WriteDepths, WriteEvents, WriteBlocks
  <2> QED BY <2>1, <2>2, <2>3 DEF DepthInv, IsTrueRow
<1>7. CASE Exit \/ ShutdownTimeout \/ Crash
  <2>1. Die
    BY <1>7 DEF Exit, ShutdownTimeout, Crash
  <2> QED BY <2>1 DEF Die, dbVars, DepthInv, IsTrueRow
<1> QED
  BY <1>1, <1>2, <1>3, <1>4, <1>5, <1>6, <1>7, <1>a, NoFlushFails DEF Next, Daemon, Faults

LEMMA InitDepth == Init => DepthInv
BY DEF Init, DatabaseInit, WriterInit, DepthInv, Running

LEMMA DepthHolds ==
  ASSUME MaxDbErrors = 0, CommitBatch <= InsertLimit, FirstHeight = 1
  PROVE  Spec => []DepthInv
<1>1. SafetyInv /\ ExactInv /\ DepthInv /\ [Next]_vars => DepthInv'
  BY DepthStep
<1> QED BY <1>1, InitDepth, ExactHolds, SafetyHolds, PTL DEF Spec

\* Every committed depth row is the sum of the blocks up to it, each once.
THEOREM DepthsAreExact ==
  ASSUME MaxDbErrors = 0, CommitBatch <= InsertLimit, FirstHeight = 1
  PROVE  Spec => []DepthsExact
<1>1. DepthInv => DepthsExact
  BY DEF DepthInv, DepthsExact, IsTrueRow
<1> QED BY <1>1, DepthHolds, PTL

\* The largest element of an interval of heights, with 0 added.
LEMMA MaxOfPrefix ==
  ASSUME NEW m \in Nat
  PROVE  Max({0} \cup 1 .. m) = m
<1>1. \A y \in {0} \cup 1 .. m : m >= y
  OBVIOUS
<1>2. m \in {0} \cup 1 .. m
  OBVIOUS
<1>3. \A x \in {0} \cup 1 .. m : (\A y \in {0} \cup 1 .. m : x >= y) => x = m
  BY <1>2
<1> QED BY <1>1, <1>2, <1>3 DEF Max

\* The depths in memory are those of the newest block, before and after every
\* restart.
THEOREM TrackerIsExact ==
  ASSUME MaxDbErrors = 0, CommitBatch <= InsertLimit, FirstHeight = 1
  PROVE  Spec => []TrackerExact
<1>1. DepthInv => TrackerExact
  <2> SUFFICES ASSUME DepthInv, Running PROVE \A p \in Pools :
                 tracker[p] = TrueDepth(p, Max({0} \cup blockLog \cup Buffered))
    BY DEF TrackerExact
  <2>1. PICK m \in 0 .. MaxTip :
          /\ blockLog \cup Buffered = FirstHeight .. m
          /\ tracker = [p \in Pools |-> TrueDepth(p, m)]
    BY DEF DepthInv
  <2>2. {0} \cup blockLog \cup Buffered = {0} \cup 1 .. m /\ m \in Nat
    BY <2>1, MaxTipAssumption
  <2>3. Max({0} \cup blockLog \cup Buffered) = m
    BY <2>2, MaxOfPrefix
  <2> QED BY <2>1, <2>3
<1> QED BY <1>1, DepthHolds, PTL

------------------------------------------------------------------------------
\* Depths of a seeded database: with any FirstHeight.

\* What the depths of a pool can build on.
Openings(p) == {ZeroDepth} \cup {s.depth : s \in {q \in RowsOf(p) : q.at < FirstHeight}}

\* Rows, committed and buffered, and tracker of a pool build on base, up to m.
BuildsOn(base, p, m) ==
  /\ \A r \in depthRows \cup depths :
       r.pool = p /\ r.at >= FirstHeight => r.depth = SumFrom(base, p, r.at)
  /\ Running => tracker[p] = SumFrom(base, p, m)

\* A daemon that seeds has no indexed block, and each pool has its one base.
OpeningInv ==
  /\ pc = "seed" => blockLog = {}
  /\ \E m \in 0 .. MaxTip :
       /\ FirstHeight - 1 <= m /\ blockLog \cup Buffered = FirstHeight .. m
       /\ \A p \in Pools : \E base \in Openings(p) : BuildsOn(base, p, m)

LEMMA OpeningsType ==
  ASSUME TypeOK, NEW p \in Pools
  PROVE  Openings(p) \in SUBSET Depth /\ ZeroDepth \in Openings(p)
BY ZeroDepthType DEF TypeOK, Openings, RowsOf, DepthRow

\* Block b adds itself to the depths of the pools it touches.
LEMMA AppliedSum ==
  ASSUME NEW b \in Heights, FirstHeight <= b, NEW p \in Pools, NEW base \in Depth,
         tracker[p] = SumFrom(base, p, b - 1)
  PROVE  Applied(b)[p] = SumFrom(base, p, b)
<1>0. b \in Int /\ Heights \subseteq Int /\ FirstHeight \in Int
  BY MaxTipAssumption, Parameters DEF Heights
<1>a. \A k \in Heights : base[k] \in Nat
  BY DEF Depth
<1>1. CASE p \in Touched[b]
  <2>1. SumFrom(base, p, b - 1)[b] = base[b]
    BY <1>0, <1>a DEF SumFrom
  <2>2. ASSUME NEW k \in Heights
        PROVE  Plus(SumFrom(base, p, b - 1), b)[k] = SumFrom(base, p, b)[k]
    <3>1. CASE k = b
      BY <1>0, <1>1, <1>a, <2>1, <3>1 DEF Plus, SumFrom
    <3>2. CASE k # b
      <4>1. k \in FirstHeight .. b - 1 <=> k \in FirstHeight .. b
        BY <1>0, <3>2
      <4> QED BY <3>2, <4>1 DEF Plus, SumFrom
    <3> QED BY <3>1, <3>2
  <2>3. Plus(SumFrom(base, p, b - 1), b) = SumFrom(base, p, b)
    BY <2>2 DEF Plus, SumFrom
  <2> QED BY <1>1, <2>3 DEF Applied
<1>2. CASE p \notin Touched[b]
  <2>1. ASSUME NEW k \in Heights
        PROVE  (k \in FirstHeight .. b - 1 /\ p \in Touched[k])
                 <=> (k \in FirstHeight .. b /\ p \in Touched[k])
    BY <1>0, <1>2
  <2>2. SumFrom(base, p, b - 1) = SumFrom(base, p, b)
    BY <2>1 DEF SumFrom
  <2> QED BY <1>2, <2>2 DEF Applied
<1> QED BY <1>1, <1>2

\* Restored from the newest row of its pool, the tracker builds on the base of
\* the rows; from an opening row or none, on what it was restored to.
LEMMA RestoredBuilds ==
  ASSUME TypeOK, RowsWithTheirBlock, NEW n \in Nat, n <= MaxTip, blockLog = FirstHeight .. n,
         NEW p \in Pools, NEW base \in Openings(p), NEW d \in LatestDepths(p),
         \A r \in depthRows : r.pool = p /\ r.at >= FirstHeight => r.depth = SumFrom(base, p, r.at)
  PROVE  \E new \in Openings(p) :
           /\ \A r \in depthRows :
                r.pool = p /\ r.at >= FirstHeight => r.depth = SumFrom(new, p, r.at)
           /\ d = SumFrom(new, p, n)
<1>0. /\ Heights = 1 .. MaxTip /\ FirstHeight \in Nat /\ MaxTip \in Nat
      /\ \A r \in depthRows : r.at \in 0 .. MaxTip
  BY Parameters DEF Heights, TypeOK, DepthRow
<1>1. \A k \in FirstHeight .. n : p \in Touched[k] => \E r \in RowsOf(p) : r.at = k
  BY <1>0 DEF RowsWithTheirBlock
<1>2. CASE \E r \in RowsOf(p) : r.at >= FirstHeight
  <2>1. PICK s \in RowsOf(p) : d = s.depth /\ \A q \in RowsOf(p) : q.at <= s.at
    BY <1>2 DEF LatestDepths
  <2>2. s \in depthRows /\ s.pool = p /\ s.at \in Nat /\ s.at <= MaxTip
    BY <1>0, <2>1 DEF RowsOf
  <2>3. s.at >= FirstHeight
    BY <1>0, <1>2, <2>1, <2>2 DEF RowsOf
  <2>4. s.at <= n
    BY <1>0, <2>1, <2>2, <2>3 DEF RowsWithTheirBlock
  <2>5. ASSUME NEW k \in Heights
        PROVE  (k \in FirstHeight .. s.at /\ p \in Touched[k])
                 <=> (k \in FirstHeight .. n /\ p \in Touched[k])
    BY <1>0, <1>1, <2>1, <2>2, <2>4
  <2>6. SumFrom(base, p, s.at) = SumFrom(base, p, n)
    BY <2>5 DEF SumFrom
  <2> QED BY <2>1, <2>2, <2>3, <2>6
<1>3. CASE \A r \in RowsOf(p) : ~(r.at >= FirstHeight)
  <2>1. d \in Openings(p)
    BY <1>0, <1>3 DEF LatestDepths, Openings, RowsOf
  <2>2. d \in Depth
    BY <2>1, OpeningsType
  <2>3. ASSUME NEW k \in Heights
        PROVE  ~(k \in FirstHeight .. n /\ p \in Touched[k])
    BY <1>0, <1>1, <1>3
  <2>4. d = SumFrom(d, p, n)
    BY <2>2, <2>3 DEF SumFrom, Depth
  <2> QED BY <1>3, <2>1, <2>4 DEF RowsOf
<1> QED BY <1>2, <1>3

LEMMA OpeningStep ==
  ASSUME MaxDbErrors = 0, CommitBatch <= InsertLimit, SafetyInv, ExactInv, OpeningInv, [Next]_vars
  PROVE  OpeningInv'
<1> USE DEF Restarting, BetweenBlocks, Writing, Running
<1>a. TypeOK /\ HoldsBlock
  BY DEF SafetyInv, TypeInv
<1>0. PICK n \in 0 .. MaxTip, m \in 0 .. MaxTip : Ends(n, m) /\ BatchInv(n, m)
  BY DEF SafetyInv, LogInv
<1>b. /\ n \in Nat /\ m \in Nat /\ FirstHeight \in Nat /\ FirstHeight - 1 <= n /\ n <= m
      /\ m <= MaxTip /\ blockLog = FirstHeight .. n
  BY <1>0, Parameters DEF Ends
<1>z. PICK k \in 0 .. MaxTip :
        /\ FirstHeight - 1 <= k /\ blockLog \cup Buffered = FirstHeight .. k
        /\ \A p \in Pools : \E base \in Openings(p) : BuildsOn(base, p, k)
  BY DEF OpeningInv
<1>e. k = m
  BY <1>0, <1>b, <1>z DEF Ends
<1>y. \A p \in Pools : \E base \in Openings(p) : BuildsOn(base, p, m)
  BY <1>z, <1>e
<1> DEFINE Kept == UNCHANGED <<blocks, depths, tracker, blockLog, depthRows>>
<1>c. ASSUME Kept, Running' => Running, pc' = "seed" => blockLog = {} PROVE OpeningInv'
  <2>1. \A p \in Pools : Openings(p)' = Openings(p)
    BY <1>c DEF Openings, RowsOf
  <2>2. ASSUME NEW p \in Pools, NEW base \in Openings(p), BuildsOn(base, p, k)
        PROVE  BuildsOn(base, p, k)'
    BY <1>c, <2>2 DEF BuildsOn
  <2>3. \A p \in Pools : (\E base \in Openings(p) : BuildsOn(base, p, k))'
    BY <1>z, <2>1, <2>2
  <2> QED BY <1>c, <1>z, <2>3 DEF OpeningInv, Buffered
<1>1. CASE StartUp
  <2>1. Kept /\ ~Running'
    BY <1>1 DEF StartUp, dbVars, writerVars
  <2>2. pc' = "seed" => blockLog = {}
    BY <1>1, <1>b, Parameters DEF StartUp, Refresh, IsLastBlock
  <2> QED BY <1>c, <2>1, <2>2
<1>2. CASE Seed
  <2>1. /\ pc = "seed" /\ blockLog' = {} /\ blockLog = {} /\ depthRows \subseteq depthRows'
        /\ UNCHANGED <<blocks, depths>> /\ ~Running' /\ pc' # "seed"
        /\ \A r \in depthRows' : r \in depthRows \/ r.at = FirstHeight - 1
    BY <1>2 DEF Seed, writerVars, OpeningInv
  <2>2. Buffered = {} /\ Buffered' = {}
    BY <1>0, <2>1, RangeOfEmpty DEF BatchInv, Buffered
  <2>3. ASSUME NEW p \in Pools, NEW r \in depthRows' \cup depths', r.pool = p,
               r.at >= FirstHeight
        PROVE  FALSE
    <3>1. CASE r \in depthRows
      <4>1. r \in RowsOf(p) /\ r.at \in FirstHeight .. MaxTip
        BY <1>a, <1>b, <2>3, <3>1 DEF TypeOK, DepthRow, RowsOf
      <4> QED BY <2>1, <4>1 DEF SafetyInv, RowsWithTheirBlock
    <3>2. CASE r \in depths
      <4>1. r.at \in Heights
        BY <1>a, <1>b, <2>3, <3>2, Parameters DEF TypeOK, DepthRow, Heights
      <4> QED BY <2>2, <2>3, <3>2, <4>1 DEF SafetyInv, BufferInv
    <3>3. CASE r \notin depthRows /\ r \notin depths
      <4>1. r.at = FirstHeight - 1
        BY <2>1, <3>3
      <4> QED BY <1>b, <2>3, <4>1
    <3> QED BY <3>1, <3>2, <3>3
  <2>4. \A p \in Pools : BuildsOn(ZeroDepth, p, k)'
    BY <2>1, <2>3 DEF BuildsOn
  <2>5. \A p \in Pools : ZeroDepth \in Openings(p)'
    BY DEF Openings
  <2>6. \A p \in Pools : (\E base \in Openings(p) : BuildsOn(base, p, k))'
    BY <2>4, <2>5
  <2>7. blockLog' \cup Buffered' = FirstHeight .. k
    BY <1>z, <2>1, <2>2
  <2> QED BY <1>z, <2>1, <2>6, <2>7 DEF OpeningInv
<1>3. CASE RestoreDepths
  <2>1. /\ pc = "restore" /\ Restore /\ pc' = "loop"
        /\ UNCHANGED <<blocks, depths, blockLog, depthRows>>
    BY <1>3 DEF RestoreDepths, Restore, bufferVars, dbVars
  <2>2. Buffered = {} /\ Buffered' = {}
    BY <1>0, <2>1, RangeOfEmpty DEF BatchInv, Buffered
  <2>3. \A p \in Pools : tracker'[p] \in LatestDepths(p)
    BY <2>1 DEF Restore
  <2>4. ASSUME NEW p \in Pools
        PROVE  \E base \in Openings(p)' : BuildsOn(base, p, n)'
    <3>1. PICK old \in Openings(p) : BuildsOn(old, p, m)
      BY <1>y
    <3>2. PICK base \in Openings(p) :
            /\ \A r \in depthRows :
                 r.pool = p /\ r.at >= FirstHeight => r.depth = SumFrom(base, p, r.at)
            /\ tracker'[p] = SumFrom(base, p, n)
      BY <1>a, <1>b, <2>3, <3>1, RestoredBuilds DEF SafetyInv, BuildsOn
    <3>3. \A r \in depths : ~(r.pool = p /\ r.at >= FirstHeight)
      <4>1. ASSUME NEW r \in depths, r.pool = p, r.at >= FirstHeight
            PROVE  FALSE
        <5>1. r.at \in Heights
          BY <1>a, <1>b, <4>1, Parameters DEF TypeOK, DepthRow, Heights
        <5> QED BY <2>2, <4>1, <5>1 DEF SafetyInv, BufferInv
      <4> QED BY <4>1
    <3>4. BuildsOn(base, p, n)'
      BY <2>1, <3>2, <3>3 DEF BuildsOn
    <3>5. base \in Openings(p)'
      BY <2>1 DEF Openings, RowsOf
    <3> QED BY <3>4, <3>5
  <2>5. blockLog' \cup Buffered' = FirstHeight .. n
    BY <1>b, <2>1, <2>2
  <2> QED BY <1>b, <2>1, <2>4, <2>5 DEF OpeningInv
<1>4. CASE Step \/ Wake \/ NextBlock \/ EndRange \/ FetchErr \/ DropBlock \/ LeaveLoop
           \/ ObserveBlock \/ NewBlock \/ Signal \/ UNCHANGED vars
  <2>1. Kept /\ (Running' => Running) /\ (pc' = "seed" => blockLog = {})
    BY <1>4 DEF OpeningInv, Step, Wake, NextBlock, EndRange, FetchErr, DropBlock, LeaveLoop,
                ObserveBlock, NewBlock, Signal, vars, dbVars, writerVars
  <2> QED BY <1>c, <2>1
<1>5. CASE Add
  <2>1. /\ pc = "add" /\ block \in Heights /\ Buffer(block) /\ pc' # "seed"
        /\ blockLog' = blockLog /\ depthRows' = depthRows
    BY <1>5, <1>a DEF Add, HoldsBlock, dbVars
  <2> PICK b \in Heights : b = block
    BY <2>1
  <2>2. m = b - 1 /\ FirstHeight <= b
    <3>1. b = FirstToFetch /\ blockLog \cup Buffered = FirstHeight .. m /\ m \in {b - 1, b}
      BY <1>0, <2>1 DEF BatchInv, Ends
    <3>2. b \notin FirstHeight .. m
      BY <2>1, <3>1 DEF ExactInv
    <3>3. b \in Int /\ FirstHeight <= b
      BY <1>a, <3>1, FirstToFetchType, MaxTipAssumption DEF Heights
    <3> QED BY <1>b, <3>1, <3>2, <3>3
  <2>3. Buffered' = Buffered \cup {b}
    BY <1>a, <2>1, RangeOfAppend DEF Buffered, Buffer, TypeOK
  <2>4. blockLog' \cup Buffered' = FirstHeight .. b /\ b \in 0 .. MaxTip /\ FirstHeight - 1 <= b
    BY <1>b, <1>z, <1>e, <2>1, <2>2, <2>3, Parameters DEF Heights
  <2>5. ASSUME NEW p \in Pools
        PROVE  \E base \in Openings(p)' : BuildsOn(base, p, b)'
    <3>1. PICK base \in Openings(p) : BuildsOn(base, p, m)
      BY <1>y
    <3>2. Applied(b)[p] = SumFrom(base, p, b)
      BY <1>a, <2>1, <2>2, <3>1, AppliedSum, OpeningsType DEF BuildsOn
    <3>3. \A r \in Changed(b) : r.pool = p => r.at = b /\ r.depth = SumFrom(base, p, b)
      BY <3>2 DEF Changed
    <3>4. BuildsOn(base, p, b)'
      BY <2>1, <3>1, <3>2, <3>3 DEF BuildsOn, Buffer
    <3>5. base \in Openings(p)'
      BY <2>1 DEF Openings, RowsOf
    <3> QED BY <3>4, <3>5
  <2> QED BY <2>1, <2>4, <2>5 DEF OpeningInv
<1>6. CASE Flush
  <2>1. /\ Transact /\ blocks' = <<>> /\ depths' = {} /\ tracker' = tracker /\ Running
        /\ pc' # "seed"
    BY <1>6 DEF Flush, FlushOk, ClearBuffers
  <2>2. blockLog' \cup Buffered' = blockLog \cup Buffered
    BY <2>1, RangeOfEmpty DEF Buffered, Transact, WriteDepths, WriteEvents, WriteBlocks
  <2>3. depthRows' \cup depths' = depthRows \cup depths /\ depthRows \subseteq depthRows'
    BY <2>1 DEF Transact, WriteDepths, WriteEvents, WriteBlocks
  <2>4. \A p \in Pools : Openings(p) \subseteq Openings(p)'
    BY <2>3 DEF Openings, RowsOf
  <2>5. ASSUME NEW p \in Pools, NEW base \in Openings(p), BuildsOn(base, p, k)
        PROVE  BuildsOn(base, p, k)'
    BY <2>1, <2>3, <2>5 DEF BuildsOn
  <2>6. \A p \in Pools : (\E base \in Openings(p) : BuildsOn(base, p, k))'
    BY <1>z, <2>4, <2>5
  <2> QED BY <1>z, <2>1, <2>2, <2>6 DEF OpeningInv
<1>7. CASE Exit \/ ShutdownTimeout \/ Crash
  <2>1. /\ ~Running' /\ pc' # "seed" /\ blocks' = <<>> /\ depths' = {}
        /\ UNCHANGED <<blockLog, depthRows>>
    BY <1>7 DEF Exit, ShutdownTimeout, Crash, Die, dbVars
  <2>2. blockLog' \cup Buffered' = FirstHeight .. n
    BY <1>b, <2>1, RangeOfEmpty DEF Buffered
  <2>3. \A p \in Pools : Openings(p)' = Openings(p)
    BY <2>1 DEF Openings, RowsOf
  <2>4. ASSUME NEW p \in Pools, NEW base \in Openings(p), BuildsOn(base, p, m)
        PROVE  BuildsOn(base, p, n)'
    BY <2>1, <2>4 DEF BuildsOn
  <2>5. \A p \in Pools : (\E base \in Openings(p) : BuildsOn(base, p, n))'
    BY <1>y, <2>3, <2>4
  <2> QED BY <1>b, <2>1, <2>2, <2>5 DEF OpeningInv
<1> QED
  BY <1>1, <1>2, <1>3, <1>4, <1>5, <1>6, <1>7, <1>a, NoFlushFails DEF Next, Daemon, Faults

LEMMA InitOpening == Init => OpeningInv
<1> SUFFICES ASSUME Init PROVE OpeningInv
  OBVIOUS
<1>1. pc = "down" /\ ~Running /\ blockLog = {} /\ depthRows = {} /\ depths = {} /\ Buffered = {}
  BY RangeOfEmpty DEF Init, DatabaseInit, WriterInit, Buffered, Running
<1>2. PICK m \in 0 .. MaxTip : m = FirstHeight - 1
  BY Parameters
<1>3. FirstHeight .. m = {}
  BY <1>2, Parameters
<1>4. \A p \in Pools : ZeroDepth \in Openings(p) /\ BuildsOn(ZeroDepth, p, m)
  BY <1>1 DEF Openings, BuildsOn
<1> QED BY <1>1, <1>2, <1>3, <1>4, Parameters DEF OpeningInv

\* However often the daemon dies between the seed and the first batch and seeds
\* again from another state of THORNode, all later depths of a pool build on
\* one opening balance (bootstrap.rs:31-80).
THEOREM OneOpening ==
  ASSUME MaxDbErrors = 0, CommitBatch <= InsertLimit
  PROVE  Spec => []OneOpeningBalance
<1>1. SafetyInv /\ ExactInv /\ OpeningInv /\ [Next]_vars => OpeningInv'
  BY OpeningStep
<1>2. OpeningInv => OneOpeningBalance
  <2> SUFFICES ASSUME OpeningInv, NEW p \in Pools
               PROVE  \E base \in Openings(p) :
                        \A r \in RowsOf(p) : r.at >= FirstHeight => r.depth = SumFrom(base, p, r.at)
    BY DEF OneOpeningBalance, Openings
  <2>1. PICK m \in 0 .. MaxTip : \E base \in Openings(p) : BuildsOn(base, p, m)
    BY DEF OpeningInv
  <2> QED BY <2>1 DEF BuildsOn, RowsOf
<1> QED BY <1>1, <1>2, InitOpening, ExactHolds, SafetyHolds, PTL DEF Spec

------------------------------------------------------------------------------
\* The database implements the projection.

\* The tables determine each other: an exact log makes an exact projection.
LEMMA Projected ==
  ASSUME FirstHeight = 1, SafetyInv, ExactInv, DepthInv,
         NEW n \in 0 .. MaxTip, blockLog = FirstHeight .. n
  PROVE  P!IsProjection(n)
<1>a. TypeOK
  BY DEF SafetyInv, TypeInv
<1>b. n \in Int /\ Heights = 1 .. MaxTip /\ MaxTip \in Int
  BY Parameters DEF Heights
<1>1. blockLog = P!LogOf(n)
  BY DEF P!LogOf
<1>2. eventRows = P!EventRowsOf(n)
  <2>1. eventRows \in [1 .. MaxTip -> Nat]
    BY <1>a, <1>b DEF TypeOK
  <2>2. \A h \in 1 .. MaxTip : eventRows[h] = IF h <= n THEN 1 ELSE 0
    BY <1>b DEF ExactInv
  <2> QED BY <2>1, <2>2 DEF P!EventRowsOf
<1>3. \A p, h : P!DepthOf(p, h) = TrueDepth(p, h)
  BY DEF P!DepthOf, TrueDepth, Heights
<1>4. depthRows \subseteq P!DepthRowsOf(n)
  <2> SUFFICES ASSUME NEW r \in depthRows PROVE r \in P!DepthRowsOf(n)
    OBVIOUS
  <2>1. r \in DepthRow
    BY <1>a DEF TypeOK
  <2>2. r.at \in Heights /\ r.pool \in Touched[r.at] /\ r.depth = TrueDepth(r.pool, r.at)
    BY DEF DepthInv, IsTrueRow
  <2>3. r.at \in 1 .. n
    <3>1. r.pool \in Pools /\ r \in RowsOf(r.pool)
      BY <2>1 DEF DepthRow, RowsOf
    <3>2. r.at \in blockLog
      BY <1>b, <2>2, <3>1 DEF SafetyInv, RowsWithTheirBlock
    <3> QED BY <3>2
  <2>4. r = [pool |-> r.pool, at |-> r.at, depth |-> P!DepthOf(r.pool, r.at)]
    BY <1>3, <2>1, <2>2 DEF DepthRow
  <2> QED BY <2>2, <2>3, <2>4 DEF P!DepthRowsOf
<1>5. P!DepthRowsOf(n) \subseteq depthRows
  <2> SUFFICES ASSUME NEW h \in 1 .. n, NEW p \in Touched[h]
               PROVE  [pool |-> p, at |-> h, depth |-> P!DepthOf(p, h)] \in depthRows
    BY DEF P!DepthRowsOf
  <2>1. h \in Heights /\ h \in FirstHeight .. MaxTip /\ h \in blockLog
    BY <1>b
  <2>2. p \in Pools
    BY <2>1, TouchedAssumption
  <2>3. PICK r \in RowsOf(p) : r.at = h
    BY <2>1, <2>2 DEF SafetyInv, RowsWithTheirBlock
  <2>4. r \in depthRows /\ r.pool = p /\ r \in DepthRow
    BY <1>a, <2>3 DEF RowsOf, TypeOK
  <2>5. r.depth = TrueDepth(p, h)
    BY <2>3, <2>4 DEF DepthInv, IsTrueRow
  <2>6. r = [pool |-> p, at |-> h, depth |-> P!DepthOf(p, h)]
    BY <1>3, <2>3, <2>4, <2>5 DEF DepthRow
  <2> QED BY <2>4, <2>6
<1> QED BY <1>1, <1>2, <1>4, <1>5 DEF P!IsProjection

\* The database is a projection in every state.
ProjectionInv ==
  \E n \in 0 .. MaxTip : blockLog = FirstHeight .. n /\ P!IsProjection(n)

LEMMA AlwaysProjected ==
  ASSUME FirstHeight = 1
  PROVE  SafetyInv /\ ExactInv /\ DepthInv => ProjectionInv
BY Projected DEF SafetyInv, LogInv, Ends, ProjectionInv

\* Only a flush changes the tables, and it extends them by the batch.
LEMMA StepExtends ==
  ASSUME MaxDbErrors = 0, CommitBatch <= InsertLimit, FirstHeight = 1, SafetyInv, ExactInv,
         DepthInv, ProjectionInv, ProjectionInv', [Next]_vars
  PROVE  [P!Extend]_<<blockLog, eventRows, depthRows>>
<1>a. TypeOK
  BY DEF SafetyInv, TypeInv
<1>0. PICK n \in 0 .. MaxTip, m \in 0 .. MaxTip : Ends(n, m) /\ BatchInv(n, m)
  BY DEF SafetyInv, LogInv
<1>1. CASE Flush
  <2>1. Transact /\ blocks' = <<>>
    BY <1>1 DEF Flush, FlushOk, ClearBuffers
  <2>2. blockLog = FirstHeight .. n /\ blockLog' = FirstHeight .. m
    BY <1>0, <2>1 DEF Ends, Transact, WriteDepths, WriteEvents, WriteBlocks, Buffered
  <2>5. n \in Int /\ m \in Int /\ n <= m /\ m - n <= CommitBatch
    BY <1>0, Parameters DEF Ends, BatchInv
  <2>3. P!IsProjection(n)
    <3>1. PICK k \in 0 .. MaxTip : blockLog = FirstHeight .. k /\ P!IsProjection(k)
      BY DEF ProjectionInv
    <3>2. k = n
      BY <2>2, <3>1, Parameters
    <3> QED BY <3>1, <3>2
  <2>4. P!IsProjection(m)'
    <3>1. PICK k \in 0 .. MaxTip : blockLog' = FirstHeight .. k /\ P!IsProjection(k)'
      BY DEF ProjectionInv
    <3>2. k = m
      BY <2>2, <3>1, Parameters
    <3> QED BY <3>1, <3>2
  <2>6. CASE n = m
    BY <2>3, <2>4, <2>6 DEF P!IsProjection, P!LogOf, P!EventRowsOf, P!DepthRowsOf
  <2>7. CASE n < m
    <3>1. PICK k \in 1 .. CommitBatch : k = m - n
      BY <2>5, <2>7, Parameters
    <3>2. n + k = m
      BY <2>5, <3>1
    <3>3. n + k <= MaxTip /\ P!IsProjection(n + k)'
      BY <2>4, <3>2
    <3>4. P!Extend
      BY <2>3, <3>3 DEF P!Extend
    <3> QED BY <3>4
  <2> QED BY <2>5, <2>6, <2>7
<1>2. CASE ~Flush
  <2>1. ~Seed
    BY DEF DepthInv, Seed
  <2>2. UNCHANGED <<blockLog, eventRows, depthRows>>
    BY <1>2, <1>a, <2>1, NoFlushFails
    DEF Next, Daemon, Faults, StartUp, RestoreDepths, Step, Wake, NextBlock, EndRange, FetchErr,
        DropBlock, Add, ObserveBlock, LeaveLoop, NewBlock, Signal, Exit, ShutdownTimeout, Crash,
        Die, dbVars, vars
  <2> QED BY <2>2
<1> QED BY <1>1, <1>2

\* The detailed sync loop implements the abstract projection: seen from the
\* database, all its fetching, buffering, crashing and restarting is a chain
\* prefix that grows by at most a batch at a time.
THEOREM SyncerRefinesProjection ==
  ASSUME MaxDbErrors = 0, CommitBatch <= InsertLimit, FirstHeight = 1
  PROVE  Spec => RefinesProjection
<1>1. Init => P!ProjectionInit
  <2> SUFFICES ASSUME Init PROVE P!ProjectionInit
    OBVIOUS
  <2>1. blockLog = {} /\ eventRows = NoEvents /\ depthRows = {}
    BY DEF Init, DatabaseInit
  <2>2. 1 .. 0 = {}
    OBVIOUS
  <2>3. \A h \in 1 .. MaxTip : ~(h <= 0)
    BY MaxTipAssumption
  <2> QED BY <2>1, <2>2, <2>3
          DEF P!ProjectionInit, P!IsProjection, P!LogOf, P!EventRowsOf, P!DepthRowsOf, NoEvents,
              Heights
<1>2. SafetyInv /\ ExactInv /\ DepthInv /\ ProjectionInv /\ ProjectionInv' /\ [Next]_vars
        => [P!Extend]_<<blockLog, eventRows, depthRows>>
  BY StepExtends
<1>3. SafetyInv /\ ExactInv /\ DepthInv => ProjectionInv
  BY AlwaysProjected
<1> QED
  BY <1>1, <1>2, <1>3, SafetyHolds, ExactHolds, DepthHolds, PTL
  DEF Spec, RefinesProjection, P!ProjectionSpec

=============================================================================
