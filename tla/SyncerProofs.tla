----------------------------- MODULE SyncerProofs ----------------------------
(***************************************************************************)
(* Proofs about the sync loop, for every chain length, set of pools, batch *)
(* size, threshold and number of faults.                                   *)
(***************************************************************************)
EXTENDS SyncerProperties, FiniteSetTheorems, TLAPS

\* The smaller of two integers, as the iterator computes its batch size.
LEMMA MinOfTwo ==
  ASSUME NEW a \in Int, NEW b \in Int
  PROVE  /\ Min({a, b}) \in {a, b}
         /\ Min({a, b}) <= a
         /\ Min({a, b}) <= b
<1>1. \E x \in {a, b} : \A y \in {a, b} : x =< y
  <2>1. CASE a <= b
    BY <2>1
  <2>2. CASE ~(a <= b)
    BY <2>2
  <2> QED BY <2>1, <2>2
<1> QED BY <1>1 DEF Min

\* Buffering a block adds its height to the heights of the batch.
LEMMA RangeOfAppend ==
  ASSUME NEW S, NEW s \in Seq(S), NEW x \in S
  PROVE  Range(Append(s, x)) = Range(s) \cup {x}
<1>1. Len(Append(s, x)) = Len(s) + 1
  OBVIOUS
<1>2. \A i \in 1 .. Len(s) : Append(s, x)[i] = s[i]
  OBVIOUS
<1>3. Append(s, x)[Len(s) + 1] = x
  OBVIOUS
<1>4. DOMAIN Append(s, x) = 1 .. Len(s) + 1 /\ DOMAIN s = 1 .. Len(s) /\ Len(s) \in Nat
  OBVIOUS
<1> QED BY <1>1, <1>2, <1>3, <1>4 DEF Range

LEMMA RangeOfEmpty == Range(<<>>) = {}
BY DEF Range

\* The block in hand is a real block: what makes the type invariant inductive.
HoldsBlock == pc \in {"add", "flushAdd", "flush", "observe"} => block \in Heights

TypeInv == TypeOK /\ HoldsBlock

\* A sum of block contributions stays one when a block is added in.
LEMMA PlusType ==
  ASSUME NEW d \in Depth, NEW h \in Heights
  PROVE  Plus(d, h) \in Depth
BY DEF Plus, Depth

LEMMA TrueDepthType ==
  ASSUME NEW p, NEW n
  PROVE  TrueDepth(p, n) \in Depth
BY DEF TrueDepth, Depth

LEMMA ZeroDepthType == ZeroDepth \in Depth
BY DEF ZeroDepth, Depth

\* The depths and rows that a block makes of a well-typed tracker.
LEMMA AppliedType ==
  ASSUME tracker \in [Pools -> Depth], NEW h \in Heights
  PROVE  /\ Applied(h) \in [Pools -> Depth]
         /\ Changed(h) \in SUBSET DepthRow
<1>1. Touched[h] \in SUBSET Pools
  BY TouchedAssumption
<1>2. Applied(h) \in [Pools -> Depth]
  BY PlusType DEF Applied
<1>3. h \in 0 .. MaxTip
  BY MaxTipAssumption DEF Heights
<1>4. ASSUME NEW p \in Touched[h]
      PROVE  [pool |-> p, at |-> h, depth |-> Applied(h)[p]] \in DepthRow
  BY <1>1, <1>2, <1>3, <1>4 DEF DepthRow
<1> QED BY <1>2, <1>4 DEF Changed

\* What the restart query can return for a pool.
LEMMA LatestDepthsType ==
  ASSUME depthRows \in SUBSET DepthRow, NEW p \in Pools
  PROVE  LatestDepths(p) \in SUBSET Depth
BY ZeroDepthType DEF LatestDepths, RowsOf, DepthRow

LEMMA InitType == Init => TypeInv
<1> SUFFICES ASSUME Init PROVE TypeInv
  OBVIOUS
<1> USE DEF Init
<1>1. chainTip = 0 /\ 0 \in 0 .. MaxTip
  BY MaxTipAssumption DEF ChainInit
<1>2. tracker \in [Pools -> Depth] /\ depths = {} /\ blocks = <<>> /\ events \in [Heights -> Nat]
  BY ZeroDepthType DEF WriterInit, NoEvents
<1>3. /\ blockLog = {} /\ eventRows \in [Heights -> Nat] /\ depthRows = {}
      /\ statusRows \in [Pools -> Nat]
  BY DEF DatabaseInit, NoEvents
<1>4. block = 0 /\ fetched = 0 /\ through = 0 /\ cursorFirst = 0 /\ cursorLast = 0
  BY DEF ClientInit, CursorInit
<1>5. pc = "down" /\ pc \in PCs /\ mode \in {"catchUp", "follow"} /\ cancelled \in BOOLEAN
  BY DEF PCs
<1>6. stops \in 0 .. MaxStops /\ dbErrors \in 0 .. MaxDbErrors
  BY BudgetsAssumption
<1> QED
  BY <1>1, <1>2, <1>3, <1>4, <1>5, <1>6 DEF TypeInv, TypeOK, HoldsBlock

\* What a committed batch and a full buffer look like.
LEMMA TransactType ==
  ASSUME TypeOK, Transact
  PROVE  /\ blockLog' \in SUBSET Heights
         /\ eventRows' \in [Heights -> Nat]
         /\ depthRows' \in SUBSET DepthRow
         /\ statusRows' \in [Pools -> Nat]
<1>1. Range(blocks) \subseteq Heights
  BY DEF TypeOK, Range
<1>2. blockLog' \in SUBSET Heights
  BY <1>1 DEF TypeOK, Transact, WriteDepths, WriteEvents, WriteBlocks
<1>3. eventRows' \in [Heights -> Nat]
  BY DEF TypeOK, Transact, WriteDepths, WriteEvents, WriteBlocks
<1>4. depthRows' \in SUBSET DepthRow /\ statusRows' \in [Pools -> Nat]
  BY DEF TypeOK, Transact, WriteDepths, WriteEvents, WriteBlocks
<1> QED BY <1>2, <1>3, <1>4

LEMMA BufferType ==
  ASSUME TypeOK, NEW h \in Heights, Buffer(h)
  PROVE  /\ blocks' \in Seq(Heights)
         /\ events' \in [Heights -> Nat]
         /\ depths' \in SUBSET DepthRow
         /\ tracker' \in [Pools -> Depth]
<1>1. blocks' \in Seq(Heights)
  BY DEF TypeOK, Buffer
<1>2. events' \in [Heights -> Nat]
  BY DEF TypeOK, Buffer
<1>3. depths' \in SUBSET DepthRow /\ tracker' \in [Pools -> Depth]
  BY AppliedType DEF TypeOK, Buffer
<1> QED BY <1>1, <1>2, <1>3

LEMMA DieType ==
  ASSUME TypeInv, Die, stops' \in 0 .. MaxStops
  PROVE  TypeInv'
<1>1. /\ 0 \in 0 .. MaxTip
      /\ "down" \in PCs
      /\ [p \in Pools |-> ZeroDepth] \in [Pools -> Depth]
      /\ NoEvents \in [Heights -> Nat]
  BY MaxTipAssumption, ZeroDepthType DEF PCs, NoEvents
<1>2. /\ blocks' \in Seq(Heights) /\ events' \in [Heights -> Nat] /\ depths' \in SUBSET DepthRow
      /\ tracker' \in [Pools -> Depth]
  BY <1>1 DEF Die, Forget
<1>3. /\ chainTip' \in 0 .. MaxTip /\ blockLog' \in SUBSET Heights
      /\ eventRows' \in [Heights -> Nat] /\ depthRows' \in SUBSET DepthRow
      /\ statusRows' \in [Pools -> Nat]
      /\ dbErrors' \in 0 .. MaxDbErrors
  BY DEF Die, dbVars, TypeInv, TypeOK
<1>4. /\ cursorFirst' \in 0 .. MaxTip /\ cursorLast' \in 0 .. MaxTip
      /\ block' \in 0 .. MaxTip /\ fetched' \in 0 .. MaxTip /\ through' \in 0 .. MaxTip
      /\ chainHeight' \in 0 .. MaxTip
  BY <1>1 DEF Die
<1>5. /\ pc' = "down" /\ pc' \in PCs /\ mode' \in {"catchUp", "follow"}
      /\ cancelled' \in BOOLEAN
  BY <1>1 DEF Die
<1> QED BY <1>2, <1>3, <1>4, <1>5 DEF TypeInv, TypeOK, HoldsBlock

\* Every step of the daemon, of the chain and of a fault keeps the types.
LEMMA NextType == TypeInv /\ [Next]_vars => TypeInv'
<1> SUFFICES ASSUME TypeInv, [Next]_vars PROVE TypeInv'
  OBVIOUS
<1> USE DEF TypeInv, HoldsBlock
<1>1. CASE NewBlock
  <2>1. chainTip' \in 0 .. MaxTip
    BY <1>1, MaxTipAssumption DEF NewBlock, Produce, TypeOK
  <2> QED BY <1>1, <2>1 DEF NewBlock, TypeOK, dbVars, writerVars, cursorVars, clientVars, flagVars
<1>2. CASE StartUp
  <2>1. cursorFirst' \in 0 .. MaxTip /\ cursorLast' \in 0 .. MaxTip
    BY <1>2 DEF StartUp, Refresh, cursorVars, IsFirstBlock, IsLastBlock, TypeOK, Heights
  <2>2. pc' \in {"seed", "restore"}
    BY <1>2 DEF StartUp
  <2> QED BY <1>2, <2>1, <2>2 DEF StartUp, TypeOK, PCs, dbVars, writerVars, clientVars, flagVars
<1>3. CASE Seed
  <2>1. FirstHeight - 1 \in 0 .. MaxTip
    BY FirstHeightAssumption, MaxTipAssumption DEF Heights
  <2>2. ASSUME NEW t \in 0 .. chainTip, NEW p \in PoolsAt(t)
        PROVE  [pool |-> p, at |-> FirstHeight - 1, depth |-> TrueDepth(p, t)] \in DepthRow
    <3>1. p \in Pools
      <4>1. PICK k \in 1 .. t : p \in Touched[k]
        BY <2>2 DEF PoolsAt
      <4>2. k \in Heights
        BY <2>1, MaxTipAssumption DEF TypeOK, Heights
      <4> QED BY <4>1, <4>2, TouchedAssumption
    <3> QED BY <2>1, <3>1, TrueDepthType DEF DepthRow
  <2>3. depthRows' \in SUBSET DepthRow
    BY <1>3, <2>2 DEF Seed, TypeOK
  <2>4. statusRows' \in [Pools -> Nat]
    BY <1>3 DEF Seed, StatusesSeeded, TypeOK
  <2> QED BY <1>3, <2>3, <2>4 DEF Seed, TypeOK, PCs, writerVars, cursorVars, clientVars, flagVars
<1>4. CASE RestoreDepths
  <2>1. tracker' \in [Pools -> Depth]
    BY <1>4, LatestDepthsType DEF RestoreDepths, Restore, TypeOK
  <2> QED BY <1>4, <2>1 DEF RestoreDepths, Restore, TypeOK, PCs, dbVars, bufferVars,
                            cursorVars, clientVars, flagVars
<1>5. CASE Step
  <2>1. PICK tip \in ReportedTips :
          /\ chainHeight' = tip
          /\ \/ /\ pc' = "idle"
                /\ UNCHANGED <<clientVars, mode>>
             \/ /\ FirstToFetch <= tip
                /\ pc' = "next"
                /\ mode' \in {"catchUp", "follow"}
                /\ StartRange(FirstToFetch, tip)
    BY <1>5 DEF Step
  <2>2. tip \in 0 .. MaxTip
    BY <2>1, MaxTipAssumption DEF ReportedTips, TypeOK
  <2>3. FirstToFetch \in Nat /\ FirstToFetch >= 1
    BY FirstHeightAssumption, MaxTipAssumption DEF FirstToFetch, NextHeight, TypeOK, Heights
  <2>4. block' \in 0 .. MaxTip /\ fetched' \in 0 .. MaxTip /\ through' \in 0 .. MaxTip
    BY <2>1, <2>2, <2>3, MaxTipAssumption DEF StartRange, clientVars, TypeOK
  <2>5. mode' \in {"catchUp", "follow"} /\ pc' \in {"idle", "next"}
    BY <2>1 DEF TypeOK
  <2> QED BY <1>5, <2>1, <2>2, <2>4, <2>5 DEF Step, TypeOK, PCs, dbVars, writerVars, cursorVars
<1>6. CASE Wake
  BY <1>6 DEF Wake, TypeOK, PCs, dbVars, writerVars, cursorVars, clientVars, flagVars
<1>7. CASE NextBlock
  <2>1. CASE mode = "catchUp" /\ NextBuffered
    <3>1. block' \in Heights /\ block' \in 0 .. MaxTip
      BY <2>1, MaxTipAssumption DEF NextBuffered, TypeOK, Heights
    <3> QED BY <1>7, <2>1, <3>1 DEF NextBlock, NextBuffered, TypeOK, PCs, dbVars, writerVars,
                                    cursorVars, flagVars
  <2>2. CASE mode = "catchUp" /\ Refill
    <3>1. FetchBatch \in Int /\ through - fetched \in Int /\ FetchBatch >= 1
      BY FetchBatchAssumption DEF TypeOK
    <3>2. fetched' \in 0 .. MaxTip
      <4> DEFINE step == Min({FetchBatch, through - fetched})
      <4>1. fetched < through /\ through - fetched >= 1
        BY <2>2 DEF Refill, TypeOK
      <4>3. step \in {FetchBatch, through - fetched} /\ step <= through - fetched
        BY <3>1, MinOfTwo
      <4>4. step \in Int /\ step >= 1
        BY <3>1, <4>1, <4>3
      <4>2. fetched' = fetched + step
        BY <2>2 DEF Refill
      <4> HIDE DEF step
      <4> QED BY <4>2, <4>3, <4>4, MaxTipAssumption DEF TypeOK
    <3>3. block' \in Heights /\ block' \in 0 .. MaxTip
      BY <2>2, MaxTipAssumption DEF Refill, TypeOK, Heights
    <3> QED BY <1>7, <2>2, <3>2, <3>3 DEF NextBlock, Refill, TypeOK, PCs, dbVars, writerVars,
                                          cursorVars, flagVars
  <2>3. CASE mode # "catchUp" /\ FetchOne
    <3>1. block' \in Heights /\ block' \in 0 .. MaxTip /\ fetched' \in 0 .. MaxTip
      BY <2>3, MaxTipAssumption DEF FetchOne, TypeOK, Heights
    <3> QED BY <1>7, <2>3, <3>1 DEF NextBlock, FetchOne, TypeOK, PCs, dbVars, writerVars,
                                    cursorVars, flagVars
  <2> QED BY <1>7, <2>1, <2>2, <2>3 DEF NextBlock
<1>8. CASE EndRange
  BY <1>8 DEF EndRange, TypeOK, PCs, dbVars, writerVars, cursorVars, clientVars, flagVars
<1>9. CASE FetchErr
  BY <1>9 DEF FetchErr, TypeOK, PCs, dbVars, writerVars, cursorVars, clientVars, flagVars
<1>10. CASE DropBlock
  BY <1>10 DEF DropBlock, TypeOK, PCs, dbVars, writerVars, cursorVars, clientVars, flagVars
<1>11. CASE Add
  <2>1. pc' \in {"flushAdd", "observe", "flush"}
    BY <1>11 DEF Add
  <2>2. block \in Heights /\ Buffer(block)
    BY <1>11 DEF Add
  <2> QED BY <1>11, <2>1, <2>2, BufferType DEF Add, TypeOK, PCs, dbVars, cursorVars, clientVars,
                                               flagVars
<1>12. CASE Flush
  <2>1. pc' \in {"flush", "stopped", "observe"} /\ (pc' # "stopped" => block \in Heights)
    BY <1>12 DEF Flush
  <2>2. NoEvents \in [Heights -> Nat] /\ <<>> \in Seq(Heights)
    BY DEF NoEvents
  <2> QED BY <1>12, <2>1, <2>2, TransactType DEF Flush, FlushOk, ClearBuffers, TypeOK, PCs,
                                                 cursorVars, clientVars, flagVars
<1>13. CASE FlushFails
  <2>1. /\ blockLog' \in SUBSET Heights /\ eventRows' \in [Heights -> Nat]
        /\ depthRows' \in SUBSET DepthRow /\ statusRows' \in [Pools -> Nat]
    BY <1>13, TransactType DEF FlushFails, FlushErr, dbVars, TypeOK
  <2>2. dbErrors' \in 0 .. MaxDbErrors
    <3>1. CASE FitsOneInsert
      BY <1>13, <3>1, BudgetsAssumption DEF FlushFails, TypeOK
    <3>2. CASE ~FitsOneInsert
      BY <1>13, <3>2 DEF FlushFails, TypeOK
    <3> QED BY <3>1, <3>2
  <2>3. pc' \in {"stopped", "loop"}
    BY <1>13 DEF FlushFails
  <2> QED BY <1>13, <2>1, <2>2, <2>3 DEF FlushFails, FlushErr, TypeOK, PCs, writerVars,
                                         cursorVars, clientVars
<1>14. CASE ObserveBlock
  BY <1>14 DEF ObserveBlock, Observe, TypeOK, PCs, dbVars, writerVars, clientVars, flagVars
<1>15. CASE LeaveLoop
  BY <1>15 DEF LeaveLoop, TypeOK, PCs, dbVars, writerVars, cursorVars, clientVars, flagVars
<1>16. CASE Exit
  BY <1>16, DieType DEF Exit, TypeOK
<1>17. CASE Signal
  <2>1. stops' \in 0 .. MaxStops
    BY <1>17, BudgetsAssumption DEF Signal, TypeOK
  <2> QED BY <1>17, <2>1 DEF Signal, TypeOK, dbVars, writerVars, cursorVars, clientVars
<1>18. CASE ShutdownTimeout
  BY <1>18, DieType DEF ShutdownTimeout, TypeOK
<1>19. CASE Crash
  <2>1. stops' \in 0 .. MaxStops
    BY <1>19, BudgetsAssumption DEF Crash, TypeOK
  <2> QED BY <1>19, <2>1, DieType DEF Crash
<1>20. CASE UNCHANGED vars
  BY <1>20 DEF vars, TypeOK
<1> QED
  BY <1>1, <1>2, <1>3, <1>4, <1>5, <1>6, <1>7, <1>8, <1>9, <1>10, <1>11, <1>12, <1>13, <1>14,
     <1>15, <1>16, <1>17, <1>18, <1>19, <1>20
  DEF Next, Daemon, Faults

\* Every reachable state of the daemon, its buffers and its tables is well
\* formed, whatever the bounds are.
THEOREM TypeCorrect == Spec => []TypeOK
<1>1. TypeInv => TypeOK
  BY DEF TypeInv
<1> QED BY InitType, NextType, <1>1, PTL DEF Spec

------------------------------------------------------------------------------
\* The inductive invariant behind the safety properties that hold whatever
\* fails.  n is the last committed block and m the last block taken in,
\* committed or buffered; the cursor is at m, or one behind it when a flush
\* has failed (or is under way).

Ends(n, m) ==
  /\ FirstHeight - 1 <= n /\ n <= m
  /\ blockLog = FirstHeight .. n
  /\ blockLog \cup Buffered = FirstHeight .. m

Restarting == pc \in {"down", "seed", "restore"}
BetweenBlocks == pc \in {"loop", "idle", "next", "add", "lastFlush", "stopped"}
Writing == pc \in {"flushAdd", "flush", "observe"}

\* How far the buffer may have grown at each point of the loop.
BatchInv(n, m) ==
  /\ m - n <= Len(blocks) /\ m - n <= CommitBatch
  /\ Restarting => blocks = <<>>
  /\ pc = "down" => cursorLast = 0
  /\ pc \in {"seed", "restore"} => m = FirstToFetch - 1
  /\ BetweenBlocks => /\ m \in {FirstToFetch - 1, FirstToFetch}
                      /\ m = FirstToFetch - 1 => Len(blocks) < CommitBatch
  /\ Writing => m = FirstToFetch /\ block = FirstToFetch
  /\ pc = "observe" => Len(blocks) < CommitBatch
  /\ pc = "next" => block = FirstToFetch - 1
  /\ pc = "add" => block = FirstToFetch

LogInv == \E n, m \in 0 .. MaxTip : Ends(n, m) /\ BatchInv(n, m)

\* The buffered rows are those of the buffered blocks.
BufferInv ==
  /\ \A h \in Heights : h \in Buffered <=> events[h] > 0
  /\ \A h \in Heights : \A p \in Pools :
       (h \in Buffered /\ p \in Touched[h]) <=> \E r \in depths : r.pool = p /\ r.at = h
  /\ \A r \in depths : FirstHeight <= r.at

SafetyInv == TypeInv /\ LogInv /\ BufferInv /\ RowsWithTheirBlock

LEMMA Parameters ==
  /\ MaxTip \in Nat /\ FirstHeight \in Nat /\ 1 <= FirstHeight /\ FirstHeight <= MaxTip
  /\ CommitBatch \in Nat /\ 1 <= CommitBatch
  /\ FirstHeight \in Heights
BY MaxTipAssumption, FirstHeightAssumption, CommitBatchAssumption DEF Heights

LEMMA FirstToFetchType ==
  ASSUME TypeOK
  PROVE  /\ FirstToFetch \in Nat
         /\ FirstHeight <= FirstToFetch
         /\ cursorLast <= FirstToFetch - 1
BY Parameters DEF TypeOK, FirstToFetch, NextHeight

\* Committing the batch brings the end of the log to the last block taken in.
LEMMA TransactEnds ==
  ASSUME NEW n \in 0 .. MaxTip, NEW m \in 0 .. MaxTip, Ends(n, m), Transact,
         Range(blocks') \subseteq blockLog \cup Buffered
  PROVE  Ends(m, m)'
BY Parameters DEF Ends, Transact, WriteDepths, WriteEvents, WriteBlocks, Buffered

\* Memory lost: what is left is what was committed.
LEMMA DieLog ==
  ASSUME LogInv, Die
  PROVE  LogInv'
<1>1. PICK n \in 0 .. MaxTip, m \in 0 .. MaxTip : Ends(n, m) /\ BatchInv(n, m)
  BY DEF LogInv
<1>2. blockLog' = blockLog /\ Buffered' = {} /\ blocks' = <<>> /\ pc' = "down" /\ cursorLast' = 0
  BY RangeOfEmpty DEF Die, dbVars, Buffered
<1>3. Ends(n, n)'
  BY <1>1, <1>2 DEF Ends
<1>4. Len(<<>>) = 0
  OBVIOUS
<1>5. BatchInv(n, n)'
  BY <1>1, <1>2, <1>4, Parameters DEF BatchInv, Restarting, BetweenBlocks, Writing
<1> QED BY <1>3, <1>5 DEF LogInv

\* Every step keeps the cursor, the buffer and block_log in step.
LEMMA LogStep ==
  ASSUME TypeInv, TypeInv', LogInv, [Next]_vars
  PROVE  LogInv'
<1> USE DEF TypeInv
<1>0. PICK n \in 0 .. MaxTip, m \in 0 .. MaxTip : Ends(n, m) /\ BatchInv(n, m)
  BY DEF LogInv
<1>a. FirstToFetch \in Nat /\ FirstHeight <= FirstToFetch /\ cursorLast <= FirstToFetch - 1
  BY FirstToFetchType
<1>b. Len(blocks) \in Nat /\ cursorLast \in Nat /\ block \in Nat /\ n \in Nat /\ m \in Nat
  BY MaxTipAssumption DEF TypeOK
<1> DEFINE Kept == UNCHANGED <<blocks, blockLog, cursorLast>>
<1>c. Kept => Ends(n, m)' /\ FirstToFetch' = FirstToFetch /\ Len(blocks') = Len(blocks)
  BY <1>0 DEF Ends, Buffered, FirstToFetch, NextHeight
<1> USE DEF Restarting, BetweenBlocks, Writing
<1>1. ASSUME Kept, UNCHANGED <<pc, block>>
      PROVE  LogInv'
  BY <1>0, <1>1, <1>c DEF BatchInv, LogInv
<1>2. CASE StartUp
  <2>1. blocks = <<>> /\ blocks' = <<>> /\ cursorLast = 0 /\ blockLog' = blockLog
        /\ pc' \in {"seed", "restore"}
    BY <1>0, <1>2 DEF StartUp, BatchInv, writerVars, dbVars
  <2>2. Len(<<>>) = 0 /\ Buffered = {} /\ Buffered' = {}
    BY <2>1, RangeOfEmpty DEF Buffered
  <2>3. n = m /\ Ends(n, n)'
    BY <1>0, <1>b, <2>1, <2>2, Parameters DEF Ends
  <2>4. FirstToFetch' = n + 1
    <3>1. CASE blockLog = {}
      <4>1. n = FirstHeight - 1
        BY <1>0, <1>b, <3>1, Parameters DEF Ends
      <4>2. cursorLast' = 0
        BY <1>2, <2>1, <3>1 DEF StartUp, Refresh, cursorVars
      <4> QED BY <4>1, <4>2, Parameters DEF FirstToFetch, NextHeight
    <3>2. CASE blockLog # {}
      <4>1. FirstHeight <= n /\ n \in blockLog
        BY <1>0, <1>b, <3>2, Parameters DEF Ends
      <4>2. cursorLast' = n
        BY <1>0, <1>2, <1>b, <3>2, <4>1, Parameters DEF StartUp, Refresh, IsLastBlock, Ends
      <4> QED BY <1>b, <4>1, <4>2, Parameters DEF FirstToFetch, NextHeight
    <3> QED BY <3>1, <3>2
  <2>5. BatchInv(n, n)'
    BY <1>b, <2>1, <2>2, <2>3, <2>4, Parameters DEF BatchInv
  <2> QED BY <2>3, <2>5 DEF LogInv
<1>3. CASE Seed \/ RestoreDepths
  <2>1. Kept /\ pc \in {"seed", "restore"} /\ pc' \in {"restore", "loop"}
    BY <1>3 DEF Seed, RestoreDepths, Restore, writerVars, bufferVars, dbVars, cursorVars
  <2>2. Len(blocks) = 0
    BY <1>0, <2>1 DEF BatchInv
  <2>3. BatchInv(n, m)'
    BY <1>0, <1>c, <2>1, <2>2, Parameters DEF BatchInv
  <2> QED BY <1>c, <2>1, <2>3 DEF LogInv
<1>4. CASE Step
  <2>1. Kept /\ pc = "loop"
    BY <1>4 DEF Step, writerVars, dbVars, cursorVars
  <2>0. PICK tip \in ReportedTips :
          pc' = "idle" \/ (pc' = "next" /\ StartRange(FirstToFetch, tip))
    BY <1>4 DEF Step
  <2>2. pc' = "idle" \/ (pc' = "next" /\ block' = FirstToFetch - 1)
    BY <2>0 DEF StartRange
  <2>3. BatchInv(n, m)'
    BY <1>0, <1>c, <2>1, <2>2 DEF BatchInv
  <2> QED BY <1>c, <2>1, <2>3 DEF LogInv
<1>5. CASE Wake \/ EndRange \/ FetchErr \/ DropBlock \/ LeaveLoop
  <2>1. Kept /\ BetweenBlocks /\ pc' \in {"loop", "lastFlush"}
    BY <1>5 DEF Wake, EndRange, FetchErr, DropBlock, LeaveLoop, writerVars, dbVars, cursorVars
  <2>2. BatchInv(n, m)'
    BY <1>0, <1>c, <2>1 DEF BatchInv
  <2> QED BY <1>c, <2>1, <2>2 DEF LogInv
<1>6. CASE NextBlock
  <2>1. Kept /\ pc = "next" /\ pc' = "add"
    BY <1>6 DEF NextBlock, writerVars, dbVars, cursorVars
  <2>2. block' = block + 1
    BY <1>6 DEF NextBlock, NextBuffered, Refill, FetchOne
  <2>3. BatchInv(n, m)'
    BY <1>0, <1>a, <1>b, <1>c, <2>1, <2>2 DEF BatchInv
  <2> QED BY <1>c, <2>1, <2>3 DEF LogInv
<1>7. CASE Add
  <2>1. /\ pc = "add" /\ block \in Heights /\ block = FirstToFetch
        /\ block' = block /\ blockLog' = blockLog /\ FirstToFetch' = FirstToFetch
        /\ blocks' = Append(blocks, block)
    <3>1. pc = "add" /\ Buffer(block) /\ UNCHANGED <<dbVars, cursorVars, clientVars>>
      BY <1>7 DEF Add
    <3>2. block \in Heights /\ block = FirstToFetch
      BY <1>0, <3>1 DEF BatchInv, HoldsBlock
    <3> QED BY <3>1, <3>2 DEF Buffer, clientVars, dbVars, cursorVars, FirstToFetch, NextHeight
  <2>2. Buffered' = Buffered \cup {block} /\ Len(blocks') = Len(blocks) + 1
    <3>1. blocks \in Seq(Heights)
      BY DEF TypeOK
    <3>2. Range(Append(blocks, block)) = Range(blocks) \cup {block}
      BY <2>1, <3>1, RangeOfAppend
    <3>3. Len(Append(blocks, block)) = Len(blocks) + 1
      BY <2>1, <3>1
    <3> QED BY <2>1, <3>2, <3>3 DEF Buffered
  <2>3. block \in 0 .. MaxTip /\ block \in Nat
    BY <2>1, MaxTipAssumption DEF Heights
  <2> PICK b \in 0 .. MaxTip : b = block
    BY <2>3
  <2>4. m \in {b - 1, b} /\ (m = b - 1 => Len(blocks) < CommitBatch)
    BY <1>0, <2>1 DEF BatchInv
  <2>5. n <= b
    BY <1>0, <1>b, <2>3, <2>4 DEF Ends
  <2>6. Ends(n, b)'
    BY <1>0, <1>a, <1>b, <2>1, <2>2, <2>3, <2>4, <2>5, Parameters DEF Ends
  <2>7. pc' \in {"flushAdd", "observe", "flush"} /\ (pc' = "observe" => Len(blocks') < CommitBatch)
    <3>1. pc' = IF BatchFull(blocks') THEN "flushAdd"
                ELSE IF mode = "catchUp" THEN "observe" ELSE "flush"
      BY <1>7 DEF Add
    <3>2. Len(blocks') \in Nat /\ (BatchFull(blocks') \/ Len(blocks') < CommitBatch)
      BY <1>b, <2>2, Parameters DEF BatchFull
    <3> QED BY <3>1, <3>2
  <2>8. b - n <= Len(blocks') /\ b - n <= CommitBatch
    <3>1. m - n <= Len(blocks) /\ m - n <= CommitBatch
      BY <1>0 DEF BatchInv
    <3> QED BY <1>b, <2>2, <2>4, <3>1, Parameters
  <2>9. BatchInv(n, b)'
    BY <2>1, <2>7, <2>8 DEF BatchInv
  <2> QED BY <2>6, <2>9 DEF LogInv
<1>8. CASE Flush
  <2>1. /\ pc \in {"flushAdd", "flush", "lastFlush"} /\ Transact /\ blocks' = <<>>
        /\ block' = block /\ FirstToFetch' = FirstToFetch
    BY <1>8 DEF Flush, FlushOk, ClearBuffers, clientVars, cursorVars, FirstToFetch, NextHeight
  <2>2. Ends(m, m)'
    <3>1. Range(blocks') = {}
      BY <2>1, RangeOfEmpty
    <3> QED BY <1>0, <2>1, <3>1, TransactEnds
  <2>3. Len(blocks') = 0
    BY <2>1
  <2>4. \/ pc = "lastFlush" /\ pc' = "stopped"
        \/ pc \in {"flushAdd", "flush"} /\ pc' \in {"flush", "observe"}
    BY <1>8, <2>1 DEF Flush
  <2>5. BatchInv(m, m)'
    BY <1>0, <1>b, <2>1, <2>3, <2>4, Parameters DEF BatchInv
  <2> QED BY <2>2, <2>5 DEF LogInv
<1>9. CASE FlushFails
  <2>1. /\ pc \in {"flushAdd", "flush", "lastFlush"}
        /\ pc' = IF pc = "lastFlush" THEN "stopped" ELSE "loop"
        /\ blocks' = blocks /\ block' = block /\ FirstToFetch' = FirstToFetch
    BY <1>9 DEF FlushFails, FlushErr, writerVars, clientVars, cursorVars, FirstToFetch, NextHeight
  <2>2. Range(blocks') \subseteq blockLog \cup Buffered
    BY <2>1 DEF Buffered
  <2>3. CASE Transact
    <3>1. Ends(m, m)'
      BY <1>0, <2>2, <2>3, TransactEnds
    <3>2. BatchInv(m, m)'
      BY <1>0, <1>b, <2>1, Parameters DEF BatchInv
    <3> QED BY <3>1, <3>2 DEF LogInv
  <2>4. CASE UNCHANGED dbVars
    <3>1. Ends(n, m)'
      BY <1>0, <2>1, <2>4 DEF Ends, Buffered, dbVars
    <3>2. BatchInv(n, m)'
      BY <1>0, <1>b, <2>1 DEF BatchInv
    <3> QED BY <3>1, <3>2 DEF LogInv
  <2> QED BY <1>9, <2>3, <2>4 DEF FlushFails, FlushErr
<1>10. CASE ObserveBlock
  <2>1. /\ pc = "observe" /\ pc' = "next" /\ block' = block /\ cursorLast' = block
        /\ blocks' = blocks /\ blockLog' = blockLog
    BY <1>10 DEF ObserveBlock, Observe, dbVars, writerVars, clientVars
  <2>2. block = FirstToFetch /\ m = block /\ Len(blocks) < CommitBatch
    BY <1>0, <2>1 DEF BatchInv
  <2>3. FirstToFetch' = block + 1
    BY <1>a, <2>1, <2>2, Parameters DEF FirstToFetch, NextHeight
  <2>4. Ends(n, m)'
    BY <1>0, <2>1 DEF Ends, Buffered
  <2>5. BatchInv(n, m)'
    BY <1>0, <1>a, <1>b, <2>1, <2>2, <2>3 DEF BatchInv
  <2> QED BY <2>4, <2>5 DEF LogInv
<1>11. CASE Exit \/ ShutdownTimeout \/ Crash
  BY <1>11, DieLog DEF Exit, ShutdownTimeout, Crash
<1>12. CASE NewBlock \/ Signal \/ UNCHANGED vars
  <2>1. Kept /\ UNCHANGED <<pc, block>>
    BY <1>12 DEF NewBlock, Signal, vars, dbVars, writerVars, cursorVars, clientVars
  <2> QED BY <1>1, <2>1
<1> QED
  BY <1>2, <1>3, <1>4, <1>5, <1>6, <1>7, <1>8, <1>9, <1>10, <1>11, <1>12
  DEF Next, Daemon, Faults

\* A transaction that takes effect adds the buffered rows to the tables.
LEMMA TransactRows ==
  ASSUME TypeInv, BufferInv, RowsWithTheirBlock, Transact
  PROVE  RowsWithTheirBlock'
<1> USE DEF Buffered, RowsOf
<1>1. ASSUME NEW h \in Heights
      PROVE  h \in blockLog' <=> eventRows'[h] > 0
  <2>1. eventRows'[h] = eventRows[h] + events[h] /\ eventRows[h] \in Nat /\ events[h] \in Nat
    BY DEF Transact, WriteDepths, WriteEvents, WriteBlocks, TypeInv, TypeOK
  <2>2. h \in blockLog' <=> h \in blockLog \/ h \in Buffered
    BY DEF Transact, WriteDepths, WriteEvents, WriteBlocks
  <2> QED BY <2>1, <2>2 DEF BufferInv, RowsWithTheirBlock
<1>2. ASSUME NEW h \in FirstHeight .. MaxTip, NEW p \in Pools
      PROVE  (h \in blockLog' /\ p \in Touched[h]) <=> \E r \in RowsOf(p)' : r.at = h
  <2>1. h \in Heights
    BY Parameters DEF Heights
  <2>2. (h \in blockLog /\ p \in Touched[h]) <=> \E r \in depthRows : r.pool = p /\ r.at = h
    BY DEF RowsWithTheirBlock
  <2>3. (h \in Buffered /\ p \in Touched[h]) <=> \E r \in depths : r.pool = p /\ r.at = h
    BY <2>1 DEF BufferInv
  <2> QED BY <2>2, <2>3 DEF Transact, WriteDepths, WriteEvents, WriteBlocks
<1>3. ASSUME NEW p \in Pools
      PROVE  statusRows'[p] > 0 <=> \E r \in RowsOf(p)' : r.at < FirstHeight
  <2>1. statusRows' = statusRows /\ depthRows' = depthRows \cup depths
    BY DEF Transact, WriteDepths, WriteEvents, WriteBlocks
  <2>2. \A r \in depths : ~(r.at < FirstHeight)
    BY Parameters DEF BufferInv, TypeInv, TypeOK, DepthRow
  <2> QED BY <2>1, <2>2 DEF RowsWithTheirBlock
<1> QED BY <1>1, <1>2, <1>3 DEF RowsWithTheirBlock

LEMMA EmptyBuffer ==
  ASSUME blocks' = <<>>, events' = NoEvents, depths' = {}
  PROVE  BufferInv'
BY RangeOfEmpty DEF BufferInv, Buffered, NoEvents

\* Every step keeps the rows, buffered and committed, with their blocks.
LEMMA RowsStep ==
  ASSUME TypeInv, LogInv, BufferInv, RowsWithTheirBlock, [Next]_vars
  PROVE  BufferInv' /\ RowsWithTheirBlock'
<1>1. ASSUME UNCHANGED bufferVars PROVE BufferInv'
  BY <1>1 DEF bufferVars, BufferInv, Buffered
<1>2. ASSUME UNCHANGED dbVars PROVE RowsWithTheirBlock'
  BY <1>2 DEF dbVars, RowsWithTheirBlock, RowsOf
<1>3. CASE Seed
  <2>1. UNCHANGED <<bufferVars, blockLog, eventRows>>
    BY <1>3 DEF Seed, writerVars, bufferVars
  <2>2. \A r \in depthRows' : r \in depthRows \/ r.at = FirstHeight - 1
    BY <1>3 DEF Seed
  <2>3. depthRows \subseteq depthRows'
    BY <1>3 DEF Seed
  <2>4. RowsWithTheirBlock'
    <3>1. ASSUME NEW h \in FirstHeight .. MaxTip, NEW p \in Pools
          PROVE  (\E r \in RowsOf(p)' : r.at = h) <=> \E r \in RowsOf(p) : r.at = h
      BY <2>2, <2>3, Parameters DEF RowsOf
    <3>2. ASSUME NEW p \in Pools
          PROVE  statusRows'[p] > 0 <=> \E r \in RowsOf(p)' : r.at < FirstHeight
      <4>1. PICK t \in 0 .. chainTip :
              /\ StatusesSeeded(t)
              /\ depthRows' = depthRows \cup
                   {[pool |-> q, at |-> FirstHeight - 1, depth |-> TrueDepth(q, t)] : q \in PoolsAt(t)}
        BY <1>3 DEF Seed
      <4>2. (\E r \in RowsOf(p)' : r.at < FirstHeight) <=>
              (\E r \in RowsOf(p) : r.at < FirstHeight) \/ p \in PoolsAt(t)
        <5> DEFINE row(q) == [pool |-> q, at |-> FirstHeight - 1, depth |-> TrueDepth(q, t)]
        <5>1. \A q : row(q).pool = q /\ row(q).at < FirstHeight
          BY Parameters
        <5>2. depthRows' = depthRows \cup {row(q) : q \in PoolsAt(t)}
          BY <4>1
        <5> HIDE DEF row
        <5> QED BY <5>1, <5>2 DEF RowsOf
      <4>3. statusRows[p] \in Nat /\ statusRows'[p] = statusRows[p] + IF p \in PoolsAt(t) THEN 1 ELSE 0
        BY <4>1 DEF StatusesSeeded, TypeInv, TypeOK
      <4>4. statusRows'[p] > 0 <=> statusRows[p] > 0 \/ p \in PoolsAt(t)
        BY <4>3
      <4> QED BY <4>2, <4>4 DEF RowsWithTheirBlock
    <3> QED BY <2>1, <3>1, <3>2 DEF RowsWithTheirBlock
  <2> QED BY <1>1, <2>1, <2>4
<1>4. CASE Add
  <2>1. block \in Heights /\ Buffer(block) /\ UNCHANGED dbVars
    BY <1>4 DEF Add, TypeInv, HoldsBlock
  <2>2. Buffered' = Buffered \cup {block}
    BY <2>1, RangeOfAppend DEF Buffered, Buffer, TypeInv, TypeOK
  <2>3. ASSUME NEW h \in Heights
        PROVE  h \in Buffered' <=> events'[h] > 0
    BY <2>1, <2>2 DEF Buffer, BufferInv, TypeInv, TypeOK
  <2>4. ASSUME NEW h \in Heights, NEW p \in Pools
        PROVE  (h \in Buffered' /\ p \in Touched[h]) <=> \E r \in depths' : r.pool = p /\ r.at = h
    <3>1. depths' = depths \cup Changed(block)
      BY <2>1 DEF Buffer
    <3>2. (h = block /\ p \in Touched[h]) <=> \E r \in Changed(block) : r.pool = p /\ r.at = h
      <4> DEFINE row(q) == [pool |-> q, at |-> block, depth |-> Applied(block)[q]]
      <4>1. \A q : row(q).pool = q /\ row(q).at = block
        OBVIOUS
      <4>2. Changed(block) = {row(q) : q \in Touched[block]}
        BY DEF Changed
      <4> HIDE DEF row
      <4> QED BY <4>1, <4>2
    <3>3. (h \in Buffered /\ p \in Touched[h]) <=> \E r \in depths : r.pool = p /\ r.at = h
      BY DEF BufferInv
    <3> QED BY <2>2, <3>1, <3>2, <3>3
  <2>5. \A r \in depths' : FirstHeight <= r.at
    <3>1. FirstHeight <= block
      BY <1>4, FirstToFetchType DEF Add, TypeInv, LogInv, BatchInv
    <3>2. depths' = depths \cup Changed(block) /\ \A r \in Changed(block) : r.at = block
      BY <2>1 DEF Buffer, Changed
    <3> QED BY <3>1, <3>2 DEF BufferInv
  <2>6. BufferInv'
    BY <2>3, <2>4, <2>5 DEF BufferInv
  <2> QED BY <1>2, <2>1, <2>6
<1>5. CASE Flush
  BY <1>5, TransactRows, EmptyBuffer DEF Flush, FlushOk, ClearBuffers
<1>6. CASE FlushFails
  BY <1>1, <1>2, <1>6, TransactRows DEF FlushFails, FlushErr, writerVars, bufferVars
<1>7. CASE Exit \/ ShutdownTimeout \/ Crash
  BY <1>2, <1>7, EmptyBuffer DEF Exit, ShutdownTimeout, Crash, Die
<1>8. CASE NewBlock \/ Signal \/ StartUp \/ RestoreDepths \/ Step \/ UNCHANGED vars
  <2>1. UNCHANGED <<bufferVars, dbVars>>
    BY <1>8 DEF NewBlock, Signal, StartUp, RestoreDepths, Restore, Step, vars, writerVars,
                bufferVars, dbVars
  <2> QED BY <1>1, <1>2, <2>1
<1>9. CASE Wake \/ NextBlock \/ EndRange \/ FetchErr \/ DropBlock \/ ObserveBlock \/ LeaveLoop
  <2>1. UNCHANGED <<bufferVars, dbVars>>
    BY <1>9 DEF Wake, NextBlock, EndRange, FetchErr, DropBlock, ObserveBlock, LeaveLoop,
                writerVars, bufferVars
  <2> QED BY <1>1, <1>2, <2>1
<1> QED
  BY <1>3, <1>4, <1>5, <1>6, <1>7, <1>8, <1>9 DEF Next, Daemon, Faults

LEMMA InitSafety == Init => SafetyInv
<1> SUFFICES ASSUME Init PROVE SafetyInv
  OBVIOUS
<1>1. /\ blockLog = {} /\ blocks = <<>> /\ pc = "down" /\ cursorLast = 0 /\ depthRows = {}
      /\ depths = {} /\ events = NoEvents /\ eventRows = NoEvents
      /\ statusRows = [p \in Pools |-> 0]
  BY DEF Init, DatabaseInit, WriterInit, CursorInit
<1>2. Buffered = {} /\ Len(blocks) = 0
  BY <1>1, RangeOfEmpty DEF Buffered
<1>3. PICK n \in 0 .. MaxTip : n = FirstHeight - 1
  BY Parameters
<1>4. Ends(n, n) /\ BatchInv(n, n)
  BY <1>1, <1>2, <1>3, Parameters DEF Ends, BatchInv, Restarting, BetweenBlocks, Writing
<1>5. BufferInv /\ RowsWithTheirBlock
  BY <1>1, <1>2 DEF BufferInv, RowsWithTheirBlock, RowsOf, NoEvents
<1> QED BY <1>4, <1>5, InitType DEF SafetyInv, LogInv

LEMMA NextSafety == SafetyInv /\ [Next]_vars => SafetyInv'
BY NextType, LogStep, RowsStep DEF SafetyInv

LEMMA SafetyHolds == Spec => []SafetyInv
BY InitSafety, NextSafety, PTL DEF Spec

\* block_log has no gap and a block's rows come and go with its log entry,
\* whatever crashes, flush failures and lost commit answers there are.
THEOREM LogIsContiguous == Spec => []Contiguous
<1>1. SafetyInv => Contiguous
  BY MaxTipAssumption, Parameters DEF SafetyInv, LogInv, Ends, Contiguous
<1> QED BY <1>1, SafetyHolds, PTL

THEOREM RowsAreAtomic == Spec => []RowsWithTheirBlock
<1>1. SafetyInv => RowsWithTheirBlock
  BY DEF SafetyInv
<1> QED BY <1>1, SafetyHolds, PTL

\* The cursor never passes a height that is neither committed nor buffered.
THEOREM CursorSkipsNothing == Spec => []NothingSkipped
<1>1. SafetyInv => NothingSkipped
  <2> SUFFICES ASSUME SafetyInv PROVE NothingSkipped
    OBVIOUS
  <2>1. PICK n \in 0 .. MaxTip, m \in 0 .. MaxTip : Ends(n, m) /\ BatchInv(n, m)
    BY DEF SafetyInv, LogInv
  <2>2. cursorLast \in 0 .. MaxTip /\ cursorLast <= FirstToFetch - 1 /\ FirstToFetch \in Nat /\ pc \in PCs
    BY FirstToFetchType DEF SafetyInv, TypeInv, TypeOK
  <2>3. cursorLast <= m
    BY <2>1, <2>2, Parameters DEF BatchInv, Restarting, BetweenBlocks, Writing, PCs
  <2> QED BY <2>1, <2>2, <2>3, Parameters DEF Ends, NothingSkipped
<1> QED BY <1>1, SafetyHolds, PTL

\* The number of heights above n, up to k.
LEMMA IntervalSize ==
  ASSUME NEW n \in Int, NEW k \in Int
  PROVE  /\ IsFiniteSet(n + 1 .. k)
         /\ Cardinality(n + 1 .. k) = IF k <= n THEN 0 ELSE k - n
<1>1. PICK a \in Int : a = n + 1
  OBVIOUS
<1>2. IsFiniteSet(a .. k) /\ Cardinality(a .. k) = IF a > k THEN 0 ELSE k - a + 1
  BY FS_Interval
<1>3. (IF a > k THEN 0 ELSE k - a + 1) = IF k <= n THEN 0 ELSE k - n
  BY <1>1
<1> QED BY <1>1, <1>2, <1>3

\* A process that dies loses at most one batch, and the cursor leads the
\* database by less than one.
THEOREM LossIsBounded == Spec => []LossBounded
<1>1. SafetyInv => LossBounded
  <2> SUFFICES ASSUME SafetyInv PROVE LossBounded
    OBVIOUS
  <2>1. PICK n \in 0 .. MaxTip, m \in 0 .. MaxTip : Ends(n, m) /\ BatchInv(n, m)
    BY DEF SafetyInv, LogInv
  <2>2. /\ cursorLast \in 0 .. MaxTip /\ cursorLast <= FirstToFetch - 1
        /\ FirstToFetch \in Nat /\ FirstHeight <= FirstToFetch
        /\ pc \in PCs /\ Len(blocks) \in Nat
    BY FirstToFetchType DEF SafetyInv, TypeInv, TypeOK
  <2>3. n \in Int /\ m \in Int /\ n + 1 \in Int /\ n <= m /\ m - n <= CommitBatch
        /\ cursorLast \in Int
    BY <2>1, <2>2, Parameters DEF Ends, BatchInv
  <2>4. Buffered \ blockLog \subseteq n + 1 .. m
    BY <2>1, <2>3, Parameters DEF Ends
  <2>5. IsFiniteSet(n + 1 .. m) /\ Cardinality(n + 1 .. m) = m - n
    BY <2>3, IntervalSize
  <2>6. Cardinality(Buffered \ blockLog) <= m - n
    BY <2>4, <2>5, FS_Subset
  <2>7. Cardinality(Buffered \ blockLog) <= CommitBatch
    <3>1. Cardinality(Buffered \ blockLog) \in Nat
      BY <2>4, <2>5, FS_Subset, FS_CardinalityType
    <3> QED BY <2>3, <2>6, <3>1, Parameters
  <2>8. (FirstHeight .. cursorLast) \ blockLog \subseteq n + 1 .. cursorLast
    BY <2>1, <2>3, Parameters DEF Ends
  <2>9. IsFiniteSet(n + 1 .. cursorLast)
        /\ Cardinality(n + 1 .. cursorLast) = IF cursorLast <= n THEN 0 ELSE cursorLast - n
    BY <2>3, IntervalSize
  <2>10. cursorLast - n < CommitBatch
    <3>1. CASE pc = "down"
      BY <2>1, <2>3, <3>1, Parameters DEF BatchInv, Ends
    <3>2. CASE pc \in {"seed", "restore"}
      <4>1. Len(blocks) = 0
        BY <2>1, <3>2 DEF BatchInv, Restarting
      <4> QED BY <2>1, <2>2, <2>3, <3>2, <4>1, Parameters DEF BatchInv
    <3>3. CASE BetweenBlocks
      BY <2>1, <2>2, <2>3, <3>3, Parameters DEF BatchInv
    <3>4. CASE Writing
      BY <2>1, <2>2, <2>3, <3>4, Parameters DEF BatchInv
    <3> QED BY <2>2, <3>1, <3>2, <3>3, <3>4 DEF BetweenBlocks, Writing, PCs
  <2>11. Cardinality((FirstHeight .. cursorLast) \ blockLog) <= Cardinality(n + 1 .. cursorLast)
         /\ Cardinality((FirstHeight .. cursorLast) \ blockLog) \in Nat
    BY <2>8, <2>9, FS_Subset, FS_CardinalityType
  <2>12. Cardinality((FirstHeight .. cursorLast) \ blockLog) < CommitBatch
    BY <2>3, <2>9, <2>10, <2>11, Parameters
  <2> QED BY <2>7, <2>12 DEF LossBounded
<1> QED BY <1>1, SafetyHolds, PTL

------------------------------------------------------------------------------
\* What readers see of the loop is the abstract indexer.

\* The cursor is empty or on an indexed height.
CursorInv == cursorLast # 0 => FirstHeight <= cursorLast

LEMMA CursorStep == SafetyInv /\ CursorInv /\ [Next]_vars => CursorInv'
<1> SUFFICES ASSUME SafetyInv, CursorInv, [Next]_vars PROVE CursorInv'
  OBVIOUS
<1>0. PICK n \in 0 .. MaxTip, m \in 0 .. MaxTip : Ends(n, m) /\ BatchInv(n, m)
  BY DEF SafetyInv, LogInv
<1>1. CASE StartUp
  <2>1. blockLog = FirstHeight .. n
    BY <1>0 DEF Ends
  <2>2. UNCHANGED cursorLast \/ cursorLast' \in blockLog
    BY <1>1 DEF StartUp, Refresh, cursorVars, IsLastBlock
  <2> QED BY <2>1, <2>2 DEF CursorInv
<1>2. CASE ObserveBlock
  <2>1. cursorLast' = FirstToFetch
    BY <1>0, <1>2 DEF ObserveBlock, Observe, BatchInv, Writing
  <2>2. FirstHeight <= FirstToFetch
    BY FirstToFetchType DEF SafetyInv, TypeInv
  <2> QED BY <2>1, <2>2 DEF CursorInv
<1>3. CASE Exit \/ ShutdownTimeout \/ Crash
  BY <1>3 DEF Exit, ShutdownTimeout, Crash, Die, CursorInv
<1>4. CASE UNCHANGED cursorLast
  BY <1>4 DEF CursorInv
<1> QED
  BY <1>1, <1>2, <1>3, <1>4
  DEF Next, Daemon, Faults, Seed, RestoreDepths, Step, Wake, NextBlock, EndRange, FetchErr,
      DropBlock, Add, Flush, FlushFails, LeaveLoop, NewBlock, Signal, cursorVars, vars

LEMMA CursorHolds == Spec => []CursorInv
<1>1. Init => CursorInv
  BY DEF Init, CursorInit, CursorInv
<1> QED BY <1>1, CursorStep, SafetyHolds, PTL DEF Spec

\* The newest committed block, where block_log ends at n.
LEMMA NewestOfPrefix ==
  ASSUME NEW n \in Int, FirstHeight - 1 <= n
  PROVE  Max({0} \cup FirstHeight .. n) = IF FirstHeight <= n THEN n ELSE 0
<1> DEFINE S == {0} \cup FirstHeight .. n
           top == IF FirstHeight <= n THEN n ELSE 0
<1>1. top \in S /\ \A y \in S : top >= y /\ y \in Int
  BY Parameters
<1>2. \A x \in S : (\A y \in S : x >= y) => x = top
  BY <1>1
<1> QED BY <1>1, <1>2 DEF Max

\* The same as the readers see it: it is the height whose successor is n + 1.
LEMMA NewestFollowed ==
  ASSUME NEW n \in Nat, FirstHeight - 1 <= n, blockLog = FirstHeight .. n
  PROVE  /\ NewestBlock = IF FirstHeight <= n THEN n ELSE 0
         /\ I!After(NewestBlock) = n + 1
         /\ \A h \in Int : I!Lead(h) = h - n
<1>1. NewestBlock = IF FirstHeight <= n THEN n ELSE 0
  BY NewestOfPrefix DEF NewestBlock
<1>2. I!After(NewestBlock) = n + 1
  BY <1>1, Parameters DEF I!After
<1> QED BY <1>1, <1>2 DEF I!Lead, I!Between

\* A transaction takes the log from n to m: the abstract commit, or nothing.
LEMMA TransactIsCommit ==
  ASSUME SafetyInv, CursorInv, NEW n \in 0 .. MaxTip, NEW m \in 0 .. MaxTip, Ends(n, m),
         BatchInv(n, m), pc \in {"flushAdd", "flush", "lastFlush"}, Transact,
         Running', UNCHANGED cursorLast
  PROVE  [I!IndexerNext]_(I!indexerVars)
<1>1. blockLog = FirstHeight .. n /\ blockLog' = FirstHeight .. m
  BY DEF Ends, Transact, WriteDepths, WriteEvents, WriteBlocks, Buffered
<1>2. n \in Nat /\ m \in Nat /\ FirstHeight - 1 <= n /\ n <= m /\ m <= MaxTip
  BY Parameters DEF Ends
<1>3. Running
  BY DEF Running
<1>4. CASE n = m
  BY <1>1, <1>3, <1>4 DEF I!indexerVars, NewestBlock
<1>5. CASE n < m
  <2>1. I!After(NewestBlock) = n + 1 /\ I!Lead(m) = m - n
    BY <1>1, <1>2, NewestFollowed
  <2>2. NewestBlock' = m
    <3>1. Max({0} \cup FirstHeight .. m) = m
      BY <1>2, <1>5, Parameters, NewestOfPrefix
    <3> QED BY <1>1, <3>1 DEF NewestBlock
  <2>3. I!After(IF Running THEN cursorLast ELSE 0) = FirstToFetch
    BY <1>3 DEF I!After, FirstToFetch, NextHeight
  <2>4. m <= FirstToFetch /\ FirstToFetch \in Nat
    BY FirstToFetchType DEF BatchInv, BetweenBlocks, Writing, SafetyInv, TypeInv
  <2>5. m \in n + 1 .. FirstToFetch /\ m - n <= CommitBatch
    BY <1>2, <1>5, <2>4 DEF BatchInv
  <2>6. I!Commit
    BY <1>2, <1>3, <2>1, <2>2, <2>3, <2>5 DEF I!Commit
  <2> QED BY <2>6 DEF I!IndexerNext
<1> QED BY <1>2, <1>4, <1>5

LEMMA IndexerStep ==
  ASSUME SafetyInv, CursorInv, [Next]_vars
  PROVE  [I!IndexerNext]_(I!indexerVars)
<1>a. TypeOK /\ HoldsBlock
  BY DEF SafetyInv, TypeInv
<1>0. PICK n \in 0 .. MaxTip, m \in 0 .. MaxTip : Ends(n, m) /\ BatchInv(n, m)
  BY DEF SafetyInv, LogInv
<1>b. /\ n \in Nat /\ m \in Nat /\ FirstHeight - 1 <= n /\ n <= m /\ blockLog = FirstHeight .. n
      /\ FirstToFetch \in Nat /\ cursorLast \in Nat /\ Len(blocks) \in Nat
  BY <1>0, <1>a, FirstToFetchType, Parameters DEF Ends, TypeOK
<1>1. CASE StartUp \/ Seed
  <2>1. ~Running /\ ~Running' /\ UNCHANGED blockLog
    BY <1>1 DEF StartUp, Seed, Running, dbVars
  <2> QED BY <2>1 DEF I!indexerVars, NewestBlock, Running
<1>2. CASE RestoreDepths
  <2>1. pc = "restore" /\ ~Running /\ Running' /\ UNCHANGED <<blockLog, cursorLast>>
    BY <1>2 DEF RestoreDepths, Running, dbVars, cursorVars
  <2>2. Len(blocks) = 0
    BY <1>0, <2>1 DEF BatchInv, Restarting
  <2>3. n = FirstToFetch - 1
    BY <1>0, <1>b, <2>1, <2>2 DEF BatchInv
  <2>4. NewestBlock = IF FirstHeight <= n THEN n ELSE 0
    BY <1>b, NewestFollowed
  <2>5. NewestBlock = cursorLast
    BY <1>b, <2>3, <2>4, Parameters DEF FirstToFetch, NextHeight, CursorInv
  <2>6. I!Start
    BY <2>1, <2>5 DEF I!Start, NewestBlock
  <2> QED BY <2>6 DEF I!IndexerNext
<1>3. CASE Flush
  <2>1. Transact /\ Running' /\ UNCHANGED cursorLast /\ pc \in {"flushAdd", "flush", "lastFlush"}
    BY <1>3 DEF Flush, FlushOk, Running, cursorVars
  <2> QED BY <1>0, <2>1, TransactIsCommit
<1>4. CASE FlushFails
  <2>1. /\ Running /\ Running' /\ UNCHANGED cursorLast
        /\ pc \in {"flushAdd", "flush", "lastFlush"}
        /\ Transact \/ UNCHANGED dbVars
    BY <1>4 DEF FlushFails, FlushErr, Running, cursorVars
  <2>2. CASE Transact
    BY <1>0, <2>1, <2>2, TransactIsCommit
  <2>3. CASE UNCHANGED dbVars
    BY <2>1, <2>3 DEF dbVars, I!indexerVars, NewestBlock
  <2> QED BY <2>1, <2>2, <2>3
<1>5. CASE ObserveBlock
  <2>1. /\ pc = "observe" /\ Running /\ Running' /\ UNCHANGED blockLog
        /\ cursorLast' = block /\ block \in Heights
    BY <1>5, <1>a DEF ObserveBlock, Observe, Running, dbVars, HoldsBlock
  <2>2. block = FirstToFetch /\ m = FirstToFetch /\ Len(blocks) < CommitBatch
    BY <1>0, <2>1 DEF BatchInv, Writing
  <2>3. I!After(IF Running THEN cursorLast ELSE 0) = FirstToFetch
    BY <2>1 DEF I!After, FirstToFetch, NextHeight
  <2>4. I!Lead(FirstToFetch) = FirstToFetch - n
    BY <1>b, NewestFollowed
  <2>5. FirstToFetch <= MaxTip /\ FirstToFetch - n < CommitBatch
    BY <1>0, <1>b, <2>1, <2>2, Parameters DEF BatchInv, Heights
  <2>6. I!Publish
    BY <2>1, <2>2, <2>3, <2>4, <2>5 DEF I!Publish, NewestBlock
  <2> QED BY <2>6 DEF I!IndexerNext
<1>6. CASE Exit \/ ShutdownTimeout \/ Crash
  <2>1. ~Running' /\ UNCHANGED blockLog
    BY <1>6 DEF Exit, ShutdownTimeout, Crash, Die, Running, dbVars
  <2>2. CASE Running
    BY <2>1, <2>2 DEF I!Stop, I!IndexerNext, NewestBlock
  <2>3. CASE ~Running
    BY <2>1, <2>3 DEF I!indexerVars, NewestBlock, Running
  <2> QED BY <2>2, <2>3
<1>7. CASE Step \/ Wake \/ NextBlock \/ EndRange \/ FetchErr \/ DropBlock \/ Add \/ LeaveLoop
           \/ NewBlock \/ Signal \/ UNCHANGED vars
  <2>1. (Running' <=> Running) /\ UNCHANGED <<blockLog, cursorLast>>
    BY <1>7 DEF Step, Wake, NextBlock, EndRange, FetchErr, DropBlock, Add, LeaveLoop, NewBlock,
                Signal, vars, Running, dbVars, cursorVars
  <2> QED BY <2>1 DEF I!indexerVars, NewestBlock
<1> QED
  BY <1>1, <1>2, <1>3, <1>4, <1>5, <1>6, <1>7 DEF Next, Daemon, Faults

\* The sync loop implements the indexer that the models of the handlers run
\* beside: readers see the database grow by at most a batch and the cursor by
\* single blocks, whatever fails (sync.rs:166-170, block_log.rs:89-95).
THEOREM SyncerRefinesIndexer == Spec => RefinesIndexer
<1>1. Init => I!IndexerInit
  <2> SUFFICES ASSUME Init PROVE I!IndexerInit
    OBVIOUS
  <2>1. blockLog = {} /\ ~Running
    BY DEF Init, DatabaseInit, Running
  <2>2. Max({0} \cup blockLog) = 0
    BY <2>1 DEF Max
  <2> QED BY <2>1, <2>2 DEF I!IndexerInit, NewestBlock
<1>2. SafetyInv /\ CursorInv /\ [Next]_vars => [I!IndexerNext]_(I!indexerVars)
  BY IndexerStep
<1> QED
  BY <1>1, <1>2, SafetyHolds, CursorHolds, PTL DEF Spec, RefinesIndexer, I!IndexerSpec

=============================================================================
