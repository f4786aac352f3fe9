----------------------------- MODULE BlockCursor -----------------------------
(***************************************************************************)
(* The cached ends of block_log that the sync loop and the API handlers    *)
(* share: BlockCursor of midgard-db/src/block_log.rs.  0 is the empty      *)
(* position.                                                               *)
(***************************************************************************)
EXTENDS Database

VARIABLES cursorFirst, cursorLast

cursorVars == <<cursorFirst, cursorLast>>

CursorInit == cursorFirst = 0 /\ cursorLast = 0

\* Mutant: the two ends are swapped.
RefreshSwapped ==
  \/ /\ blockLog = {}
     /\ UNCHANGED cursorVars
  \/ \E lo, hi \in blockLog :
       /\ IsFirstBlock(lo) /\ cursorLast' = lo
       /\ IsLastBlock(hi) /\ cursorFirst' = hi

\* refresh: both ends from the database; an empty table stores nothing.
Refresh ==
  \/ /\ blockLog = {}
     /\ UNCHANGED cursorVars
  \/ \E lo, hi \in blockLog :
       /\ IsFirstBlock(lo) /\ cursorFirst' = lo
       /\ IsLastBlock(hi) /\ cursorLast' = hi

\* observe.
Observe(h) ==
  /\ cursorFirst' = IF cursorFirst = 0 THEN h ELSE cursorFirst
  /\ cursorLast' = h

\* Mutant: an off-by-one in the resume height.
NextHeightSkips == cursorLast + 2

\* next_height.
NextHeight == cursorLast + 1

=============================================================================
