---------------------------- MODULE DepthTracker -----------------------------
(***************************************************************************)
(* The in-memory pool state of the recorder: midgard-record/src/depth.rs.  *)
(* Between two calls of the writer the dirty list is empty (take_changed   *)
(* empties it at the end of every block), so the current depths are the    *)
(* whole state.                                                            *)
(***************************************************************************)
EXTENDS ThorChain

VARIABLE tracker  \* DepthTracker::current; an absent pool has ZeroDepth

\* What applying the events of block h makes of the depth d.
Plus(d, h) == [d EXCEPT ![h] = @ + 1]

\* apply, for every event of block h.
Applied(h) ==
  [p \in Pools |-> IF p \in Touched[h] THEN Plus(tracker[p], h) ELSE tracker[p]]

\* Mutant: the rows carry the depths from before the block.
ChangedStale(h) == {[pool |-> p, at |-> h, depth |-> tracker[p]] : p \in Touched[h]}

\* take_changed after block h: one row per pool the block touched.
Changed(h) ==
  {[pool |-> p, at |-> h, depth |-> Applied(h)[p]] : p \in Touched[h]}

Forget == tracker' = [p \in Pools |-> ZeroDepth]

=============================================================================
