------------------------------ MODULE Projection -----------------------------
(***************************************************************************)
(* What the indexer promises, without saying how: the database is the      *)
(* exact projection of a prefix of the chain.  Every block of the prefix   *)
(* has its event rows once and its depth rows with the true depths, no     *)
(* other block has any, and the prefix only grows, by at most one batch at *)
(* a time (writer.rs:5-11, depth.rs:9-10).                                 *)
(***************************************************************************)
EXTENDS Integers

CONSTANTS MaxTip, Pools, Touched, CommitBatch

VARIABLES blockLog, eventRows, depthRows

\* The tables after indexing blocks 1 .. n.
LogOf(n) == 1 .. n
EventRowsOf(n) == [h \in 1 .. MaxTip |-> IF h <= n THEN 1 ELSE 0]
DepthOf(p, n) == [k \in 1 .. MaxTip |-> IF k <= n /\ p \in Touched[k] THEN 1 ELSE 0]
DepthRowsOf(n) ==
  UNION {{[pool |-> p, at |-> h, depth |-> DepthOf(p, h)] : p \in Touched[h]} : h \in 1 .. n}

IsProjection(n) ==
  /\ blockLog = LogOf(n)
  /\ eventRows = EventRowsOf(n)
  /\ depthRows = DepthRowsOf(n)

ProjectionInit == IsProjection(0)

Extend ==
  \E n \in 0 .. MaxTip : \E k \in 1 .. CommitBatch :
    /\ n + k <= MaxTip
    /\ IsProjection(n)
    /\ IsProjection(n + k)'

ProjectionSpec ==
  ProjectionInit /\ [][Extend]_<<blockLog, eventRows, depthRows>>

=============================================================================
