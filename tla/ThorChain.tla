------------------------------ MODULE ThorChain ------------------------------
(***************************************************************************)
(* The chain Midgard indexes, as the daemon sees it, and the arithmetic of *)
(* pool depths over it.                                                    *)
(*                                                                         *)
(* A block is its height.  What the indexer needs of a block's content is  *)
(* which pools its events move: Touched[h].  Every branch of               *)
(* DepthTracker::apply adds a signed amount taken from the event to a      *)
(* balance, so a depth is a sum of block contributions; it is represented  *)
(* by how many times each block has been added in.  A depth in which a     *)
(* block counts twice, or counts although the depth should not contain it, *)
(* is then a different value, whatever the amounts are.                    *)
(***************************************************************************)
EXTENDS Integers

CONSTANTS
  MaxTip,   \* bound: the height at which the modelled chain stops growing
  Pools,    \* the pools
  Touched   \* Touched[h]: the pools that the events of block h move

Heights == 1 .. MaxTip

ASSUME MaxTipAssumption == MaxTip \in Nat \ {0}
ASSUME TouchedAssumption == Touched \in [Heights -> SUBSET Pools]

VARIABLE chainTip  \* the newest height the chain has produced (0: none)

Depth == [Heights -> Nat]

ZeroDepth == [k \in Heights |-> 0]

\* The state of pool p after blocks 1 .. n, each applied once.
TrueDepth(p, n) ==
  [k \in Heights |-> IF k <= n /\ p \in Touched[k] THEN 1 ELSE 0]

\* The pools that exist once blocks 1 .. n have run.
PoolsAt(n) == UNION {Touched[k] : k \in 1 .. n}

ChainInit == chainTip = 0

Produce ==
  /\ chainTip < MaxTip
  /\ chainTip' = chainTip + 1

=============================================================================
