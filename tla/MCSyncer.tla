------------------------------- MODULE MCSyncer ------------------------------
(***************************************************************************)
(* Small instances of the sync loop: two pools; block 1 opens p1, block 2  *)
(* moves both, block 3 moves none, block 4 moves p2, block 5 both.         *)
(***************************************************************************)
EXTENDS SyncerProperties

CONSTANTS p1, p2

MCPools == {p1, p2}

MCTouched ==
  [h \in Heights |-> CASE h = 1 -> {p1}
                       [] h = 3 -> {}
                       [] h = 4 -> {p2}
                       [] OTHER -> {p1, p2}]

=============================================================================
