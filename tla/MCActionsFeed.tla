---------------------------- MODULE MCActionsFeed ----------------------------
(***************************************************************************)
(* The feed of a chain of a few events of every mix of kinds.              *)
(***************************************************************************)
EXTENDS ActionsFeed

=============================================================================
