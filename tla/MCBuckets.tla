------------------------------- MODULE MCBuckets -----------------------------
(***************************************************************************)
(* Requests around the edges of a leap year.                               *)
(***************************************************************************)
EXTENDS Buckets

\* 2023-12-31 (a Sunday), 2024-01-01, 2024-02-29, 2024-03-01, at different
\* times of the day.
MCTimes == {1703980800, 1704067200, 1704067499, 1709251199, 1709251200, 1711929600}

MCChains ==
  {[first |-> f, now |-> n] : f \in {1703980800 - 50 * Day, 1704070801}, n \in {1709255400, 1711929599}}

=============================================================================
