------------------------- MODULE MCDiscoveryScheduler -------------------------
(* Instances of DiscoveryScheduler for TLC. *)
EXTENDS DiscoveryScheduler, TLC

CONSTANTS j1, j2, p1, w1, w2

\* Two client jobs of different priority, and periodic ones, which are NORMAL.
MCPriority == [j \in AllJobs |-> IF j = j1 THEN 1 ELSE IF j = j2 THEN 3 ELSE 2]

\* Worker tasks are interchangeable (used in runs without liveness only).
WorkerSymmetry == Permutations(Workers)
=============================================================================
