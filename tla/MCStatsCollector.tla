------------------------- MODULE MCStatsCollector -------------------------
(* StatsCollector on a small instance: two workers, two operations, a      *)
(* negative and a positive duration, two drainers.  Operations and         *)
(* drainers are interchangeable in the specification and its properties.   *)
EXTENDS StatsCollector, TLC

MCDurations == {-1, 4}
Symmetric == Permutations(Ops) \cup Permutations(Drainers)
=============================================================================
