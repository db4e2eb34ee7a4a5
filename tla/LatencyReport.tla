--------------------------- MODULE LatencyReport ----------------------------
(***************************************************************************)
(* The latency summary of one operation (src/workload/stats.go:384-511)    *)
(* and its place in the result document (src/workload/result.go) and in    *)
(* the console table.  Latencies stay in microseconds, a mean is the pair  *)
(* of a sum and a count, a quantile q = n/d the pair <<n, d>>.             *)
(***************************************************************************)
EXTENDS Integers, Sequences, FiniteSets, Functions

CONSTANTS
  Latencies,   \* latencies that may be observed
  Tallies,     \* how often one of them has been observed so far
  Absent       \* a nil *LatencyStats, or the dash of the console table

\* Latencies are counted in microseconds, as int64.
ASSUME LatencyAssumption ==
  /\ Latencies \subseteq Nat /\ IsFiniteSet(Latencies)
  /\ Tallies \subseteq Nat \ {0}

VARIABLE stats   \* opStats: count, errors, and latencies with its keys only

Observed(l) == SumFunction(l)

\* samples: the sum over the map, not count - errors.
SampleCount(s) == Observed(s.latencies)

\* What any number of Record calls and merges may have left.
ReportInit ==
  \E keys \in SUBSET Latencies : \E l \in [keys -> Tallies], errors \in 0..1 :
    stats = [count |-> Observed(l) + errors, errors |-> errors, latencies |-> l]

\* One more operation, successful with latency us, or failed.
Observe(us) ==
  LET l    == stats.latencies
      seen == IF us \in DOMAIN l THEN l[us] ELSE 0
  IN  /\ us \in DOMAIN l => l[us] \in Tallies
      /\ stats' = [stats EXCEPT !.count = @ + 1,
                     !.latencies = [u \in DOMAIN l \cup {us} |->
                                      IF u = us THEN seen + 1 ELSE l[u]]]

Fail ==
  /\ stats.errors <= 1
  /\ stats' = [stats EXCEPT !.count = @ + 1, !.errors = @ + 1]

ReportNext == Fail \/ \E us \in Latencies : Observe(us)

ReportSpec == ReportInit /\ [][ReportNext]_stats
-----------------------------------------------------------------------------
(* stats.go *)

\* The keys in ascending order: there is one such sequence.
SortedKeys(l) ==
  LET n == Cardinality(DOMAIN l)
  IN  CHOOSE keys \in [1..n -> DOMAIN l] : \A i, j \in 1..n : i < j => keys[i] < keys[j]

\* The running sum over the first i keys.
Cumulative(l, keys) ==
  LET cum[i \in 0..Len(keys)] == IF i = 0 THEN 0 ELSE cum[i - 1] + l[keys[i]]
  IN  cum

\* int64(math.Ceil(q * float64(total))), kept within 1..total.
Rank(q, total) ==
  LET ceil == (q[1] * total + q[2] - 1) \div q[2]
  IN  IF ceil < 1 THEN 1 ELSE IF ceil > total THEN total ELSE ceil

\* Regression: the rank is passed, not reached.
QuantileFrom_Passed(l, keys, total, q) ==
  LET cum  == Cumulative(l, keys)
      hits == {i \in 1..(Len(keys) - 1) : cum[i] > Rank(q, total)}
  IN  IF hits = {} THEN keys[Len(keys)] ELSE keys[CHOOSE i \in hits : \A j \in hits : i <= j]

\* The first key but the last at which the running sum reaches the rank.
QuantileFrom(l, keys, total, q) ==
  LET cum  == Cumulative(l, keys)
      hits == {i \in 1..(Len(keys) - 1) : cum[i] >= Rank(q, total)}
  IN  IF hits = {} THEN keys[Len(keys)] ELSE keys[CHOOSE i \in hits : \A j \in hits : i <= j]

Quantiles == [p50 |-> <<1, 2>>, p95 |-> <<95, 100>>, p99 |-> <<99, 100>>, p999 |-> <<999, 1000>>]

Summaries == [min : Nat, mean : Nat \X Nat, at : [DOMAIN Quantiles -> Nat], max : Nat]

\* A pointer to a summary, even an all-zero one, is not nil.
ASSUME AbsentAssumption == Absent \notin Summaries

LatencyStats(s) ==
  LET keys  == SortedKeys(s.latencies)
      total == Observed(s.latencies)
  IN  [min  |-> keys[1],
       mean |-> <<SumFunction([us \in DOMAIN s.latencies |-> us * s.latencies[us]]), total>>,
       at   |-> [p \in DOMAIN Quantiles |->
                  QuantileFrom(s.latencies, keys, total, Quantiles[p])],
       max  |-> keys[Len(keys)]]

\* The latency block of an operation in the document.
LatencyOf(s) == IF SampleCount(s) > 0 THEN LatencyStats(s) ELSE Absent

\* One cell of the console table.
LatencyCell(s, q) ==
  IF SampleCount(s) = 0 THEN Absent
  ELSE QuantileFrom(s.latencies, SortedKeys(s.latencies), Observed(s.latencies), q)
-----------------------------------------------------------------------------
(* Properties *)

\* The nearest-rank definition of percentile's comment (stats.go:449): the
\* smallest observed v such that at least q * N of the N observations are <= v.
NearestRank(l, q) ==
  LET UpTo(v) == SumFunction([u \in {x \in DOMAIN l : x <= v} |-> l[u]])
      enough  == {v \in DOMAIN l : q[2] * UpTo(v) >= q[1] * Observed(l)}
  IN  CHOOSE v \in enough : \A w \in enough : v <= w

\* The summary is exact at every rank boundary: each percentile is the nearest-
\* rank one, on the console too, min and max bound it and the mean, and it is
\* there iff something succeeded, even in zero microseconds ("an all-zero
\* struct that must still be reported", result.go:350; "Printing 0.0 there
\* would read as instant", stats.go:462).
SummaryExact ==
  LET l == stats.latencies
      r == LatencyOf(stats)
  IN  /\ (r = Absent) <=> (DOMAIN l = {})
      /\ \A p \in DOMAIN Quantiles :
           LatencyCell(stats, Quantiles[p]) = IF r = Absent THEN Absent ELSE r.at[p]
      /\ r # Absent =>
           /\ \A p \in DOMAIN Quantiles : r.at[p] = NearestRank(l, Quantiles[p])
           /\ {r.min, r.max} \subseteq DOMAIN l /\ \A u \in DOMAIN l : r.min <= u /\ u <= r.max
           /\ r.min * r.mean[2] <= r.mean[1] /\ r.mean[1] <= r.max * r.mean[2]
=============================================================================
