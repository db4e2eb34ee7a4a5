--------------------------- MODULE StatsCollector ---------------------------
(***************************************************************************)
(* The exact statistics of a pgstorm run (src/workload/stats.go).          *)
(*                                                                         *)
(* Every worker records its operations in a window of its own, under the   *)
(* window's mutex.  A drain, under the collector's mutex c.mu, lifts the   *)
(* windows out of the workers one after another, folds them into the run   *)
(* total and appends one interval to the time series (or folds a sliver    *)
(* into the last one).  Several goroutines may drain: the summary loop's   *)
(* print and main's Finalize.                                              *)
(*                                                                         *)
(* The module is the component in an arbitrary environment: any worker     *)
(* records at any time and any drainer drains with any wall-clock value.   *)
(* RunLifecycle supplies the callers the program really has.               *)
(***************************************************************************)
EXTENDS Integers, Sequences, FiniteSets, Functions

CONSTANTS
  N,             \* cfg.Workers: how many windows may be registered
  Ops,           \* operation names of the active profile (c.ops)
  Durations,     \* measured op durations, truncated to microseconds; may be negative
  Drainers,      \* goroutines that call drain
  NoDrainer,     \* c.mu is free
  MinInterval,   \* minIntervalSeconds, in clock units
  MaxTime,       \* bound: latest wall-clock value
  MaxObs         \* bound: operations recorded in a run

ASSUME NAssumption == N \in Nat
ASSUME OpsAssumption == IsFiniteSet(Ops)
ASSUME DurationsAssumption == Durations \subseteq Int
ASSUME DrainersAssumption == NoDrainer \notin Drainers
ASSUME MinIntervalAssumption == MinInterval \in Nat \ {0}
ASSUME BoundsAssumption == MaxTime \in Nat /\ MaxObs \in Nat

Workers == 1..N

\* Record's `us < 0` branch: a negative duration is pinned to zero.
Micros(d) == IF d < 0 THEN 0 ELSE d

Lat == {Micros(d) : d \in Durations}

-----------------------------------------------------------------------------
(* opStats: a count, the failures among it, and one exact tally per        *)
(* distinct latency.  A nil latency map is the all-zero tally.             *)

OpStats == [count : Nat, errors : Nat, latencies : [Lat -> Nat]]

ZeroStats == [count |-> 0, errors |-> 0, latencies |-> [u \in Lat |-> 0]]

EmptyWindow == [op \in Ops |-> ZeroStats]

\* The effect of Record on the entry of its operation.
RecordIn(s, ok, us) ==
  [count     |-> s.count + 1,
   errors    |-> IF ok THEN s.errors ELSE s.errors + 1,
   latencies |-> IF ok THEN [s.latencies EXCEPT ![us] = @ + 1] ELSE s.latencies]

MergeInto(dst, src) ==
  [count     |-> dst.count + src.count,
   errors    |-> dst.errors + src.errors,
   latencies |-> [u \in Lat |-> dst.latencies[u] + src.latencies[u]]]

MergeAll(dst, src) == [op \in Ops |-> MergeInto(dst[op], src[op])]

-----------------------------------------------------------------------------
(* IntervalStats.  Its Operations slice is a function on Ops in which a    *)
(* zero count marks an operation the slice has no entry for.  A rate is    *)
(* the pair <<n, span>> standing for n/span.  The three percentiles are    *)
(* represented by the latency tally they were computed from (pcts).        *)

NoRate == <<0, 1>>
NoOp == [count |-> 0, errors |-> 0, rate |-> NoRate, pcts |-> [u \in Lat |-> 0]]

Rate(n, span, otherwise) == IF span > 0 THEN <<n, span>> ELSE otherwise

OpsIn(m) == SumFunction([op \in Ops |-> m[op].count])
ErrorsIn(m) == SumFunction([op \in Ops |-> m[op].errors])

\* `ops == 0`: counts are never negative, so the sum is zero iff all of them are.
NothingIn(m) == \A op \in Ops : m[op].count = 0

\* A window long enough, or the first one, becomes an interval of its own.
NewInterval(start, now, m) ==
  LET span == now - start IN
  [start  |-> start,
   end    |-> now,
   ops    |-> OpsIn(m),
   errors |-> ErrorsIn(m),
   rate   |-> Rate(OpsIn(m), span, NoRate),
   per    |-> [op \in Ops |->
                IF m[op].count = 0 THEN NoOp
                ELSE [count  |-> m[op].count,
                      errors |-> m[op].errors,
                      rate   |-> Rate(m[op].count, span, NoRate),
                      pcts   |-> m[op].latencies]]]

\* Regression: an operation the preceding interval has no entry for is dropped.
FoldOp_NoNewcomers(o, s, span) ==
  IF o.count = 0 THEN NoOp
  ELSE [count  |-> o.count + s.count,
        errors |-> o.errors + s.errors,
        rate   |-> Rate(o.count + s.count, span, o.rate),
        pcts   |-> o.pcts]

\* One operation of a sliver joins the entry o of the preceding interval:
\* counts add up, percentiles stay as they were unless there was no entry.
FoldOp(o, s, span) ==
  LET had   == o.count > 0
      count == o.count + s.count
  IN  IF count = 0 THEN NoOp
      ELSE [count  |-> count,
            errors |-> o.errors + s.errors,
            rate   |-> Rate(count, span, o.rate),
            pcts   |-> IF had THEN o.pcts ELSE s.latencies]

FoldInterval(prev, now, m) ==
  LET span == now - prev.start
      ops  == prev.ops + OpsIn(m)
  IN  [start  |-> prev.start,
       end    |-> now,
       ops    |-> ops,
       errors |-> prev.errors + ErrorsIn(m),
       rate   |-> Rate(ops, span, prev.rate),
       per    |-> [op \in Ops |-> FoldOp(prev.per[op], m[op], span)]]

-----------------------------------------------------------------------------
VARIABLES
  nreg,          \* len(c.workers)
  window,        \* window[w][op]: the WorkerStats data of worker w
  mu,            \* holder of c.mu
  cur,           \* drain: next worker to snapshot
  drainNow,      \* drain: its `now` argument
  merged,        \* drain: its local result map
  total,         \* c.total
  intervals,     \* c.intervals
  lastBoundary   \* c.lastBoundary, relative to c.start

(* History: log lists the Record calls in order; wobs, mobs, iobs say      *)
(* which of them each window, the drain in progress and each interval      *)
(* account for.  No action reads them.                                     *)
VARIABLES log, wobs, mobs, iobs

collector == <<nreg, window, mu, cur, drainNow, merged, total, intervals, lastBoundary>>
history == <<log, wobs, mobs, iobs>>
vars == <<collector, history>>

Call == [op : Ops, ok : BOOLEAN, us : Lat]
Ids == 1..Len(log)

Init ==
  /\ nreg = 0
  /\ window = [w \in Workers |-> EmptyWindow]
  /\ mu = NoDrainer /\ cur = 1 /\ drainNow = 0 /\ merged = EmptyWindow
  /\ total = EmptyWindow
  /\ intervals = <<>> /\ lastBoundary = 0
  /\ log = <<>> /\ wobs = [w \in Workers |-> {}] /\ mobs = {} /\ iobs = <<>>

-----------------------------------------------------------------------------
\* Regression: the launch loop runs to i <= cfg.Workers.
NewWorkerStats_OneMore ==
  /\ mu = NoDrainer
  /\ nreg <= N
  /\ nreg' = nreg + 1
  /\ UNCHANGED <<window, mu, cur, drainNow, merged, total, intervals, lastBoundary, history>>

NewWorkerStats ==
  /\ mu = NoDrainer
  /\ nreg < N
  /\ nreg' = nreg + 1
  /\ UNCHANGED <<window, mu, cur, drainNow, merged, total, intervals, lastBoundary, history>>

\* Record runs under ws.mu only, so it interleaves with a drain in progress.
Record(w, op, ok, d) ==
  /\ w <= nreg
  /\ window' = [window EXCEPT ![w][op] = RecordIn(@, ok, Micros(d))]
  /\ log' = Append(log, [op |-> op, ok |-> ok, us |-> Micros(d)])
  /\ wobs' = [wobs EXCEPT ![w] = @ \cup {Len(log) + 1}]
  /\ UNCHANGED <<nreg, mu, cur, drainNow, merged, total, intervals, lastBoundary, mobs, iobs>>

DrainLock(d, now) ==
  /\ mu = NoDrainer
  /\ mu' = d
  /\ cur' = 1 /\ drainNow' = now /\ merged' = EmptyWindow
  /\ UNCHANGED <<nreg, window, total, intervals, lastBoundary, history>>

\* Regression: the snapshot does not clear the window.
DrainSnapshot_KeepsWindow(d) ==
  /\ mu = d
  /\ cur <= nreg
  /\ merged' = MergeAll(merged, window[cur])
  /\ cur' = cur + 1
  /\ mobs' = mobs \cup wobs[cur]
  /\ wobs' = [wobs EXCEPT ![cur] = {}]
  /\ UNCHANGED <<nreg, window, mu, drainNow, total, intervals, lastBoundary, log, iobs>>

\* ws.snapshot() of one worker, and the merge of what it returned.
DrainSnapshot(d) ==
  /\ mu = d
  /\ cur <= nreg
  /\ merged' = MergeAll(merged, window[cur])
  /\ window' = [window EXCEPT ![cur] = EmptyWindow]
  /\ cur' = cur + 1
  /\ mobs' = mobs \cup wobs[cur]
  /\ wobs' = [wobs EXCEPT ![cur] = {}]
  /\ UNCHANGED <<nreg, mu, drainNow, total, intervals, lastBoundary, log, iobs>>

\* The series gains an interval that starts at start, or its n-th absorbs m.
AppendInterval(start, now, m) ==
  /\ intervals' = Append(intervals, NewInterval(start, now, m))
  /\ iobs' = Append(iobs, mobs)
  /\ lastBoundary' = now

FoldIntoInterval(n, now, m) ==
  /\ intervals' = [intervals EXCEPT ![n] = FoldInterval(@, now, m)]
  /\ iobs' = [iobs EXCEPT ![n] = @ \cup mobs]
  /\ lastBoundary' = now

\* recordIntervalLocked's `seconds < minIntervalSeconds && len(c.intervals) > 0`.
IsSliver(now) == now - lastBoundary < MinInterval /\ Len(intervals) > 0

\* Regression: a window without operations moves the boundary.
RecordInterval_AdvancesOnEmpty(now, m) ==
  \/ /\ NothingIn(m)
     /\ lastBoundary' = now
     /\ UNCHANGED <<intervals, iobs>>
  \/ ~NothingIn(m) /\ IsSliver(now) /\ FoldIntoInterval(Len(intervals), now, m)
  \/ ~NothingIn(m) /\ ~IsSliver(now) /\ AppendInterval(lastBoundary, now, m)

\* Regression: a sliver is folded into the first interval.
RecordInterval_FoldsIntoFirst(now, m) ==
  \/ NothingIn(m) /\ UNCHANGED <<intervals, lastBoundary, iobs>>
  \/ ~NothingIn(m) /\ IsSliver(now) /\ FoldIntoInterval(1, now, m)
  \/ ~NothingIn(m) /\ ~IsSliver(now) /\ AppendInterval(lastBoundary, now, m)

\* Regression: slivers become intervals of their own.
RecordInterval_NeverFolds(now, m) ==
  \/ NothingIn(m) /\ UNCHANGED <<intervals, lastBoundary, iobs>>
  \/ ~NothingIn(m) /\ AppendInterval(lastBoundary, now, m)

\* Regression: an interval is given its nominal length, not its true span.
RecordInterval_NominalSpan(now, m) ==
  \/ NothingIn(m) /\ UNCHANGED <<intervals, lastBoundary, iobs>>
  \/ ~NothingIn(m) /\ IsSliver(now) /\ FoldIntoInterval(Len(intervals), now, m)
  \/ ~NothingIn(m) /\ ~IsSliver(now) /\ AppendInterval(now - MinInterval, now, m)

RecordInterval(now, m) ==
  \/ NothingIn(m) /\ UNCHANGED <<intervals, lastBoundary, iobs>>
  \/ ~NothingIn(m) /\ IsSliver(now) /\ FoldIntoInterval(Len(intervals), now, m)
  \/ ~NothingIn(m) /\ ~IsSliver(now) /\ AppendInterval(lastBoundary, now, m)

\* Regression: the run total is replaced by the drained window.
DrainFold_Overwrites(d) ==
  /\ mu = d
  /\ cur > nreg
  /\ total' = merged
  /\ RecordInterval(drainNow, merged)
  /\ mu' = NoDrainer
  /\ cur' = 1 /\ drainNow' = 0 /\ merged' = EmptyWindow
  /\ mobs' = {}
  /\ UNCHANGED <<nreg, window, log, wobs>>

\* Regression: drain returns without unlocking c.mu.
DrainFold_KeepsLock(d) ==
  /\ mu = d
  /\ cur > nreg
  /\ total' = MergeAll(total, merged)
  /\ RecordInterval(drainNow, merged)
  /\ cur' = 1 /\ drainNow' = 0 /\ merged' = EmptyWindow
  /\ mobs' = {}
  /\ UNCHANGED <<nreg, window, mu, log, wobs>>

\* The rest of drain: fold into the total, extend the series, release c.mu
\* and return, which ends the life of the drain's locals.
DrainFold(d) ==
  /\ mu = d
  /\ cur > nreg
  /\ total' = MergeAll(total, merged)
  /\ RecordInterval(drainNow, merged)
  /\ mu' = NoDrainer
  /\ cur' = 1 /\ drainNow' = 0 /\ merged' = EmptyWindow
  /\ mobs' = {}
  /\ UNCHANGED <<nreg, window, log, wobs>>

Next ==
  \/ NewWorkerStats
  \/ /\ Len(log) < MaxObs
     /\ \E w \in Workers, op \in Ops, ok \in BOOLEAN, d \in Durations : Record(w, op, ok, d)
  \/ \E d \in Drainers :
       \/ \E now \in 0..MaxTime : DrainLock(d, now)
       \/ DrainSnapshot(d)
       \/ DrainFold(d)

Spec == Init /\ [][Next]_vars
-----------------------------------------------------------------------------
(* Properties *)

\* The calls of log l, among those in S, that concern op.
CallsOf(l, S, op) == {i \in S : l[i].op = op}
FailuresOf(l, S, op) == {i \in CallsOf(l, S, op) : ~l[i].ok}
SamplesOf(l, S, op, u) == {i \in CallsOf(l, S, op) : l[i].ok /\ l[i].us = u}

\* stats is the exact tally of the calls in S: no call more, none less.
Tallies(l, stats, S) ==
  \A op \in Ops :
    /\ stats[op].count = Cardinality(CallsOf(l, S, op))
    /\ stats[op].errors = Cardinality(FailuresOf(l, S, op))
    /\ \A u \in Lat : stats[op].latencies[u] = Cardinality(SamplesOf(l, S, op, u))

\* An interval's entries count exactly the calls in S (its percentiles are
\* those of the window that opened it).
Covers(l, per, S) ==
  \A op \in Ops :
    /\ per[op].count = Cardinality(CallsOf(l, S, op))
    /\ per[op].errors = Cardinality(FailuresOf(l, S, op))

\* The calls the series, and so the run total, accounts for.
Drained == UNION Range(iobs)

IntervalOp == [count : Nat, errors : Nat, rate : Int \X Int, pcts : [Lat -> Nat]]

\* Every variable has the shape of the Go value it stands for.
TypeOK ==
  /\ nreg \in 0..N
  /\ window \in [Workers -> [Ops -> OpStats]]
  /\ mu \in Drainers \cup {NoDrainer}
  /\ cur \in 1..(N + 1)
  /\ drainNow \in 0..MaxTime
  /\ merged \in [Ops -> OpStats]
  /\ total \in [Ops -> OpStats]
  /\ intervals \in Seq(Range(intervals))
  /\ \A i \in DOMAIN intervals :
       /\ intervals[i].start \in 0..MaxTime
       /\ intervals[i].end \in 0..MaxTime
       /\ intervals[i].per \in [Ops -> IntervalOp]
  /\ lastBoundary \in 0..MaxTime
  /\ log \in Seq(Call)
  /\ wobs \in [Workers -> SUBSET Ids]
  /\ mobs \in SUBSET Ids
  /\ iobs \in Seq(SUBSET Ids) /\ Len(iobs) = Len(intervals)

\* Each Record call is held by exactly one of the windows, the drain in
\* progress and the intervals of the series; with c.mu free, by no drain.
HeldOnce ==
  /\ Ids = Drained \cup mobs \cup UNION Range(wobs)
  /\ \A v, w \in Workers : v # w => wobs[v] \cap wobs[w] = {}
  /\ \A w \in Workers : wobs[w] \cap (mobs \cup Drained) = {}
  /\ mobs \cap Drained = {}
  /\ mu = NoDrainer => mobs = {}
  /\ \A i, j \in DOMAIN iobs : i # j => iobs[i] \cap iobs[j] = {}

\* The numbers stored tally exactly the calls held.
Tallied ==
  /\ \A w \in Workers : Tallies(log, window[w], wobs[w])
  /\ Tallies(log, merged, mobs)
  /\ Tallies(log, total, Drained)
  /\ \A i \in DOMAIN intervals : Covers(log, intervals[i].per, iobs[i])

\* drain's comment (stats.go:200): "every observation lands in the total
\* exactly once".  However drains and workers interleave, no Record call is
\* lost, counted twice or counted under another operation or outcome, in
\* the windows, in the drain in progress, in the run total or in the series.
EachCallHeldOnce == HeldOnce /\ Tallied

\* What Finalize relies on: once the windows are empty and no drain is
\* running, the run total is the exact tally of every Record call ever made.
QuiescentTotal ==
  (mu = NoDrainer /\ \A w \in Workers : NothingIn(window[w])) => Tallies(log, total, Ids)

\* recordIntervalLocked (stats.go:243, 284): the counts and errors of the series
\* sum to the totals, per operation and overall, and inside an interval the
\* per-operation counts sum to the interval's own.  Latency samples are not
\* summed: those of a folded sliver are in the totals only.
SeriesSumsToTotals ==
  LET Sum(f(_)) == SumFunction([i \in DOMAIN intervals |-> f(i)]) IN
  /\ \A op \in Ops :
       /\ Sum(LAMBDA i : intervals[i].per[op].count) = total[op].count
       /\ Sum(LAMBDA i : intervals[i].per[op].errors) = total[op].errors
  /\ \A i \in DOMAIN intervals :
       /\ intervals[i].ops = OpsIn(intervals[i].per)
       /\ intervals[i].errors = ErrorsIn(intervals[i].per)

\* The series tiles the run from its start to lastBoundary without gap or
\* overlap, also across windows that saw no operation and across folds.
SeriesTilesRun ==
  /\ intervals = <<>> => lastBoundary = 0
  /\ intervals # <<>> => /\ intervals[1].start = 0
                        /\ intervals[Len(intervals)].end = lastBoundary
  /\ \A i \in 1..(Len(intervals) - 1) : intervals[i + 1].start = intervals[i].end

\* A drain touches the last interval at most: one that has a successor is
\* never rewritten, and intervals are never dropped.
ClosedIntervalsFrozen ==
  [][/\ Len(intervals') >= Len(intervals)
     /\ \A i \in 1..(Len(intervals) - 1) : intervals'[i] = intervals[i]]_vars
=============================================================================
