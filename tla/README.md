# pgstorm in TLA+

pgstorm is a load generator for PostgreSQL: replicas create a schema, run a
weighted mix of operations from concurrent workers, export Prometheus metrics
and, at the end of a bounded run, write a result file from exact in-process
statistics. What a user trusts it for are its numbers, so the core of this
project is the path of one measured operation from a worker to the result file;
around it come the configuration and the start of the process, the replicas'
race for the schema, the operations themselves, the polling of the server's
statistics, and the document with its measurements.

Modules are checked by TLC on small instances. The refinements, the action
properties and all invariants are also proved, with TLAPS, for every value of
the constants. Liveness is model-checked; of most liveness properties the safety
half is proved: that whoever waits, waits for somebody who can move.
`PROJECT.json` maps each definition to the lines it models.

## The system

| Part (source) | State | Operations | Hard behaviour | What makes it correct |
|---|---|---|---|---|
| Statistics collector (`workload/stats.go`) | a window per worker under its own mutex; run total, series, `lastBoundary` under `c.mu` | `NewWorkerStats`, `Record`, `drain` (from `print` and `Finalize`), `recordIntervalLocked` | drains interleave with workers and with each other; ticks carry old times; idle and very short windows | every call counted exactly once, in total and series; the series partitions the run; closed intervals do not change |
| Run life cycle (`main.go:140-240`) | run context, signal channel, readiness, `stoppedBy`, result | launch, ready, select, wait, finalize, build, shut down | deadline, signal and ticker race; the summary loop is not waited for | the result is complete and truthful; the process exits |
| Workers (`workload/worker.go`) | loop position | `RunWorker`, classification of outcomes | cancellation in the middle of an operation | cancelled operations are not failures; Prometheus and result agree |
| Schema migration (`db/schema.go`) | advisory lock, catalog | `MigrateWithLock`, `CreateTables`, `CreateIndexes`, `WaitForSchema` | crash of the owner, lost lock connection, lost node, failing statements, restarts | nobody works on a missing relation; everybody gets to work |
| OLTP operations (`workload/ops.go`) | tables, row locks | `doInsert`, `doUpdate`, `doDelete`, three reads | failures between statements, commits of unknown outcome, lost connections, deadlocks | ring and audit trail agree with the tables; operations return |
| Session ring (`workload/ring.go`) | `buf`, `head`, `fill` | `Push`, `Sample` | wrap-around | the last `RING_SIZE` ids, no other |
| Statistics polling (`metrics/index_stats.go`, `metrics/pg_stats.go`) | trackers, version, counters, gauges | three loops, collectors, `delta` | failing queries and rows, statistics resets, version detected once | counters never overstate; failures lose nothing |
| Percentiles (`stats.go:384-511`) | none | `sortedKeys`, `quantileFrom`, `latencyStats`, `latencyCell` | ranks at exact multiples, one sample, samples of zero | the nearest-rank quantile, absent iff nothing succeeded |
| Snapshots and result (`workload/result.go`) | the file at the result path | `SnapshotDataset`, `SnapshotServerInfo`, `BuildRunResult`, `WriteRunResult` | queries that fail half way, contexts already cancelled, kills between two file operations, two runs writing one path | the dataset is two complete measurements; the file is replaced as a whole |
| Configuration (`config/config.go`), registry (`workload/profile.go`), operation mix (`workload/weights.go`) | none after loading | `Load`, `GetProfile`, `ResolveWeights`, `SelectOp` | values that are accepted here and panic much later; numbers beyond the machine's width; rolls on a boundary | whatever is accepted can run, unless it is too large for the machine; exact shares |
| Connection pool (`db/pool.go`) | slots: free, with a user, or in the pool's own hands | `NewPool`; acquired by migration, snapshots, loops, workers | hold-and-wait at start, connections destroyed in the background, `Close` waiting at the end | users wait for the pool only, never for each other; `Close` returns |
| Payloads (`workload/payload.go`), actors (`workload/actors.go`) | template and id pools shared without a lock | `InitEventPool`, `Get*`, `mutatedPayload`, `pick*` | templates shared by all workers | private copies on the configured side of the TOAST threshold |
| Pool collector, monitoring stack | none | | | not modelled, see below |

How they interact: `main` migrates the schema, builds the profile (which owns
the ring), starts the polling loops, the collector with its summary loop and the
workers. A worker asks its executor to run an operation, classifies the outcome,
counts it in Prometheus and records it in its window. The summary loop drains on
each tick. At the end `main` cancels the context, waits for the workers,
finalizes the collector and writes the result. Replicas meet only in the
database: at the advisory lock, the catalog and the rows.

## Modules

```
StatsCollector <--EXTENDS-- MCStatsCollector            collector
StatsCollector <--INSTANCE- RunLifecycle <- MCRunLifecycle
                                                        lifecycle, shutdown
SchemaMigration <- MCSchemaMigration                    schema, schema_*
SessionRing    <--INSTANCE- OltpWorkload                oltp
StatsPolling                                            polling
ResultFile     <--INSTANCE- RunResult                   result
Configuration  <--EXTENDS-- OpMix <--EXTENDS-- Process
RecentSessions <--INSTANCE- SessionRing
Process, SessionRing, LatencyReport, PayloadPool
               <--EXTENDS-- MCComponents                components

proofs (TLAPS):
StatsCollector, SumTheorems        <--EXTENDS-- StatsCollectorProofs
RunLifecycle, StatsCollectorProofs <----------- RunLifecycleProofs
SchemaMigration                    <--EXTENDS-- SchemaMigrationProofs
OltpWorkload                       <--EXTENDS-- OltpWorkloadProofs
StatsPolling                       <--EXTENDS-- StatsPollingProofs
RunResult, SumTheorems             <--EXTENDS-- RunResultProofs
Process, SessionRing, PayloadPool, LatencyReport, SumTheorems
                                   <--EXTENDS-- ComponentsProofs
```

Operators named `X_Y` after an operator `X` and marked *Regression* are `X`
with a plausible bug. They are not used by any specification; substituting one
for `X` must make a stated property fail, which shows that the property says
something about the code.

### StatsCollector

The component in an arbitrary environment: any registered worker records at any
time, any drainer drains with any clock value. `window[w]` is `WorkerStats`,
`total`, `intervals`, `lastBoundary` the collector's fields, `mu` the holder of
`c.mu`, and `cur`, `drainNow`, `merged` the locals of the drain in progress.
`drain` is three steps, because that is what other goroutines can see:
`DrainLock` (takes `c.mu`), `DrainSnapshot` (empties one window under that
window's mutex, in registration order; workers record between two of them) and
`DrainFold` (folds into the total, then `RecordInterval`, and gives up `c.mu`).
`RecordInterval` has the three cases of `recordIntervalLocked`: nothing for an
empty window, a fold into the last interval for a sliver shorter than
`minIntervalSeconds`, otherwise a new interval. A latency tally is a function on
the possible latencies; a rate is a pair of numerator and span; percentiles are
represented by the tally they are computed from.

History variables name what the numbers stand for: `log` is the sequence of all
`Record` calls, and `wobs`, `mobs`, `iobs` the calls held by each window, by the
drain in progress and by each interval.

### RunLifecycle

`main`, the summary loop and the workers with program counters, performing the
actions of `StatsCollector` through `INSTANCE`. Clock, deadline, ticker and
signal are events of their own. The ticker buffers one tick with its scheduled
time; a signal before `signal.Notify` kills the process; both selects may take
either ready case. `Finalize` is the drain followed, in a second critical
section, by the copy; the latency maps of the copy are shared with the live
collector, so `BuildResult` reads them only when it runs. `good` and `opsTotal`
are the outcome and the Prometheus counter: `RecordOp` comes before `Record`.

### SchemaMigration

One replica per member of `Replicas`; `next[r]` walks through the statements of
`Schema` (tables, then indexes), `busy[r]` while the server executes one. A
concurrent index build is in the catalog as soon as it starts and stays there,
invalid, if it does not finish. `Crash` closes the sockets (the lock is free at
once), `LoseNode` does not (the lock stays with `Ghost` until the server drops
the session), `LoseLock` loses only the connection that holds the lock, which
`schema.go` does not notice. A statement whose client is gone goes on in
`orphans`. Postgres is external: catalog, lock and orphans are modelled from how
`schema.go` uses them.

### SessionRing, RecentSessions

`buf`, `head`, `fill` as in the code; both methods hold the mutex throughout and
are one step. `RecentSessions` is what the ring promises, a sequence of the last
`Size` ids; the refinement mapping `Recent` reads the buffer from `head`.

### OltpWorkload

Each statement of an operation is a step and may fail (`Fails`), which returns
the error and rolls back; if the connection is gone the locks stay with `Lost`
until the server notices (`EndLost`). A commit may take effect and be reported
as failed. Rows become visible at the commit. `FOR UPDATE SKIP LOCKED` takes the
row or skips; a delete picks its batch, then locks row by row in any order and
waits for locked ones; a cycle of waiters costs one of them its statement. The
begin of a transaction is one with its first statement. The ring is the one of
`SessionRing`.

### StatsPolling

A behaviour is that of one loop, since the loops share nothing: `"rows"` is the
table or the index loop (one query, many rows), `"pg"` the loop of
`pg_stats.go` (collectors in turn; on PG17 the first one has two queries).
`lastSeen` is the tracker and `exported` the Prometheus counters. Columns that
are read together are one key. The server's counters (`server`) move between any
two steps and may be reset; `truth` counts what really happened.

### RunResult, ResultFile

What surrounds the statistics in a result: the snapshot of the dataset before
the workers start, the server's settings, the closing snapshot under a context
of its own, and `WriteRunResult`, with its temporary file, as file operations on
inodes. `path` is the inode the result path names, `temps` the temporary names
that exist, `length` how much of a document an inode holds. `SnapshotDataset` is
a query and one step per row, with the partial sum in `out`; `SnapshotFails`
drops that sum with the error, and is what `main` makes of the failure. Several
runs share database and path, so each measures a dataset the others change, and
any of them may be killed between two steps (the deferred removal of the
temporary file is then skipped). `ResultFile` is the promise of the comment on
`WriteRunResult`; the refinement mapping shows a path that names an incomplete
document as a value the abstract specification does not allow.

### Configuration, OpMix, Process

`Configuration` has the defaults, `getEnv*` and the checks of `Load`. An
environment is a function on the variables that are set; text that does not
parse is one value, `Malformed`, which counts as not set. `OpMix` has the
profile's operations with their real default weights, `ResolveWeights` (empty
when it returns an error) and `SelectOp`.

`Process` composes them to `main`, from the environment to the exit: each step
in order, with the exits through `log.Fatalf`, which run no deferred call. Its
other subject is the pool, which is external (pgxpool on puddle) and modelled
from how the code uses it. It has `MaxConns` slots. `conn[u]` says whether a user
has one, queues for one, or neither; `main` counts as two users, the connection
that carries the migration lock and the one of its current statement. `own` slots
are in the pool's own hands: a connection given back broken or expired keeps its
slot while it is destroyed in the background (the second case of `Release`), an
`Acquire` that finds its idle connection expired or dead leaves it there and asks
again (`AcquireAgain`), and the health check takes idle connections or opens new
ones up to `MinConns` (`PoolTakes`); `PoolReturns` ends any of these. A slot that
comes free goes to one of those that queue (`Handed`). Who queues gives up when
its context is done (`GiveUp`), the closing measurement after its ten seconds
(`ClosingTimeout`). Migration, snapshots, loops and operations are reduced to
when they hold a connection, which their own modules leave out.

`StateBuilds`, `TickersStart` and `OperationsRun` are the preconditions of Go's
run-time panics at the places where configured values are used; where one fails
the process goes to `"panicked"`. Numbers have the machine's width: `Wrap` is a
conversion to so many bits, used for `int32(cfg.Workers + 5)`, for
`time.Duration(n) * time.Second` and for the products in `buildTemplate`, and
`Makes` is the range of lengths `make` accepts. The widths are constants
(`Limit`, `Limit32`, `Second`, `MaxAlloc`), since TLC's own integers have 32
bits; the proofs hold for the real ones. Where `make` accepts a length and the
memory is not there, the runtime aborts the process, which is no panic and is left
out, as are the buffers of `json.Marshal`. A signal during the start simply kills the process
(`RunLifecycle` and `SchemaMigration` have that) and is left out.

### LatencyReport

A latency tally as `stats.go` keeps it, `quantileFrom` with its early exit before
the last key, and where the summary appears: in the document (or not) and in a
cell of the console table (or a dash). `ReportInit` starts from any tally, and
`ReportNext` records one more operation. The sorted keys are the one strictly
increasing sequence of them, and the running sum of the loop is a function on
their positions. Latencies stay integers in microseconds, quantiles are
fractions, and a mean is a sum and a count. The code computes the
rank as `math.Ceil(q * float64(total))`; for the four quantiles in use this
equals the exact ceiling for every total up to two million.

### PayloadPool

The five template pools, each with the shortest and the longest document its
builder can draw. A document is its length and the mutable field; for the large
ones the length of the incompressible bodies is a lower bound. `GetPayload`
copies a template, `Mutate` is one round of the loop that rewrites the field in
the copy, so that two workers interleave character by character.

## Runs

| Run | Instance | Shows |
|---|---|---|
| `collector` | 2 workers, 2 operations, durations {-1, 4}, 2 drainers, clock 0..3, 3 calls | `EachCallHeldOnce`, `QuiescentTotal`, `SeriesSumsToTotals`, `SeriesTilesRun`, `ClosedIntervalsFrozen` |
| `lifecycle` | 2 workers, 2 calls, clock 0..4, interval 2, deadline 3 or none | `CollectorSpec` (refinement), `ResultExact`, `FinalizedStaysFinal`, `SeriesOrdered`, `CountedNotBeforeRecorded`, `DurationMeansFullRun` |
| `shutdown` | the same, 1 call, with fairness | `BoundedRunEnds`, `ShutdownCompletes` |
| `schema` | 3 replicas, 2 tables, 2 indexes, one fault of each kind | `RunningHasSchema`, `LockProtectsDdl` |
| `schema_liveness` | 2 replicas, 2 crashes, a lost lock connection, an error | `EveryReplicaRuns` |
| `schema_index_build`, `schema_rerun`, `schema_ghost` | 2 replicas | violated: see Findings |
| `oltp` | 2 workers, 2 sessions, ring of 1, 2 events, no update starts after a committed one, with fairness | `SampledIsCommitted`, `CommittedIsPushed`, `AuditTrail`, `SkipMeansContention`, `EveryOpReturns` |
| `polling` | 2 relations, 1 wait event, 2 increments, 1 reset, with fairness | `NeverOvercounts`, `NothingLostWithoutReset`, `GaugesFromOneAnswer`, `AddsNeverNegative`, `CountersFollow` |
| `result` | 2 runs, 2 tables, 2 bytes per table, documents of 2 chunks | `ReplacedAsAWhole` (refinement of `ResultFile`), `GrowthCoversRun`, `ExitIsClean` |
| `components` | 73 environments with 1 to 3 workers, up to 5 slots in the pool's hands; ints of 20 bits, an "int32" up to 8; 3 slots and 4 ids; 3 latencies with tallies around the ranks; 2 writers, 1 to 7 KB; all mixes of 7 weights, of which 431 resolve; with fairness | `AcceptedIsSafe`, `WaitsOnlyForPool`, `ExitCompletes`; `RemembersRecent` (refinement of `RecentSessions`); `SummaryExact`; `PayloadsWellFormed`; `ExactShares` |

`StatsCollector`, `RunLifecycle`, `SchemaMigration` and `OltpWorkload` (with the
ring inside it) have a type invariant, `TypeOK`, checked in their first run.
`components` puts five components that share no state into one run: `part` says
which of them moves, so their state spaces add up and do not multiply.

Why the bounds are enough. The collector's cases are told apart by one call
before, during and after a drain, in the same and in another window: three calls
do that, and `MinInterval = 2` on a clock of 0..3 gives normal intervals, slivers
and drains with an older clock value. In a run, one tick may be buffered and a
second one pending when the deadline (3) passes with `Interval = 2`, and the
clock goes on to 4 for late steps. In the migration a third replica matters only
as a second follower, and two statements of each kind are needed for "some but
not all". A ring of three slots wraps at every position; four ids make the
forgotten one different from all kept ones. Two events and two workers are a
lock cycle. Two tables and two chunks are the least for a snapshot and a write that stop half
way, two runs the least for a file that is replaced by somebody else. The
environments take each number on its own to -1 and 0 (`TOAST_PCT` also to 100 and
101), all of them together to 1 and to unparsable text, and the only pair that
`Load` relates to both orders; they take intervals, slices and payloads to the
last value that fits, the first that does not, ones that wrap around to a positive
number and the largest `int`; and they add runs with every user of the pool at
once. `Limit32` admits three workers, so that a fourth makes `MaxConns` negative
and the pool refuses to open. `DefaultWorkers` is 1 where the code has 20, and the
pool has the same five slots beyond the workers for any number of them. With five
slots in the pool's hands a migration of a one-worker process really queues for
its second connection, and so do workers, loops and the closing measurement.
Tallies are chosen so that ranks fall on, before and after
the end of a key; payloads of 1 to 7 KB cover every minimum in `buildTemplate`.
For a tracker, two increments separate growth before the first
observation, between two of them and after a reset.

`SYMMETRY` is used where the specification and the properties treat the values
alike (operations and drainers; replicas), in runs without liveness. Deadlock is
checked except where the system ends: in the runs of `SchemaMigration`, where
start-up ends when all replicas run, and where all of them may wait as
followers, which `schema_ghost` is about; and in `result` and `components`, whose
processes exit.

### Fairness

- `RunLifecycle`: weak fairness of the clock, of the context's timer, of `main`
  and of the summary loop (the Go runtime schedules runnable goroutines), and of
  a worker only once the context is cancelled: every database call takes the
  context, so the driver then abandons it. Before that an operation may hang.
- `Process`: weak fairness of `main` from the select on, and of the loops and
  workers only once the context is done, for the same reason: a query, and the
  wait for a connection, then end. The closing query has a timeout of ten seconds
  and `srv.Shutdown` one of its own. What the pool has in its own hands it gives
  back (`PoolReturns`): destroying, opening and checking a connection have
  timeouts in the library. Nothing is
  assumed of the start, which may wait for the schema for ever.
- `SchemaMigration`: weak fairness of the migration, of restarts (a Deployment
  restarts a dead pod), and of the server cleaning up after dead clients; strong
  fairness of a follower's last query, which alternates with the round that may
  fail.
- `OltpWorkload`: weak fairness of the steps of an operation and of the server
  noticing lost clients; strong fairness of `DeleteLock`, since Postgres queues
  the waiters of a row.
- `StatsPolling`: weak fairness of the loop (its ticker keeps ticking); strong
  fairness of each query and row, that is, the same one does not fail for ever.

### Findings

Statements of the repository that the code does not keep, each with a run that
shows how:

- `schema_index_build`: `schema.go:106`, followers do not start workers during
  the index build; `pg_indexes` lists the sentinel from the start of its build.
- `schema_rerun`: `pg-loadgen-plan.md:368`, DDL with `IF NOT EXISTS` is "safe to
  re-run across restarts"; an owner that dies during a build may leave an invalid
  index, which `IF NOT EXISTS` skips ever after.
- `schema_ghost`: `pg-loadgen-plan.md:365`, "no manual cleanup needed"; a replica
  that asked for the lock before the server dropped the dead owner's session is a
  follower for good. The model has no probe. Under `k8s/deployment.yaml` the
  `livenessProbe` on `/healthz`, which is served only after the migration
  (`main.go:95`), restarts a pod that polls for long, follower or owner, and a
  restarted follower asks for the lock again; elsewhere (Compose, a plain process)
  nothing restarts it.

More came up that have no run of their own. `Load` checks lower limits only:
`SUMMARY_INTERVAL_SECS=10000000000` is accepted, the product with `time.Second`
overflows to a negative interval (`main.go:151`), and `time.NewTicker` panics after
the migration is done; a `RING_SIZE` or pool size beyond the address space panics
in `make`, and a number of workers beyond `int32` wraps around to a size that
`NewPool` refuses, or to a pool that is too small. `AcceptedIsSafe` says that these are the only
panics. If the one query for the server's
version fails, `pg_stats.go:110` assumes PG16 and says so in the log; a PG17
server is then polled with queries it rejects for the whole run, which is why
`CountersFollow` supposes that the version was detected. `payload.go:95` says the
configured range is always honoured, but bodies have minimum sizes of their own,
so `MAX_PAYLOAD_KB=1` still gives documents of more than 2 KB; a padded audit
diff ends up two bytes short of its target. Neither moves a value across the
TOAST threshold (`PayloadsWellFormed`). `stats.go:367` asks that
`Finalize` be called after the summary loop has exited, but `main` waits for the
workers only; `lifecycle` contains these behaviours and shows that they do no
harm, the result being complete and final. `schema.go:21` says that exactly one
replica runs DDL; the lock is held on one connection and nothing stops the DDL on
the others when that one is lost, which is why `LockProtectsDdl` excludes a
replica whose lock connection broke.

## Proofs

Each theorem holds for any number of workers, replicas, runs, operations, ids and
faults, and for any bounds, under the assumptions its module states (listed
below). All are proved to the last leaf by SMT, Zenon and LS4.

| Module | Theorem | States |
|---|---|---|
| `StatsCollectorProofs` | `TypeCorrect`, `ExactlyOnce`, `TotalComplete`, `SeriesTiles`, `SeriesSums` | `TypeOK`, `EachCallHeldOnce`, `QuiescentTotal`, `SeriesTilesRun`, `SeriesSumsToTotals` are invariants |
| | `SeriesFrozen` | the action property `ClosedIntervalsFrozen` |
| `RunLifecycleProofs` | `RunUsesCollector` | the refinement `CollectorSpec` |
| | `TypeCorrect`, `ResultIsExact`, `DurationIsHonest`, `SeriesIsOrdered`, `CountedInTime` | `TypeOK`, `ResultExact`, `DurationMeansFullRun`, `SeriesOrdered`, `CountedNotBeforeRecorded` are invariants |
| | `FinalizedIsFinal` | the action property `FinalizedStaysFinal` |
| | `ShutdownIsUnblocked` | `ShutdownUnblocked`: after the context is done `main` moves, or waits for `c.mu` while the summary loop is inside `drain`, or for workers that all can move |
| `SchemaMigrationProofs` | `TypeCorrect`, `DdlIsLocked`, `StartsWithSchema` | `TypeOK`, `LockProtectsDdl`, `RunningHasSchema` are invariants |
| | `IndexesWholeWhileHealthy` | while no client died and no statement failed, every index is usable or being built, and `RerunCompletesIndexes` holds |
| | `FollowersAreServed` | `FollowersServed`: while no node was lost, a polling follower sees the schema or somebody has the DDL before it |
| `OltpWorkloadProofs` | `TypeCorrect`, `SampledSessionsExist`, `SuccessfulInsertsPushed`, `AuditTrailExact` | `TypeOK`, `SampledIsCommitted`, `CommittedIsPushed`, `AuditTrail` are invariants |
| | `SkipsAreContention` | the action property `SkipMeansContention` |
| | `DeletesNeverStuck` | `WaitsAmongDeletes` and `DeletesUnblocked`: deletes wait only for other deletes of the session under way, and never all without a way out |
| `StatsPollingProofs` | `CountersNeverOvercount`, `CountersLoseNothing`, `GaugesAreCurrent` | `NeverOvercounts`, `NothingLostWithoutReset`, `GaugesFromOneAnswer` are invariants |
| | `AddsAreNatural` | the action property `AddsNeverNegative` |
| `RunResultProofs` | `ResultReplacedAsAWhole` | the refinement `ReplacedAsAWhole` |
| | `RunExitsClean`, `GrowthIsCovered` | `ExitIsClean`, `GrowthCoversRun` are invariants |
| `ComponentsProofs` | `RingRemembersRecent` | the refinement `RemembersRecent` |
| | `RingTypeCorrect`, `AcceptedPanicsOnlyOversized`, `QueueWaitsForPool`, `MixIsExact`, `PayloadsHold` | `TypeOK` of `SessionRing`, `AcceptedIsSafe`, `WaitsOnlyForPool`, `ExactShares`, `PayloadsWellFormed` are invariants |
| | `LatencySummaryExact` | `SummaryExact` is an invariant of `ReportSpec` |
| | `ExitIsUnblocked` | `ExitUnblocked`: after the context is done `main` moves, or waits for workers, or in `pool.Close` for polling loops that still run and for what the pool itself has in hand |

### The arguments

**StatsCollector.** That the total is right cannot be shown by induction on the
numbers alone, because a number does not say which calls it stands for. The
inductive invariant is `TypeOK /\ EachCallHeldOnce`: the positions of `log` are
partitioned among the windows, the drain in progress and the intervals
(`HeldOnce`), and every stored number is the cardinality of the matching
selection of the calls held there (`Tallied`). Each action then moves a set of
calls from one holder to another. The lemmas state what the operators do to
tallies: `RecordedTally` (one more call), `MergedTally` (disjoint union),
`NewCovers` and `FoldCovers` (a new interval, a fold), `OldTallies` (later calls
change nothing); they rest on the cardinality of disjoint unions
(`DisjointSelections`). `NothingHeld`, an empty window holds no call, gives
`QuiescentTotal`. `SeriesTilesRun` is inductive with `TypeOK`, and
`ClosedIntervalsFrozen` follows from it step by step. `SeriesSums` has `SumsInv`,
which adds to `SeriesSumsToTotals` that the whole series sums to the whole total.
It is about counts and errors: the latency samples of a folded sliver are kept in
the totals and dropped from the series, in the code (`stats.go:269`) as in the model.

**Sums.** `SumTheorems` has what these proofs and those of `RunResult` need of
`SumFunction`: the sum of two functions, what is left without one element, one
more and one changed entry of a sequence, monotonicity, and a constant factor.
They are statements about every finite set, and are proved without an induction rule, by
the smallest counterexample: among the subsets of a finite set for which the
statement fails there would be a minimal one, and removing an element from it
gives a contradiction.

**RunLifecycle.** `RunUsesCollector` shows step by step that the goroutines
perform actions of the collector or leave it alone. It needs `TypeInv`: the types
and `Capacity`, that the bound on the log leaves room for every operation in
flight. Through it the theorems of `StatsCollectorProofs`, instantiated as `SCP`,
hold of the run; the lemmas `Same...` say that the two instances of the collector
agree. `FinalInv` is what makes the end of a run safe although nobody waits for
the summary loop: `MutexInv` (who is inside `drain` holds `c.mu`), `ControlInv`
(from Finalize on all workers are registered and gone) and `QuietInv` (behind
Finalize's drain all windows are empty, and once it is through nothing is left in
a window or in a late print's drain). Hence no later drain changes anything:
`FinalizedStaysFinal`. `ResultIsExact` combines it with `TotalComplete` at the
moment of the copy, with `SumsInv`, and with `CountInv`: Prometheus counts the
recorded operations and those between `RecordOp` and `Record`, of which there are
none when the workers are gone. `TimeInv` bounds every time that is under way (the
buffered tick, the times main and the loop pass to `drain`), from which no drain
that found something goes back behind `lastBoundary`; `SeriesInv` and
`ObservedInv` follow the series and the time of every recorded call with it.
`ShutdownIsUnblocked` needs `FinalInv` and `LaunchedInv` (a registered worker has
been started): the holder of `c.mu` is `main` itself or the loop inside `drain`,
which waits for no goroutine, and in `wg.Wait` every worker that is left has a
window to record in.

**SchemaMigration.** `LockProtectsDdl` is inductive with `TypeOK`.
`RunningHasSchema` needs `Ordered`: an owner has left behind only statements whose
object is in the catalog, also if another replica executed them or its client is
gone, so the sentinel, which is sent last, shows only with everything before it;
and the catalog never loses an entry.
Two findings say that a promise of the documentation fails; the two other theorems
say how far it holds. `NothingInvalid` is inductive as long as no client dies and no
statement fails, although lost lock connections may let two owners run the DDL
side by side; both hypotheses are needed, as `schema_rerun` shows. `HolderRuns`
(the lock is with a replica inside its DDL, or with the session of a lost node)
gives `FollowersServed`: whoever became a follower did so while somebody else had
the DDL before it, and who leaves the DDL leaves the schema complete or dies, to
be restarted. One lost node breaks it (`schema_ghost`).

**OltpWorkload.** `SessionInv` says for each label which state the worker's session
is in (a row, pushed or not, closed or not) and that every id in the ring is
committed; `LockInv` that a row lock belongs to a worker inside the update of that
row, or to a lost client. `BatchInv` says the same of events and deletes, and that
the events a delete has still to lock are different from each other and from those
it has locked, so that it never waits for itself. If no delete can proceed and no
client is lost, every delete under way waits for another one, and the set of all of
them is what the deadlock detector looks for.

**StatsPolling.** `Accounting` relates, for every key, what the server shows, what
the tracker has seen, what was exported and what really happened, both for the
stored values and for the answer being processed.

**RunResult.** `FileInv` (a file that is published or about to be renamed is
complete, and the path names a published one or the earlier one) makes every step
a step of `ResultFile` or a stutter.
`DocumentInv` follows the two optional parts to the exit. `GrowthInv` bounds a
snapshot in progress from both sides: what has been read is at most what the
tables seen hold now, and with the tables still to come it is at least the dataset
at the first query (opening) or the opening total and the run's own bytes
(closing); it adds that a run's workers write nothing before the opening snapshot
is done.

**Components.** The ring's refinement rests on where the i-th recent id lies in
the buffer (`SlotFacts`) before and after a push, wrapped or not. `ConfigInv`
carries the checks of `Load` to the places that rely on them; for a configuration
within the machine's limits every conversion is the identity (`WrapFits`) and every
body fits (`BodyFits`, `TemplateFits`). `SlotsInv` says that slots are with users or
with the pool, never more than there are, and that nobody queues while one is free;
the lemmas `Slots...` show it of each thing the pool does, and `PoolInv` of each
step of the process. Users that may hold or queue are at most five and the workers
(`EntitledCount`), as many as there are slots: if some queue, all slots are taken,
so the pool itself must have at least as many as there are in the queue.
`HolderInv` says who may hold or wait for a connection at each step of `main`: the
lock's only during the migration, `main`'s own only during a statement, a
goroutine's only until it returns; past `wg.Wait` no worker is left.
`Weighted` and the running sums of `SelectOp`, unrolled over the profile's six
operations, make the intervals of rolls disjoint and of the right length.
`PayloadInv` bounds the documents of each pool and says that templates stay as they
were built and that the part of its copy's field a worker has rewritten is its own.

**LatencyReport.** `SortedKeys` chooses a sequence, so it has to be shown first that
there is one: for every finite set of integers, by the smallest counterexample
again, by putting its maximum last. That the recursive running sum is the sum over a
prefix of the keys needs no induction rule either: the function of prefix sums
satisfies the recursion, and only one function does. The first position whose sum
reaches the rank is then the smallest key with enough samples up to it, because the
rank is the exact ceiling and keys ascend; for the last key, which the loop never
tests, the sum is the total. The bounds of the mean are monotonicity and a constant
factor of sums. The invariant is the type of `stats` with `count - errors` equal to
the sum of the tally.

### Assumptions

All are evaluated by TLC on the checked instances.

- Types of constants, and model values that are none of the others:
  `NAssumption`, `DurationsAssumption`, `DrainersAssumption`, `BoundsAssumption`,
  `HoldersAssumption`, `WorkersAssumption`, `KeysAssumption`, `NilAssumption`
  (a nil pointer is no snapshot and no document).
- Finiteness, which slices, maps and integers of the code have: `OpsAssumption`,
  `RunResultAssumption` (finitely many tables, documents that are not empty),
  `LatencyAssumption` (a latency is an `int64`, not negative, a tally positive).
- `AbsentAssumption`: a pointer to a summary is not nil.
- `MinIntervalAssumption`, and `IntervalAssumption`: a summary interval is at least
  a second, which `Load` checks as long as it does not overflow, and
  `minIntervalSeconds` not longer.
  `CollectorAssumption` gives the collector inside a run its own assumptions.
- `RingAssumption`, `SizesAssumption`: sizes are positive, which `Load` checks.
- `EnvsAssumption`: what `strconv.Atoi` accepts is an `int`.
- `ProcessAssumption`, `MachineAssumption`: the bounds are numbers; the defaults fit
  the machine (10,000 ids, the default workers and five in an `int32`), and three
  times what can be allocated is an `int`.
- `PayloadAssumption`: the payload sizes `Load` accepts, a mutable field of at most
  16 characters (the code has 16) and a TOAST threshold from 1389 to 2046 bytes
  (Postgres has 2032): the audit diffs and the small documents lie on their two
  sides of it.

### Only model-checked

Liveness under fairness, which is out of the prover's reach: `BoundedRunEnds`,
`ShutdownCompletes`, `EveryReplicaRuns`, `EveryOpReturns`, `CountersFollow`,
`ExitCompletes`. `ShutdownIsUnblocked`, `FollowersAreServed`, `DeletesNeverStuck`
and `ExitIsUnblocked` are what of them is a matter of safety; that the steps they
find possible are taken in the end is TLC's part, on the instances above.

## Not modelled

- `pool_collector.go`: copies one `pgxpool.Stat` per scrape into metrics and keeps
  no state; what the numbers mean is the library's.
- Inside pgxpool: which connection a slot has, when it expires, and the order of the
  queue (any of those that wait may get the slot). How long a user waits for the
  pool is not bounded by a property; the wait is part of the latency, as
  `pool_collector.go:87` says.
- The HTTP server: a failure to listen is logged and changes nothing else; the
  handlers read one flag, which `RunLifecycle` has.
- Loss of power: `WriteRunResult` does not sync the file, so `ReplacedAsAWhole`
  is about processes that die, not machines.
- Tables that shrink: in `RunResult` sizes only grow, as they do under inserts
  and updates; a vacuum that returns space to the file system could make the
  growth of a run smaller than what it wrote, and so does space of deleted rows that
  is used again. That the query of a snapshot answers with a row for every table
  rests on the migration having created them; `result.go:293-306` does not check it.
- Overflow of the sum of huge weights, and of durations that lead to no panic: a
  huge `RUN_DURATION_SECS`, `SHUTDOWN_TIMEOUT_SECS`, `SCHEMA_POLL_MS` or
  `THINK_TIME_MS` may wrap around to a short time. `Process` allows the run's context
  and the shutdown to end at any time, so its properties cover these; `RunLifecycle`
  takes durations as they are configured.
- `godotenv`, which fills the environment before `Load`.
- The content of payloads, and whether a compressor could shrink them: the
  generator's base64 text is taken as incompressible.
- Gauges that copy a column, the latency histogram, the skip counter and the
  gauge of active workers: write-only.
- Formatting of the console table, the log and the JSON document.
- Dashboards, Compose and Kubernetes files: configuration of other programs.

## State of the project

Every component of the table above but the last row is modelled. Of the properties
of the passing runs all but the liveness properties are proved. What would extend it: the
search for offsets in `payload.go` and the documents' content, and a model of a
table that shrinks, for `GrowthCoversRun`.
