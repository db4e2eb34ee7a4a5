---------------------------- MODULE RunLifecycle ----------------------------
(***************************************************************************)
(* One pgstorm run from the creation of the collector to process exit      *)
(* (src/main.go:140-240), with the goroutines that touch the statistics:   *)
(* main, the workers (src/workload/worker.go) and the summary loop         *)
(* (StatsCollector.RunSummaryLoop).  The statistics themselves are the     *)
(* module StatsCollector, whose actions the goroutines perform.            *)
(*                                                                         *)
(* The wall clock, the summary ticker, the run's deadline and a signal are *)
(* events of their own, so each of them may come at any point between two  *)
(* steps of any goroutine.                                                 *)
(***************************************************************************)
EXTENDS Integers, Sequences, FiniteSets, Functions

CONSTANTS
  N, Ops, Durations, MinInterval, MaxTime, MaxObs,   \* as in StatsCollector
  NoDrainer,
  Interval,       \* SUMMARY_INTERVAL_SECS, in clock units
  Deadline,       \* RUN_DURATION_SECS, in clock units, when it is not 0
  Never           \* no tick pending, ticker stopped, RUN_DURATION_SECS = 0

ASSUME CollectorAssumption ==
  /\ N \in Nat /\ Ops # {} /\ IsFiniteSet(Ops) /\ Durations \subseteq Int
  /\ NoDrainer \notin {"main", "loop"}
  /\ MinInterval \in Nat \ {0} /\ MaxTime \in Nat /\ MaxObs \in Nat
ASSUME IntervalAssumption == Interval \in Nat \ {0} /\ MinInterval <= Interval
ASSUME DeadlineAssumption == Deadline \in 1..MaxTime /\ Never \notin Nat

VARIABLES
  nreg, window, mu, cur, drainNow, merged, total, intervals, lastBoundary,
  log, wobs, mobs, iobs

VARIABLES
  clock,        \* wall clock, 0 when the collector is created
  deadline,     \* when runCtx expires; Never for context.WithCancel
  ctxDone,      \* runCtx.Done() is closed
  sig,          \* sigCh: "none", "pending", "taken"
  wantResult,   \* cfg.ResultJSONPath != ""
  ready,        \* /readyz answers 200
  main,         \* program counter of main
  mainNow,      \* Finalize: the time.Now() it passes to drain
  stoppedBy,    \* main's stoppedBy
  result,       \* what BuildRunResult is given: totals and series
  loop,         \* program counter of the summary loop
  loopNow,      \* print: the tick value it passes to drain
  tick,         \* the ticker channel: one pending fire time, or Never
  nextFire,     \* when the ticker fires next
  pc,           \* pc[w]: program counter of worker w
  op,           \* op[w]: the operation worker w is executing
  good,         \* good[w]: its outcome, between RecordOp and Record
  opsTotal,     \* metrics.OpsTotal by operation and status
  when          \* history: when[i] is the time of the i-th Record call

SC == INSTANCE StatsCollector WITH Drainers <- {"main", "loop"}

stats == <<nreg, window, mu, cur, drainNow, merged, total, intervals, lastBoundary,
           log, wobs, mobs, iobs>>
env == <<clock, deadline, sig>>
mainVars == <<wantResult, ready, main, mainNow, stoppedBy, result>>
loopVars == <<loop, loopNow, tick, nextFire>>
workerVars == <<pc, op, good, opsTotal, when>>
vars == <<stats, env, ctxDone, mainVars, loopVars, workerVars>>

Workers == 1..N
NoResult == [totals |-> SC!EmptyWindow, series |-> <<>>, ended |-> Never]

\* The process is running; when main returns every goroutine is gone.
Alive == main \notin {"exited", "killed"}

Init ==
  /\ SC!Init
  /\ clock = 0 /\ deadline \in {Deadline, Never} /\ ctxDone = FALSE /\ sig = "none"
  /\ wantResult \in BOOLEAN /\ ready = FALSE
  /\ main = "launch" /\ mainNow = 0 /\ stoppedBy = "signal" /\ result = NoResult
  /\ loop = "new" /\ loopNow = 0 /\ tick = Never /\ nextFire = Never
  /\ pc = [w \in Workers |-> "off"]
  /\ op = [w \in Workers |-> CHOOSE o \in Ops : TRUE] /\ good = [w \in Workers |-> TRUE]
  /\ opsTotal = [o \in Ops |-> [ok |-> 0, error |-> 0]]
  /\ when = <<>>

-----------------------------------------------------------------------------
(* Time, deadline and signals *)

Elapse ==
  /\ Alive /\ clock < MaxTime
  /\ clock' = clock + 1
  /\ UNCHANGED <<stats, deadline, sig, ctxDone, mainVars, loopVars, workerVars>>

\* context.WithTimeout closes Done at or after the deadline.
Expire ==
  /\ Alive /\ ~ctxDone
  /\ deadline # Never /\ clock >= deadline
  /\ ctxDone' = TRUE
  /\ UNCHANGED <<stats, env, mainVars, loopVars, workerVars>>

\* time.Ticker: one tick is buffered with its scheduled time, later ones are
\* dropped while it is pending, and the schedule skips what it has missed.
TickerFires ==
  /\ Alive
  /\ nextFire # Never /\ clock >= nextFire
  /\ tick' = IF tick = Never THEN nextFire ELSE tick
  /\ nextFire' = nextFire + Interval * (1 + ((clock - nextFire) \div Interval))
  /\ UNCHANGED <<stats, env, ctxDone, mainVars, loop, loopNow, workerVars>>

\* SIGINT or SIGTERM.  Before signal.Notify it has its default action.
Signal ==
  /\ Alive /\ sig = "none"
  /\ \/ /\ main \in {"launch", "notify"}
        /\ main' = "killed"
        /\ UNCHANGED sig
     \/ /\ main \notin {"launch", "notify"}
        /\ sig' = "pending"
        /\ UNCHANGED main
  /\ UNCHANGED <<stats, clock, deadline, ctxDone, wantResult, ready, mainNow, stoppedBy,
                 result, loopVars, workerVars>>

-----------------------------------------------------------------------------
(* main *)

\* One iteration of the launch loop: register the window, start the worker.
LaunchWorker ==
  /\ main = "launch"
  /\ SC!NewWorkerStats
  /\ pc' = [pc EXCEPT ![nreg + 1] = "check"]
  /\ UNCHANGED <<env, ctxDone, mainVars, loopVars, op, good, opsTotal, when>>

SetReady ==
  /\ main = "launch" /\ nreg = N
  /\ ready' = TRUE
  /\ main' = "notify"
  /\ UNCHANGED <<stats, env, ctxDone, wantResult, mainNow, stoppedBy, result, loopVars, workerVars>>

NotifySignals ==
  /\ main = "notify"
  /\ main' = "select"
  /\ UNCHANGED <<stats, env, ctxDone, wantResult, ready, mainNow, stoppedBy, result, loopVars,
                 workerVars>>

\* Regression: both arms of the select report the configured duration.
SelectSignal_SaysDuration ==
  /\ main = "select" /\ sig = "pending"
  /\ sig' = "taken"
  /\ ctxDone' = TRUE
  /\ stoppedBy' = "duration"
  /\ main' = "wait"
  /\ UNCHANGED <<stats, clock, deadline, wantResult, ready, mainNow, result, loopVars, workerVars>>

SelectSignal ==
  /\ main = "select" /\ sig = "pending"
  /\ sig' = "taken"
  /\ ctxDone' = TRUE
  /\ main' = "wait"
  /\ UNCHANGED <<stats, clock, deadline, wantResult, ready, mainNow, stoppedBy, result, loopVars,
                 workerVars>>

SelectDone ==
  /\ main = "select" /\ ctxDone
  /\ stoppedBy' = "duration"
  /\ main' = "wait"
  /\ UNCHANGED <<stats, env, ctxDone, wantResult, ready, mainNow, result, loopVars, workerVars>>

\* Regression: main does not wait for the workers.
WorkersGone_NotAwaited == TRUE

\* wg.Wait covers the workers and no other goroutine.
WorkersGone == \A w \in Workers : pc[w] = "gone"

WaitWorkers ==
  /\ main = "wait" /\ WorkersGone
  /\ IF wantResult THEN main' = "finalize" /\ mainNow' = clock
                   ELSE main' = "shutdown" /\ UNCHANGED mainNow
  /\ UNCHANGED <<stats, env, ctxDone, wantResult, ready, stoppedBy, result, loopVars, workerVars>>

\* Regression: Finalize drains without taking c.mu.
FinalizeLock_NoMutex ==
  /\ main = "finalize"
  /\ mu' = "main" /\ cur' = 1 /\ drainNow' = mainNow /\ merged' = SC!EmptyWindow
  /\ main' = "drain"
  /\ UNCHANGED <<nreg, window, total, intervals, lastBoundary, log, wobs, mobs, iobs>>
  /\ UNCHANGED <<env, ctxDone, wantResult, ready, mainNow, stoppedBy, result, loopVars, workerVars>>

\* Regression: Finalize copies what has been drained so far.
FinalizeLock_NoDrain ==
  /\ main = "finalize"
  /\ main' = "copy"
  /\ UNCHANGED <<stats, env, ctxDone, wantResult, ready, mainNow, stoppedBy, result, loopVars,
                 workerVars>>

\* Finalize: its drain, in the steps drain has ...
FinalizeLock ==
  /\ main = "finalize"
  /\ SC!DrainLock("main", mainNow)
  /\ main' = "drain"
  /\ UNCHANGED <<env, ctxDone, wantResult, ready, mainNow, stoppedBy, result, loopVars, workerVars>>

FinalizeDrain ==
  /\ main = "drain"
  /\ \/ SC!DrainSnapshot("main") /\ UNCHANGED main
     \/ SC!DrainFold("main") /\ main' = "copy"
  /\ UNCHANGED <<env, ctxDone, wantResult, ready, mainNow, stoppedBy, result, loopVars, workerVars>>

\* ... and its copy of the totals and the series, under c.mu.
FinalizeCopy ==
  /\ main = "copy" /\ mu = NoDrainer
  /\ result' = [totals |-> total, series |-> intervals, ended |-> clock]
  /\ main' = "build"
  /\ UNCHANGED <<stats, env, ctxDone, wantResult, ready, mainNow, stoppedBy, loopVars, workerVars>>

\* BuildRunResult and WriteRunResult.  The copied opStats share their latency
\* maps with the collector, so the latencies are read only now.
BuildResult ==
  /\ main = "build"
  /\ result' = [result EXCEPT !.totals =
                  [o \in Ops |-> [@[o] EXCEPT !.latencies = total[o].latencies]]]
  /\ main' = "shutdown"
  /\ UNCHANGED <<stats, env, ctxDone, wantResult, ready, mainNow, stoppedBy, loopVars, workerVars>>

\* srv.Shutdown and the return of main.
Shutdown ==
  /\ main = "shutdown"
  /\ main' = "exited"
  /\ UNCHANGED <<stats, env, ctxDone, wantResult, ready, mainNow, stoppedBy, result, loopVars,
                 workerVars>>

Main ==
  \/ LaunchWorker \/ SetReady \/ NotifySignals
  \/ SelectSignal \/ SelectDone \/ WaitWorkers
  \/ FinalizeLock \/ FinalizeDrain \/ FinalizeCopy \/ BuildResult \/ Shutdown

-----------------------------------------------------------------------------
(* The summary loop *)

LoopStart ==
  /\ Alive /\ loop = "new"
  /\ nextFire' = clock + Interval
  /\ loop' = "select"
  /\ UNCHANGED <<stats, env, ctxDone, mainVars, loopNow, tick, workerVars>>

LoopExit ==
  /\ Alive /\ loop = "select" /\ ctxDone
  /\ tick' = Never /\ nextFire' = Never
  /\ loop' = "gone"
  /\ UNCHANGED <<stats, env, ctxDone, mainVars, loopNow, workerVars>>

\* Regression: the ticker channel is read without waiting for a tick.
LoopTick_NonBlocking ==
  /\ Alive /\ loop = "select"
  /\ loopNow' = tick /\ tick' = Never
  /\ loop' = "print"
  /\ UNCHANGED <<stats, env, ctxDone, mainVars, nextFire, workerVars>>

\* With both channels ready Go picks either, so a tick may win over Done.
LoopTick ==
  /\ Alive /\ loop = "select" /\ tick # Never
  /\ loopNow' = tick /\ tick' = Never
  /\ loop' = "print"
  /\ UNCHANGED <<stats, env, ctxDone, mainVars, nextFire, workerVars>>

PrintLock ==
  /\ Alive /\ loop = "print"
  /\ SC!DrainLock("loop", loopNow)
  /\ loop' = "drain"
  /\ UNCHANGED <<env, ctxDone, mainVars, loopNow, tick, nextFire, workerVars>>

PrintDrain ==
  /\ Alive /\ loop = "drain"
  /\ \/ SC!DrainSnapshot("loop") /\ UNCHANGED <<loop, loopNow>>
     \/ SC!DrainFold("loop") /\ loop' = "select" /\ loopNow' = 0
  /\ UNCHANGED <<env, ctxDone, mainVars, tick, nextFire, workerVars>>

SummaryLoop == LoopStart \/ LoopExit \/ LoopTick \/ PrintLock \/ PrintDrain

-----------------------------------------------------------------------------
(* Workers *)

\* Regression: workers stop on a signal only.
WorkerExit_SignalOnly(w) ==
  /\ Alive /\ pc[w] = "check" /\ ctxDone /\ sig = "taken"
  /\ pc' = [pc EXCEPT ![w] = "gone"]
  /\ UNCHANGED <<stats, env, ctxDone, mainVars, loopVars, op, good, opsTotal, when>>

\* The loop head, and the select of the think time: both return on Done.
WorkerExit(w) ==
  /\ Alive /\ pc[w] = "check" /\ ctxDone
  /\ pc' = [pc EXCEPT ![w] = "gone"]
  /\ UNCHANGED <<stats, env, ctxDone, mainVars, loopVars, op, good, opsTotal, when>>

StartOp(w, o) ==
  /\ Alive /\ pc[w] = "check" /\ ~ctxDone
  /\ Len(log) + Cardinality({v \in Workers : pc[v] \in {"busy", "record"}}) < MaxObs
  /\ op' = [op EXCEPT ![w] = o]
  /\ pc' = [pc EXCEPT ![w] = "busy"]
  /\ UNCHANGED <<stats, env, ctxDone, mainVars, loopVars, good, opsTotal, when>>

\* What Execute returns: nil, errSkipped, a context error (the run's own
\* cancellation, or a timeout inside the driver) or any other error.
Kinds == {"ok", "skip", "context", "db"}

IsShutdownCancellation(kind) == ctxDone /\ kind = "context"

\* The operation returns and is classified; a recorded one is first counted
\* in Prometheus.  A skip only increments a counter of its own.
OpReturns(w, kind) ==
  /\ Alive /\ pc[w] = "busy"
  /\ \/ /\ kind = "skip" \/ IsShutdownCancellation(kind)
        /\ pc' = [pc EXCEPT ![w] = "check"]
        /\ UNCHANGED <<good, opsTotal>>
     \/ /\ kind # "skip" /\ ~IsShutdownCancellation(kind)
        /\ pc' = [pc EXCEPT ![w] = "record"]
        /\ good' = [good EXCEPT ![w] = (kind = "ok")]
        /\ opsTotal' = IF kind = "ok" THEN [opsTotal EXCEPT ![op[w]].ok = @ + 1]
                                      ELSE [opsTotal EXCEPT ![op[w]].error = @ + 1]
  /\ UNCHANGED <<stats, env, ctxDone, mainVars, loopVars, op, when>>

RecordStats(w, d) ==
  /\ Alive /\ pc[w] = "record"
  /\ SC!Record(w, op[w], good[w], d)
  /\ when' = Append(when, clock)
  /\ pc' = [pc EXCEPT ![w] = "check"]
  /\ good' = [good EXCEPT ![w] = TRUE]
  /\ UNCHANGED <<env, ctxDone, mainVars, loopVars, op, opsTotal>>

Worker(w) ==
  \/ WorkerExit(w)
  \/ \E o \in Ops : StartOp(w, o)
  \/ \E kind \in Kinds : OpReturns(w, kind)
  \/ \E d \in Durations : RecordStats(w, d)

-----------------------------------------------------------------------------
Terminated == ~Alive /\ UNCHANGED vars

Next ==
  \/ Elapse \/ Expire \/ TickerFires \/ Signal
  \/ Main
  \/ SummaryLoop
  \/ \E w \in Workers : Worker(w)
  \/ Terminated

\* The clock runs, the runtime schedules main and the summary loop, and a
\* worker moves on once the context is cancelled: the driver then abandons its
\* query.  Before that an operation may hang for ever.
Fairness ==
  /\ WF_vars(Elapse) /\ WF_vars(Expire)
  /\ WF_vars(Main) /\ WF_vars(SummaryLoop)
  /\ \A w \in Workers : WF_vars(ctxDone /\ Worker(w))

Spec == Init /\ [][Next]_vars

FairSpec == Spec /\ Fairness
-----------------------------------------------------------------------------
(* Properties *)

\* The variables this module adds to StatsCollector have their types.
TypeOK ==
  /\ clock \in 0..MaxTime /\ deadline \in {Deadline, Never} /\ ctxDone \in BOOLEAN
  /\ sig \in {"none", "pending", "taken"}
  /\ wantResult \in BOOLEAN /\ ready \in BOOLEAN
  /\ main \in {"launch", "notify", "select", "wait", "finalize", "drain", "copy", "build",
               "shutdown", "exited", "killed"}
  /\ mainNow \in 0..MaxTime /\ stoppedBy \in {"signal", "duration"}
  /\ loop \in {"new", "select", "print", "drain", "gone"} /\ loopNow \in 0..MaxTime
  /\ tick \in 0..MaxTime \cup {Never} /\ nextFire \in Nat \cup {Never}
  /\ pc \in [Workers -> {"off", "check", "busy", "record", "gone"}]
  /\ op \in [Workers -> Ops] /\ good \in [Workers -> BOOLEAN]
  /\ opsTotal \in [Ops -> [ok : Nat, error : Nat]]
  /\ when \in Seq(0..MaxTime) /\ Len(when) = Len(log)

\* The goroutines use the collector as StatsCollector allows, so everything
\* proved there holds of the run.
CollectorSpec == SC!Spec

\* The result the run leaves behind (main.go:200-232) is complete: it tallies
\* every operation any worker recorded, the series included, and agrees with
\* the Prometheus counters, whatever races with the end of the run.
ResultExact ==
  (main = "exited" /\ wantResult) =>
    /\ SC!Tallies(log, result.totals, SC!Ids)
    /\ result.series = intervals
    /\ SC!OpsIn(result.totals) = SumFunction([i \in DOMAIN result.series |-> result.series[i].ops])
    /\ \A o \in Ops : /\ opsTotal[o].error = result.totals[o].errors
                      /\ opsTotal[o].ok + opsTotal[o].error = result.totals[o].count

\* Finalize hands out opStats that share their latency maps with the live
\* collector, and may overtake a summary print (stats.go:377).  From the copy
\* on, no drain changes the totals or the series any more.
FinalizedStaysFinal ==
  [][(wantResult /\ main \in {"build", "shutdown"}) =>
       /\ total' = total
       /\ intervals' = intervals
       /\ lastBoundary' = lastBoundary]_vars

\* A drain may carry a tick that is older than the last boundary, or a
\* time.Now() older than a tick drained meanwhile; still no interval of a run
\* ends before it starts or in the future, every one but the first is at least
\* MinInterval long, and its rate is its operations over its span.
SeriesOrdered ==
  \A i \in DOMAIN intervals :
    LET iv == intervals[i]
        Expected(n) == IF iv.end > iv.start THEN <<n, iv.end - iv.start>> ELSE SC!NoRate
    IN  /\ iv.start <= iv.end /\ iv.end <= clock
        /\ i > 1 => iv.end - iv.start >= MinInterval
        /\ iv.rate = Expected(iv.ops)
        /\ \A o \in Ops : iv.per[o].count > 0 => iv.per[o].rate = Expected(iv.per[o].count)

\* "each one is measured over its true span" (stats.go:150): an operation is
\* never counted in an interval that starts after it was recorded.
CountedNotBeforeRecorded ==
  \A i \in DOMAIN intervals : \A k \in iobs[i] : intervals[i].start <= when[k]

\* stopped_by (result.go:227): a run cut short never passes for one that ran
\* its course.  A result that says "duration" covers the configured duration.
DurationMeansFullRun ==
  (main = "exited" /\ wantResult /\ stoppedBy = "duration") =>
    (deadline # Never /\ result.ended >= deadline)

\* A run with RUN_DURATION_SECS ends by itself.
BoundedRunEnds == deadline # Never => <>~Alive

\* Once the context is cancelled, by deadline or signal, the process exits:
\* neither wg.Wait nor the mutexes of the collector block it for ever.
ShutdownCompletes == ctxDone ~> ~Alive
=============================================================================
