------------------------ MODULE RunLifecycleProofs --------------------------
(***************************************************************************)
(* What is proved of a whole run, for any number of workers, operations    *)
(* and any timing: the goroutines use the collector as StatsCollector      *)
(* allows, and with the theorems of StatsCollectorProofs, which then hold  *)
(* of the run, what the run leaves behind is right, and no goroutine that  *)
(* the end of the run needs is ever stuck behind another.                  *)
(***************************************************************************)
EXTENDS RunLifecycle, FiniteSetTheorems, SequenceTheorems, TLAPS

SCP == INSTANCE StatsCollectorProofs WITH Drainers <- {"main", "loop"}

-----------------------------------------------------------------------------
(* Types, and the use of the collector *)

\* The workers whose operation will end in a Record call, unless it is skipped.
InFlight == {v \in Workers : pc[v] \in {"busy", "record"}}

\* StartOp's bound leaves room in the log for all of them.
Capacity == Len(log) + Cardinality(InFlight) <= MaxObs

TypeInv == TypeOK /\ SC!TypeOK /\ Capacity

\* The instance's assumptions hold: it has a copy of every operator of its own.
LEMMA OpsFinite == SCP!IsFiniteSet(Ops)
BY CollectorAssumption DEF IsFiniteSet, SCP!IsFiniteSet

\* The two instances of the collector are the same.
LEMMA SameTypes == SC!TypeOK <=> SCP!TypeOK
BY DEF SC!TypeOK, SC!Workers, SC!OpStats, SC!Lat, SC!Micros, SC!Ids, SC!Call, SC!IntervalOp,
       SC!Range, SCP!TypeOK, SCP!Workers, SCP!OpStats, SCP!Lat, SCP!Micros, SCP!Ids, SCP!Call,
       SCP!IntervalOp, SCP!Range

LEMMA SameInit == SC!Init <=> SCP!Init
BY DEF SC!Init, SC!Workers, SC!EmptyWindow, SC!ZeroStats, SC!Lat, SC!Micros,
       SCP!Init, SCP!Workers, SCP!EmptyWindow, SCP!ZeroStats, SCP!Lat, SCP!Micros

LEMMA SameCounts ==
  ASSUME NEW m
  PROVE  SC!OpsIn(m) = SCP!OpsIn(m) /\ SC!ErrorsIn(m) = SCP!ErrorsIn(m)
BY DEF SC!OpsIn, SC!ErrorsIn, SC!SumFunction, SC!SumFunctionOnSet, SC!FoldFunctionOnSet,
       SC!MapThenFoldSet, SCP!OpsIn, SCP!ErrorsIn, SCP!SumFunction, SCP!SumFunctionOnSet,
       SCP!FoldFunctionOnSet, SCP!MapThenFoldSet

LEMMA SameNext == SC!Next <=> SCP!Next
<1>1. SC!EmptyWindow = SCP!EmptyWindow /\ SC!Lat = SCP!Lat /\ SC!NoRate = SCP!NoRate
      /\ SC!NoOp = SCP!NoOp /\ SC!Workers = SCP!Workers /\ SC!history = SCP!history
  BY DEF SC!EmptyWindow, SC!ZeroStats, SC!Lat, SC!Micros, SC!NoRate, SC!NoOp, SC!Workers,
         SC!history, SCP!EmptyWindow, SCP!ZeroStats, SCP!Lat, SCP!Micros, SCP!NoRate, SCP!NoOp,
         SCP!Workers, SCP!history
<1>2. ASSUME NEW a, NEW b PROVE SC!MergeAll(a, b) = SCP!MergeAll(a, b)
  BY <1>1 DEF SC!MergeAll, SC!MergeInto, SCP!MergeAll, SCP!MergeInto
<1>3. ASSUME NEW now, NEW m PROVE SC!RecordInterval(now, m) <=> SCP!RecordInterval(now, m)
  BY <1>1, SameCounts
     DEF SC!RecordInterval, SC!NothingIn, SC!IsSliver, SC!FoldIntoInterval, SC!AppendInterval,
         SC!NewInterval, SC!FoldInterval, SC!FoldOp, SC!Rate, SCP!RecordInterval, SCP!NothingIn,
         SCP!IsSliver, SCP!FoldIntoInterval, SCP!AppendInterval, SCP!NewInterval,
         SCP!FoldInterval, SCP!FoldOp, SCP!Rate
<1>4. SC!NewWorkerStats <=> SCP!NewWorkerStats
  BY DEF SC!NewWorkerStats, SC!history, SCP!NewWorkerStats, SCP!history
<1>5. ASSUME NEW w, NEW o, NEW ok, NEW d PROVE SC!Record(w, o, ok, d) <=> SCP!Record(w, o, ok, d)
  BY DEF SC!Record, SC!RecordIn, SC!Micros, SCP!Record, SCP!RecordIn, SCP!Micros
<1>6. ASSUME NEW d, NEW now PROVE SC!DrainLock(d, now) <=> SCP!DrainLock(d, now)
  BY <1>1 DEF SC!DrainLock, SC!history, SCP!DrainLock, SCP!history
<1>7. ASSUME NEW d PROVE SC!DrainSnapshot(d) <=> SCP!DrainSnapshot(d)
  BY <1>1, <1>2 DEF SC!DrainSnapshot, SCP!DrainSnapshot
<1>8. ASSUME NEW d PROVE SC!DrainFold(d) <=> SCP!DrainFold(d)
  BY <1>1, <1>2, <1>3 DEF SC!DrainFold, SCP!DrainFold
<1>9. QED
  BY <1>1, <1>4, <1>5, <1>6, <1>7, <1>8 DEF SC!Next, SCP!Next

LEMMA SameStep == [SC!Next]_(SC!vars) <=> [SCP!Next]_(SCP!vars)
BY SameNext DEF SC!vars, SC!collector, SC!history, SCP!vars, SCP!collector, SCP!history

LEMMA FlightFinite == IsFiniteSet(InFlight) /\ Cardinality(InFlight) \in Nat
<1>1. IsFiniteSet(Workers)
  BY CollectorAssumption, FS_Interval DEF Workers
<1>2. InFlight \subseteq Workers
  BY DEF InFlight
<1>3. QED
  BY <1>1, <1>2, FS_Subset, FS_CardinalityType

\* Every step of a goroutine is a step of the collector, or leaves it alone.
LEMMA CollectorStep == TypeInv /\ [Next]_vars => [SC!Next]_(SC!vars)
<1> SUFFICES ASSUME TypeInv, [Next]_vars PROVE SC!Next \/ UNCHANGED SC!vars
  OBVIOUS
<1> USE DEF TypeInv
<1>a. ASSUME UNCHANGED stats PROVE UNCHANGED SC!vars
  BY <1>a DEF stats, SC!vars, SC!collector, SC!history
<1>b. ASSUME NEW d \in {"main", "loop"}, NEW now \in 0..MaxTime, SC!DrainLock(d, now)
      PROVE  SC!Next
  BY <1>b DEF SC!Next
<1>c. ASSUME NEW d \in {"main", "loop"}, SC!DrainSnapshot(d) \/ SC!DrainFold(d)
      PROVE  SC!Next
  BY <1>c DEF SC!Next
<1>1. CASE Elapse \/ Expire \/ TickerFires \/ Signal
  BY <1>1, <1>a DEF Elapse, Expire, TickerFires, Signal
<1>2. CASE Main
  <2>1. CASE LaunchWorker
    BY <2>1 DEF LaunchWorker, SC!Next
  <2>2. CASE SetReady \/ NotifySignals \/ SelectSignal \/ SelectDone \/ WaitWorkers
    BY <2>2, <1>a DEF SetReady, NotifySignals, SelectSignal, SelectDone, WaitWorkers
  <2>3. CASE FinalizeLock
    <3>1. mainNow \in 0..MaxTime /\ SC!DrainLock("main", mainNow)
      BY <2>3 DEF FinalizeLock, TypeOK
    <3>2. QED
      BY <3>1, <1>b
  <2>4. CASE FinalizeDrain
    BY <2>4, <1>c DEF FinalizeDrain
  <2>5. CASE FinalizeCopy \/ BuildResult \/ Shutdown
    BY <2>5, <1>a DEF FinalizeCopy, BuildResult, Shutdown
  <2>6. QED
    BY <1>2, <2>1, <2>2, <2>3, <2>4, <2>5 DEF Main
<1>3. CASE SummaryLoop
  <2>1. CASE LoopStart \/ LoopExit \/ LoopTick
    BY <2>1, <1>a DEF LoopStart, LoopExit, LoopTick
  <2>2. CASE PrintLock
    <3>1. loopNow \in 0..MaxTime /\ SC!DrainLock("loop", loopNow)
      BY <2>2 DEF PrintLock, TypeOK
    <3>2. QED
      BY <3>1, <1>b
  <2>3. CASE PrintDrain
    BY <2>3, <1>c DEF PrintDrain
  <2>4. QED
    BY <1>3, <2>1, <2>2, <2>3 DEF SummaryLoop
<1>4. ASSUME NEW w \in Workers, Worker(w)
      PROVE  SC!Next \/ UNCHANGED SC!vars
  <2>1. CASE WorkerExit(w) \/ (\E o \in Ops : StartOp(w, o))
             \/ (\E kind \in Kinds : OpReturns(w, kind))
    BY <2>1, <1>a DEF WorkerExit, StartOp, OpReturns
  <2>2. ASSUME NEW d \in Durations, RecordStats(w, d)
        PROVE  SC!Next
    <3>1. w \in InFlight
      BY <2>2 DEF RecordStats, InFlight
    <3>2. Cardinality(InFlight) > 0
      BY <3>1, FlightFinite, FS_EmptySet, SMT
    <3>3. Len(log) < MaxObs
      BY <3>2, FlightFinite, CollectorAssumption DEF Capacity, SC!TypeOK
    <3>4. w \in SC!Workers /\ op[w] \in Ops /\ good[w] \in BOOLEAN
      BY DEF TypeOK, SC!Workers, Workers
    <3>5. SC!Record(w, op[w], good[w], d)
      BY <2>2 DEF RecordStats
    <3>6. QED
      BY <3>3, <3>4, <3>5 DEF SC!Next
  <2>3. QED
    BY <1>4, <2>1, <2>2 DEF Worker
<1>5. CASE UNCHANGED vars
  BY <1>5, <1>a DEF vars, Terminated
<1>6. QED
  BY <1>1, <1>2, <1>3, <1>4, <1>5 DEF Next, Terminated

LEMMA InitTypes == Init => TypeInv
<1> SUFFICES ASSUME Init PROVE TypeInv
  OBVIOUS
<1>1. SC!TypeOK
  BY SameInit, SameTypes, SCP!InitType, OpsFinite, CollectorAssumption DEF Init
<1>2. log = <<>> /\ when = <<>>
  BY DEF Init, SC!Init
<1>3. (CHOOSE o \in Ops : TRUE) \in Ops
  BY CollectorAssumption
<1>4. TypeOK
  <2>1. ctxDone \in BOOLEAN /\ wantResult \in BOOLEAN /\ ready \in BOOLEAN
    BY Zenon DEF Init
  <2>2. good \in [Workers -> BOOLEAN] /\ op \in [Workers -> Ops]
    BY <1>3, Zenon DEF Init
  <2>3. when \in Seq(0..MaxTime) /\ Len(when) = Len(log)
    BY <1>2
  <2>4. /\ clock \in 0..MaxTime /\ mainNow \in 0..MaxTime /\ loopNow \in 0..MaxTime
        /\ opsTotal \in [Ops -> [ok : Nat, error : Nat]]
    BY CollectorAssumption DEF Init
  <2>5. QED
    BY <2>1, <2>2, <2>3, <2>4 DEF Init, TypeOK
<1>5. InFlight = {}
  BY DEF Init, InFlight
<1>6. Capacity
  BY <1>2, <1>5, FS_EmptySet, CollectorAssumption DEF Capacity
<1>7. QED
  BY <1>1, <1>4, <1>6 DEF TypeInv

\* Once it has fired, the ticker's next time is later.
LEMMA NextFireType ==
  ASSUME NEW c \in Nat, NEW f \in Nat, c >= f
  PROVE  /\ f + Interval * (1 + ((c - f) \div Interval)) \in Nat
         /\ f + Interval * (1 + ((c - f) \div Interval)) > f
<1>1. PICK q \in Nat : q = (c - f) \div Interval
  BY IntervalAssumption
<1>2. Interval * (1 + q) \in Nat \ {0}
  BY IntervalAssumption
<1>3. QED
  BY <1>1, <1>2

LEMMA NextTypes == TypeInv /\ [Next]_vars => TypeOK'
<1> SUFFICES ASSUME TypeInv, [Next]_vars PROVE TypeOK'
  OBVIOUS
<1> USE DEF TypeInv, env, mainVars, loopVars, workerVars
<1>a. ASSUME UNCHANGED log PROVE UNCHANGED Len(log)
  BY <1>a
<1>1. CASE Elapse
  BY <1>1, CollectorAssumption DEF Elapse, TypeOK, stats
<1>2. CASE Expire \/ Signal
  <2>1. ctxDone' \in BOOLEAN /\ wantResult' \in BOOLEAN /\ ready' \in BOOLEAN
    BY <1>2, Zenon DEF Expire, Signal, TypeOK
  <2>2. QED
    BY <1>2, <2>1 DEF Expire, Signal, TypeOK, stats
<1>3. CASE TickerFires
  <2>1. nextFire \in Nat /\ nextFire \in 0..MaxTime /\ clock \in Nat
    BY <1>3, CollectorAssumption DEF TickerFires, TypeOK
  <2>2. nextFire' \in Nat
    BY <1>3, <2>1, NextFireType DEF TickerFires
  <2>3. tick' \in 0..MaxTime \cup {Never}
    BY <1>3, <2>1 DEF TickerFires, TypeOK
  <2>4. QED
    BY <1>3, <2>2, <2>3 DEF TickerFires, TypeOK, stats
<1>4. CASE Main
  <2>1. CASE LaunchWorker
    BY <2>1, ZenonT(60) DEF LaunchWorker, SC!NewWorkerStats, SC!history, TypeOK
  <2>2. CASE SetReady \/ NotifySignals \/ SelectSignal \/ SelectDone \/ WaitWorkers
    <3>1. ctxDone' \in BOOLEAN /\ wantResult' \in BOOLEAN /\ ready' \in BOOLEAN
      BY <2>2, Zenon
         DEF SetReady, NotifySignals, SelectSignal, SelectDone, WaitWorkers, TypeOK
    <3>2. mainNow' \in 0..MaxTime
      BY <2>2 DEF SetReady, NotifySignals, SelectSignal, SelectDone, WaitWorkers, TypeOK
    <3>3. QED
      BY <2>2, <3>1, <3>2
         DEF SetReady, NotifySignals, SelectSignal, SelectDone, WaitWorkers, TypeOK, stats
  <2>3. CASE FinalizeLock
    BY <2>3 DEF FinalizeLock, SC!DrainLock, SC!history, TypeOK
  <2>4. CASE FinalizeDrain
    BY <2>4 DEF FinalizeDrain, SC!DrainSnapshot, SC!DrainFold, TypeOK
  <2>5. CASE FinalizeCopy \/ BuildResult \/ Shutdown
    BY <2>5 DEF FinalizeCopy, BuildResult, Shutdown, TypeOK, stats
  <2>6. QED
    BY <1>4, <2>1, <2>2, <2>3, <2>4, <2>5 DEF Main
<1>5. CASE SummaryLoop
  <2>1. CASE LoopStart
    <3>1. clock + Interval \in Nat
      BY IntervalAssumption, CollectorAssumption DEF TypeOK
    <3>2. QED
      BY <2>1, <3>1 DEF LoopStart, TypeOK, stats
  <2>2. CASE LoopExit \/ LoopTick
    BY <2>2, CollectorAssumption DEF LoopExit, LoopTick, TypeOK, stats
  <2>3. CASE PrintLock
    BY <2>3 DEF PrintLock, SC!DrainLock, SC!history, TypeOK
  <2>4. CASE PrintDrain
    BY <2>4, CollectorAssumption DEF PrintDrain, SC!DrainSnapshot, SC!DrainFold, TypeOK
  <2>5. QED
    BY <1>5, <2>1, <2>2, <2>3, <2>4 DEF SummaryLoop
<1>6. ASSUME NEW w \in Workers, Worker(w)
      PROVE  TypeOK'
  <2>1. CASE WorkerExit(w)
    BY <2>1 DEF WorkerExit, TypeOK, stats
  <2>2. ASSUME NEW o \in Ops, StartOp(w, o) PROVE TypeOK'
    BY <2>2 DEF StartOp, TypeOK, stats
  <2>3. ASSUME NEW kind \in Kinds, OpReturns(w, kind) PROVE TypeOK'
    <3>1. pc' \in [Workers -> {"off", "check", "busy", "record", "gone"}]
      BY <2>3 DEF OpReturns, TypeOK
    <3>2. good' \in [Workers -> BOOLEAN]
      BY <2>3, Zenon DEF OpReturns, TypeOK
    <3>3. opsTotal' \in [Ops -> [ok : Nat, error : Nat]]
      <4>1. op[w] \in Ops
        BY DEF TypeOK
      <4>2. opsTotal[op[w]] \in [ok : Nat, error : Nat]
        BY <4>1 DEF TypeOK
      <4>3. /\ [opsTotal[op[w]] EXCEPT !.ok = @ + 1] \in [ok : Nat, error : Nat]
            /\ [opsTotal[op[w]] EXCEPT !.error = @ + 1] \in [ok : Nat, error : Nat]
        BY <4>2
      <4>4. \/ opsTotal' = opsTotal
            \/ opsTotal' = [opsTotal EXCEPT ![op[w]] = [opsTotal[op[w]] EXCEPT !.ok = @ + 1]]
            \/ opsTotal' = [opsTotal EXCEPT ![op[w]] = [opsTotal[op[w]] EXCEPT !.error = @ + 1]]
        BY <2>3, <4>1 DEF OpReturns, TypeOK
      <4>5. QED
        BY <4>1, <4>3, <4>4 DEF TypeOK
    <3>4. QED
      BY <2>3, <3>1, <3>2, <3>3 DEF OpReturns, TypeOK, stats
  <2>4. ASSUME NEW d \in Durations, RecordStats(w, d) PROVE TypeOK'
    <3>1. Len(log') = Len(log) + 1
      BY <2>4 DEF RecordStats, SC!Record, SC!TypeOK
    <3>2. when' \in Seq(0..MaxTime) /\ Len(when') = Len(when) + 1
      BY <2>4 DEF RecordStats, TypeOK
    <3>3. QED
      BY <2>4, <3>1, <3>2 DEF RecordStats, TypeOK
  <2>5. QED
    BY <1>6, <2>1, <2>2, <2>3, <2>4 DEF Worker
<1>7. CASE UNCHANGED vars
  BY <1>7 DEF vars, TypeOK, stats
<1>8. QED
  BY <1>1, <1>2, <1>3, <1>4, <1>5, <1>6, <1>7 DEF Next, Terminated

LEMMA NextCapacity == TypeInv /\ [Next]_vars => Capacity'
<1> SUFFICES ASSUME TypeInv, [Next]_vars PROVE Capacity'
  OBVIOUS
<1> USE DEF TypeInv
<1>a. Len(log) \in Nat /\ MaxObs \in Nat
  BY CollectorAssumption DEF SC!TypeOK
<1>b. ASSUME UNCHANGED <<log, pc>> PROVE Capacity'
  BY <1>b DEF Capacity, InFlight
<1>c. ASSUME UNCHANGED log, InFlight' \subseteq InFlight PROVE Capacity'
  <2>1. /\ Cardinality(InFlight') \in Nat /\ Cardinality(InFlight) \in Nat
        /\ Cardinality(InFlight') <= Cardinality(InFlight)
    BY <1>c, FlightFinite, FS_Subset, FS_CardinalityType
  <2>2. QED
    BY <1>a, <1>c, <2>1 DEF Capacity
<1>1. CASE Elapse \/ Expire \/ TickerFires \/ Signal
  BY <1>1, <1>b DEF Elapse, Expire, TickerFires, Signal, stats, workerVars
<1>2. CASE Main
  <2>1. CASE LaunchWorker
    <3>1. UNCHANGED log
      BY <2>1 DEF LaunchWorker, SC!NewWorkerStats, SC!history
    <3>2. InFlight' \subseteq InFlight
      BY <2>1 DEF LaunchWorker, InFlight, TypeOK
    <3>3. QED
      BY <3>1, <3>2, <1>c
  <2>2. CASE Main /\ ~LaunchWorker
    <3>1. UNCHANGED log
      BY <2>2 DEF Main, SetReady, NotifySignals, SelectSignal, SelectDone, WaitWorkers,
                  FinalizeLock, FinalizeDrain, FinalizeCopy, BuildResult, Shutdown, stats,
                  SC!DrainLock, SC!DrainSnapshot, SC!DrainFold, SC!history
    <3>2. UNCHANGED pc
      BY <2>2 DEF Main, SetReady, NotifySignals, SelectSignal, SelectDone, WaitWorkers,
                  FinalizeLock, FinalizeDrain, FinalizeCopy, BuildResult, Shutdown, workerVars
    <3>3. QED
      BY <3>1, <3>2, <1>b
  <2>3. QED
    BY <1>2, <2>1, <2>2
<1>3. CASE SummaryLoop
  <2>1. UNCHANGED log
    BY <1>3 DEF SummaryLoop, LoopStart, LoopExit, LoopTick, PrintLock, PrintDrain, stats,
                SC!DrainLock, SC!DrainSnapshot, SC!DrainFold, SC!history
  <2>2. UNCHANGED pc
    BY <1>3 DEF SummaryLoop, LoopStart, LoopExit, LoopTick, PrintLock, PrintDrain, workerVars
  <2>3. QED
    BY <2>1, <2>2, <1>b
<1>4. ASSUME NEW w \in Workers, Worker(w)
      PROVE  Capacity'
  <2>1. CASE WorkerExit(w) \/ \E kind \in Kinds : OpReturns(w, kind)
    <3>1. InFlight' \subseteq InFlight
      BY <2>1 DEF WorkerExit, OpReturns, InFlight, TypeOK
    <3>2. UNCHANGED log
      BY <2>1 DEF WorkerExit, OpReturns, stats
    <3>3. QED
      BY <3>1, <3>2, <1>c
  <2>2. ASSUME NEW o \in Ops, StartOp(w, o) PROVE Capacity'
    <3>1. InFlight' = InFlight \cup {w} /\ w \notin InFlight
      BY <2>2 DEF StartOp, InFlight, TypeOK
    <3>2. Cardinality(InFlight') = Cardinality(InFlight) + 1
      BY <3>1, FlightFinite, FS_AddElement
    <3>3. Len(log) + Cardinality(InFlight) < MaxObs /\ UNCHANGED log
      BY <2>2 DEF StartOp, InFlight, stats
    <3>4. QED
      BY <3>2, <3>3, <1>a, FlightFinite DEF Capacity
  <2>3. ASSUME NEW d \in Durations, RecordStats(w, d) PROVE Capacity'
    <3>1. InFlight' = InFlight \ {w} /\ w \in InFlight
      BY <2>3 DEF RecordStats, InFlight, TypeOK
    <3>2. Cardinality(InFlight') = Cardinality(InFlight) - 1
      BY <3>1, FlightFinite, FS_RemoveElement
    <3>3. Len(log') = Len(log) + 1
      BY <2>3 DEF RecordStats, SC!Record, SC!TypeOK
    <3>4. QED
      BY <3>2, <3>3, <1>a, FlightFinite DEF Capacity
  <2>4. QED
    BY <1>4, <2>1, <2>2, <2>3 DEF Worker
<1>5. CASE UNCHANGED vars
  BY <1>5, <1>b DEF vars, stats, workerVars
<1>6. QED
  BY <1>1, <1>2, <1>3, <1>4, <1>5 DEF Next, Terminated

LEMMA NextTypeInv == TypeInv /\ [Next]_vars => TypeInv'
<1> SUFFICES ASSUME TypeInv, [Next]_vars PROVE TypeInv'
  OBVIOUS
<1>1. [SC!Next]_(SC!vars)
  BY CollectorStep
<1>2. [SCP!Next]_(SCP!vars)
  BY <1>1, SameStep
<1>3. SCP!TypeOK
  BY SameTypes DEF TypeInv
<1>4. SCP!TypeOK'
  BY <1>2, <1>3, SCP!NextType, OpsFinite, CollectorAssumption
<1>5. SC!TypeOK'
  BY <1>4, SameTypes, PTL
<1>6. QED
  BY <1>5, NextTypes, NextCapacity DEF TypeInv

LEMMA TypesHold == Spec => []TypeInv
BY InitTypes, NextTypeInv, PTL DEF Spec

(* The variables of a run have their types: the ticker never hands out a    *)
(* time later than the clock or no time at all, and every Record call has   *)
(* its own time.                                                            *)
THEOREM TypeCorrect == Spec => []TypeOK
BY TypesHold, PTL DEF TypeInv

(* main, the summary loop and the workers use the statistics only as        *)
(* StatsCollector allows: whatever its theorems say of any environment      *)
(* holds of the environment pgstorm is.                                     *)
THEOREM RunUsesCollector == Spec => CollectorSpec
<1>1. Init => SC!Init
  BY DEF Init
<1>2. TypeInv /\ [Next]_vars => [SC!Next]_(SC!vars)
  BY CollectorStep
<1>3. QED
  BY <1>1, <1>2, TypesHold, PTL DEF Spec, CollectorSpec, SC!Spec

-----------------------------------------------------------------------------
(* How the run ended *)

Due == deadline # Never /\ clock >= deadline

\* runCtx ends before main's select only by its deadline, "duration" is said
\* only then, and what Finalize copies later is not older.
EndInv ==
  /\ result = [totals |-> result.totals, series |-> result.series, ended |-> result.ended]
  /\ main \in {"launch", "notify", "select"} /\ ctxDone => Due
  /\ stoppedBy = "duration" => Due
  /\ main \in {"build", "shutdown", "exited"} /\ wantResult /\ stoppedBy = "duration"
       => result.ended >= deadline

LEMMA InitEnd == Init => EndInv
BY DEF Init, EndInv, NoResult

LEMMA NextEnd == TypeInv /\ EndInv /\ [Next]_vars => EndInv'
<1> SUFFICES ASSUME TypeInv, EndInv, [Next]_vars PROVE EndInv'
  OBVIOUS
<1> USE DEF env, mainVars
<1>a. ASSUME UNCHANGED <<mainVars, ctxDone, deadline, clock>> PROVE EndInv'
  BY <1>a DEF EndInv, Due
<1>b. clock \in Int /\ (deadline # Never => deadline \in Int)
  BY CollectorAssumption, DeadlineAssumption DEF TypeInv, TypeOK
<1>1. CASE Elapse
  <2>1. Due => Due'
    BY <1>1, <1>b DEF Elapse, Due
  <2>2. QED
    BY <1>1, <2>1 DEF Elapse, EndInv
<1>2. CASE Expire
  BY <1>2 DEF Expire, EndInv, Due
<1>3. CASE TickerFires
  BY <1>3, <1>a DEF TickerFires
<1>4. CASE Signal
  BY <1>4 DEF Signal, EndInv, Due
<1>5. CASE Main
  <2>1. CASE LaunchWorker \/ FinalizeLock \/ FinalizeDrain
    BY <2>1 DEF LaunchWorker, FinalizeLock, FinalizeDrain, EndInv, Due
  <2>2. CASE SetReady \/ NotifySignals \/ SelectSignal \/ SelectDone
    BY <2>2 DEF SetReady, NotifySignals, SelectSignal, SelectDone, EndInv, Due
  <2>3. CASE WaitWorkers
    BY <2>3 DEF WaitWorkers, EndInv, Due
  <2>4. CASE FinalizeCopy
    BY <2>4, <1>b DEF FinalizeCopy, EndInv, Due
  <2>5. CASE BuildResult
    <3>1. PICK t : result' = [result EXCEPT !.totals = t]
      BY <2>5 DEF BuildResult
    <3>2. result' = [totals |-> t, series |-> result.series, ended |-> result.ended]
      BY <3>1 DEF EndInv
    <3>3. QED
      BY <2>5, <3>2 DEF BuildResult, EndInv, Due
  <2>6. CASE Shutdown
    BY <2>6 DEF Shutdown, EndInv, Due
  <2>7. QED
    BY <1>5, <2>1, <2>2, <2>3, <2>4, <2>5, <2>6 DEF Main
<1>6. CASE SummaryLoop
  BY <1>6, <1>a DEF SummaryLoop, LoopStart, LoopExit, LoopTick, PrintLock, PrintDrain
<1>7. ASSUME NEW w \in Workers, Worker(w)
      PROVE  EndInv'
  BY <1>7, <1>a DEF Worker, WorkerExit, StartOp, OpReturns, RecordStats
<1>8. CASE UNCHANGED vars
  BY <1>8, <1>a DEF vars
<1>9. QED
  BY <1>1, <1>2, <1>3, <1>4, <1>5, <1>6, <1>7, <1>8 DEF Next, Terminated

(* A result that says "duration" covers the configured duration: no order   *)
(* of signal, deadline and select makes a run that was cut short pass for   *)
(* a complete one.                                                          *)
THEOREM DurationIsHonest == Spec => []DurationMeansFullRun
<1>1. EndInv => DurationMeansFullRun
  BY DEF EndInv, DurationMeansFullRun, Due
<1>2. QED
  BY <1>1, InitEnd, NextEnd, TypesHold, PTL DEF Spec

-----------------------------------------------------------------------------
(* Who holds c.mu, and what is left to drain *)

\* The mutex is held by the goroutine inside drain, with the time it passed.
MutexInv ==
  /\ mu = "main" <=> main = "drain"
  /\ mu = "loop" <=> loop = "drain"
  /\ mu = "main" => drainNow = mainNow
  /\ mu = "loop" => drainNow = loopNow

\* Finalize runs only for a result, with every worker launched and gone.
ControlInv ==
  /\ main \notin {"launch", "killed"} => nreg = N
  /\ main \in {"finalize", "drain", "copy", "build", "shutdown", "exited"} => WorkersGone
  /\ main \in {"finalize", "drain", "copy", "build"} => wantResult

\* The collector's part of the steps that are not its own.
LEMMA StatsUnchanged ==
  UNCHANGED stats => /\ UNCHANGED <<nreg, window, mu, cur, drainNow, merged, total>>
                     /\ UNCHANGED <<intervals, lastBoundary, log, wobs, mobs, iobs>>
BY DEF stats

LEMMA NextMutex == TypeInv /\ MutexInv /\ [Next]_vars => MutexInv'
<1> SUFFICES ASSUME TypeInv, MutexInv, [Next]_vars PROVE MutexInv'
  OBVIOUS
<1> USE CollectorAssumption DEF MutexInv
<1>a. ASSUME UNCHANGED <<mu, drainNow, main, mainNow, loop, loopNow>> PROVE MutexInv'
  BY <1>a
<1>1. CASE Elapse \/ Expire \/ TickerFires \/ Signal
  BY <1>1, StatsUnchanged DEF Elapse, Expire, TickerFires, Signal, mainVars, loopVars
<1>2. CASE Main
  <2>1. CASE LaunchWorker
    BY <2>1, <1>a DEF LaunchWorker, SC!NewWorkerStats, mainVars, loopVars
  <2>2. CASE SetReady \/ NotifySignals \/ SelectSignal \/ SelectDone \/ WaitWorkers
    BY <2>2, StatsUnchanged
       DEF SetReady, NotifySignals, SelectSignal, SelectDone, WaitWorkers, loopVars
  <2>3. CASE FinalizeLock
    BY <2>3 DEF FinalizeLock, SC!DrainLock, loopVars
  <2>4. CASE FinalizeDrain
    BY <2>4 DEF FinalizeDrain, SC!DrainSnapshot, SC!DrainFold, loopVars
  <2>5. CASE FinalizeCopy \/ BuildResult \/ Shutdown
    BY <2>5, StatsUnchanged DEF FinalizeCopy, BuildResult, Shutdown, loopVars
  <2>6. QED
    BY <1>2, <2>1, <2>2, <2>3, <2>4, <2>5 DEF Main
<1>3. CASE SummaryLoop
  <2>1. CASE LoopStart \/ LoopExit \/ LoopTick
    BY <2>1, StatsUnchanged DEF LoopStart, LoopExit, LoopTick, mainVars
  <2>2. CASE PrintLock
    BY <2>2 DEF PrintLock, SC!DrainLock, mainVars
  <2>3. CASE PrintDrain
    BY <2>3 DEF PrintDrain, SC!DrainSnapshot, SC!DrainFold, mainVars
  <2>4. QED
    BY <1>3, <2>1, <2>2, <2>3 DEF SummaryLoop
<1>4. ASSUME NEW w \in Workers, Worker(w)
      PROVE  MutexInv'
  BY <1>4, <1>a, StatsUnchanged
     DEF Worker, WorkerExit, StartOp, OpReturns, RecordStats, SC!Record, mainVars, loopVars
<1>5. CASE UNCHANGED vars
  BY <1>5, <1>a DEF vars, stats, mainVars, loopVars
<1>6. QED
  BY <1>1, <1>2, <1>3, <1>4, <1>5 DEF Next, Terminated

LEMMA NextControl == TypeInv /\ ControlInv /\ [Next]_vars => ControlInv'
<1> SUFFICES ASSUME TypeInv, ControlInv, [Next]_vars PROVE ControlInv'
  OBVIOUS
<1> USE DEF ControlInv, WorkersGone
<1>a. ASSUME UNCHANGED <<nreg, main, wantResult, pc>> PROVE ControlInv'
  BY <1>a
<1>1. CASE Elapse \/ Expire \/ TickerFires \/ Signal
  BY <1>1, StatsUnchanged DEF Elapse, Expire, TickerFires, Signal, mainVars, workerVars
<1>2. CASE Main
  <2>1. CASE LaunchWorker
    BY <2>1 DEF LaunchWorker, mainVars
  <2>2. CASE SetReady \/ NotifySignals \/ SelectSignal \/ SelectDone \/ WaitWorkers
    BY <2>2, StatsUnchanged
       DEF SetReady, NotifySignals, SelectSignal, SelectDone, WaitWorkers, workerVars
  <2>3. CASE FinalizeLock \/ FinalizeDrain
    BY <2>3 DEF FinalizeLock, FinalizeDrain, SC!DrainLock, SC!DrainSnapshot, SC!DrainFold,
                workerVars
  <2>4. CASE FinalizeCopy \/ BuildResult \/ Shutdown
    BY <2>4, StatsUnchanged DEF FinalizeCopy, BuildResult, Shutdown, workerVars
  <2>5. QED
    BY <1>2, <2>1, <2>2, <2>3, <2>4 DEF Main
<1>3. CASE SummaryLoop
  BY <1>3, <1>a, StatsUnchanged
     DEF SummaryLoop, LoopStart, LoopExit, LoopTick, PrintLock, PrintDrain,
         SC!DrainLock, SC!DrainSnapshot, SC!DrainFold, mainVars, workerVars
<1>4. ASSUME NEW w \in Workers, Worker(w)
      PROVE  ControlInv'
  <2>1. UNCHANGED <<nreg, main, wantResult>>
    BY <1>4, StatsUnchanged
       DEF Worker, WorkerExit, StartOp, OpReturns, RecordStats, SC!Record, mainVars
  <2>2. pc[w] # "gone" /\ \E x : pc' = [pc EXCEPT ![w] = x]
    BY <1>4 DEF Worker, WorkerExit, StartOp, OpReturns, RecordStats
  <2>3. ~WorkersGone
    BY <2>2
  <2>4. QED
    BY <2>1, <2>3
<1>5. CASE UNCHANGED vars
  BY <1>5, <1>a DEF vars, stats, mainVars, workerVars
<1>6. QED
  BY <1>1, <1>2, <1>3, <1>4, <1>5 DEF Next, Terminated

\* The drain has lifted out all there was, as nothing was recorded behind it.
CleanBehind == \A w \in Workers : w < cur => window[w] = SC!EmptyWindow

\* Nothing is left in the windows or in a drain.
Quiet ==
  /\ \A w \in Workers : window[w] = SC!EmptyWindow
  /\ merged = SC!EmptyWindow

Finalized == wantResult /\ main \in {"copy", "build", "shutdown", "exited"}

\* Finalize's drain leaves nothing behind, and nothing comes after it.
QuietInv ==
  /\ main = "drain" => CleanBehind
  /\ Finalized => Quiet

LEMMA EmptyMerge == SC!MergeAll(SC!EmptyWindow, SC!EmptyWindow) = SC!EmptyWindow
BY DEF SC!MergeAll, SC!MergeInto, SC!EmptyWindow, SC!ZeroStats

LEMMA NothingInEmpty == SC!NothingIn(SC!EmptyWindow)
BY DEF SC!NothingIn, SC!EmptyWindow, SC!ZeroStats

LEMMA MergeEmpty ==
  ASSUME NEW t \in [Ops -> SC!OpStats]
  PROVE  SC!MergeAll(t, SC!EmptyWindow) = t
<1>1. ASSUME NEW o \in Ops PROVE SC!MergeInto(t[o], SC!EmptyWindow[o]) = t[o]
  <2>1. t[o] \in SC!OpStats
    OBVIOUS
  <2>2. SC!EmptyWindow[o] = SC!ZeroStats
    BY DEF SC!EmptyWindow
  <2>3. QED
    BY <2>1, <2>2 DEF SC!MergeInto, SC!ZeroStats, SC!OpStats
<1>2. QED
  BY <1>1 DEF SC!MergeAll

\* With the workers gone, only drains touch the statistics.
LEMMA GoneStep ==
  ASSUME TypeInv, WorkersGone, [Next]_vars
  PROVE  \/ UNCHANGED <<window, mu, cur, merged, total, intervals, lastBoundary>>
         \/ \E d \in {"main", "loop"} : \E now : SC!DrainLock(d, now)
         \/ \E d \in {"main", "loop"} : SC!DrainSnapshot(d) \/ SC!DrainFold(d)
<1>1. CASE Elapse \/ Expire \/ TickerFires \/ Signal
  BY <1>1, StatsUnchanged DEF Elapse, Expire, TickerFires, Signal
<1>2. CASE Main
  BY <1>2, StatsUnchanged
     DEF Main, LaunchWorker, SC!NewWorkerStats, SetReady, NotifySignals, SelectSignal, SelectDone,
         WaitWorkers, FinalizeLock, FinalizeDrain, FinalizeCopy, BuildResult, Shutdown
<1>3. CASE SummaryLoop
  BY <1>3, StatsUnchanged DEF SummaryLoop, LoopStart, LoopExit, LoopTick, PrintLock, PrintDrain
<1>4. ASSUME NEW w \in Workers, Worker(w)
      PROVE  FALSE
  BY <1>4 DEF Worker, WorkerExit, StartOp, OpReturns, RecordStats, WorkersGone
<1>5. CASE UNCHANGED vars
  BY <1>5, StatsUnchanged DEF vars
<1>6. QED
  BY <1>1, <1>2, <1>3, <1>4, <1>5 DEF Next, Terminated

LEMMA QuietStep ==
  ASSUME TypeInv, WorkersGone, Quiet, [Next]_vars
  PROVE  Quiet' /\ UNCHANGED <<total, intervals, lastBoundary>>
<1>1. CASE UNCHANGED <<window, mu, cur, merged, total, intervals, lastBoundary>>
  BY <1>1 DEF Quiet
<1>2. ASSUME NEW d, NEW now, SC!DrainLock(d, now)
      PROVE  Quiet' /\ UNCHANGED <<total, intervals, lastBoundary>>
  BY <1>2 DEF SC!DrainLock, Quiet
<1>3. ASSUME NEW d, SC!DrainSnapshot(d)
      PROVE  Quiet' /\ UNCHANGED <<total, intervals, lastBoundary>>
  <2>1. cur \in Workers /\ window[cur] = SC!EmptyWindow
    BY <1>3, CollectorAssumption DEF SC!DrainSnapshot, TypeInv, SC!TypeOK, Workers, Quiet
  <2>2. merged' = SC!EmptyWindow
    BY <1>3, <2>1, EmptyMerge DEF SC!DrainSnapshot, Quiet
  <2>3. \A w \in Workers : window'[w] = SC!EmptyWindow
    BY <1>3, <2>1 DEF SC!DrainSnapshot, TypeInv, SC!TypeOK, SC!Workers, Workers, Quiet
  <2>4. QED
    BY <1>3, <2>2, <2>3 DEF SC!DrainSnapshot, Quiet
<1>4. ASSUME NEW d, SC!DrainFold(d)
      PROVE  Quiet' /\ UNCHANGED <<total, intervals, lastBoundary>>
  <2>1. total' = total
    BY <1>4, MergeEmpty DEF SC!DrainFold, Quiet, TypeInv, SC!TypeOK
  <2>2. UNCHANGED <<intervals, lastBoundary>>
    BY <1>4, NothingInEmpty DEF SC!DrainFold, SC!RecordInterval, Quiet
  <2>3. QED
    BY <1>4, <2>1, <2>2 DEF SC!DrainFold, Quiet
<1>5. QED
  BY <1>1, <1>2, <1>3, <1>4, GoneStep

\* A drain that runs while nothing is recorded cleans what it passes.
LEMMA CleanStep ==
  ASSUME TypeInv, CleanBehind, NEW d, SC!DrainSnapshot(d)
  PROVE  CleanBehind'
<1>1. cur \in Int /\ cur' = cur + 1
  BY DEF SC!DrainSnapshot, TypeInv, SC!TypeOK
<1>2. window' = [window EXCEPT ![cur] = SC!EmptyWindow] /\ window \in [Workers -> [Ops -> SC!OpStats]]
  BY DEF SC!DrainSnapshot, TypeInv, SC!TypeOK, SC!Workers, Workers
<1>3. QED
  BY <1>1, <1>2 DEF CleanBehind, Workers

\* ... and everything once it is through.
LEMMA CleanFold ==
  ASSUME TypeInv, CleanBehind, nreg = N, NEW d, SC!DrainFold(d)
  PROVE  Quiet'
<1>1. \A w \in Workers : w < cur
  BY CollectorAssumption DEF SC!DrainFold, TypeInv, SC!TypeOK, Workers
<1>2. QED
  BY <1>1 DEF SC!DrainFold, CleanBehind, Quiet

LEMMA NextQuiet ==
  TypeInv /\ MutexInv /\ ControlInv /\ QuietInv /\ [Next]_vars => QuietInv'
<1> SUFFICES ASSUME TypeInv, MutexInv, ControlInv, QuietInv, [Next]_vars PROVE QuietInv'
  OBVIOUS
<1>1. main' = "drain" => CleanBehind'
  <2>1. CASE FinalizeLock
    BY <2>1 DEF FinalizeLock, SC!DrainLock, CleanBehind, Workers
  <2>2. CASE main = "drain"
    <3>1. CleanBehind /\ WorkersGone /\ mu = "main" /\ nreg = N
      BY <2>2 DEF QuietInv, ControlInv, MutexInv
    <3>2. CASE UNCHANGED <<window, mu, cur, merged, total, intervals, lastBoundary>>
      BY <3>1, <3>2 DEF CleanBehind
    <3>3. ASSUME NEW d, NEW now, SC!DrainLock(d, now) PROVE FALSE
      BY <3>1, <3>3, CollectorAssumption DEF SC!DrainLock
    <3>4. ASSUME NEW d, SC!DrainSnapshot(d) PROVE CleanBehind'
      BY <3>1, <3>4, CleanStep
    <3>5. ASSUME NEW d, SC!DrainFold(d) PROVE CleanBehind'
      BY <3>1, <3>5, CleanFold DEF Quiet, CleanBehind
    <3>6. QED
      BY <3>1, <3>2, <3>3, <3>4, <3>5, GoneStep
  <2>3. CASE main # "drain" /\ ~FinalizeLock
    <3>1. main' # "drain"
      BY <2>3 DEF Next, Elapse, Expire, TickerFires, Signal, Main, LaunchWorker, SetReady,
                  NotifySignals, SelectSignal, SelectDone, WaitWorkers, FinalizeDrain,
                  FinalizeCopy, BuildResult, Shutdown, SummaryLoop, LoopStart, LoopExit, LoopTick,
                  PrintLock, PrintDrain, Worker, WorkerExit, StartOp, OpReturns, RecordStats,
                  Terminated, mainVars, vars
    <3>2. QED
      BY <3>1
  <2>4. QED
    BY <2>1, <2>2, <2>3
<1>2. Finalized' => Quiet'
  <2>1. CASE Finalized
    BY <2>1, QuietStep DEF Finalized, ControlInv, QuietInv
  <2>2. CASE FinalizeDrain
    <3>1. nreg = N /\ CleanBehind
      BY <2>2 DEF FinalizeDrain, ControlInv, QuietInv
    <3>2. CASE SC!DrainFold("main")
      BY <3>1, <3>2, CleanFold
    <3>3. CASE main' = main
      BY <2>2, <3>3 DEF FinalizeDrain, Finalized
    <3>4. QED
      BY <2>2, <3>2, <3>3 DEF FinalizeDrain
  <2>3. CASE ~Finalized /\ ~FinalizeDrain
    <3>1. ~Finalized'
      BY <2>3 DEF Next, Elapse, Expire, TickerFires, Signal, Main, LaunchWorker, SetReady,
                  NotifySignals, SelectSignal, SelectDone, WaitWorkers, FinalizeLock, Finalized,
                  FinalizeCopy, BuildResult, Shutdown, SummaryLoop, LoopStart, LoopExit, LoopTick,
                  PrintLock, PrintDrain, Worker, WorkerExit, StartOp, OpReturns, RecordStats,
                  Terminated, mainVars, vars, TypeInv, TypeOK
    <3>2. QED
      BY <3>1
  <2>4. QED
    BY <2>1, <2>2, <2>3
<1>3. QED
  BY <1>1, <1>2 DEF QuietInv

FinalInv == TypeInv /\ MutexInv /\ ControlInv /\ QuietInv

LEMMA FinalHolds == Spec => []FinalInv
<1>1. Init => MutexInv /\ ControlInv /\ QuietInv
  BY CollectorAssumption
     DEF Init, SC!Init, MutexInv, ControlInv, QuietInv, Finalized
<1>2. FinalInv /\ [Next]_vars => FinalInv'
  BY NextTypeInv, NextMutex, NextControl, NextQuiet DEF FinalInv
<1>3. QED
  BY <1>1, <1>2, InitTypes, PTL DEF Spec, FinalInv

(* From Finalize's copy to the end of the process no drain, also not one    *)
(* that the summary loop had under way, changes the totals or the series    *)
(* the result was made from.                                                *)
THEOREM FinalizedIsFinal == Spec => FinalizedStaysFinal
<1>1. FinalInv /\ [Next]_vars =>
        [(wantResult /\ main \in {"build", "shutdown"}) =>
           /\ total' = total
           /\ intervals' = intervals
           /\ lastBoundary' = lastBoundary]_vars
  <2> SUFFICES ASSUME FinalInv, [Next]_vars, wantResult, main \in {"build", "shutdown"}
               PROVE  UNCHANGED <<total, intervals, lastBoundary>>
    OBVIOUS
  <2>1. WorkersGone /\ Quiet
    BY DEF FinalInv, ControlInv, QuietInv, Finalized
  <2>2. QED
    BY <2>1, QuietStep DEF FinalInv
<1>2. QED
  BY <1>1, FinalHolds, PTL DEF Spec, FinalizedStaysFinal

-----------------------------------------------------------------------------
(* Nobody waits for ever in a circle *)

\* A worker exists from its launch on.
LaunchedInv == \A w \in Workers : pc[w] = "off" => w > nreg

\* A worker is registered and launched in one step, and never unlaunched.
LEMMA NextLaunched == TypeInv /\ LaunchedInv /\ [Next]_vars => LaunchedInv'
<1> SUFFICES ASSUME TypeInv, LaunchedInv, [Next]_vars PROVE LaunchedInv'
  OBVIOUS
<1> USE DEF LaunchedInv
<1>1. ASSUME UNCHANGED <<nreg, pc>> PROVE LaunchedInv'
  BY <1>1
<1>2. CASE LaunchWorker
  <2>1. pc \in [Workers -> {"off", "check", "busy", "record", "gone"}] /\ nreg \in 0..N
    BY DEF TypeInv, TypeOK, SC!TypeOK
  <2>2. nreg' = nreg + 1 /\ pc' = [pc EXCEPT ![nreg + 1] = "check"]
    BY <1>2 DEF LaunchWorker, SC!NewWorkerStats
  <2>3. QED
    BY <2>1, <2>2, CollectorAssumption DEF Workers
<1>3. CASE Main
  <2>1. CASE SetReady \/ NotifySignals \/ SelectSignal \/ SelectDone \/ WaitWorkers
    BY <2>1, <1>1, StatsUnchanged
       DEF SetReady, NotifySignals, SelectSignal, SelectDone, WaitWorkers, workerVars
  <2>2. CASE FinalizeLock \/ FinalizeDrain
    BY <2>2, <1>1 DEF FinalizeLock, FinalizeDrain, SC!DrainLock, SC!DrainSnapshot, SC!DrainFold,
                      workerVars
  <2>3. CASE FinalizeCopy \/ BuildResult \/ Shutdown
    BY <2>3, <1>1, StatsUnchanged DEF FinalizeCopy, BuildResult, Shutdown, workerVars
  <2>4. QED
    BY <1>2, <1>3, <2>1, <2>2, <2>3 DEF Main
<1>4. CASE Elapse \/ Expire \/ TickerFires \/ Signal
  BY <1>4, <1>1, StatsUnchanged DEF Elapse, Expire, TickerFires, Signal, workerVars
<1>5. CASE SummaryLoop
  BY <1>5, <1>1, StatsUnchanged
     DEF SummaryLoop, LoopStart, LoopExit, LoopTick, PrintLock, PrintDrain,
         SC!DrainLock, SC!DrainSnapshot, SC!DrainFold, workerVars
<1>6. ASSUME NEW w \in Workers, Worker(w) PROVE LaunchedInv'
  <2>1. nreg' = nreg /\ \E x \in {"check", "busy", "record", "gone"} : pc' = [pc EXCEPT ![w] = x]
    BY <1>6, StatsUnchanged DEF Worker, WorkerExit, StartOp, OpReturns, RecordStats, SC!Record
  <2>2. pc \in [Workers -> {"off", "check", "busy", "record", "gone"}]
    BY DEF TypeInv, TypeOK
  <2>3. QED
    BY <2>1, <2>2
<1>7. CASE UNCHANGED vars
  BY <1>7, <1>1 DEF vars, stats, workerVars
<1>8. QED
  BY <1>3, <1>4, <1>5, <1>6, <1>7 DEF Next, Terminated

\* main's next step has its guard, once runCtx is done.
MainCanMove ==
  \/ main \in {"notify", "select", "build", "shutdown"}
  \/ main = "launch" /\ (nreg = N \/ mu = NoDrainer)
  \/ main = "wait" /\ WorkersGone
  \/ main \in {"finalize", "copy"} /\ mu = NoDrainer
  \/ main = "drain" /\ mu = "main"

\* The summary loop is inside drain, which takes no lock but those of the windows.
LoopDrains == loop = "drain" /\ mu = "loop"

\* So has the next step of worker w: it leaves its loop, its query returns, or
\* it records in the window that is registered for it.
WorkerCanMove(w) == pc[w] \in {"check", "busy"} \/ (pc[w] = "record" /\ w <= nreg)

\* After runCtx is done, main moves, or it waits for c.mu, which the summary loop
\* is about to release, or in wg.Wait for workers all of which move.
ShutdownUnblocked ==
  (ctxDone /\ Alive) =>
    \/ MainCanMove
    \/ main \in {"launch", "finalize", "copy"} /\ LoopDrains
    \/ main = "wait" /\ \A w \in Workers : pc[w] # "gone" => WorkerCanMove(w)

(* The safety half of ShutdownCompletes, for any number of workers: there is *)
(* no cycle of goroutines waiting for each other, over c.mu and wg.Wait, at  *)
(* any point of the shutdown, also while main still launches workers.        *)
THEOREM ShutdownIsUnblocked == Spec => []ShutdownUnblocked
<1>1. FinalInv /\ LaunchedInv => ShutdownUnblocked
  <2> SUFFICES ASSUME FinalInv, LaunchedInv, Alive PROVE ShutdownUnblocked
    BY DEF ShutdownUnblocked
  <2>1. /\ main \in {"launch", "notify", "select", "wait", "finalize", "drain", "copy", "build",
                     "shutdown"}
        /\ pc \in [Workers -> {"off", "check", "busy", "record", "gone"}]
        /\ nreg \in 0..N /\ mu \in {"main", "loop", NoDrainer}
    BY DEF FinalInv, TypeInv, TypeOK, SC!TypeOK, Alive
  <2>2. CASE main = "wait"
    <3>1. nreg = N
      BY <2>2 DEF FinalInv, ControlInv
    <3>2. ASSUME NEW w \in Workers, pc[w] # "gone" PROVE WorkerCanMove(w)
      <4>1. w <= nreg /\ ~(w > nreg)
        BY <3>1, CollectorAssumption DEF Workers
      <4>2. QED
        BY <4>1, <3>2, <2>1 DEF LaunchedInv, WorkerCanMove
    <3>3. QED
      BY <2>2, <3>2 DEF ShutdownUnblocked
  <2>3. CASE main # "wait"
    BY <2>1, <2>3, CollectorAssumption
       DEF FinalInv, MutexInv, ShutdownUnblocked, MainCanMove, LoopDrains
  <2>4. QED
    BY <2>2, <2>3
<1>2. Init => LaunchedInv
  BY CollectorAssumption DEF Init, SC!Init, LaunchedInv, Workers
<1>3. FinalInv => TypeInv
  BY DEF FinalInv
<1>4. QED
  BY <1>1, <1>2, <1>3, FinalHolds, NextLaunched, PTL DEF Spec

-----------------------------------------------------------------------------
(* Time *)

\* Ticks follow each other and are never in the future.
TickerInv ==
  /\ loop \in {"select", "print", "drain"} => nextFire # Never
  /\ loop \in {"new", "gone"} => tick = Never /\ nextFire = Never
  /\ tick # Never => tick <= clock /\ tick < nextFire
  /\ loop \in {"print", "drain"} =>
       /\ loopNow <= clock /\ loopNow < nextFire
       /\ tick # Never => loopNow < tick
  /\ main \in {"finalize", "drain"} => mainNow <= clock

LEMMA NextTicker == TypeInv /\ TickerInv /\ [Next]_vars => TickerInv'
<1> SUFFICES ASSUME TypeInv, TickerInv, [Next]_vars PROVE TickerInv'
  OBVIOUS
<1>a. /\ clock \in Nat /\ loopNow \in Nat /\ mainNow \in Nat /\ Never \notin Nat
      /\ tick # Never => tick \in Nat
      /\ nextFire # Never => nextFire \in Nat
  BY CollectorAssumption, DeadlineAssumption DEF TypeInv, TypeOK
<1>b. ASSUME UNCHANGED <<clock, main, mainNow, loopVars>> PROVE TickerInv'
  BY <1>b DEF TickerInv, loopVars
<1>1. CASE Elapse
  BY <1>1, <1>a DEF Elapse, TickerInv, mainVars, loopVars
<1>2. CASE Expire \/ Signal
  BY <1>2 DEF Expire, Signal, TickerInv, env, mainVars, loopVars
<1>3. CASE TickerFires
  <2>1. nextFire \in Nat /\ clock >= nextFire
    BY <1>3, <1>a DEF TickerFires
  <2>2. nextFire' \in Nat /\ nextFire' > nextFire
    BY <1>3, <1>a, <2>1, NextFireType DEF TickerFires
  <2>3. QED
    BY <1>3, <1>a, <2>1, <2>2 DEF TickerFires, TickerInv, env, mainVars
<1>4. CASE Main
  <2>1. CASE WaitWorkers
    BY <2>1, <1>a DEF WaitWorkers, TickerInv, env, loopVars
  <2>2. CASE Main /\ ~WaitWorkers
    <3>1. UNCHANGED <<clock, mainNow, loopVars>>
      BY <2>2 DEF Main, LaunchWorker, SetReady, NotifySignals, SelectSignal, SelectDone,
                  FinalizeLock, FinalizeDrain, FinalizeCopy, BuildResult, Shutdown, env, mainVars
    <3>2. main' \in {"finalize", "drain"} => main \in {"finalize", "drain"}
      BY <2>2 DEF Main, LaunchWorker, SetReady, NotifySignals, SelectSignal, SelectDone,
                  FinalizeLock, FinalizeDrain, FinalizeCopy, BuildResult, Shutdown, mainVars
    <3>3. QED
      BY <3>1, <3>2 DEF TickerInv, loopVars
  <2>3. QED
    BY <1>4, <2>1, <2>2
<1>5. CASE SummaryLoop
  <2>1. CASE LoopStart
    BY <2>1, <1>a, IntervalAssumption DEF LoopStart, TickerInv, env, mainVars
  <2>2. CASE LoopExit \/ LoopTick
    BY <2>2, <1>a DEF LoopExit, LoopTick, TickerInv, env, mainVars
  <2>3. CASE PrintLock \/ PrintDrain
    BY <2>3 DEF PrintLock, PrintDrain, TickerInv, env, mainVars
  <2>4. QED
    BY <1>5, <2>1, <2>2, <2>3 DEF SummaryLoop
<1>6. ASSUME NEW w \in Workers, Worker(w)
      PROVE  TickerInv'
  BY <1>6, <1>b DEF Worker, WorkerExit, StartOp, OpReturns, RecordStats, env, mainVars
<1>7. CASE UNCHANGED vars
  BY <1>7, <1>b DEF vars, env, mainVars
<1>8. QED
  BY <1>1, <1>2, <1>3, <1>4, <1>5, <1>6, <1>7 DEF Next, Terminated

\* Until Finalize has drained, the loop's next drain is not before the last
\* boundary.  A boundary later than Finalize's own time was set by a drain
\* that ran after the workers had gone and left nothing to Finalize.
BoundaryInv ==
  /\ lastBoundary <= clock
  /\ ~Finalized =>
       /\ loop \in {"print", "drain"} => lastBoundary <= loopNow
       /\ tick # Never => lastBoundary <= tick
       /\ nextFire # Never => lastBoundary <= nextFire
  /\ main = "finalize" /\ loop = "drain" /\ loopNow > mainNow => CleanBehind
  /\ main \in {"finalize", "drain"} /\ lastBoundary > mainNow => Quiet

\* Time does not run backwards, and only the end of a drain extends the series.
LEMMA ClockMoves == TypeInv /\ [Next]_vars => clock' \in Int /\ clock' >= clock
<1> SUFFICES ASSUME TypeInv, [Next]_vars PROVE clock' \in Int /\ clock' >= clock
  OBVIOUS
<1>1. clock \in Int
  BY DEF TypeInv, TypeOK
<1>2. clock' = clock \/ clock' = clock + 1
  BY DEF Next, Elapse, Expire, TickerFires, Signal, Main, LaunchWorker, SetReady,
         NotifySignals, SelectSignal, SelectDone, WaitWorkers, FinalizeLock, FinalizeDrain,
         FinalizeCopy, BuildResult, Shutdown, SummaryLoop, LoopStart, LoopExit, LoopTick,
         PrintLock, PrintDrain, Worker, WorkerExit, StartOp, OpReturns, RecordStats,
         Terminated, env, vars
<1>3. QED
  BY <1>1, <1>2

LEMMA SeriesMoves ==
  ASSUME [Next]_vars
  PROVE  \/ UNCHANGED <<intervals, lastBoundary, iobs>>
         \/ FinalizeDrain /\ SC!DrainFold("main") /\ main' = "copy"
         \/ PrintDrain /\ SC!DrainFold("loop") /\ loop' = "select"
<1>1. CASE Elapse \/ Expire \/ TickerFires \/ Signal
  BY <1>1, StatsUnchanged DEF Elapse, Expire, TickerFires, Signal
<1>2. CASE Main
  BY <1>2, StatsUnchanged
     DEF Main, LaunchWorker, SetReady, NotifySignals, SelectSignal, SelectDone,
         WaitWorkers, FinalizeLock, FinalizeDrain, FinalizeCopy, BuildResult, Shutdown,
         SC!NewWorkerStats, SC!DrainLock, SC!DrainSnapshot, SC!history
<1>3. CASE SummaryLoop
  BY <1>3, StatsUnchanged
     DEF SummaryLoop, LoopStart, LoopExit, LoopTick, PrintLock, PrintDrain,
         SC!DrainLock, SC!DrainSnapshot, SC!history
<1>4. ASSUME NEW w \in Workers, Worker(w)
      PROVE  UNCHANGED <<intervals, lastBoundary, iobs>>
  BY <1>4, StatsUnchanged DEF Worker, WorkerExit, StartOp, OpReturns, RecordStats, SC!Record
<1>5. CASE UNCHANGED vars
  BY <1>5, StatsUnchanged DEF vars
<1>6. QED
  BY <1>1, <1>2, <1>3, <1>4, <1>5 DEF Next, Terminated

LEMMA FoldBoundary ==
  ASSUME NEW d, SC!DrainFold(d)
  PROVE  \/ SC!NothingIn(merged) /\ UNCHANGED <<intervals, lastBoundary, iobs>>
         \/ ~SC!NothingIn(merged) /\ lastBoundary' = drainNow
BY DEF SC!DrainFold, SC!RecordInterval, SC!FoldIntoInterval, SC!AppendInterval

\* A drain in progress does not carry a time later than the clock.
LEMMA DrainTime ==
  ASSUME TypeInv, MutexInv, TickerInv, mu # NoDrainer
  PROVE  drainNow <= clock
<1>1. mu \in {"main", "loop"}
  BY DEF TypeInv, SC!TypeOK
<1>2. QED
  BY <1>1 DEF MutexInv, TickerInv

LEMMA FinalizedStays == FinalInv /\ [Next]_vars /\ Finalized => Finalized'
BY DEF Finalized, Next, Elapse, Expire, TickerFires, Signal, Main, LaunchWorker, SetReady,
       NotifySignals, SelectSignal, SelectDone, WaitWorkers, FinalizeLock, FinalizeDrain,
       FinalizeCopy, BuildResult, Shutdown, SummaryLoop, LoopStart, LoopExit, LoopTick,
       PrintLock, PrintDrain, Worker, WorkerExit, StartOp, OpReturns, RecordStats,
       Terminated, mainVars, vars

\* What a step of anyone does to the times the loop will drain with.
LEMMA LoopMoves ==
  ASSUME TypeInv, TickerInv, [Next]_vars
  PROVE  /\ loop' \in {"print", "drain"} =>
              \/ loop \in {"print", "drain"} /\ loopNow' = loopNow
              \/ tick # Never /\ loopNow' = tick /\ loop' = "print"
         /\ tick' # Never => tick' = tick \/ (nextFire # Never /\ tick' = nextFire)
         /\ nextFire' # Never => \/ nextFire # Never /\ nextFire' >= nextFire
                                 \/ nextFire' >= clock
<1>a. nextFire # Never => nextFire \in Nat
  BY DEF TypeInv, TypeOK
<1>1. CASE TickerFires
  <2>1. nextFire \in Nat /\ clock \in Nat /\ clock >= nextFire
    BY <1>1, CollectorAssumption, DeadlineAssumption DEF TickerFires, TypeInv, TypeOK
  <2>2. nextFire' > nextFire /\ nextFire' \in Nat
    BY <1>1, <2>1, NextFireType DEF TickerFires
  <2>3. QED
    BY <1>1, <2>1, <2>2 DEF TickerFires
<1>2. CASE LoopStart
  <2>1. clock + Interval >= clock
    BY IntervalAssumption DEF TypeInv, TypeOK
  <2>2. QED
    BY <1>2, <2>1 DEF LoopStart
<1>3. CASE LoopExit \/ LoopTick \/ PrintLock \/ PrintDrain
  BY <1>3, <1>a DEF LoopExit, LoopTick, PrintLock, PrintDrain
<1>4. CASE UNCHANGED loopVars
  BY <1>4, <1>a DEF loopVars
<1>5. QED
  BY <1>1, <1>2, <1>3, <1>4
     DEF Next, Elapse, Expire, Signal, Main, LaunchWorker, SetReady,
         NotifySignals, SelectSignal, SelectDone, WaitWorkers, FinalizeLock, FinalizeDrain,
         FinalizeCopy, BuildResult, Shutdown, SummaryLoop,
         Worker, WorkerExit, StartOp, OpReturns, RecordStats, Terminated, vars

LEMMA MainMoves ==
  ASSUME FinalInv, [Next]_vars, main' \in {"finalize", "drain"}, ~WaitWorkers
  PROVE  /\ main \in {"finalize", "drain"} /\ mainNow' = mainNow
         /\ main' = "finalize" => main = "finalize"
BY ZenonT(60) DEF FinalInv, TypeInv, TypeOK, Next, Elapse, Expire, TickerFires, Signal, Main, LaunchWorker,
       SetReady, NotifySignals, SelectSignal, SelectDone, FinalizeLock, FinalizeDrain,
       FinalizeCopy, BuildResult, Shutdown, SummaryLoop, LoopStart, LoopExit, LoopTick,
       PrintLock, PrintDrain, Worker, WorkerExit, StartOp, OpReturns, RecordStats,
       Terminated, mainVars, vars

LEMMA NextBoundary == FinalInv /\ TickerInv /\ BoundaryInv /\ [Next]_vars => BoundaryInv'
<1> SUFFICES ASSUME FinalInv, TickerInv, BoundaryInv, [Next]_vars PROVE BoundaryInv'
  OBVIOUS
<1> USE DEF FinalInv
<1>a. /\ clock \in Int /\ loopNow \in Int /\ mainNow \in Int /\ lastBoundary \in Int
      /\ drainNow \in Int
      /\ tick # Never => tick \in Int
      /\ nextFire # Never => nextFire \in Int
  BY DEF TypeInv, TypeOK, SC!TypeOK
<1>b. clock' \in Int /\ clock' >= clock
  BY ClockMoves
<1>1. lastBoundary' <= clock'
  <2>1. ASSUME NEW d \in {"main", "loop"}, SC!DrainFold(d) PROVE lastBoundary' <= clock'
    <3>1. mu # NoDrainer
      BY <2>1, CollectorAssumption DEF SC!DrainFold
    <3>2. drainNow <= clock
      BY <3>1, DrainTime
    <3>3. lastBoundary' = lastBoundary \/ lastBoundary' = drainNow
      BY <2>1, FoldBoundary
    <3>4. QED
      BY <1>a, <1>b, <3>2, <3>3 DEF BoundaryInv
  <2>2. CASE UNCHANGED lastBoundary
    BY <2>2, <1>a, <1>b DEF BoundaryInv
  <2>3. QED
    BY <2>1, <2>2, SeriesMoves
<1>2. ASSUME ~Finalized'
      PROVE  /\ loop' \in {"print", "drain"} => lastBoundary' <= loopNow'
             /\ tick' # Never => lastBoundary' <= tick'
             /\ nextFire' # Never => lastBoundary' <= nextFire'
  <2>1. ~Finalized
    BY <1>2, FinalizedStays
  <2>2. CASE FinalizeDrain /\ main' = "copy"
    BY <2>2, <1>2 DEF FinalizeDrain, Finalized, ControlInv
  <2>3. CASE PrintDrain /\ SC!DrainFold("loop") /\ loop' = "select"
    <3>1. lastBoundary' = lastBoundary \/ lastBoundary' = loopNow
      BY <2>3, FoldBoundary DEF SC!DrainFold, MutexInv
    <3>2. UNCHANGED <<tick, nextFire>> /\ loop = "drain"
      BY <2>3 DEF PrintDrain
    <3>3. QED
      BY <2>1, <2>3, <3>1, <3>2, <1>a DEF TickerInv, BoundaryInv
  <2>4. CASE UNCHANGED lastBoundary
    <3>1. loop' \in {"print", "drain"} => lastBoundary' <= loopNow'
      BY <2>1, <2>4, LoopMoves DEF BoundaryInv
    <3>2. tick' # Never => lastBoundary' <= tick'
      BY <2>1, <2>4, LoopMoves DEF BoundaryInv
    <3>3. nextFire' # Never => nextFire' \in Int
      BY NextTypeInv DEF TypeInv, TypeOK
    <3>4. nextFire' # Never => lastBoundary' <= nextFire'
      BY <2>1, <2>4, <3>3, <1>a, LoopMoves DEF BoundaryInv
    <3>5. QED
      BY <3>1, <3>2, <3>4
  <2>5. QED
    BY <2>2, <2>3, <2>4, SeriesMoves
<1>3. ASSUME main' = "finalize", loop' = "drain", loopNow' > mainNow'
      PROVE  CleanBehind'
  <2>1. CASE WaitWorkers
    <3>1. mainNow' = clock /\ loop = "drain" /\ loopNow' = loopNow
      BY <1>3, <2>1 DEF WaitWorkers, loopVars
    <3>2. loopNow <= clock
      BY <3>1 DEF TickerInv
    <3>3. QED
      BY <1>3, <3>1, <3>2, <1>a
  <2>2. CASE ~WaitWorkers
    <3>1. main = "finalize" /\ mainNow' = mainNow /\ WorkersGone /\ mu # "main"
      BY <1>3, <2>2, MainMoves DEF ControlInv, MutexInv
    <3>2. ASSUME NEW d, NEW now, SC!DrainLock(d, now) PROVE CleanBehind'
      BY <3>2 DEF SC!DrainLock, CleanBehind, Workers
    <3>3. loop = "drain" => CleanBehind
      BY <1>3, <3>1, LoopMoves DEF BoundaryInv
    <3>4. ASSUME NEW d \in {"main", "loop"}, SC!DrainSnapshot(d) PROVE CleanBehind'
      <4>1. loop = "drain"
        BY <3>1, <3>4 DEF SC!DrainSnapshot, MutexInv
      <4>2. QED
        BY <4>1, <3>3, <3>4, CleanStep
    <3>5. ASSUME NEW d \in {"main", "loop"}, SC!DrainFold(d) PROVE CleanBehind'
      BY <3>5 DEF SC!DrainFold, CleanBehind, Workers
    <3>6. CASE UNCHANGED <<window, mu, cur, merged, total, intervals, lastBoundary>>
      <4>1. mu = "loop"
        BY <1>3, <3>6, NextMutex DEF MutexInv
      <4>2. QED
        BY <4>1, <3>3, <3>6 DEF MutexInv, CleanBehind
    <3>7. QED
      BY <3>1, <3>2, <3>4, <3>5, <3>6, GoneStep
  <2>3. QED
    BY <2>1, <2>2
<1>4. ASSUME main' \in {"finalize", "drain"}, lastBoundary' > mainNow'
      PROVE  Quiet'
  <2>1. CASE WaitWorkers
    <3>1. mainNow' = clock /\ lastBoundary' = lastBoundary
      BY <1>4, <2>1, StatsUnchanged DEF WaitWorkers
    <3>2. QED
      BY <1>4, <3>1, <1>a DEF BoundaryInv
  <2>2. CASE ~WaitWorkers
    <3>1. main \in {"finalize", "drain"} /\ mainNow' = mainNow /\ WorkersGone
      BY <1>4, <2>2, MainMoves DEF ControlInv
    <3>2. CASE lastBoundary > mainNow
      BY <3>1, <3>2, QuietStep DEF BoundaryInv
    <3>3. CASE PrintDrain /\ SC!DrainFold("loop") /\ lastBoundary' # lastBoundary
      <4>1. mu = "loop" /\ loop = "drain" /\ main = "finalize" /\ nreg = N
        BY <3>1, <3>3 DEF SC!DrainFold, MutexInv, ControlInv
      <4>2. lastBoundary' = loopNow
        BY <3>3, <4>1, FoldBoundary DEF MutexInv
      <4>3. CleanBehind
        BY <1>4, <3>1, <4>1, <4>2 DEF BoundaryInv
      <4>4. QED
        BY <3>3, <4>1, <4>3, CleanFold
    <3>4. CASE main' = "copy"
      BY <3>4, <1>4
    <3>5. QED
      BY <1>4, <1>a, <3>1, <3>2, <3>3, <3>4, SeriesMoves
  <2>3. QED
    BY <2>1, <2>2
<1>5. QED
  BY <1>1, <1>2, <1>3, <1>4 DEF BoundaryInv

TimeInv == FinalInv /\ TickerInv /\ BoundaryInv

LEMMA TimeHolds == Spec => []TimeInv
<1>1. Init => TickerInv /\ BoundaryInv
  BY DEF Init, SC!Init, TickerInv, BoundaryInv
<1>2. TypeInv /\ FinalInv /\ TickerInv /\ BoundaryInv /\ [Next]_vars => (TickerInv /\ BoundaryInv)'
  BY NextTicker, NextBoundary
<1>3. FinalInv => TypeInv
  BY DEF FinalInv
<1>4. QED
  BY <1>1, <1>2, <1>3, FinalHolds, PTL DEF Spec, TimeInv

-----------------------------------------------------------------------------
(* The time series *)

LEMMA SameTiles == SC!SeriesTilesRun <=> SCP!SeriesTilesRun
BY DEF SC!SeriesTilesRun, SCP!SeriesTilesRun

LEMMA SameSpec == SC!Spec <=> SCP!Spec
BY SameInit, SameStep, PTL DEF SC!Spec, SCP!Spec

\* StatsCollectorProofs holds of the run.
LEMMA TilesHold == Spec => []SC!SeriesTilesRun
<1>1. SCP!Spec => []SCP!SeriesTilesRun
  BY SCP!SeriesTiles, OpsFinite, CollectorAssumption
<1>2. QED
  BY <1>1, RunUsesCollector, SameSpec, SameTiles, PTL DEF CollectorSpec

\* A drain that found something does not turn back behind the last boundary.
LEMMA FoldsForward ==
  ASSUME TimeInv, NEW d \in {"main", "loop"}, SC!DrainFold(d), ~SC!NothingIn(merged)
  PROVE  lastBoundary <= drainNow /\ drainNow <= clock
<1> USE DEF TimeInv, FinalInv
<1>1. mu = d /\ mu # NoDrainer
  BY CollectorAssumption DEF SC!DrainFold
<1>2. drainNow <= clock
  BY <1>1, DrainTime
<1>3. ~Quiet
  BY NothingInEmpty DEF Quiet
<1>4. CASE d = "main"
  <2>1. main = "drain" /\ drainNow = mainNow
    BY <1>1, <1>4 DEF MutexInv
  <2>2. ~(lastBoundary > mainNow)
    BY <2>1, <1>3 DEF BoundaryInv
  <2>3. QED
    BY <2>1, <2>2, <1>2 DEF TypeInv, TypeOK, SC!TypeOK
<1>5. CASE d = "loop"
  <2>1. loop = "drain" /\ drainNow = loopNow
    BY <1>1, <1>5 DEF MutexInv
  <2>2. ~Finalized
    BY <1>3 DEF QuietInv
  <2>3. QED
    BY <2>1, <2>2, <1>2 DEF BoundaryInv
<1>6. QED
  BY <1>4, <1>5

RateOver(n, iv) == IF iv.end > iv.start THEN <<n, iv.end - iv.start>> ELSE SC!NoRate

\* SeriesOrdered of one interval, with the rate of an operation that the
\* interval has no entry for: a fold may give it one.
Measured(iv) ==
  /\ iv.start <= iv.end
  /\ iv.rate = RateOver(iv.ops, iv)
  /\ \A o \in Ops : /\ iv.per[o].count > 0 => iv.per[o].rate = RateOver(iv.per[o].count, iv)
                    /\ iv.per[o].count = 0 => iv.per[o].rate = SC!NoRate

SeriesInv ==
  \A i \in DOMAIN intervals :
    /\ Measured(intervals[i])
    /\ intervals[i].end <= clock
    /\ i > 1 => intervals[i].end - intervals[i].start >= MinInterval

LEMMA NewMeasured ==
  ASSUME NEW start \in Int, NEW now \in Int, start <= now, NEW m \in [Ops -> SC!OpStats]
  PROVE  Measured(SC!NewInterval(start, now, m))
<1> DEFINE iv == SC!NewInterval(start, now, m)
<1>1. /\ iv.start = start /\ iv.end = now
      /\ iv.rate = SC!Rate(iv.ops, now - start, SC!NoRate)
  BY DEF SC!NewInterval
<1>2. iv.rate = RateOver(iv.ops, iv)
  BY <1>1 DEF SC!Rate, RateOver
<1>3. ASSUME NEW o \in Ops
      PROVE  /\ iv.per[o].count > 0 => iv.per[o].rate = RateOver(iv.per[o].count, iv)
             /\ iv.per[o].count = 0 => iv.per[o].rate = SC!NoRate
  <2>1. m[o].count \in Nat
    BY DEF SC!OpStats
  <2>2. iv.per[o] = IF m[o].count = 0 THEN SC!NoOp
                    ELSE [count  |-> m[o].count,
                          errors |-> m[o].errors,
                          rate   |-> SC!Rate(m[o].count, now - start, SC!NoRate),
                          pcts   |-> m[o].latencies]
    BY DEF SC!NewInterval
  <2>3. CASE m[o].count = 0
    BY <2>2, <2>3 DEF SC!NoOp
  <2>4. CASE m[o].count # 0
    BY <2>1, <2>2, <2>4, <1>1 DEF SC!Rate, RateOver
  <2>5. QED
    BY <2>3, <2>4
<1>4. QED
  BY <1>1, <1>2, <1>3 DEF Measured

LEMMA FoldMeasured ==
  ASSUME NEW prev, Measured(prev), prev.start \in Int, prev.end \in Int,
         prev.per \in [Ops -> SC!IntervalOp],
         NEW now \in Int, prev.end <= now, NEW m \in [Ops -> SC!OpStats]
  PROVE  Measured(SC!FoldInterval(prev, now, m))
<1> DEFINE iv == SC!FoldInterval(prev, now, m)
           span == now - prev.start
<1>1. /\ iv.start = prev.start /\ iv.end = now
      /\ iv.rate = SC!Rate(iv.ops, span, prev.rate)
  BY DEF SC!FoldInterval
<1>2. prev.start <= prev.end
  BY DEF Measured
<1>3. ASSUME ~(span > 0) PROVE ~(prev.end > prev.start)
  BY <1>2, <1>3
<1>4. iv.rate = RateOver(iv.ops, iv)
  BY <1>1, <1>3 DEF SC!Rate, RateOver, Measured
<1>5. ASSUME NEW o \in Ops
      PROVE  /\ iv.per[o].count > 0 => iv.per[o].rate = RateOver(iv.per[o].count, iv)
             /\ iv.per[o].count = 0 => iv.per[o].rate = SC!NoRate
  <2> DEFINE p == prev.per[o]
             n == p.count + m[o].count
  <2>1. m[o].count \in Nat /\ p.count \in Nat
    BY DEF SC!OpStats, SC!IntervalOp
  <2>2. iv.per[o] = SC!FoldOp(p, m[o], span)
    BY DEF SC!FoldInterval
  <2>3. CASE n = 0
    BY <2>2, <2>3 DEF SC!FoldOp, SC!NoOp
  <2>4. CASE n # 0
    <3>1. iv.per[o].count = n /\ iv.per[o].rate = SC!Rate(n, span, p.rate)
      BY <2>2, <2>4 DEF SC!FoldOp
    <3>2. CASE span > 0
      BY <3>1, <3>2, <1>1, <2>1, <2>4 DEF SC!Rate, RateOver
    <3>3. CASE ~(span > 0)
      <4>1. RateOver(p.count, prev) = SC!NoRate
        BY <3>3, <1>3 DEF RateOver
      <4>2. p.count > 0 \/ p.count = 0
        BY <2>1
      <4>3. p.rate = SC!NoRate
        BY <4>1, <4>2, Zenon DEF Measured
      <4>4. QED
        BY <3>1, <3>3, <4>3, <1>1, <2>1, <2>4 DEF SC!Rate, RateOver
    <3>4. QED
      BY <3>2, <3>3
  <2>5. QED
    BY <2>3, <2>4
<1>6. prev.start <= now
  BY <1>2
<1>7. QED
  BY <1>1, <1>4, <1>5, <1>6 DEF Measured

LEMMA NextSeries ==
  TimeInv /\ SC!SeriesTilesRun /\ SeriesInv /\ [Next]_vars => SeriesInv'
<1> SUFFICES ASSUME TimeInv, SC!SeriesTilesRun, SeriesInv, [Next]_vars PROVE SeriesInv'
  OBVIOUS
<1> USE DEF TimeInv, FinalInv
<1>a. clock' \in Int /\ clock' >= clock /\ clock \in Int
  BY ClockMoves DEF TypeInv, TypeOK
<1>b. \A i \in DOMAIN intervals : /\ intervals[i].start \in Int /\ intervals[i].end \in Int
                                 /\ intervals[i].per \in [Ops -> SC!IntervalOp]
  BY DEF TypeInv, SC!TypeOK
<1>c. intervals \in Seq(SC!Range(intervals)) /\ Len(intervals) \in Nat
      /\ DOMAIN intervals = 1..Len(intervals)
  BY DEF TypeInv, SC!TypeOK
<1>d. /\ lastBoundary \in Int /\ drainNow \in Int /\ merged \in [Ops -> SC!OpStats]
      /\ MinInterval \in Int
  BY CollectorAssumption DEF TypeInv, SC!TypeOK
<1>1. CASE UNCHANGED intervals
  BY <1>1, <1>a, <1>b DEF SeriesInv
<1>2. ASSUME NEW d \in {"main", "loop"}, SC!DrainFold(d)
      PROVE  SeriesInv'
  <2>1. CASE SC!NothingIn(merged)
    BY <2>1, <1>2, <1>1, FoldBoundary
  <2>2. CASE ~SC!NothingIn(merged) /\ SC!IsSliver(drainNow)
    <3> DEFINE n == Len(intervals)
               iv == SC!FoldInterval(intervals[n], drainNow, merged)
    <3>1. lastBoundary <= drainNow /\ drainNow <= clock
      BY <1>2, <2>2, FoldsForward
    <3>2. n \in DOMAIN intervals /\ intervals # <<>>
      BY <2>2, <1>c DEF SC!IsSliver
    <3>3. intervals' = [intervals EXCEPT ![n] = iv]
      BY <1>2, <2>2 DEF SC!DrainFold, SC!RecordInterval, SC!FoldIntoInterval
    <3>4. intervals[n].end = lastBoundary /\ Measured(intervals[n])
      BY <3>2 DEF SC!SeriesTilesRun, SeriesInv
    <3>5. Measured(iv)
      BY <3>1, <3>2, <3>4, <1>b, <1>d, FoldMeasured
    <3>6. iv.start = intervals[n].start /\ iv.end = drainNow
      BY DEF SC!FoldInterval
    <3>7. iv.end <= clock' /\ (n > 1 => iv.end - iv.start >= MinInterval)
      BY <3>1, <3>2, <3>4, <3>6, <1>a, <1>b, <1>d DEF SeriesInv
    <3>8. ASSUME NEW i \in DOMAIN intervals'
          PROVE  /\ Measured(intervals'[i]) /\ intervals'[i].end <= clock'
                 /\ i > 1 => intervals'[i].end - intervals'[i].start >= MinInterval
      <4>1. i \in DOMAIN intervals
        BY <3>3
      <4>2. CASE i = n
        BY <3>2, <3>3, <3>5, <3>7, <4>2
      <4>3. CASE i # n
        <5>1. intervals'[i] = intervals[i]
          BY <3>3, <4>1, <4>3
        <5>2. intervals[i].end <= clock'
          BY <4>1, <1>a, <1>b DEF SeriesInv
        <5>3. QED
          BY <4>1, <5>1, <5>2 DEF SeriesInv
      <4>4. QED
        BY <4>2, <4>3
    <3>9. QED
      BY <3>8 DEF SeriesInv, Measured, RateOver
  <2>3. CASE ~SC!NothingIn(merged) /\ ~SC!IsSliver(drainNow)
    <3> DEFINE n == Len(intervals) + 1
               iv == SC!NewInterval(lastBoundary, drainNow, merged)
    <3>1. lastBoundary <= drainNow /\ drainNow <= clock
      BY <1>2, <2>3, FoldsForward
    <3>2. intervals' = Append(intervals, iv)
      BY <1>2, <2>3 DEF SC!DrainFold, SC!RecordInterval, SC!AppendInterval
    <3>3. Measured(iv)
      BY <3>1, <1>d, NewMeasured
    <3>4. iv.start = lastBoundary /\ iv.end = drainNow
      BY DEF SC!NewInterval
    <3>5. iv.end <= clock' /\ (n > 1 => iv.end - iv.start >= MinInterval)
      BY <3>1, <3>4, <2>3, <1>a, <1>c, <1>d DEF SC!IsSliver
    <3>6. DOMAIN intervals' = 1..n /\ intervals'[n] = iv
          /\ \A i \in DOMAIN intervals : intervals'[i] = intervals[i]
      BY <3>2, <1>c
    <3>8. ASSUME NEW i \in DOMAIN intervals'
          PROVE  /\ Measured(intervals'[i]) /\ intervals'[i].end <= clock'
                 /\ i > 1 => intervals'[i].end - intervals'[i].start >= MinInterval
      <4>2. CASE i = n
        BY <3>3, <3>5, <3>6, <4>2
      <4>3. CASE i # n
        <5>1. i \in DOMAIN intervals /\ intervals'[i] = intervals[i]
          BY <3>6, <4>3, <1>c
        <5>2. intervals[i].end <= clock'
          BY <5>1, <1>a, <1>b DEF SeriesInv
        <5>3. QED
          BY <5>1, <5>2 DEF SeriesInv
      <4>4. QED
        BY <4>2, <4>3
    <3>9. QED
      BY <3>8 DEF SeriesInv, Measured, RateOver
  <2>4. QED
    BY <2>1, <2>2, <2>3
<1>3. QED
  BY <1>1, <1>2, SeriesMoves

(* However ticks, Finalize and recording overtake each other, the series is *)
(* in order: no interval ends before it starts or in the future, all but    *)
(* the first have the minimal length, and rates are over true spans.        *)
THEOREM SeriesIsOrdered == Spec => []SeriesOrdered
<1>1. Init => SeriesInv
  BY DEF Init, SC!Init, SeriesInv
<1>2. SeriesInv => SeriesOrdered
  BY DEF SeriesInv, SeriesOrdered, Measured, RateOver
<1>3. QED
  BY <1>1, <1>2, NextSeries, TimeHolds, TilesHold, PTL DEF Spec

-----------------------------------------------------------------------------
(* When operations are recorded, and where they are counted *)

\* A call that is still in a window, or in the drain, is not before the last
\* boundary; one recorded behind the drain is not before the next either.
ObservedInv ==
  /\ CountedNotBeforeRecorded
  /\ \A w \in Workers : w > nreg => wobs[w] = {}
  /\ \A w \in Workers : \A k \in wobs[w] :
       /\ lastBoundary <= when[k]
       /\ mu # NoDrainer /\ w < cur => drainNow <= when[k]
  /\ \A k \in mobs : lastBoundary <= when[k]

\* The steps of a run as the history sees them.
LEMMA HistoryMoves ==
  ASSUME [Next]_vars
  PROVE  \/ UNCHANGED when /\ \/ UNCHANGED stats
                              \/ SC!NewWorkerStats
                              \/ \E d \in {"main", "loop"} : \/ \E now : SC!DrainLock(d, now)
                                                             \/ SC!DrainSnapshot(d)
                                                             \/ SC!DrainFold(d)
         \/ \E w \in Workers, d \in Durations : RecordStats(w, d)
<1>1. CASE Elapse \/ Expire \/ TickerFires \/ Signal
  BY <1>1 DEF Elapse, Expire, TickerFires, Signal, workerVars
<1>2. CASE Main
  BY <1>2
     DEF Main, LaunchWorker, SetReady, NotifySignals, SelectSignal, SelectDone,
         WaitWorkers, FinalizeLock, FinalizeDrain, FinalizeCopy, BuildResult, Shutdown, workerVars
<1>3. CASE SummaryLoop
  BY <1>3 DEF SummaryLoop, LoopStart, LoopExit, LoopTick, PrintLock, PrintDrain, workerVars
<1>4. ASSUME NEW w \in Workers, Worker(w), ~(\E d \in Durations : RecordStats(w, d))
      PROVE  UNCHANGED when /\ UNCHANGED stats
  BY <1>4 DEF Worker, WorkerExit, StartOp, OpReturns
<1>5. CASE UNCHANGED vars
  BY <1>5 DEF vars, workerVars
<1>6. QED
  BY <1>1, <1>2, <1>3, <1>4, <1>5 DEF Next, Terminated

\* The calls held anywhere have a time.
LEMMA HeldHaveTimes ==
  ASSUME TypeInv
  PROVE  /\ \A k \in 1..Len(log) : when[k] \in Int
         /\ \A w \in Workers : wobs[w] \subseteq 1..Len(log)
         /\ mobs \subseteq 1..Len(log)
         /\ DOMAIN iobs = DOMAIN intervals
         /\ \A i \in DOMAIN iobs : iobs[i] \subseteq 1..Len(log)
<1>1. \A k \in 1..Len(log) : when[k] \in 0..MaxTime
  <2>1. when \in Seq(0..MaxTime) /\ Len(when) = Len(log)
    BY DEF TypeInv, TypeOK
  <2>2. \A k \in 1..Len(when) : when[k] \in 0..MaxTime
    BY <2>1, ElementOfSeq
  <2>3. QED
    BY <2>1, <2>2
<1> USE DEF TypeInv, SC!TypeOK, SC!Ids
<1>2. \A w \in Workers : wobs[w] \subseteq 1..Len(log)
  BY DEF Workers, SC!Workers
<1>3. DOMAIN iobs = DOMAIN intervals /\ \A i \in DOMAIN iobs : iobs[i] \subseteq 1..Len(log)
  OBVIOUS
<1>4. QED
  BY <1>1, <1>2, <1>3

LEMMA RecordObserved ==
  ASSUME TimeInv, ObservedInv, NEW w \in Workers, NEW d \in Durations, RecordStats(w, d)
  PROVE  ObservedInv'
<1> USE DEF TimeInv, FinalInv
<1>1. /\ wobs' = [wobs EXCEPT ![w] = @ \cup {Len(log) + 1}] /\ w <= nreg
      /\ when' = Append(when, clock)
      /\ UNCHANGED <<nreg, mu, cur, drainNow, intervals, lastBoundary, mobs, iobs>>
  BY DEF RecordStats, SC!Record
<1>2. \A k \in 1..Len(log) : when'[k] = when[k]
  BY <1>1 DEF TypeInv, TypeOK
<1>3. when'[Len(log) + 1] = clock
  BY <1>1 DEF TypeInv, TypeOK
<1>4. lastBoundary <= clock /\ (mu # NoDrainer => drainNow <= clock)
  BY DrainTime DEF BoundaryInv
<1>5. CountedNotBeforeRecorded'
  BY <1>1, <1>2, HeldHaveTimes DEF ObservedInv, CountedNotBeforeRecorded
<1>6. \A v \in Workers : v > nreg => wobs'[v] = {}
  BY <1>1 DEF ObservedInv, TypeInv, SC!TypeOK, SC!Workers, Workers
<1>7. ASSUME NEW v \in Workers, NEW k \in wobs'[v]
      PROVE  lastBoundary <= when'[k] /\ (mu # NoDrainer /\ v < cur => drainNow <= when'[k])
  <2>1. k \in wobs[v] \/ k = Len(log) + 1
    BY <1>1, <1>7 DEF TypeInv, SC!TypeOK, SC!Workers, Workers
  <2>2. CASE k \in wobs[v]
    BY <2>2, <1>2, HeldHaveTimes DEF ObservedInv
  <2>3. CASE k = Len(log) + 1
    BY <2>3, <1>3, <1>4
  <2>4. QED
    BY <2>1, <2>2, <2>3
<1>8. \A k \in mobs : lastBoundary <= when'[k]
  BY <1>2, HeldHaveTimes DEF ObservedInv
<1>9. QED
  BY <1>1, <1>5, <1>6, <1>7, <1>8 DEF ObservedInv

LEMMA SnapshotObserved ==
  ASSUME TimeInv, ObservedInv, NEW d, SC!DrainSnapshot(d), UNCHANGED when
  PROVE  ObservedInv'
<1> USE DEF TimeInv, FinalInv
<1>1. /\ wobs' = [wobs EXCEPT ![cur] = {}] /\ mobs' = mobs \cup wobs[cur] /\ cur' = cur + 1
      /\ UNCHANGED <<nreg, mu, drainNow, intervals, lastBoundary, iobs>>
  BY DEF SC!DrainSnapshot
<1>2. cur \in Workers
  BY CollectorAssumption DEF SC!DrainSnapshot, TypeInv, SC!TypeOK, Workers
<1>3. \A v \in Workers : wobs'[v] = IF v = cur THEN {} ELSE wobs[v]
  BY <1>1 DEF TypeInv, SC!TypeOK, SC!Workers, Workers
<1>4. CountedNotBeforeRecorded'
  BY <1>1 DEF ObservedInv, CountedNotBeforeRecorded
<1>5. ASSUME NEW v \in Workers, NEW k \in wobs'[v]
      PROVE  lastBoundary <= when[k] /\ (mu # NoDrainer /\ v < cur' => drainNow <= when[k])
  <2>1. k \in wobs[v] /\ v # cur /\ v \in Int /\ cur \in Int
    BY <1>2, <1>3, <1>5 DEF Workers
  <2>2. v < cur' => v < cur
    BY <1>1, <2>1
  <2>3. QED
    BY <2>1, <2>2 DEF ObservedInv
<1>6. \A k \in mobs' : lastBoundary <= when[k]
  BY <1>1, <1>2 DEF ObservedInv
<1>7. \A v \in Workers : v > nreg => wobs'[v] = {}
  BY <1>3 DEF ObservedInv
<1>8. QED
  BY <1>1, <1>4, <1>5, <1>6, <1>7 DEF ObservedInv

LEMMA FoldObserved ==
  ASSUME TimeInv, SC!SeriesTilesRun, SeriesInv, ObservedInv,
         NEW d \in {"main", "loop"}, SC!DrainFold(d), UNCHANGED when
  PROVE  ObservedInv'
<1> USE DEF TimeInv, FinalInv
<1>1. mobs' = {} /\ mu' = NoDrainer /\ UNCHANGED <<nreg, wobs>> /\ mu # NoDrainer /\ cur > nreg
  BY CollectorAssumption DEF SC!DrainFold
<1>2. \A w \in Workers : \A k \in wobs[w] : drainNow <= when[k]
  <2>1. SUFFICES ASSUME NEW w \in Workers, wobs[w] # {} PROVE w < cur
    BY <1>1 DEF ObservedInv
  <2>2. w \in Int /\ nreg \in Int /\ cur \in Int
    BY DEF Workers, TypeInv, SC!TypeOK
  <2>3. ~(w > nreg)
    BY <2>1 DEF ObservedInv
  <2>4. QED
    BY <1>1, <2>2, <2>3
<1>3. \A w \in Workers : \A k \in wobs[w] : lastBoundary' <= when[k]
  BY <1>2, FoldBoundary DEF ObservedInv
<1>4. CountedNotBeforeRecorded'
  <2>1. CASE SC!NothingIn(merged)
    <3>1. UNCHANGED <<intervals, iobs>>
      BY <2>1, FoldBoundary
    <3>2. QED
      BY <3>1 DEF ObservedInv, CountedNotBeforeRecorded
  <2>a. iobs \in Seq(SUBSET (1..Len(log))) /\ intervals \in Seq(SC!Range(intervals))
        /\ Len(iobs) = Len(intervals) /\ Len(intervals) \in Nat /\ lastBoundary \in Int
        /\ \A i \in DOMAIN intervals : intervals[i].start \in Int
    BY DEF TypeInv, SC!TypeOK, SC!Ids
  <2>2. CASE ~SC!NothingIn(merged) /\ SC!IsSliver(drainNow)
    <3> DEFINE n == Len(intervals)
               iv == SC!FoldInterval(intervals[n], drainNow, merged)
    <3>1. n \in DOMAIN intervals /\ intervals # <<>>
      BY <2>2, <2>a DEF SC!IsSliver
    <3>2. /\ intervals' = [intervals EXCEPT ![n] = iv]
          /\ iobs' = [iobs EXCEPT ![n] = @ \cup mobs]
      BY <2>2 DEF SC!DrainFold, SC!RecordInterval, SC!FoldIntoInterval
    <3>3. iv.start = intervals[n].start
      BY DEF SC!FoldInterval
    <3>4. intervals[n].start <= lastBoundary
      BY <3>1 DEF SC!SeriesTilesRun, SeriesInv, Measured
    <3>5. \A k \in mobs : intervals[n].start <= when[k]
      BY <3>1, <3>4, <2>a, HeldHaveTimes DEF ObservedInv
    <3>6. ASSUME NEW i \in DOMAIN intervals', NEW k \in iobs'[i]
          PROVE  intervals'[i].start <= when[k]
      <4>1. i \in DOMAIN intervals /\ i \in DOMAIN iobs
        BY <3>2, <2>a
      <4>2. intervals'[i].start = intervals[i].start
        BY <3>2, <3>3, <4>1
      <4>3. k \in iobs[i] \/ (i = n /\ k \in mobs)
        BY <3>2, <3>6, <4>1
      <4>4. QED
        BY <3>5, <4>1, <4>2, <4>3 DEF ObservedInv, CountedNotBeforeRecorded
    <3>7. QED
      BY <3>6 DEF CountedNotBeforeRecorded
  <2>3. CASE ~SC!NothingIn(merged) /\ ~SC!IsSliver(drainNow)
    <3> DEFINE n == Len(intervals) + 1
               iv == SC!NewInterval(lastBoundary, drainNow, merged)
    <3>1. intervals' = Append(intervals, iv) /\ iobs' = Append(iobs, mobs)
      BY <2>3 DEF SC!DrainFold, SC!RecordInterval, SC!AppendInterval
    <3>2. iv.start = lastBoundary
      BY DEF SC!NewInterval
    <3>3. /\ DOMAIN intervals' = 1..n /\ intervals'[n] = iv /\ iobs'[n] = mobs
          /\ \A i \in 1..Len(intervals) : intervals'[i] = intervals[i] /\ iobs'[i] = iobs[i]
      BY <3>1, <2>a
    <3>4. ASSUME NEW i \in 1..n, NEW k \in iobs'[i]
          PROVE  intervals'[i].start <= when[k]
      <4>1. CASE i = n
        BY <3>2, <3>3, <3>4, <4>1 DEF ObservedInv
      <4>2. CASE i \in 1..Len(intervals)
        BY <3>3, <3>4, <4>2, <2>a DEF ObservedInv, CountedNotBeforeRecorded
      <4>3. QED
        BY <4>1, <4>2, <2>a
    <3>5. QED
      BY <3>3, <3>4 DEF CountedNotBeforeRecorded
  <2>4. QED
    BY <2>1, <2>2, <2>3
<1>5. QED
  BY <1>1, <1>3, <1>4 DEF ObservedInv

LEMMA NextObserved ==
  TimeInv /\ SC!SeriesTilesRun /\ SeriesInv /\ ObservedInv /\ [Next]_vars => ObservedInv'
<1> SUFFICES ASSUME TimeInv, SC!SeriesTilesRun, SeriesInv, ObservedInv, [Next]_vars
             PROVE  ObservedInv'
  OBVIOUS
<1>1. CASE UNCHANGED when /\ UNCHANGED stats
  BY <1>1, StatsUnchanged DEF ObservedInv, CountedNotBeforeRecorded
<1>2. CASE UNCHANGED when /\ SC!NewWorkerStats
  <2>1. /\ UNCHANGED <<mu, cur, drainNow, intervals, lastBoundary, wobs, mobs, iobs, when>>
        /\ nreg' = nreg + 1 /\ nreg \in Int /\ Workers \subseteq Int
    BY <1>2 DEF SC!NewWorkerStats, SC!history, TimeInv, FinalInv, TypeInv, SC!TypeOK, Workers
  <2>2. \A w \in Workers : w > nreg' => w > nreg
    BY <2>1
  <2>3. QED
    BY <2>1, <2>2 DEF ObservedInv, CountedNotBeforeRecorded
<1>3. ASSUME NEW d, NEW now, UNCHANGED when, SC!DrainLock(d, now)
      PROVE  ObservedInv'
  <2>1. UNCHANGED <<nreg, intervals, lastBoundary, wobs, mobs, iobs, when>> /\ cur' = 1
    BY <1>3 DEF SC!DrainLock, SC!history
  <2>2. \A w \in Workers : ~(w < cur')
    BY <2>1 DEF Workers
  <2>3. QED
    BY <2>1, <2>2 DEF ObservedInv, CountedNotBeforeRecorded
<1>4. QED
  BY <1>1, <1>2, <1>3, HistoryMoves, RecordObserved, SnapshotObserved, FoldObserved

(* No operation is counted in an interval that starts after it was          *)
(* recorded, also when it was recorded behind a drain in progress or when a *)
(* drain carries a time that has long passed.                               *)
THEOREM CountedInTime == Spec => []CountedNotBeforeRecorded
<1>1. Init => SeriesInv /\ ObservedInv
  BY DEF Init, SC!Init, SeriesInv, ObservedInv, CountedNotBeforeRecorded, SC!Workers, Workers
<1>2. ObservedInv => CountedNotBeforeRecorded
  BY DEF ObservedInv
<1>3. QED
  BY <1>1, <1>2, NextSeries, NextObserved, TimeHolds, TilesHold, PTL DEF Spec

-----------------------------------------------------------------------------
(* Prometheus and the result *)

\* Operations that Prometheus has counted and no window has yet.
Pending(o) == {w \in Workers : pc[w] = "record" /\ op[w] = o}
PendingFailures(o) == {w \in Pending(o) : ~good[w]}

\* The calls of the log that concern o, and the failures among them.
Logged(l, o) == {i \in 1..Len(l) : l[i].op = o}
LoggedFailures(l, o) == {i \in Logged(l, o) : ~l[i].ok}

\* OpsTotal counts the recorded operations and those about to be recorded.
CountInv ==
  /\ \A w \in Workers : w > nreg => pc[w] = "off"
  /\ \A o \in Ops :
       /\ opsTotal[o].error = Cardinality(LoggedFailures(log, o)) + Cardinality(PendingFailures(o))
       /\ opsTotal[o].ok + opsTotal[o].error =
            Cardinality(Logged(log, o)) + Cardinality(Pending(o))

LEMMA PendingFinite ==
  ASSUME NEW o
  PROVE  IsFiniteSet(Pending(o)) /\ IsFiniteSet(PendingFailures(o))
<1>1. IsFiniteSet(Workers)
  BY CollectorAssumption, FS_Interval DEF Workers
<1>2. Pending(o) \subseteq Workers /\ PendingFailures(o) \subseteq Workers
  BY DEF Pending, PendingFailures
<1>3. QED
  BY <1>1, <1>2, FS_Subset

LEMMA LoggedFinite ==
  ASSUME NEW l \in Seq(SC!Call), NEW o
  PROVE  IsFiniteSet(Logged(l, o)) /\ IsFiniteSet(LoggedFailures(l, o))
<1>1. IsFiniteSet(1..Len(l))
  BY FS_Interval
<1>2. Logged(l, o) \subseteq 1..Len(l) /\ LoggedFailures(l, o) \subseteq 1..Len(l)
  BY DEF Logged, LoggedFailures
<1>3. QED
  BY <1>1, <1>2, FS_Subset

\* One more call adds one to its own operation, and to the failures if it is one.
LEMMA LoggedAppend ==
  ASSUME NEW l \in Seq(SC!Call), NEW c \in SC!Call, NEW o
  PROVE  /\ Cardinality(Logged(Append(l, c), o)) =
              Cardinality(Logged(l, o)) + (IF c.op = o THEN 1 ELSE 0)
         /\ Cardinality(LoggedFailures(Append(l, c), o)) =
              Cardinality(LoggedFailures(l, o)) + (IF c.op = o /\ ~c.ok THEN 1 ELSE 0)
<1> DEFINE m == Append(l, c)
           k == Len(l) + 1
<1>1. k \in Nat /\ k \notin 1..Len(l) /\ 1..Len(m) = (1..Len(l)) \cup {k}
  OBVIOUS
<1>2. m[k] = c /\ \A i \in 1..Len(l) : m[i] = l[i]
  OBVIOUS
<1> HIDE DEF m, k
<1>3. Logged(m, o) = IF c.op = o THEN Logged(l, o) \cup {k} ELSE Logged(l, o)
  BY <1>1, <1>2 DEF Logged
<1>4. LoggedFailures(m, o) =
        IF c.op = o /\ ~c.ok THEN LoggedFailures(l, o) \cup {k} ELSE LoggedFailures(l, o)
  BY <1>1, <1>2 DEF Logged, LoggedFailures
<1>5. k \notin Logged(l, o) /\ k \notin LoggedFailures(l, o)
  BY <1>1 DEF Logged, LoggedFailures
<1>6. IsFiniteSet(Logged(l, o)) /\ IsFiniteSet(LoggedFailures(l, o))
  BY LoggedFinite
<1>7. /\ Cardinality(Logged(l, o) \cup {k}) = Cardinality(Logged(l, o)) + 1
      /\ Cardinality(LoggedFailures(l, o) \cup {k}) = Cardinality(LoggedFailures(l, o)) + 1
      /\ Cardinality(Logged(l, o)) \in Nat /\ Cardinality(LoggedFailures(l, o)) \in Nat
  BY <1>5, <1>6, FS_AddElement, FS_CardinalityType
<1>8. QED
  BY <1>3, <1>4, <1>7 DEF m

\* The operation returns: Prometheus counts it, and it is pending.
LEMMA ReturnCounted ==
  ASSUME TypeInv, CountInv, NEW w \in Workers, NEW kind \in Kinds, OpReturns(w, kind)
  PROVE  CountInv'
<1> DEFINE bad == kind # "ok"
<1>0. /\ UNCHANGED <<log, nreg, op>> /\ pc[w] = "busy"
      /\ pc \in [Workers -> {"off", "check", "busy", "record", "gone"}]
  BY StatsUnchanged DEF OpReturns, TypeInv, TypeOK
<1>1. \A v \in Workers : v > nreg' => pc'[v] = "off"
  BY <1>0 DEF OpReturns, CountInv
<1>2. ASSUME NEW o \in Ops
      PROVE  /\ opsTotal'[o].error = Cardinality(LoggedFailures(log, o)) + Cardinality(PendingFailures(o)')
             /\ opsTotal'[o].ok + opsTotal'[o].error =
                  Cardinality(Logged(log, o)) + Cardinality(Pending(o)')
  <2>1. CASE pc' = [pc EXCEPT ![w] = "check"] /\ UNCHANGED <<good, opsTotal>>
    <3>1. Pending(o)' = Pending(o) /\ PendingFailures(o)' = PendingFailures(o)
      BY <1>0, <2>1 DEF Pending, PendingFailures
    <3>2. QED
      BY <2>1, <3>1 DEF CountInv
  <2>2. CASE /\ pc' = [pc EXCEPT ![w] = "record"]
             /\ good' = [good EXCEPT ![w] = (kind = "ok")]
             /\ opsTotal' = IF kind = "ok" THEN [opsTotal EXCEPT ![op[w]].ok = @ + 1]
                                           ELSE [opsTotal EXCEPT ![op[w]].error = @ + 1]
    <3>0. good \in [Workers -> BOOLEAN] /\ op[w] \in Ops
          /\ opsTotal \in [Ops -> [ok : Nat, error : Nat]]
      BY DEF TypeInv, TypeOK
    <3>1. Pending(o)' = IF op[w] = o THEN Pending(o) \cup {w} ELSE Pending(o)
      BY <1>0, <2>2 DEF Pending
    <3>2. w \notin Pending(o) /\ w \notin PendingFailures(o)
      BY <1>0 DEF Pending, PendingFailures
    <3>3. good'[w] = (kind = "ok") /\ \A v \in Workers : v # w => good'[v] = good[v]
      BY <2>2, <3>0
    <3>4. PendingFailures(o)' =
            IF op[w] = o /\ bad THEN PendingFailures(o) \cup {w} ELSE PendingFailures(o)
      <4>1. PendingFailures(o)' = {v \in Pending(o)' : ~good'[v]}
        BY DEF PendingFailures
      <4>2. \A v \in Pending(o) : v \in Workers /\ v # w
        BY <3>2 DEF Pending
      <4>3. QED
        BY <3>1, <3>3, <4>1, <4>2 DEF PendingFailures
    <3>5. /\ Cardinality(Pending(o) \cup {w}) = Cardinality(Pending(o)) + 1
          /\ Cardinality(PendingFailures(o) \cup {w}) = Cardinality(PendingFailures(o)) + 1
          /\ Cardinality(Pending(o)) \in Nat /\ Cardinality(PendingFailures(o)) \in Nat
      BY <3>2, PendingFinite, FS_AddElement, FS_CardinalityType
    <3>6. Cardinality(Logged(log, o)) \in Nat /\ Cardinality(LoggedFailures(log, o)) \in Nat
      BY LoggedFinite, FS_CardinalityType DEF TypeInv, SC!TypeOK
    <3>7. /\ opsTotal[o].error = Cardinality(LoggedFailures(log, o)) + Cardinality(PendingFailures(o))
          /\ opsTotal[o].ok + opsTotal[o].error =
               Cardinality(Logged(log, o)) + Cardinality(Pending(o))
      BY DEF CountInv
    <3>8. /\ opsTotal[o].ok \in Nat /\ opsTotal[o].error \in Nat
          /\ opsTotal'[o].ok = opsTotal[o].ok + (IF op[w] = o /\ ~bad THEN 1 ELSE 0)
          /\ opsTotal'[o].error = opsTotal[o].error + (IF op[w] = o /\ bad THEN 1 ELSE 0)
      BY <2>2, <3>0
    <3>9. CASE op[w] # o
      BY <3>1, <3>4, <3>7, <3>8, <3>9
    <3>10. CASE op[w] = o /\ bad
      BY <3>1, <3>4, <3>5, <3>6, <3>7, <3>8, <3>10
    <3>11. CASE op[w] = o /\ ~bad
      BY <3>1, <3>4, <3>5, <3>6, <3>7, <3>8, <3>11
    <3>12. QED
      BY <3>9, <3>10, <3>11
  <2>3. QED
    BY <2>1, <2>2 DEF OpReturns
<1>3. QED
  BY <1>0, <1>1, <1>2 DEF CountInv, Pending, PendingFailures

\* Record: what was pending is in the log.
LEMMA RecordCounted ==
  ASSUME TypeInv, CountInv, NEW w \in Workers, NEW d \in Durations, RecordStats(w, d)
  PROVE  CountInv'
<1> DEFINE c == [op |-> op[w], ok |-> good[w], us |-> SC!Micros(d)]
<1>0. /\ log' = Append(log, c) /\ UNCHANGED <<nreg, op, opsTotal>> /\ pc[w] = "record"
      /\ pc' = [pc EXCEPT ![w] = "check"] /\ good' = [good EXCEPT ![w] = TRUE]
  BY DEF RecordStats, SC!Record
<1>1. /\ pc \in [Workers -> {"off", "check", "busy", "record", "gone"}]
      /\ good \in [Workers -> BOOLEAN] /\ log \in Seq(SC!Call) /\ op[w] \in Ops
  BY DEF TypeInv, TypeOK, SC!TypeOK
<1>2. c \in SC!Call /\ c.op = op[w] /\ c.ok = good[w]
  BY <1>1 DEF SC!Call, SC!Lat
<1> HIDE DEF c
<1>3. \A v \in Workers : v > nreg' => pc'[v] = "off"
  BY <1>0, <1>1 DEF CountInv
<1>4. ASSUME NEW o \in Ops
      PROVE  /\ opsTotal'[o].error =
                  Cardinality(LoggedFailures(log', o)) + Cardinality(PendingFailures(o)')
             /\ opsTotal'[o].ok + opsTotal'[o].error =
                  Cardinality(Logged(log', o)) + Cardinality(Pending(o)')
  <2> DEFINE P == Pending(o)
             F == PendingFailures(o)
             hit == op[w] = o
             bad == op[w] = o /\ ~good[w]
  <2>1. Pending(o)' = P \ {w}
    BY <1>0, <1>1 DEF Pending
  <2>2. PendingFailures(o)' = F \ {w}
    <3>1. good'[w] = TRUE /\ \A v \in Workers : v # w => good'[v] = good[v]
      BY <1>0, <1>1
    <3>2. PendingFailures(o)' = {v \in P \ {w} : ~good'[v]}
      BY <2>1 DEF PendingFailures
    <3>3. \A v \in P : v \in Workers
      BY DEF Pending
    <3>4. QED
      BY <3>1, <3>2, <3>3 DEF PendingFailures
  <2>3. (w \in P <=> hit) /\ (w \in F <=> bad)
    BY <1>0 DEF Pending, PendingFailures
  <2>4. IsFiniteSet(P) /\ IsFiniteSet(F)
    BY PendingFinite
  <2>5. /\ Cardinality(Logged(log', o)) =
             Cardinality(Logged(log, o)) + (IF hit THEN 1 ELSE 0)
        /\ Cardinality(LoggedFailures(log', o)) =
             Cardinality(LoggedFailures(log, o)) + (IF bad THEN 1 ELSE 0)
    BY <1>0, <1>1, <1>2, LoggedAppend
  <2>6. Cardinality(Logged(log, o)) \in Nat /\ Cardinality(LoggedFailures(log, o)) \in Nat
    BY <1>1, LoggedFinite, FS_CardinalityType
  <2>7. /\ opsTotal'[o].error = Cardinality(LoggedFailures(log, o)) + Cardinality(F)
        /\ opsTotal'[o].ok + opsTotal'[o].error = Cardinality(Logged(log, o)) + Cardinality(P)
    BY <1>0 DEF CountInv
  <2> HIDE DEF P, F, hit, bad
  <2>8. /\ Cardinality(P \ {w}) = IF hit THEN Cardinality(P) - 1 ELSE Cardinality(P)
        /\ Cardinality(F \ {w}) = IF bad THEN Cardinality(F) - 1 ELSE Cardinality(F)
        /\ Cardinality(P) \in Nat /\ Cardinality(F) \in Nat
    BY <2>3, <2>4, FS_RemoveElement, FS_CardinalityType
  <2>9. Cardinality(Logged(log', o)) + Cardinality(P \ {w}) =
          Cardinality(Logged(log, o)) + Cardinality(P)
    BY <2>5, <2>6, <2>8
  <2>10. Cardinality(LoggedFailures(log', o)) + Cardinality(F \ {w}) =
           Cardinality(LoggedFailures(log, o)) + Cardinality(F)
    BY <2>5, <2>6, <2>8
  <2>11. QED
    BY <2>1, <2>2, <2>7, <2>9, <2>10
<1>5. QED
  BY <1>3, <1>4 DEF CountInv

LEMMA NextCount == TypeInv /\ CountInv /\ [Next]_vars => CountInv'
<1> SUFFICES ASSUME TypeInv, CountInv, [Next]_vars PROVE CountInv'
  OBVIOUS
<1>0. pc \in [Workers -> {"off", "check", "busy", "record", "gone"}] /\ nreg \in Nat
  BY CollectorAssumption DEF TypeInv, TypeOK, SC!TypeOK
<1>a. ASSUME UNCHANGED <<nreg, log, pc, op, good, opsTotal>> PROVE CountInv'
  BY <1>a DEF CountInv, Pending, PendingFailures
\* A worker that neither has nor gets a result to record leaves the counts alone.
<1>b. ASSUME UNCHANGED <<log, good, opsTotal>>, NEW w \in Workers, NEW x,
             pc[w] # "record", x # "record", pc' = [pc EXCEPT ![w] = x],
             \A v \in Workers : v # w => op'[v] = op[v],
             \A v \in Workers : v > nreg' => pc'[v] = "off"
      PROVE  CountInv'
  <2>1. \A v \in Workers : pc'[v] = "record" <=> pc[v] = "record"
    BY <1>0, <1>b
  <2>2. ASSUME NEW o PROVE Pending(o)' = Pending(o)
    BY <1>b, <2>1 DEF Pending
  <2>3. ASSUME NEW o PROVE PendingFailures(o)' = PendingFailures(o)
    BY <1>b, <2>2 DEF PendingFailures
  <2>4. QED
    BY <1>b, <2>2, <2>3 DEF CountInv
<1>1. CASE Elapse \/ Expire \/ TickerFires \/ Signal
  BY <1>1, <1>a, StatsUnchanged DEF Elapse, Expire, TickerFires, Signal, workerVars
<1>2. CASE Main
  <2>1. CASE LaunchWorker
    <3>1. /\ nreg + 1 \in Workers /\ nreg' = nreg + 1
          /\ UNCHANGED <<log, good, opsTotal, op>>
          /\ pc' = [pc EXCEPT ![nreg + 1] = "check"]
      BY <1>0, <2>1, CollectorAssumption DEF LaunchWorker, SC!NewWorkerStats, SC!history, Workers
    <3>2. pc[nreg + 1] = "off"
      BY <1>0, <3>1 DEF CountInv
    <3>3. \A v \in Workers : v > nreg' => pc'[v] = "off"
      BY <1>0, <3>1 DEF CountInv, Workers
    <3>4. QED
      BY <1>b, <3>1, <3>2, <3>3
  <2>2. CASE SetReady \/ NotifySignals \/ SelectSignal \/ SelectDone \/ WaitWorkers
    BY <2>2, <1>a, StatsUnchanged
       DEF SetReady, NotifySignals, SelectSignal, SelectDone, WaitWorkers, workerVars
  <2>3. CASE FinalizeLock \/ FinalizeDrain
    BY <2>3, <1>a DEF FinalizeLock, FinalizeDrain, SC!DrainLock, SC!DrainSnapshot, SC!DrainFold,
                SC!history, workerVars
  <2>4. CASE FinalizeCopy \/ BuildResult \/ Shutdown
    BY <2>4, <1>a, StatsUnchanged DEF FinalizeCopy, BuildResult, Shutdown, workerVars
  <2>5. QED
    BY <1>2, <2>1, <2>2, <2>3, <2>4 DEF Main
<1>3. CASE SummaryLoop
  BY <1>3, <1>a, StatsUnchanged
     DEF SummaryLoop, LoopStart, LoopExit, LoopTick, PrintLock, PrintDrain,
         SC!DrainLock, SC!DrainSnapshot, SC!DrainFold, SC!history, workerVars
<1>4. ASSUME NEW w \in Workers, Worker(w)
      PROVE  CountInv'
  <2>1. CASE WorkerExit(w) \/ \E o \in Ops : StartOp(w, o)
    <3>1. UNCHANGED <<nreg, log, good, opsTotal>>
      BY <2>1, StatsUnchanged DEF WorkerExit, StartOp
    <3>2. PICK x \in {"gone", "busy"} : pc' = [pc EXCEPT ![w] = x]
      BY <2>1 DEF WorkerExit, StartOp
    <3>3. pc[w] = "check" /\ \A v \in Workers : v # w => op'[v] = op[v]
      BY <2>1 DEF WorkerExit, StartOp, TypeInv, TypeOK
    <3>4. \A v \in Workers : v > nreg' => pc'[v] = "off"
      BY <1>0, <3>1, <3>2, <3>3 DEF CountInv
    <3>5. QED
      BY <1>b, <3>1, <3>2, <3>3, <3>4
  <2>2. QED
    BY <1>4, <2>1, ReturnCounted, RecordCounted DEF Worker
<1>5. CASE UNCHANGED vars
  BY <1>5, <1>a DEF vars, stats, workerVars
<1>6. QED
  BY <1>1, <1>2, <1>3, <1>4, <1>5 DEF Next, Terminated

-----------------------------------------------------------------------------
(* The result *)

LEMMA SameCardinality ==
  ASSUME NEW S
  PROVE  SC!Cardinality(S) = Cardinality(S) /\ SCP!Cardinality(S) = Cardinality(S)
BY DEF Cardinality, SC!Cardinality, SCP!Cardinality

LEMMA SameQuiescence == SC!QuiescentTotal <=> SCP!QuiescentTotal
<1>1. SC!Workers = SCP!Workers /\ SC!Ids = SCP!Ids /\ SC!Lat = SCP!Lat
  BY DEF SC!Workers, SC!Ids, SC!Lat, SC!Micros, SCP!Workers, SCP!Ids, SCP!Lat, SCP!Micros
<1>2. ASSUME NEW S, NEW o, NEW u
      PROVE  /\ SC!Cardinality(SC!CallsOf(log, S, o)) = SCP!Cardinality(SCP!CallsOf(log, S, o))
             /\ SC!Cardinality(SC!FailuresOf(log, S, o)) = SCP!Cardinality(SCP!FailuresOf(log, S, o))
             /\ SC!Cardinality(SC!SamplesOf(log, S, o, u)) =
                  SCP!Cardinality(SCP!SamplesOf(log, S, o, u))
  BY SameCardinality DEF SC!CallsOf, SC!FailuresOf, SC!SamplesOf, SCP!CallsOf, SCP!FailuresOf, SCP!SamplesOf
<1>3. SC!Tallies(log, total, SC!Ids) <=> SCP!Tallies(log, total, SCP!Ids)
  BY <1>1, <1>2 DEF SC!Tallies, SCP!Tallies
<1>4. QED
  BY <1>1, <1>3 DEF SC!QuiescentTotal, SC!NothingIn, SCP!QuiescentTotal, SCP!NothingIn

\* The whole series sums to the whole total, as a reader of the result adds up.
SeriesAddsUp == SC!OpsIn(total) = SumFunction([i \in DOMAIN intervals |-> intervals[i].ops])

LEMMA SameSum ==
  ASSUME NEW f
  PROVE  SumFunction(f) = SCP!SumFunction(f)
BY DEF SumFunction, SumFunctionOnSet, FoldFunctionOnSet, MapThenFoldSet,
       SCP!SumFunction, SCP!SumFunctionOnSet, SCP!FoldFunctionOnSet, SCP!MapThenFoldSet

LEMMA SumsAddUp == SCP!SumsInv => SeriesAddsUp
BY SameSum, SameCounts DEF SCP!SumsInv, SCP!SeriesOps, SeriesAddsUp

LEMMA TotalsHold == Spec => [](SC!QuiescentTotal /\ SeriesAddsUp)
<1>1. SCP!Spec => []SCP!QuiescentTotal
  BY SCP!TotalComplete, OpsFinite, CollectorAssumption
<1>2. SCP!Spec => []SCP!SumsInv
  BY SCP!SumsHold, OpsFinite, CollectorAssumption
<1>3. QED
  BY <1>1, <1>2, RunUsesCollector, SameSpec, SameQuiescence, SumsAddUp, PTL DEF CollectorSpec

\* What Finalize copied is still what the collector has, also after
\* BuildRunResult has read the latencies again, and it is complete.
ResultInv ==
  /\ result = [totals |-> result.totals, series |-> result.series, ended |-> result.ended]
  /\ wantResult /\ main \in {"build", "shutdown", "exited"} =>
       /\ result.totals = total
       /\ result.series = intervals
       /\ SC!Tallies(log, total, SC!Ids)

LEMMA CopyComplete ==
  ASSUME FinalInv, SC!QuiescentTotal, FinalizeCopy
  PROVE  ResultInv'
<1>1. Quiet /\ mu = NoDrainer
  BY DEF FinalInv, ControlInv, QuietInv, Finalized, FinalizeCopy
<1>2. SC!Tallies(log, total, SC!Ids)
  BY <1>1 DEF SC!QuiescentTotal, Quiet, SC!NothingIn, SC!EmptyWindow, SC!ZeroStats, SC!Workers, Workers
<1>3. UNCHANGED <<log, total, intervals>>
  BY StatsUnchanged DEF FinalizeCopy
<1>4. result' = [totals |-> total, series |-> intervals, ended |-> clock]
  BY DEF FinalizeCopy
<1>5. QED
  BY <1>2, <1>3, <1>4 DEF ResultInv, SC!Tallies, SC!Ids

LEMMA BuildKeeps ==
  ASSUME TypeInv, ResultInv, BuildResult, wantResult
  PROVE  result'.totals = total /\ result'.series = intervals
         /\ result' = [totals |-> result'.totals, series |-> result'.series, ended |-> result'.ended]
<1>1. result.totals = total /\ result.series = intervals
  BY DEF ResultInv, BuildResult
<1>2. total \in [Ops -> SC!OpStats]
  BY DEF TypeInv, SC!TypeOK
<1>3. \A o \in Ops : [total[o] EXCEPT !.latencies = total[o].latencies] = total[o]
  BY <1>2 DEF SC!OpStats
<1>4. [o \in Ops |-> [total[o] EXCEPT !.latencies = total[o].latencies]] = total
  BY <1>2, <1>3
<1>5. result' = [result EXCEPT !.totals = total]
  BY <1>1, <1>4 DEF BuildResult
<1>6. QED
  BY <1>1, <1>5 DEF ResultInv

LEMMA GoneLog ==
  ASSUME TypeInv, WorkersGone, [Next]_vars
  PROVE  UNCHANGED log
<1>1. ASSUME NEW w \in Workers, NEW d \in Durations, RecordStats(w, d) PROVE FALSE
  BY <1>1 DEF RecordStats, WorkersGone
<1>2. QED
  BY <1>1, HistoryMoves, StatsUnchanged
     DEF SC!NewWorkerStats, SC!DrainLock, SC!DrainSnapshot, SC!DrainFold, SC!history

LEMMA NextResult == FinalInv /\ SC!QuiescentTotal /\ ResultInv /\ [Next]_vars => ResultInv'
<1> SUFFICES ASSUME FinalInv, SC!QuiescentTotal, ResultInv, [Next]_vars PROVE ResultInv'
  OBVIOUS
<1>1. CASE FinalizeCopy
  BY <1>1, CopyComplete
<1>2. CASE ~FinalizeCopy /\ ~(wantResult' /\ main' \in {"build", "shutdown", "exited"})
  <2>1. UNCHANGED result \/ BuildResult
    BY <1>2 DEF Next, Elapse, Expire, TickerFires, Signal, Main, LaunchWorker, SetReady,
                NotifySignals, SelectSignal, SelectDone, WaitWorkers, FinalizeLock, FinalizeDrain,
                Shutdown, SummaryLoop, LoopStart, LoopExit, LoopTick,
                PrintLock, PrintDrain, Worker, WorkerExit, StartOp, OpReturns, RecordStats,
                Terminated, mainVars, vars
  <2>2. QED
    BY <1>2, <2>1 DEF ResultInv, BuildResult
<1>3. CASE ~FinalizeCopy /\ wantResult' /\ main' \in {"build", "shutdown", "exited"}
  <2>1. wantResult' = wantResult
    BY DEF Next, Elapse, Expire, TickerFires, Signal, Main, LaunchWorker, SetReady,
           NotifySignals, SelectSignal, SelectDone, WaitWorkers, FinalizeLock, FinalizeDrain,
           FinalizeCopy, BuildResult, Shutdown, SummaryLoop, LoopStart, LoopExit, LoopTick,
           PrintLock, PrintDrain, Worker, WorkerExit, StartOp, OpReturns, RecordStats,
           Terminated, mainVars, vars
  <2>2. main \in {"build", "shutdown", "exited"} /\ (UNCHANGED result \/ BuildResult)
    <3>1. wantResult
      BY <1>3, <2>1
    <3>2. CASE WaitWorkers
      BY <1>3, <3>1, <3>2 DEF WaitWorkers
    <3>3. CASE FinalizeDrain
      BY <1>3, <3>3 DEF FinalizeDrain
    <3>4. CASE Signal \/ BuildResult \/ Shutdown
      BY <1>3, <3>4 DEF Signal, BuildResult, Shutdown
    <3>5. CASE LaunchWorker \/ SetReady \/ NotifySignals \/ SelectSignal \/ SelectDone
               \/ FinalizeLock
      BY <1>3, <3>5
         DEF LaunchWorker, SetReady, NotifySignals, SelectSignal, SelectDone, FinalizeLock, mainVars
    <3>6. CASE Elapse \/ Expire \/ TickerFires \/ SummaryLoop \/ (\E w \in Workers : Worker(w))
               \/ Terminated \/ UNCHANGED vars
      BY <1>3, <3>6
         DEF Elapse, Expire, TickerFires, SummaryLoop, LoopStart, LoopExit, LoopTick,
             PrintLock, PrintDrain, Worker, WorkerExit, StartOp, OpReturns, RecordStats,
             Terminated, mainVars, vars
    <3>7. QED
      BY <1>3, <3>2, <3>3, <3>4, <3>5, <3>6 DEF Next, Main
  <2>3. WorkersGone /\ Quiet /\ TypeInv /\ wantResult
    BY <1>3, <2>1, <2>2 DEF FinalInv, ControlInv, QuietInv, Finalized
  <2>4. UNCHANGED <<total, intervals>>
    BY <2>3, QuietStep
  <2>5. UNCHANGED log
    BY <2>3, GoneLog
  <2>6. result'.totals = total /\ result'.series = intervals
        /\ result' = [totals |-> result'.totals, series |-> result'.series, ended |-> result'.ended]
    BY <2>2, <2>3, BuildKeeps DEF ResultInv
  <2>7. SC!Tallies(log, total, SC!Ids)
    BY <2>2, <2>3 DEF ResultInv
  <2>8. QED
    BY <2>4, <2>5, <2>6, <2>7 DEF ResultInv, SC!Tallies, SC!Ids
<1>4. QED
  BY <1>1, <1>2, <1>3

\* The four parts of ResultExact, once main has returned.
LEMMA ExactAtExit ==
  FinalInv /\ SeriesAddsUp /\ ResultInv /\ CountInv => ResultExact
<1> SUFFICES ASSUME FinalInv, SeriesAddsUp, ResultInv, CountInv, main = "exited", wantResult
             PROVE  ResultExact
  BY DEF ResultExact
<1>1. /\ result.totals = total /\ result.series = intervals
      /\ SC!Tallies(log, total, SC!Ids) /\ WorkersGone
  BY DEF ResultInv, FinalInv, ControlInv
<1>2. ASSUME NEW o \in Ops
      PROVE  /\ opsTotal[o].error = total[o].errors
             /\ opsTotal[o].ok + opsTotal[o].error = total[o].count
  <2>1. Pending(o) = {} /\ PendingFailures(o) = {}
    BY <1>1 DEF Pending, PendingFailures, WorkersGone
  <2>2. SC!CallsOf(log, SC!Ids, o) = Logged(log, o)
        /\ SC!FailuresOf(log, SC!Ids, o) = LoggedFailures(log, o)
    BY DEF SC!CallsOf, SC!FailuresOf, SC!Ids, Logged, LoggedFailures
  <2>3. /\ total[o].count = Cardinality(Logged(log, o))
        /\ total[o].errors = Cardinality(LoggedFailures(log, o))
    BY <1>1, <2>2, SameCardinality DEF SC!Tallies
  <2>4. Cardinality(Logged(log, o)) \in Nat /\ Cardinality(LoggedFailures(log, o)) \in Nat
    BY LoggedFinite, FS_CardinalityType DEF FinalInv, TypeInv, SC!TypeOK
  <2>5. /\ opsTotal[o].error = Cardinality(LoggedFailures(log, o)) + Cardinality({})
        /\ opsTotal[o].ok + opsTotal[o].error = Cardinality(Logged(log, o)) + Cardinality({})
    BY <2>1 DEF CountInv
  <2>6. Cardinality({}) = 0
    BY FS_EmptySet
  <2>7. QED
    BY <2>3, <2>4, <2>5, <2>6
<1>3. QED
  BY <1>1, <1>2 DEF ResultExact, SeriesAddsUp

(* The result that a run leaves behind is exact: it tallies every operation *)
(* any worker recorded, its series adds up to its total, and Prometheus     *)
(* agrees with both, whatever raced with the end of the run.                *)
THEOREM ResultIsExact == Spec => []ResultExact
<1>1. Init => ResultInv /\ CountInv
  <2> SUFFICES ASSUME Init PROVE ResultInv /\ CountInv
    OBVIOUS
  <2>1. ResultInv
    BY DEF Init, ResultInv, NoResult
  <2>2. ASSUME NEW o \in Ops
        PROVE  /\ Logged(log, o) = {} /\ LoggedFailures(log, o) = {}
               /\ Pending(o) = {} /\ PendingFailures(o) = {}
    BY DEF Init, SC!Init, Logged, LoggedFailures, Pending, PendingFailures
  <2>3. Cardinality({}) = 0
    BY FS_EmptySet
  <2>4. /\ opsTotal = [o \in Ops |-> [ok |-> 0, error |-> 0]]
        /\ pc = [w \in Workers |-> "off"]
    BY DEF Init
  <2>5. QED
    BY <2>1, <2>2, <2>3, <2>4 DEF CountInv
<1>2. FinalInv => TypeInv
  BY DEF FinalInv
<1>3. QED
  BY <1>1, <1>2, FinalHolds, TotalsHold, NextResult, NextCount, ExactAtExit, PTL DEF Spec
=============================================================================
