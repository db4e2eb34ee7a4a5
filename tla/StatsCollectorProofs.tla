----------------------- MODULE StatsCollectorProofs -----------------------
(***************************************************************************)
(* Proofs about StatsCollector, for every number of workers, every op set  *)
(* and latency set, and every interleaving of Record calls and drains.     *)
(***************************************************************************)
EXTENDS StatsCollector, SumTheorems, SequenceTheorems, TLAPS

-----------------------------------------------------------------------------
(* Tallies.  Lemmas about the operators, no state involved.                *)

\* A set of positions of a log is finite.
LEMMA FiniteCalls ==
  ASSUME NEW l \in Seq(Call), NEW S \in SUBSET (1..Len(l))
  PROVE  IsFiniteSet(S)
<1>1. IsFiniteSet(1..Len(l))
  BY FS_Interval
<1> QED
  BY <1>1, FS_Subset

\* The calls selected from a set of positions form finite sets.
LEMMA FiniteSelections ==
  ASSUME NEW l \in Seq(Call), NEW S \in SUBSET (1..Len(l)), NEW op, NEW u
  PROVE  /\ IsFiniteSet(CallsOf(l, S, op))
         /\ IsFiniteSet(FailuresOf(l, S, op))
         /\ IsFiniteSet(SamplesOf(l, S, op, u))
<1>1. /\ CallsOf(l, S, op) \in SUBSET S
      /\ FailuresOf(l, S, op) \in SUBSET S
      /\ SamplesOf(l, S, op, u) \in SUBSET S
  BY DEF CallsOf, FailuresOf, SamplesOf
<1> QED
  BY <1>1, FiniteCalls, FS_Subset

\* The cardinality of a union of disjoint finite sets is the sum.
LEMMA DisjointCardinality ==
  ASSUME NEW S, NEW T, IsFiniteSet(S), IsFiniteSet(T), S \cap T = {}
  PROVE  Cardinality(S \cup T) = Cardinality(S) + Cardinality(T)
<1>1. Cardinality(S \cup T) = Cardinality(S) + Cardinality(T) - Cardinality({})
  BY FS_Union
<1>2. Cardinality(S) \in Nat /\ Cardinality(T) \in Nat
  BY FS_CardinalityType
<1> QED
  BY <1>1, <1>2, FS_EmptySet

\* Selecting from a disjoint union adds up the selections' sizes.
LEMMA DisjointSelections ==
  ASSUME NEW l \in Seq(Call), NEW S \in SUBSET (1..Len(l)), NEW T \in SUBSET (1..Len(l)),
         S \cap T = {}, NEW op, NEW u
  PROVE  /\ Cardinality(CallsOf(l, S \cup T, op)) =
              Cardinality(CallsOf(l, S, op)) + Cardinality(CallsOf(l, T, op))
         /\ Cardinality(FailuresOf(l, S \cup T, op)) =
              Cardinality(FailuresOf(l, S, op)) + Cardinality(FailuresOf(l, T, op))
         /\ Cardinality(SamplesOf(l, S \cup T, op, u)) =
              Cardinality(SamplesOf(l, S, op, u)) + Cardinality(SamplesOf(l, T, op, u))
<1>1. /\ CallsOf(l, S \cup T, op) = CallsOf(l, S, op) \cup CallsOf(l, T, op)
      /\ CallsOf(l, S, op) \cap CallsOf(l, T, op) = {}
  BY DEF CallsOf
<1>2. /\ FailuresOf(l, S \cup T, op) = FailuresOf(l, S, op) \cup FailuresOf(l, T, op)
      /\ FailuresOf(l, S, op) \cap FailuresOf(l, T, op) = {}
  BY <1>1 DEF FailuresOf
<1>3. /\ SamplesOf(l, S \cup T, op, u) = SamplesOf(l, S, op, u) \cup SamplesOf(l, T, op, u)
      /\ SamplesOf(l, S, op, u) \cap SamplesOf(l, T, op, u) = {}
  BY <1>1 DEF SamplesOf
<1>4. /\ IsFiniteSet(CallsOf(l, S, op)) /\ IsFiniteSet(CallsOf(l, T, op))
      /\ IsFiniteSet(FailuresOf(l, S, op)) /\ IsFiniteSet(FailuresOf(l, T, op))
      /\ IsFiniteSet(SamplesOf(l, S, op, u)) /\ IsFiniteSet(SamplesOf(l, T, op, u))
  BY FiniteSelections
<1> QED
  BY <1>1, <1>2, <1>3, <1>4, DisjointCardinality

\* The empty window is the tally of no call.
LEMMA EmptyTally ==
  ASSUME NEW l
  PROVE  Tallies(l, EmptyWindow, {})
BY FS_EmptySet DEF Tallies, EmptyWindow, ZeroStats, CallsOf, FailuresOf, SamplesOf

\* mergeInto adds tallies of disjoint sets of calls.
LEMMA MergedTally ==
  ASSUME NEW l \in Seq(Call), NEW S \in SUBSET (1..Len(l)), NEW T \in SUBSET (1..Len(l)),
         S \cap T = {}, NEW a, NEW b, Tallies(l, a, S), Tallies(l, b, T)
  PROVE  Tallies(l, MergeAll(a, b), S \cup T)
<1> SUFFICES ASSUME NEW op \in Ops
             PROVE  /\ MergeAll(a, b)[op].count = Cardinality(CallsOf(l, S \cup T, op))
                    /\ MergeAll(a, b)[op].errors = Cardinality(FailuresOf(l, S \cup T, op))
                    /\ \A u \in Lat : MergeAll(a, b)[op].latencies[u]
                                        = Cardinality(SamplesOf(l, S \cup T, op, u))
  BY DEF Tallies
<1>1. MergeAll(a, b)[op] = MergeInto(a[op], b[op])
  BY DEF MergeAll
<1>2. /\ a[op].count = Cardinality(CallsOf(l, S, op))
      /\ a[op].errors = Cardinality(FailuresOf(l, S, op))
      /\ \A u \in Lat : a[op].latencies[u] = Cardinality(SamplesOf(l, S, op, u))
  BY DEF Tallies
<1>3. /\ b[op].count = Cardinality(CallsOf(l, T, op))
      /\ b[op].errors = Cardinality(FailuresOf(l, T, op))
      /\ \A u \in Lat : b[op].latencies[u] = Cardinality(SamplesOf(l, T, op, u))
  BY DEF Tallies
<1>4. /\ MergeInto(a[op], b[op]).count = Cardinality(CallsOf(l, S \cup T, op))
      /\ MergeInto(a[op], b[op]).errors = Cardinality(FailuresOf(l, S \cup T, op))
  <2>1. /\ Cardinality(CallsOf(l, S \cup T, op)) =
              Cardinality(CallsOf(l, S, op)) + Cardinality(CallsOf(l, T, op))
        /\ Cardinality(FailuresOf(l, S \cup T, op)) =
              Cardinality(FailuresOf(l, S, op)) + Cardinality(FailuresOf(l, T, op))
    BY DisjointSelections, ZenonT(60)
  <2> QED
    BY <1>2, <1>3, <2>1 DEF MergeInto
<1>5. ASSUME NEW u \in Lat
      PROVE  MergeInto(a[op], b[op]).latencies[u] = Cardinality(SamplesOf(l, S \cup T, op, u))
  BY <1>2, <1>3, DisjointSelections DEF MergeInto
<1> QED
  BY <1>1, <1>4, <1>5

\* A call appended to the log changes no selection from older positions.
LEMMA OldCalls ==
  ASSUME NEW l \in Seq(Call), NEW c \in Call, NEW S \in SUBSET (1..Len(l)), NEW op, NEW u
  PROVE  /\ CallsOf(Append(l, c), S, op) = CallsOf(l, S, op)
         /\ FailuresOf(Append(l, c), S, op) = FailuresOf(l, S, op)
         /\ SamplesOf(Append(l, c), S, op, u) = SamplesOf(l, S, op, u)
<1>1. \A i \in S : Append(l, c)[i] = l[i]
  OBVIOUS
<1> QED
  BY <1>1 DEF CallsOf, FailuresOf, SamplesOf

\* So a tally, and what an interval covers, survive the append.
LEMMA OldTallies ==
  ASSUME NEW l \in Seq(Call), NEW c \in Call, NEW S \in SUBSET (1..Len(l)), NEW a
  PROVE  /\ Tallies(l, a, S) => Tallies(Append(l, c), a, S)
         /\ Covers(l, a, S) => Covers(Append(l, c), a, S)
BY OldCalls DEF Tallies, Covers

-----------------------------------------------------------------------------
(* Types of the operators the actions are built from. *)

\* The latency Record tallies, negative durations pinned to zero, is one of Lat.
LEMMA MicrosType ==
  ASSUME NEW d \in Durations
  PROVE  Micros(d) \in Lat
BY DEF Lat

\* A fresh window (newWorkerStats, snapshot) is well typed.
LEMMA EmptyWindowType == EmptyWindow \in [Ops -> OpStats]
BY DEF EmptyWindow, ZeroStats, OpStats

\* Record leaves its operation's entry well typed.
LEMMA RecordInType ==
  ASSUME NEW s \in OpStats, NEW ok \in BOOLEAN, NEW us \in Lat
  PROVE  RecordIn(s, ok, us) \in OpStats
BY DEF RecordIn, OpStats

\* mergeInto leaves every entry well typed.
LEMMA MergeAllType ==
  ASSUME NEW a \in [Ops -> OpStats], NEW b \in [Ops -> OpStats]
  PROVE  MergeAll(a, b) \in [Ops -> OpStats]
<1>1. ASSUME NEW op \in Ops PROVE MergeInto(a[op], b[op]) \in OpStats
  BY DEF MergeInto, OpStats
<1> QED
  BY <1>1 DEF MergeAll

\* The interval recordIntervalLocked appends is well typed and keeps its bounds.
LEMMA NewIntervalType ==
  ASSUME NEW m \in [Ops -> OpStats], NEW start \in Nat, NEW now \in Nat
  PROVE  /\ NewInterval(start, now, m).start = start
         /\ NewInterval(start, now, m).end = now
         /\ NewInterval(start, now, m).per \in [Ops -> IntervalOp]
<1>1. ASSUME NEW op \in Ops
      PROVE  (IF m[op].count = 0 THEN NoOp
              ELSE [count  |-> m[op].count,
                    errors |-> m[op].errors,
                    rate   |-> Rate(m[op].count, now - start, NoRate),
                    pcts   |-> m[op].latencies]) \in IntervalOp
  BY DEF IntervalOp, NoOp, NoRate, Rate, OpStats
<1> QED
  BY <1>1 DEF NewInterval

\* The interval a sliver is folded into stays well typed and keeps its start.
LEMMA FoldIntervalType ==
  ASSUME NEW m \in [Ops -> OpStats], NEW prev, NEW now \in Nat,
         prev.start \in Nat, prev.per \in [Ops -> IntervalOp]
  PROVE  /\ FoldInterval(prev, now, m).start = prev.start
         /\ FoldInterval(prev, now, m).end = now
         /\ FoldInterval(prev, now, m).per \in [Ops -> IntervalOp]
<1>1. ASSUME NEW op \in Ops
      PROVE  FoldOp(prev.per[op], m[op], now - prev.start) \in IntervalOp
  BY DEF FoldOp, IntervalOp, NoOp, NoRate, Rate, OpStats
<1> QED
  BY <1>1 DEF FoldInterval

\* Every sequence is one over its own range.
LEMMA OwnRange ==
  ASSUME NEW R, NEW s \in Seq(R)
  PROVE  s \in Seq(Range(s))
<1>1. s \in [1..Len(s) -> Range(s)] /\ Len(s) \in Nat
  BY DEF Range
<1> QED
  BY <1>1

\* A sequence over its own range stays one when it grows.
LEMMA AppendOwnRange ==
  ASSUME NEW s, s \in Seq(Range(s)), NEW x
  PROVE  /\ Append(s, x) \in Seq(Range(Append(s, x)))
         /\ Len(Append(s, x)) = Len(s) + 1
         /\ \A i \in 1..Len(s) : Append(s, x)[i] = s[i]
         /\ Append(s, x)[Len(s) + 1] = x
<1> DEFINE R == Range(s) \cup {x}
           a == Append(s, x)
<1>1. s \in Seq(R) /\ x \in R
  OBVIOUS
<1> HIDE DEF R
<1>2. a \in Seq(R) /\ Len(a) = Len(s) + 1
  BY <1>1
<1>3. (\A i \in 1..Len(s) : a[i] = s[i]) /\ a[Len(s) + 1] = x
  BY <1>1
<1> HIDE DEF a
<1>4. a \in Seq(Range(a))
  BY <1>2, OwnRange
<1> QED
  BY <1>2, <1>3, <1>4 DEF a

-----------------------------------------------------------------------------
(* The type invariant. *)

\* The series part of TypeOK, apart from the history.
SeriesOK ==
  /\ intervals \in Seq(Range(intervals))
  /\ \A i \in DOMAIN intervals :
       /\ intervals[i].start \in 0..MaxTime
       /\ intervals[i].end \in 0..MaxTime
       /\ intervals[i].per \in [Ops -> IntervalOp]
  /\ lastBoundary \in 0..MaxTime
  /\ iobs \in Seq(SUBSET Ids) /\ Len(iobs) = Len(intervals)

\* What recordIntervalLocked does to the series, in the three cases it has.
LEMMA RecordIntervalType ==
  ASSUME TypeOK, RecordInterval(drainNow, merged), log' = log
  PROVE  SeriesOK'
<1> USE DEF TypeOK, SeriesOK, Ids
<1> DEFINE n == Len(intervals)
<1>0. /\ n \in Nat /\ DOMAIN intervals = 1..n
      /\ drainNow \in Nat /\ lastBoundary \in Nat
  BY BoundsAssumption
<1>1. CASE UNCHANGED <<intervals, lastBoundary, iobs>>
  BY <1>1
<1>2. CASE /\ n > 0
           /\ intervals' = [intervals EXCEPT ![n] = FoldInterval(@, drainNow, merged)]
           /\ iobs' = [iobs EXCEPT ![n] = @ \cup mobs]
           /\ lastBoundary' = drainNow
  <2> DEFINE x == FoldInterval(intervals[n], drainNow, merged)
  <2>1. /\ x.start = intervals[n].start /\ x.end = drainNow
        /\ x.per \in [Ops -> IntervalOp]
    <3>1. intervals[n].start \in Nat /\ intervals[n].per \in [Ops -> IntervalOp]
      BY <1>0, <1>2, BoundsAssumption
    <3>2. merged \in [Ops -> OpStats] /\ drainNow \in Nat
      BY <1>0
    <3> HIDE DEF TypeOK, SeriesOK, n
    <3> QED
      BY <3>1, <3>2, FoldIntervalType
  <2>2. intervals' = [intervals EXCEPT ![n] = x] /\ n \in 1..Len(intervals)
    BY <1>0, <1>2
  <2> HIDE DEF x
  <2>3. /\ intervals' \in Seq(Range(intervals'))
        /\ Len(intervals') = n
        /\ \A i \in 1..n : intervals'[i] = IF i = n THEN x ELSE intervals[i]
    <3>1. intervals \in Seq(Range(intervals))
      OBVIOUS
    <3> DEFINE e == intervals'
    <3>2. e = [intervals EXCEPT ![n] = x] /\ n \in 1..Len(intervals)
      BY <2>2
    <3> DEFINE R == Range(intervals) \cup {x}
    <3>3. intervals \in Seq(R) /\ x \in R
      BY <3>1
    <3> HIDE DEF e, R, TypeOK, SeriesOK
    <3>4. /\ e \in Seq(R) /\ Len(e) = Len(intervals)
          /\ \A i \in 1..Len(intervals) : e[i] = IF i = n THEN x ELSE intervals[i]
      BY <3>2, <3>3
    <3>5. e \in Seq(Range(e))
      BY <3>4, OwnRange
    <3> QED
      BY <3>4, <3>5 DEF e
  <2>4. DOMAIN intervals' = 1..n
    BY <2>3
  <2>5. iobs' \in Seq(SUBSET Ids) /\ Len(iobs') = n
    <3>1. iobs \in Seq(SUBSET Ids) /\ n \in 1..Len(iobs) /\ Len(iobs) = n
      BY <1>0, <1>2
    <3>2. mobs \in SUBSET Ids
      OBVIOUS
    <3> HIDE DEF TypeOK, SeriesOK, Ids
    <3>3. iobs[n] \cup mobs \in SUBSET Ids
      BY <3>1, <3>2, ElementOfSeq
    <3> QED
      BY <1>2, <3>1, <3>3, ExceptSeq
  <2> QED
    BY <1>0, <1>2, <2>1, <2>3, <2>4, <2>5
<1>3. CASE /\ intervals' = Append(intervals, NewInterval(lastBoundary, drainNow, merged))
           /\ iobs' = Append(iobs, mobs)
           /\ lastBoundary' = drainNow
  <2> DEFINE x == NewInterval(lastBoundary, drainNow, merged)
  <2>1. /\ x.start = lastBoundary /\ x.end = drainNow
        /\ x.per \in [Ops -> IntervalOp]
    BY <1>0, NewIntervalType
  <2>2. intervals' = Append(intervals, x)
    BY <1>3
  <2> HIDE DEF x
  <2>3. /\ intervals' \in Seq(Range(intervals'))
        /\ Len(intervals') = n + 1
        /\ \A i \in 1..n : intervals'[i] = intervals[i]
        /\ intervals'[n + 1] = x
    BY <2>2, AppendOwnRange
  <2>4. DOMAIN intervals' = 1..(n + 1)
    BY <2>3
  <2>5. iobs' \in Seq(SUBSET Ids) /\ Len(iobs') = n + 1
    BY <1>3
  <2>6. ASSUME NEW i \in 1..(n + 1)
        PROVE  /\ intervals'[i].start \in 0..MaxTime
               /\ intervals'[i].end \in 0..MaxTime
               /\ intervals'[i].per \in [Ops -> IntervalOp]
    <3>1. i = n + 1 \/ i \in 1..n
      BY <1>0
    <3> QED
      BY <1>0, <2>1, <2>3, <3>1
  <2> QED
    BY <1>3, <2>3, <2>4, <2>5, <2>6
<1> QED
  BY <1>1, <1>2, <1>3 DEF RecordInterval, IsSliver, FoldIntoInterval, AppendInterval

\* The initial state is well typed.
LEMMA InitType == Init => TypeOK
<1> SUFFICES ASSUME Init PROVE TypeOK
  OBVIOUS
<1>1. intervals = <<>> /\ intervals \in Seq(Range(intervals)) /\ DOMAIN intervals = {}
  BY DEF Init
<1>2. iobs \in Seq(SUBSET Ids) /\ log \in Seq(Call) /\ Len(iobs) = Len(intervals)
  BY <1>1 DEF Init
<1> QED
  BY <1>1, <1>2, EmptyWindowType, NAssumption, BoundsAssumption DEF Init, TypeOK

\* Every step preserves the types.
LEMMA NextType ==
  ASSUME TypeOK, [Next]_vars
  PROVE  TypeOK'
<1>1. CASE NewWorkerStats
  BY <1>1, NAssumption DEF NewWorkerStats, TypeOK, history, Ids
<1>2. ASSUME NEW w \in Workers, NEW op \in Ops, NEW ok \in BOOLEAN, NEW d \in Durations,
             Record(w, op, ok, d)
      PROVE  TypeOK'
  <2> DEFINE c == [op |-> op, ok |-> ok, us |-> Micros(d)]
  <2>1. c \in Call
    BY MicrosType DEF Call
  <2>2. /\ log' \in Seq(Call) /\ Len(log') = Len(log) + 1
        /\ Ids \subseteq Ids' /\ Len(log) + 1 \in Ids'
    <3>1. log \in Seq(Call) /\ log' = Append(log, c)
      BY <1>2 DEF Record, TypeOK
    <3> HIDE DEF c
    <3> QED
      BY <2>1, <3>1 DEF Ids
  <2>3. window' \in [Workers -> [Ops -> OpStats]]
    <3>1. RecordIn(window[w][op], ok, Micros(d)) \in OpStats
      BY RecordInType, MicrosType DEF TypeOK
    <3>2. window' = [window EXCEPT ![w] = [window[w] EXCEPT ![op] =
                                             RecordIn(window[w][op], ok, Micros(d))]]
      BY <1>2 DEF Record, TypeOK
    <3> QED
      BY <3>1, <3>2 DEF TypeOK
  <2>4. wobs' \in [Workers -> SUBSET Ids']
    BY <1>2, <2>2 DEF Record, TypeOK
  <2>5. mobs' \in SUBSET Ids' /\ iobs' \in Seq(SUBSET Ids')
    <3>1. mobs' = mobs /\ iobs' = iobs /\ mobs \in SUBSET Ids /\ iobs \in Seq(SUBSET Ids)
      BY <1>2 DEF Record, TypeOK
    <3>2. SUBSET Ids \subseteq SUBSET Ids'
      BY <2>2
    <3> QED
      BY <3>1, <3>2, SeqMonotonic
  <2> QED
    BY <1>2, <2>2, <2>3, <2>4, <2>5 DEF Record, TypeOK
<1>3. ASSUME NEW d \in Drainers, NEW now \in 0..MaxTime, DrainLock(d, now)
      PROVE  TypeOK'
  BY <1>3, EmptyWindowType, NAssumption DEF DrainLock, TypeOK, history, Ids
<1>4. ASSUME NEW d \in Drainers, DrainSnapshot(d)
      PROVE  TypeOK'
  <2>1. cur \in Workers /\ cur + 1 \in 1..(N + 1)
    BY <1>4, NAssumption DEF DrainSnapshot, TypeOK, Workers
  <2>2. merged' \in [Ops -> OpStats]
    BY <1>4, <2>1, MergeAllType DEF DrainSnapshot, TypeOK
  <2>3. window' \in [Workers -> [Ops -> OpStats]]
    BY <1>4, <2>1, EmptyWindowType DEF DrainSnapshot, TypeOK
  <2>4. wobs' \in [Workers -> SUBSET Ids'] /\ mobs' \in SUBSET Ids'
    BY <1>4, <2>1 DEF DrainSnapshot, TypeOK, Ids
  <2> QED
    BY <1>4, <2>1, <2>2, <2>3, <2>4 DEF DrainSnapshot, TypeOK, Ids
<1>5. ASSUME NEW d \in Drainers, DrainFold(d)
      PROVE  TypeOK'
  <2>1. SeriesOK'
    BY <1>5, RecordIntervalType DEF DrainFold
  <2>2. total' \in [Ops -> OpStats] /\ merged' \in [Ops -> OpStats]
    BY <1>5, MergeAllType, EmptyWindowType DEF DrainFold, TypeOK
  <2> QED
    BY <1>5, <2>1, <2>2, NAssumption, BoundsAssumption DEF DrainFold, TypeOK, SeriesOK, Ids
<1>6. CASE UNCHANGED vars
  BY <1>6 DEF vars, collector, history, TypeOK, Ids
<1> QED
  BY <1>1, <1>2, <1>3, <1>4, <1>5, <1>6 DEF Next

\* Every reachable state of the collector is well typed, whatever the
\* workers record and whenever the drains run.
THEOREM TypeCorrect == Spec => []TypeOK
BY InitType, NextType, PTL DEF Spec

-----------------------------------------------------------------------------
(* Exactly once: EachCallHeldOnce is inductive relative to TypeOK. *)

\* A tally that counts nothing is the tally of no call.
LEMMA NothingHeld ==
  ASSUME NEW l \in Seq(Call), NEW S \in SUBSET (1..Len(l)), NEW a,
         Tallies(l, a, S), NothingIn(a)
  PROVE  S = {}
<1> SUFFICES ASSUME NEW i \in S PROVE FALSE
  OBVIOUS
<1>1. l[i] \in Call
  BY ElementOfSeq
<1> DEFINE op == l[i].op
<1>2. op \in Ops
  BY <1>1 DEF Call
<1>3. i \in CallsOf(l, S, op)
  BY DEF CallsOf
<1> HIDE DEF op
<1>4. Cardinality(CallsOf(l, S, op)) = 0
  BY <1>2 DEF Tallies, NothingIn
<1>5. IsFiniteSet(CallsOf(l, S, op))
  BY FiniteSelections
<1> QED
  BY <1>3, <1>4, <1>5, FS_EmptySet

\* Record keeps the tally of its window exact.
LEMMA RecordedTally ==
  ASSUME NEW l \in Seq(Call), NEW S \in SUBSET (1..Len(l)), NEW a \in [Ops -> OpStats],
         Tallies(l, a, S), NEW c \in Call
  PROVE  Tallies(Append(l, c), [a EXCEPT ![c.op] = RecordIn(a[c.op], c.ok, c.us)],
                 S \cup {Len(l) + 1})
<1> DEFINE k == Len(l) + 1
           m == Append(l, c)
           T == S \cup {k}
           b == [a EXCEPT ![c.op] = RecordIn(a[c.op], c.ok, c.us)]
<1>1. /\ m[k] = c /\ k \notin S
      /\ \A i \in S : m[i] = l[i]
  OBVIOUS
<1>2. c.op \in Ops /\ c.ok \in BOOLEAN /\ c.us \in Lat
  BY DEF Call
<1> HIDE DEF k, m
<1> SUFFICES ASSUME NEW op \in Ops
             PROVE  /\ b[op].count = Cardinality(CallsOf(m, T, op))
                    /\ b[op].errors = Cardinality(FailuresOf(m, T, op))
                    /\ \A u \in Lat : b[op].latencies[u] = Cardinality(SamplesOf(m, T, op, u))
  BY DEF Tallies, k, m
<1>3. /\ a[op] \in OpStats
      /\ a[op].count = Cardinality(CallsOf(l, S, op))
      /\ a[op].errors = Cardinality(FailuresOf(l, S, op))
      /\ \A u \in Lat : a[op].latencies[u] = Cardinality(SamplesOf(l, S, op, u))
  BY DEF Tallies
<1>4. CASE op # c.op
  <2>1. b[op] = a[op]
    BY <1>4
  <2>2. CallsOf(m, T, op) = CallsOf(l, S, op)
    BY <1>1, <1>4 DEF CallsOf
  <2>3. FailuresOf(m, T, op) = FailuresOf(l, S, op)
    BY <1>1, <2>2 DEF FailuresOf, CallsOf
  <2>4. \A u \in Lat : SamplesOf(m, T, op, u) = SamplesOf(l, S, op, u)
    BY <1>1, <2>2 DEF SamplesOf, CallsOf
  <2> QED
    BY <1>3, <2>1, <2>2, <2>3, <2>4
<1>5. CASE op = c.op
  <2>1. b[op] = RecordIn(a[op], c.ok, c.us)
    BY <1>5
  <2>2. CallsOf(m, T, op) = CallsOf(l, S, op) \cup {k}
    BY <1>1, <1>5 DEF CallsOf
  <2>3. FailuresOf(m, T, op) = IF c.ok THEN FailuresOf(l, S, op)
                               ELSE FailuresOf(l, S, op) \cup {k}
    BY <1>1, <2>2 DEF FailuresOf, CallsOf
  <2>4. \A u \in Lat : SamplesOf(m, T, op, u) =
                         IF c.ok /\ c.us = u THEN SamplesOf(l, S, op, u) \cup {k}
                         ELSE SamplesOf(l, S, op, u)
    BY <1>1, <2>2 DEF SamplesOf, CallsOf
  <2>5. /\ Cardinality(CallsOf(l, S, op) \cup {k}) = Cardinality(CallsOf(l, S, op)) + 1
        /\ Cardinality(FailuresOf(l, S, op) \cup {k}) = Cardinality(FailuresOf(l, S, op)) + 1
    <3>1. IsFiniteSet(CallsOf(l, S, op)) /\ IsFiniteSet(FailuresOf(l, S, op))
      BY FiniteSelections
    <3>2. k \notin CallsOf(l, S, op) /\ k \notin FailuresOf(l, S, op)
      BY <1>1 DEF CallsOf, FailuresOf
    <3> QED
      BY <3>1, <3>2, FS_AddElement
  <2>6. ASSUME NEW u
        PROVE  Cardinality(SamplesOf(l, S, op, u) \cup {k}) = Cardinality(SamplesOf(l, S, op, u)) + 1
    <3>1. IsFiniteSet(SamplesOf(l, S, op, u))
      BY FiniteSelections
    <3>2. k \notin SamplesOf(l, S, op, u)
      BY <1>1 DEF CallsOf, SamplesOf
    <3> QED
      BY <3>1, <3>2, FS_AddElement
  <2> HIDE DEF b, T
  <2>7. b[op].count = Cardinality(CallsOf(m, T, op))
    BY <1>3, <2>1, <2>2, <2>5 DEF RecordIn
  <2>8. b[op].errors = Cardinality(FailuresOf(m, T, op))
    BY <1>3, <2>1, <2>3, <2>5 DEF RecordIn
  <2>9. ASSUME NEW u \in Lat
        PROVE  b[op].latencies[u] = Cardinality(SamplesOf(m, T, op, u))
    <3>1. b[op].latencies[u] = IF c.ok /\ c.us = u THEN a[op].latencies[u] + 1
                               ELSE a[op].latencies[u]
      BY <1>2, <1>3, <2>1 DEF RecordIn, OpStats
    <3> QED
      BY <1>3, <2>4, <2>6, <3>1
  <2> QED
    BY <2>7, <2>8, <2>9 DEF b, T
<1> QED
  BY <1>4, <1>5

\* An operation with no calls has no failures.
LEMMA NoCallsNoFailures ==
  ASSUME NEW l \in Seq(Call), NEW S \in SUBSET (1..Len(l)), NEW op,
         Cardinality(CallsOf(l, S, op)) = 0
  PROVE  Cardinality(FailuresOf(l, S, op)) = 0
<1>1. IsFiniteSet(CallsOf(l, S, op))
  BY FiniteSelections
<1>2. CallsOf(l, S, op) = {}
  BY <1>1, FS_EmptySet
<1>3. FailuresOf(l, S, op) = {}
  BY <1>2 DEF FailuresOf
<1> QED
  BY <1>3, FS_EmptySet

\* A new interval covers the calls of the window it is made from.
LEMMA NewCovers ==
  ASSUME NEW l \in Seq(Call), NEW S \in SUBSET (1..Len(l)), NEW m, Tallies(l, m, S),
         NEW start, NEW now
  PROVE  Covers(l, NewInterval(start, now, m).per, S)
<1> SUFFICES ASSUME NEW op \in Ops
             PROVE  LET o == NewInterval(start, now, m).per[op] IN
                    /\ o.count = Cardinality(CallsOf(l, S, op))
                    /\ o.errors = Cardinality(FailuresOf(l, S, op))
  BY DEF Covers
<1>1. /\ m[op].count = Cardinality(CallsOf(l, S, op))
      /\ m[op].errors = Cardinality(FailuresOf(l, S, op))
  BY DEF Tallies
<1>2. CASE m[op].count = 0
  BY <1>1, <1>2, NoCallsNoFailures DEF NewInterval, NoOp
<1>3. CASE m[op].count # 0
  BY <1>1, <1>3 DEF NewInterval
<1> QED
  BY <1>2, <1>3

\* A sliver folded into the preceding interval extends what it covers.
LEMMA FoldCovers ==
  ASSUME NEW l \in Seq(Call), NEW S \in SUBSET (1..Len(l)), NEW T \in SUBSET (1..Len(l)),
         S \cap T = {}, NEW prev, Covers(l, prev.per, S), NEW m, Tallies(l, m, T), NEW now
  PROVE  Covers(l, FoldInterval(prev, now, m).per, S \cup T)
<1> SUFFICES ASSUME NEW op \in Ops
             PROVE  LET o == FoldInterval(prev, now, m).per[op] IN
                    /\ o.count = Cardinality(CallsOf(l, S \cup T, op))
                    /\ o.errors = Cardinality(FailuresOf(l, S \cup T, op))
  BY DEF Covers
<1> DEFINE o == FoldInterval(prev, now, m).per[op]
<1>1. /\ m[op].count = Cardinality(CallsOf(l, T, op))
      /\ m[op].errors = Cardinality(FailuresOf(l, T, op))
      /\ prev.per[op].count = Cardinality(CallsOf(l, S, op))
      /\ prev.per[op].errors = Cardinality(FailuresOf(l, S, op))
  BY DEF Tallies, Covers
<1>2. /\ Cardinality(CallsOf(l, S \cup T, op)) =
            Cardinality(CallsOf(l, S, op)) + Cardinality(CallsOf(l, T, op))
      /\ Cardinality(FailuresOf(l, S \cup T, op)) =
            Cardinality(FailuresOf(l, S, op)) + Cardinality(FailuresOf(l, T, op))
  BY DisjointSelections, ZenonT(60)
<1>3. o = FoldOp(prev.per[op], m[op], now - prev.start)
  BY DEF FoldInterval
<1> HIDE DEF o
<1>4. CASE prev.per[op].count + m[op].count = 0
  <2>1. Cardinality(CallsOf(l, S \cup T, op)) = 0
    BY <1>1, <1>2, <1>4
  <2>2. S \cup T \in SUBSET (1..Len(l))
    OBVIOUS
  <2>3. Cardinality(FailuresOf(l, S \cup T, op)) = 0
    BY <2>1, <2>2, NoCallsNoFailures
  <2> QED
    BY <1>3, <1>4, <2>1, <2>3 DEF FoldOp, NoOp, o
<1>5. CASE prev.per[op].count + m[op].count # 0
  BY <1>1, <1>2, <1>3, <1>5 DEF FoldOp, o
<1> QED
  BY <1>4, <1>5

\* Membership in the union of a function's values.
LEMMA InUnion ==
  ASSUME NEW f, NEW x
  PROVE  x \in UNION Range(f) <=> \E i \in DOMAIN f : x \in f[i]
BY DEF Range

\* Every part of the log the model speaks of consists of positions of it.
LEMMA HeldArePositions ==
  ASSUME TypeOK
  PROVE  /\ Drained \in SUBSET Ids /\ mobs \in SUBSET Ids
         /\ \A w \in Workers : wobs[w] \in SUBSET Ids
         /\ \A i \in DOMAIN iobs : iobs[i] \in SUBSET Ids
<1>1. \A i \in DOMAIN iobs : iobs[i] \in SUBSET Ids
  BY DEF TypeOK
<1>2. Drained \in SUBSET Ids
  BY <1>1 DEF Drained, Range
<1> QED
  BY <1>1, <1>2 DEF TypeOK

\* Nothing is held initially, and every structure is empty.
LEMMA InitHeld == Init => EachCallHeldOnce
<1> SUFFICES ASSUME Init PROVE EachCallHeldOnce
  OBVIOUS
<1>1. Ids = {} /\ Drained = {} /\ UNION Range(wobs) = {} /\ DOMAIN iobs = {}
  BY DEF Init, Ids, Drained, Range
<1>2. HeldOnce
  BY <1>1 DEF Init, HeldOnce
<1>3. Tallied
  BY <1>1, EmptyTally DEF Init, Tallied
<1> QED
  BY <1>2, <1>3 DEF EachCallHeldOnce

\* Record: the new position joins the worker's window and nothing else.
LEMMA RecordHeld ==
  ASSUME TypeOK, EachCallHeldOnce,
         NEW w \in Workers, NEW op \in Ops, NEW ok \in BOOLEAN, NEW d \in Durations,
         Record(w, op, ok, d)
  PROVE  EachCallHeldOnce'
<1> DEFINE c == [op |-> op, ok |-> ok, us |-> Micros(d)]
           k == Len(log) + 1
<1>1. /\ c \in Call /\ log \in Seq(Call) /\ log' = Append(log, c)
      /\ c.op = op /\ c.ok = ok /\ c.us = Micros(d)
  BY MicrosType DEF Call, Record, TypeOK
<1>2. /\ wobs' = [wobs EXCEPT ![w] = @ \cup {k}]
      /\ mobs' = mobs /\ iobs' = iobs /\ intervals' = intervals /\ mu' = mu
      /\ merged' = merged /\ total' = total
      /\ window' = [window EXCEPT ![w] = [window[w] EXCEPT ![op] =
                                             RecordIn(window[w][op], ok, Micros(d))]]
  BY DEF Record, TypeOK
<1> HIDE DEF c
<1>3. k \notin Ids /\ Ids' = Ids \cup {k} /\ Drained' = Drained
  BY <1>1, <1>2 DEF Ids, Drained
<1>4. /\ Drained \in SUBSET Ids /\ mobs \in SUBSET Ids
      /\ \A v \in Workers : wobs[v] \in SUBSET Ids
      /\ \A i \in DOMAIN iobs : iobs[i] \in SUBSET Ids
  BY HeldArePositions
<1>5. /\ wobs'[w] = wobs[w] \cup {k}
      /\ \A v \in Workers : v # w => wobs'[v] = wobs[v]
      /\ DOMAIN wobs = Workers /\ DOMAIN wobs' = Workers
  BY <1>2 DEF TypeOK
<1> HIDE DEF k
<1>6. HeldOnce'
  <2>1. UNION Range(wobs') = (UNION Range(wobs)) \cup {k}
    <3>1. \A x : x \in UNION Range(wobs') <=> x \in (UNION Range(wobs)) \cup {k}
      BY <1>5, InUnion
    <3> QED
      BY <3>1
  <2>2. Ids' = Drained' \cup mobs' \cup UNION Range(wobs')
    BY <1>2, <1>3, <2>1 DEF EachCallHeldOnce, HeldOnce
  <2>3. \A v, x \in Workers : v # x => wobs'[v] \cap wobs'[x] = {}
    BY <1>3, <1>4, <1>5 DEF EachCallHeldOnce, HeldOnce
  <2>4. \A v \in Workers : wobs'[v] \cap (mobs' \cup Drained') = {}
    BY <1>2, <1>3, <1>4, <1>5 DEF EachCallHeldOnce, HeldOnce
  <2> QED
    BY <1>2, <1>3, <2>2, <2>3, <2>4 DEF EachCallHeldOnce, HeldOnce
<1>7. Tallied'
  <2>1. ASSUME NEW v \in Workers PROVE Tallies(log', window'[v], wobs'[v])
    <3>1. Tallies(log, window[v], wobs[v]) /\ wobs[v] \in SUBSET (1..Len(log))
      BY <1>4 DEF EachCallHeldOnce, Tallied, Ids
    <3>2. CASE v # w
      <4>1. window'[v] = window[v] /\ wobs'[v] = wobs[v]
        BY <1>2, <1>5, <3>2 DEF TypeOK
      <4> QED
        BY <1>1, <3>1, <4>1, OldTallies
    <3>3. CASE v = w
      <4>1. /\ window[w] \in [Ops -> OpStats]
            /\ window'[w] = [window[w] EXCEPT ![c.op] = RecordIn(window[w][c.op], c.ok, c.us)]
        BY <1>1, <1>2 DEF TypeOK
      <4>2. Tallies(Append(log, c), window'[w], wobs[w] \cup {Len(log) + 1})
        BY <1>1, <3>1, <3>3, <4>1, RecordedTally
      <4> QED
        BY <1>1, <1>5, <3>3, <4>2 DEF k
    <3> QED
      BY <3>2, <3>3
  <2>2. Tallies(log', merged', mobs') /\ Tallies(log', total', Drained')
    BY <1>1, <1>2, <1>3, <1>4, OldTallies DEF EachCallHeldOnce, Tallied, Ids
  <2>3. ASSUME NEW i \in DOMAIN intervals'
        PROVE  Covers(log', intervals'[i].per, iobs'[i])
    <3>1. DOMAIN intervals = DOMAIN iobs
      BY DEF TypeOK
    <3>2. Covers(log, intervals[i].per, iobs[i]) /\ iobs[i] \in SUBSET (1..Len(log))
      BY <1>2, <1>4, <3>1 DEF EachCallHeldOnce, Tallied, Ids
    <3> QED
      BY <1>1, <1>2, <3>2, OldTallies
  <2> QED
    BY <2>1, <2>2, <2>3 DEF Tallied
<1> QED
  BY <1>6, <1>7 DEF EachCallHeldOnce

\* Steps that leave the windows, the total, the series and the history alone
\* keep every call where it is.
LEMMA LockHeld ==
  ASSUME TypeOK, EachCallHeldOnce, NEW d \in Drainers, NEW now, DrainLock(d, now)
  PROVE  EachCallHeldOnce'
<1>1. mobs = {} /\ mu' # NoDrainer
  BY DrainersAssumption DEF EachCallHeldOnce, HeldOnce, DrainLock
<1>2. HeldOnce'
  BY <1>1 DEF EachCallHeldOnce, HeldOnce, DrainLock, history, Ids, Drained
<1>3. Tallies(log, EmptyWindow, {})
  BY EmptyTally
<1>4. Tallied'
  BY <1>1, <1>3 DEF EachCallHeldOnce, Tallied, DrainLock, history, Drained
<1> QED
  BY <1>2, <1>4 DEF EachCallHeldOnce

\* snapshot: the calls of one window move to the drain in progress.
LEMMA SnapshotHeld ==
  ASSUME TypeOK, EachCallHeldOnce, NEW d \in Drainers, DrainSnapshot(d)
  PROVE  EachCallHeldOnce'
<1>1. cur \in Workers /\ mu # NoDrainer
  BY NAssumption, DrainersAssumption DEF DrainSnapshot, TypeOK, Workers
<1>2. /\ mobs' = mobs \cup wobs[cur]
      /\ wobs'[cur] = {}
      /\ \A w \in Workers : w # cur => wobs'[w] = wobs[w]
      /\ DOMAIN wobs = Workers /\ DOMAIN wobs' = Workers
      /\ window'[cur] = EmptyWindow
      /\ \A w \in Workers : w # cur => window'[w] = window[w]
      /\ merged' = MergeAll(merged, window[cur])
      /\ log' = log /\ iobs' = iobs /\ intervals' = intervals /\ mu' = mu /\ total' = total
  BY <1>1 DEF DrainSnapshot, TypeOK
<1>3. Ids' = Ids /\ Drained' = Drained
  BY <1>2 DEF Ids, Drained
<1>4. HeldOnce'
  <2>1. \A x : x \in UNION Range(wobs) <=> x \in (UNION Range(wobs')) \cup wobs[cur]
    BY <1>1, <1>2, InUnion
  <2>2. Ids' = Drained' \cup mobs' \cup UNION Range(wobs')
    BY <1>2, <1>3, <2>1 DEF EachCallHeldOnce, HeldOnce
  <2>3. \A v, w \in Workers : v # w => wobs'[v] \cap wobs'[w] = {}
    BY <1>2 DEF EachCallHeldOnce, HeldOnce
  <2>4. \A w \in Workers : wobs'[w] \cap (mobs' \cup Drained') = {}
    BY <1>1, <1>2, <1>3 DEF EachCallHeldOnce, HeldOnce
  <2>5. mobs' \cap Drained' = {}
    BY <1>1, <1>2, <1>3 DEF EachCallHeldOnce, HeldOnce
  <2> QED
    BY <1>1, <1>2, <2>2, <2>3, <2>4, <2>5 DEF EachCallHeldOnce, HeldOnce
<1>5. Tallied'
  <2>1. ASSUME NEW w \in Workers PROVE Tallies(log, window'[w], wobs'[w])
    BY <1>2, EmptyTally DEF EachCallHeldOnce, Tallied
  <2>2. Tallies(log, merged', mobs')
    <3>1. /\ log \in Seq(Call) /\ mobs \in SUBSET (1..Len(log))
          /\ wobs[cur] \in SUBSET (1..Len(log)) /\ mobs \cap wobs[cur] = {}
      BY <1>1 DEF TypeOK, EachCallHeldOnce, HeldOnce, Ids
    <3>2. Tallies(log, merged, mobs) /\ Tallies(log, window[cur], wobs[cur])
      BY <1>1 DEF EachCallHeldOnce, Tallied
    <3> QED
      BY <1>2, <3>1, <3>2, MergedTally
  <2> QED
    BY <1>2, <1>3, <2>1, <2>2 DEF EachCallHeldOnce, Tallied
<1> QED
  BY <1>4, <1>5 DEF EachCallHeldOnce

\* The fold: the calls of the drain in progress move to the series, into the
\* interval whose numbers they enter, and to the run total.
LEMMA FoldHeld ==
  ASSUME TypeOK, EachCallHeldOnce, NEW d \in Drainers, DrainFold(d)
  PROVE  EachCallHeldOnce'
<1> DEFINE n == Len(intervals)
<1>1. /\ total' = MergeAll(total, merged) /\ merged' = EmptyWindow /\ mobs' = {}
      /\ window' = window /\ log' = log /\ wobs' = wobs /\ mu' = NoDrainer
      /\ RecordInterval(drainNow, merged)
  BY DEF DrainFold
<1>2. /\ log \in Seq(Call) /\ Drained \in SUBSET Ids /\ mobs \in SUBSET Ids
      /\ Drained \cap mobs = {} /\ iobs \in Seq(SUBSET Ids)
      /\ n \in Nat /\ Len(iobs) = n /\ DOMAIN intervals = 1..n /\ DOMAIN iobs = 1..n
      /\ Ids = 1..Len(log)
  BY HeldArePositions DEF EachCallHeldOnce, HeldOnce, TypeOK, Ids
<1>3. /\ Tallies(log, merged, mobs) /\ Tallies(log, total, Drained)
      /\ \A i \in 1..n : Covers(log, intervals[i].per, iobs[i])
      /\ \A i, j \in 1..n : i # j => iobs[i] \cap iobs[j] = {}
  BY <1>2 DEF EachCallHeldOnce, Tallied, HeldOnce
<1>4. \A i \in 1..n : iobs[i] \in SUBSET Ids /\ iobs[i] \cap mobs = {}
  <2>1. \A i \in 1..n : iobs[i] \subseteq Drained
    BY <1>2, InUnion DEF Drained
  <2> QED
    BY <1>2, <2>1
<1> DEFINE Moved ==
             /\ Drained' = Drained \cup mobs
             /\ \A i, j \in DOMAIN iobs' : i # j => iobs'[i] \cap iobs'[j] = {}
             /\ \A i \in DOMAIN intervals' : Covers(log, intervals'[i].per, iobs'[i])
<1>5. ASSUME NothingIn(merged), UNCHANGED <<intervals, lastBoundary, iobs>>
      PROVE  Moved
  <2>1. mobs = {}
    BY <1>2, <1>3, <1>5, NothingHeld
  <2> QED
    BY <1>2, <1>3, <1>5, <2>1 DEF Drained
<1>6. ASSUME n > 0,
             intervals' = [intervals EXCEPT ![n] = FoldInterval(@, drainNow, merged)],
             iobs' = [iobs EXCEPT ![n] = @ \cup mobs]
      PROVE  Moved
  <2>1. n \in 1..n /\ n \in 1..Len(iobs)
    BY <1>2, <1>6
  <2>3. /\ DOMAIN iobs' = 1..n /\ iobs'[n] = iobs[n] \cup mobs
        /\ \A i \in 1..n : i # n => iobs'[i] = iobs[i]
    BY <1>2, <1>6, <2>1
  <2>2. Drained' = Drained \cup mobs
    <3>1. \A x : x \in UNION Range(iobs') <=> x \in (UNION Range(iobs)) \cup mobs
      BY <1>2, <2>1, <2>3, InUnion, ZenonT(60)
    <3> QED
      BY <3>1, SMTT(60) DEF Drained
  <2>4. /\ DOMAIN intervals' = 1..n
        /\ intervals'[n] = FoldInterval(intervals[n], drainNow, merged)
        /\ \A i \in 1..n : i # n => intervals'[i] = intervals[i]
    BY <1>2, <1>6, <2>1
  <2>5. Covers(log, intervals'[n].per, iobs'[n])
    <3>1. iobs[n] \in SUBSET (1..Len(log)) /\ mobs \in SUBSET (1..Len(log))
          /\ iobs[n] \cap mobs = {} /\ Covers(log, intervals[n].per, iobs[n])
      BY <1>2, <1>3, <1>4, <2>1
    <3> QED
      <4>1. Covers(log, FoldInterval(intervals[n], drainNow, merged).per, iobs[n] \cup mobs)
        BY <1>2, <1>3, <3>1, FoldCovers
      <4> QED
        BY <2>3, <2>4, <4>1
  <2>6. \A i, j \in 1..n : i # j => iobs'[i] \cap iobs'[j] = {}
    BY <1>3, <1>4, <2>3
  <2> QED
    BY <1>3, <2>2, <2>3, <2>4, <2>5, <2>6
<1>7. ASSUME intervals' = Append(intervals, NewInterval(lastBoundary, drainNow, merged)),
             iobs' = Append(iobs, mobs)
      PROVE  Moved
  <2>1. n + 1 \in 1..(n + 1) /\ \A i \in 1..(n + 1) : i = n + 1 \/ i \in 1..n
    BY <1>2
  <2>3. /\ DOMAIN iobs' = 1..(n + 1) /\ iobs'[n + 1] = mobs
        /\ \A i \in 1..n : iobs'[i] = iobs[i]
    BY <1>2, <1>7
  <2>2. Drained' = Drained \cup mobs
    <3>1. ASSUME NEW x, x \in UNION Range(iobs') PROVE x \in (UNION Range(iobs)) \cup mobs
      BY <1>2, <2>1, <2>3, <3>1, InUnion
    <3>2. ASSUME NEW x \in UNION Range(iobs) PROVE x \in UNION Range(iobs')
      <4>1. PICK i \in 1..n : x \in iobs[i]
        BY <1>2, InUnion
      <4>2. i \in 1..(n + 1)
        BY <1>2
      <4> QED
        BY <2>3, <4>1, <4>2, InUnion
    <3>3. ASSUME NEW x \in mobs PROVE x \in UNION Range(iobs')
      BY <2>1, <2>3, InUnion
    <3> QED
      BY <3>1, <3>2, <3>3 DEF Drained
  <2>4. /\ DOMAIN intervals' = 1..(n + 1)
        /\ intervals'[n + 1] = NewInterval(lastBoundary, drainNow, merged)
        /\ \A i \in 1..n : intervals'[i] = intervals[i]
    <3>1. intervals \in Seq(Range(intervals))
      BY DEF TypeOK
    <3>2. /\ Len(intervals') = n + 1 /\ intervals' \in Seq(Range(intervals'))
          /\ \A i \in 1..n : intervals'[i] = intervals[i]
          /\ intervals'[n + 1] = NewInterval(lastBoundary, drainNow, merged)
      BY <1>7, <3>1, AppendOwnRange
    <3> QED
      BY <3>2
  <2>5. Covers(log, intervals'[n + 1].per, iobs'[n + 1])
    BY <1>2, <1>3, <2>3, <2>4, NewCovers
  <2>7. \A i, j \in 1..(n + 1) : i # j => iobs'[i] \cap iobs'[j] = {}
    BY <1>3, <1>4, <2>1, <2>3
  <2>8. \A i \in 1..(n + 1) : Covers(log, intervals'[i].per, iobs'[i])
    BY <1>3, <2>1, <2>3, <2>4, <2>5
  <2> QED
    BY <2>2, <2>3, <2>4, <2>7, <2>8
<1>8. Moved
  BY <1>1, <1>5, <1>6, <1>7 DEF RecordInterval, IsSliver, FoldIntoInterval, AppendInterval
<1>9. Tallies(log, total', Drained')
  <2>1. Drained \in SUBSET (1..Len(log)) /\ mobs \in SUBSET (1..Len(log))
    BY <1>2
  <2> QED
    BY <1>1, <1>2, <1>3, <1>8, <2>1, MergedTally
<1>10. HeldOnce'
  <2>1. Ids' = Ids
    BY <1>1 DEF Ids
  <2> QED
    BY <1>1, <1>8, <2>1 DEF EachCallHeldOnce, HeldOnce
<1>11. Tallied'
  BY <1>1, <1>8, <1>9, EmptyTally DEF EachCallHeldOnce, Tallied
<1> QED
  BY <1>10, <1>11 DEF EachCallHeldOnce

\* No step loses, duplicates or misfiles a call.
LEMMA NextHeld ==
  ASSUME TypeOK, EachCallHeldOnce, [Next]_vars
  PROVE  EachCallHeldOnce'
<1>1. CASE NewWorkerStats \/ UNCHANGED vars
  BY <1>1 DEF NewWorkerStats, vars, collector, history,
              EachCallHeldOnce, HeldOnce, Tallied, Ids, Drained
<1>2. CASE \E w \in Workers, op \in Ops, ok \in BOOLEAN, d \in Durations : Record(w, op, ok, d)
  BY <1>2, RecordHeld
<1>3. CASE \E d \in Drainers, now \in 0..MaxTime : DrainLock(d, now)
  BY <1>3, LockHeld
<1>4. CASE \E d \in Drainers : DrainSnapshot(d)
  BY <1>4, SnapshotHeld
<1>5. CASE \E d \in Drainers : DrainFold(d)
  BY <1>5, FoldHeld
<1> QED
  BY <1>1, <1>2, <1>3, <1>4, <1>5 DEF Next

\* Every Record call is accounted for exactly once, under its own operation
\* and outcome, at every moment of every run: drain neither loses a window
\* nor counts one twice.
THEOREM ExactlyOnce == Spec => []EachCallHeldOnce
BY TypeCorrect, InitHeld, NextHeld, PTL DEF Spec

\* With the windows empty and c.mu free, the run total Finalize copies is
\* the exact tally of all calls made.
THEOREM TotalComplete == Spec => []QuiescentTotal
<1>1. ASSUME TypeOK, EachCallHeldOnce PROVE QuiescentTotal
  <2> SUFFICES ASSUME mu = NoDrainer, \A w \in Workers : NothingIn(window[w])
               PROVE  Tallies(log, total, Ids)
    BY DEF QuiescentTotal
  <2>1. ASSUME NEW w \in Workers PROVE wobs[w] = {}
    <3>1. /\ log \in Seq(Call) /\ wobs[w] \in SUBSET (1..Len(log))
          /\ Tallies(log, window[w], wobs[w])
      BY <1>1 DEF TypeOK, EachCallHeldOnce, Tallied, Ids
    <3> QED
      BY <3>1, NothingHeld
  <2>2. UNION Range(wobs) = {}
    <3>1. DOMAIN wobs = Workers
      BY <1>1 DEF TypeOK
    <3> QED
      BY <2>1, <3>1, InUnion
  <2>3. Ids = Drained
    BY <1>1, <2>2 DEF EachCallHeldOnce, HeldOnce
  <2> QED
    BY <1>1, <2>3 DEF EachCallHeldOnce, Tallied
<1> QED
  BY <1>1, TypeCorrect, ExactlyOnce, PTL

-----------------------------------------------------------------------------
(* The shape of the series. *)

\* Positions of a sequence of length n that have a successor.
LEMMA Successors ==
  ASSUME NEW n \in Nat
  PROVE  /\ \A i \in 1..(n - 1) : i \in 1..n /\ i # n /\ i + 1 \in 1..n
         /\ \A i \in 1..n : i # n => i \in 1..(n - 1) /\ i + 1 \in 1..n
OBVIOUS

\* recordIntervalLocked keeps the series a tiling of the run.
LEMMA NextTiles ==
  ASSUME TypeOK, SeriesTilesRun, [Next]_vars
  PROVE  SeriesTilesRun'
<1> DEFINE n == Len(intervals)
<1>0. n \in Nat /\ DOMAIN intervals = 1..n /\ (intervals = <<>> <=> n = 0)
  BY DEF TypeOK
<1>1. ASSUME UNCHANGED <<intervals, lastBoundary>>
      PROVE  SeriesTilesRun'
  BY <1>1, Zenon DEF SeriesTilesRun
<1>2. ASSUME n > 0, lastBoundary' = drainNow,
             intervals' = [intervals EXCEPT ![n] = FoldInterval(@, drainNow, merged)]
      PROVE  SeriesTilesRun'
  <2>1. /\ Len(intervals') = n /\ intervals' # <<>>
        /\ intervals'[n] = FoldInterval(intervals[n], drainNow, merged)
        /\ \A i \in 1..n : i # n => intervals'[i] = intervals[i]
    <3>1. intervals \in Seq(Range(intervals))
      BY DEF TypeOK
    <3> DEFINE x == FoldInterval(intervals[n], drainNow, merged)
               R == Range(intervals) \cup {x}
    <3>2. intervals \in Seq(R) /\ x \in R /\ n \in 1..Len(intervals)
      BY <1>0, <1>2, <3>1
    <3>3. intervals' = [intervals EXCEPT ![n] = x]
      BY <1>2
    <3> HIDE DEF x, R
    <3>4. intervals' \in Seq(R) /\ Len(intervals') = n /\ intervals'[n] = x
          /\ \A i \in 1..n : i # n => intervals'[i] = intervals[i]
      BY <3>2, <3>3
    <3>5. intervals' # <<>>
      <4>1. Len(intervals') > 0
        BY <1>2, <3>4, Zenon
      <4>2. Len(<<>>) = 0 /\ ~(0 > 0)
        OBVIOUS
      <4> QED
        BY <4>1, <4>2, Zenon
    <3> QED
      BY <3>4, <3>5 DEF x
  <2>2. intervals'[n].start = intervals[n].start /\ intervals'[n].end = drainNow
    BY <2>1 DEF FoldInterval
  <2>3. intervals'[1].start = 0
    <3>1. intervals[1].start = 0
      BY <1>0, <1>2 DEF SeriesTilesRun
    <3>2. 1 \in 1..n
      BY <1>0, <1>2
    <3>3. CASE n = 1
      BY <2>2, <3>1, <3>3
    <3>4. CASE n # 1
      BY <2>1, <3>1, <3>2, <3>4
    <3> QED
      BY <3>3, <3>4
  <2>4. ASSUME NEW i \in 1..(n - 1)
        PROVE  intervals'[i + 1].start = intervals'[i].end
    <3>1. intervals[i + 1].start = intervals[i].end
      BY Zenon DEF SeriesTilesRun
    <3>2. i \in 1..n /\ i # n /\ i + 1 \in 1..n
      BY <1>0, Successors
    <3> QED
      BY <2>1, <2>2, <3>1, <3>2
  <2> QED
    BY <1>2, <2>1, <2>2, <2>3, <2>4 DEF SeriesTilesRun
<1>3. ASSUME lastBoundary' = drainNow,
             intervals' = Append(intervals, NewInterval(lastBoundary, drainNow, merged))
      PROVE  SeriesTilesRun'
  <2>1. /\ Len(intervals') = n + 1 /\ intervals' # <<>>
        /\ \A i \in 1..n : intervals'[i] = intervals[i]
        /\ intervals'[n + 1].start = lastBoundary
        /\ intervals'[n + 1].end = drainNow
    <3>1. intervals \in Seq(Range(intervals))
      BY DEF TypeOK
    <3>2. /\ Len(intervals') = n + 1 /\ intervals' \in Seq(Range(intervals'))
          /\ \A i \in 1..n : intervals'[i] = intervals[i]
          /\ intervals'[n + 1] = NewInterval(lastBoundary, drainNow, merged)
      BY <1>3, <3>1, AppendOwnRange
    <3> QED
      BY <1>0, <3>2 DEF NewInterval
  <2>2. intervals'[1].start = 0
    BY <1>0, <2>1 DEF SeriesTilesRun
  <2>3. ASSUME NEW i \in 1..n
        PROVE  intervals'[i + 1].start = intervals'[i].end
    <3>1. CASE i = n
      BY <1>0, <2>1, <3>1 DEF SeriesTilesRun
    <3>2. CASE i # n
      <4>1. i \in 1..(n - 1) /\ i + 1 \in 1..n
        BY <1>0, <3>2, Successors
      <4> QED
        BY <2>1, <4>1, SMTT(60) DEF SeriesTilesRun
    <3> QED
      BY <3>1, <3>2
  <2> QED
    BY <1>0, <1>3, <2>1, <2>2, <2>3 DEF SeriesTilesRun
<1>4. ASSUME NEW d \in Drainers, DrainFold(d)
      PROVE  SeriesTilesRun'
  BY <1>1, <1>2, <1>3, <1>4 DEF DrainFold, RecordInterval, IsSliver, FoldIntoInterval, AppendInterval
<1>5. CASE ~\E d \in Drainers : DrainFold(d)
  <2>1. UNCHANGED <<intervals, lastBoundary>>
    BY <1>5 DEF Next, NewWorkerStats, Record, DrainLock, DrainSnapshot, vars, collector
  <2> QED
    BY <1>1, <2>1
<1> QED
  BY <1>4, <1>5

\* The series of a run has neither gaps nor overlaps: each interval starts
\* where the previous one ended, also after idle windows and folded slivers.
THEOREM SeriesTiles == Spec => []SeriesTilesRun
<1>1. Init => SeriesTilesRun
  BY DEF Init, SeriesTilesRun
<1> QED
  BY <1>1, NextTiles, TypeCorrect, PTL DEF Spec

\* A drain rewrites the last interval at most, and drops none.
THEOREM SeriesFrozen == Spec => ClosedIntervalsFrozen
<1> DEFINE Frozen == /\ Len(intervals') >= Len(intervals)
                     /\ \A i \in 1..(Len(intervals) - 1) : intervals'[i] = intervals[i]
<1>1. ASSUME TypeOK, [Next]_vars PROVE [Frozen]_vars
  <2> DEFINE n == Len(intervals)
  <2>0. n \in Nat /\ DOMAIN intervals = 1..n /\ intervals \in Seq(Range(intervals))
    BY <1>1 DEF TypeOK
  <2>1. ASSUME intervals' = intervals PROVE Frozen
    BY <2>0, <2>1
  <2>2. ASSUME NEW x, n > 0, intervals' = [intervals EXCEPT ![n] = x] PROVE Frozen
    <3> DEFINE R == Range(intervals) \cup {x}
    <3>1. intervals \in Seq(R) /\ x \in R /\ n \in 1..n
      BY <2>0, <2>2
    <3> HIDE DEF R
    <3>2. Len(intervals') = n /\ \A i \in 1..n : i # n => intervals'[i] = intervals[i]
      BY <2>2, <3>1, SMTT(60)
    <3>3. \A i \in 1..(n - 1) : i \in 1..n /\ i # n
      BY <2>0, Successors
    <3>4. \A i \in 1..(n - 1) : intervals'[i] = intervals[i]
      BY <3>2, <3>3
    <3>5. Len(intervals') >= n
      <4>1. n \in Nat /\ Len(intervals') = n
        BY <2>0, <3>2
      <4> QED
        BY <4>1, SMTT(60)
    <3> QED
      BY <3>4, <3>5
  <2>3. ASSUME NEW x, intervals' = Append(intervals, x) PROVE Frozen
    BY <2>0, <2>3, AppendOwnRange
  <2>4. ASSUME NEW d \in Drainers, DrainFold(d) PROVE Frozen
    BY <2>1, <2>2, <2>3, <2>4 DEF DrainFold, RecordInterval, IsSliver, FoldIntoInterval, AppendInterval
  <2>5. CASE ~\E d \in Drainers : DrainFold(d)
    <3>1. intervals' = intervals
      BY <1>1, <2>5 DEF Next, NewWorkerStats, Record, DrainLock, DrainSnapshot, vars, collector
    <3> QED
      BY <2>1, <3>1
  <2> QED
    BY <2>4, <2>5
<1> QED
  BY <1>1, TypeCorrect, PTL DEF Spec, ClosedIntervalsFrozen

-----------------------------------------------------------------------------
(* The sums of the series. *)

CountsOf(m) == [op \in Ops |-> m[op].count]
ErrorsOf(m) == [op \in Ops |-> m[op].errors]
SeriesCounts(op) == [i \in DOMAIN intervals |-> intervals[i].per[op].count]
SeriesErrors(op) == [i \in DOMAIN intervals |-> intervals[i].per[op].errors]
SeriesOps == [i \in DOMAIN intervals |-> intervals[i].ops]

\* SeriesSumsToTotals, and that the whole series sums to the whole total,
\* which is what a reader of the result adds up.
SumsInv ==
  /\ \A op \in Ops : /\ SumFunction(SeriesCounts(op)) = total[op].count
                     /\ SumFunction(SeriesErrors(op)) = total[op].errors
  /\ \A i \in DOMAIN intervals : /\ intervals[i].ops = OpsIn(intervals[i].per)
                                 /\ intervals[i].errors = ErrorsIn(intervals[i].per)
  /\ SumFunction(SeriesOps) = OpsIn(total)

\* Sums over the operations add up as their entries do.
LEMMA OpsInAdds ==
  ASSUME NEW a, NEW b, NEW c,
         \A op \in Ops : /\ a[op].count \in Int /\ b[op].count \in Int
                         /\ c[op].count = a[op].count + b[op].count
  PROVE  OpsIn(c) = OpsIn(a) + OpsIn(b) /\ OpsIn(a) \in Int /\ OpsIn(b) \in Int
<1>1. /\ OpsIn(a) = SumFunctionOnSet(CountsOf(a), Ops)
      /\ OpsIn(b) = SumFunctionOnSet(CountsOf(b), Ops)
      /\ OpsIn(c) = SumFunctionOnSet(CountsOf(c), Ops)
  BY DEF OpsIn, SumFunction, CountsOf
<1>2. \A op \in Ops : /\ CountsOf(a)[op] \in Int /\ CountsOf(b)[op] \in Int
                      /\ CountsOf(c)[op] = CountsOf(a)[op] + CountsOf(b)[op]
  BY DEF CountsOf
<1>3. QED
  BY <1>1, <1>2, SumPlus, SumType, OpsAssumption

LEMMA ErrorsInAdds ==
  ASSUME NEW a, NEW b, NEW c,
         \A op \in Ops : /\ a[op].errors \in Int /\ b[op].errors \in Int
                         /\ c[op].errors = a[op].errors + b[op].errors
  PROVE  ErrorsIn(c) = ErrorsIn(a) + ErrorsIn(b) /\ ErrorsIn(a) \in Int /\ ErrorsIn(b) \in Int
<1>1. /\ ErrorsIn(a) = SumFunctionOnSet(ErrorsOf(a), Ops)
      /\ ErrorsIn(b) = SumFunctionOnSet(ErrorsOf(b), Ops)
      /\ ErrorsIn(c) = SumFunctionOnSet(ErrorsOf(c), Ops)
  BY DEF ErrorsIn, SumFunction, ErrorsOf
<1>2. \A op \in Ops : /\ ErrorsOf(a)[op] \in Int /\ ErrorsOf(b)[op] \in Int
                      /\ ErrorsOf(c)[op] = ErrorsOf(a)[op] + ErrorsOf(b)[op]
  BY DEF ErrorsOf
<1>3. QED
  BY <1>1, <1>2, SumPlus, SumType, OpsAssumption

\* No failures without calls, in a window or an interval's entries.
NoPhantoms(m) == \A op \in Ops : m[op].count = 0 => m[op].errors = 0

\* The entries of a new interval, and of one that absorbed a sliver, are
\* those of the window, added to what was there.
LEMMA NewEntries ==
  ASSUME NEW m \in [Ops -> OpStats], NoPhantoms(m), NEW start, NEW now, NEW op \in Ops
  PROVE  /\ NewInterval(start, now, m).per[op].count = m[op].count
         /\ NewInterval(start, now, m).per[op].errors = m[op].errors
<1>1. NewInterval(start, now, m).per[op] =
        IF m[op].count = 0 THEN NoOp
        ELSE [count |-> m[op].count, errors |-> m[op].errors,
              rate |-> Rate(m[op].count, now - start, NoRate), pcts |-> m[op].latencies]
  BY DEF NewInterval
<1>2. QED
  BY <1>1 DEF NoOp, NoPhantoms

LEMMA FoldEntries ==
  ASSUME NEW m \in [Ops -> OpStats], NoPhantoms(m),
         NEW prev, prev.per \in [Ops -> IntervalOp], NoPhantoms(prev.per), NEW now, NEW op \in Ops
  PROVE  /\ FoldInterval(prev, now, m).per[op].count = prev.per[op].count + m[op].count
         /\ FoldInterval(prev, now, m).per[op].errors = prev.per[op].errors + m[op].errors
<1>1. FoldInterval(prev, now, m).per[op] = FoldOp(prev.per[op], m[op], now - prev.start)
  BY DEF FoldInterval
<1>2. /\ prev.per[op].count \in Nat /\ m[op].count \in Nat
      /\ prev.per[op].errors \in Nat /\ m[op].errors \in Nat
  BY DEF IntervalOp, OpStats
<1>3. CASE prev.per[op].count + m[op].count = 0
  <2>1. prev.per[op].count = 0 /\ m[op].count = 0
    BY <1>2, <1>3
  <2>2. prev.per[op].errors = 0 /\ m[op].errors = 0
    BY <2>1 DEF NoPhantoms
  <2>3. QED
    BY <1>1, <1>3, <2>1, <2>2 DEF FoldOp, NoOp
<1>4. CASE prev.per[op].count + m[op].count # 0
  BY <1>1, <1>4 DEF FoldOp
<1>5. QED
  BY <1>3, <1>4

LEMMA HeldNoPhantoms ==
  ASSUME TypeOK, EachCallHeldOnce
  PROVE  NoPhantoms(merged) /\ \A i \in DOMAIN intervals : NoPhantoms(intervals[i].per)
<1>1. log \in Seq(Call) /\ mobs \in SUBSET (1..Len(log))
  BY DEF TypeOK, Ids
<1>2. ASSUME NEW op \in Ops, merged[op].count = 0 PROVE merged[op].errors = 0
  BY <1>1, <1>2, NoCallsNoFailures DEF EachCallHeldOnce, Tallied, Tallies
<1>3. ASSUME NEW i \in DOMAIN intervals, NEW op \in Ops, intervals[i].per[op].count = 0
      PROVE  intervals[i].per[op].errors = 0
  <2>1. iobs[i] \in SUBSET (1..Len(log)) /\ Covers(log, intervals[i].per, iobs[i])
    BY <1>3 DEF TypeOK, Ids, EachCallHeldOnce, Tallied
  <2>2. QED
    BY <1>1, <1>3, <2>1, NoCallsNoFailures DEF Covers
<1>4. QED
  BY <1>2, <1>3 DEF NoPhantoms

\* What the series gains when a drain of m ends, in either form.
Gains(m) ==
  /\ \A op \in Ops :
       /\ SumFunction(SeriesCounts(op)') = SumFunction(SeriesCounts(op)) + m[op].count
       /\ SumFunction(SeriesErrors(op)') = SumFunction(SeriesErrors(op)) + m[op].errors
  /\ SumFunction(SeriesOps') = SumFunction(SeriesOps) + OpsIn(m)
  /\ \A i \in DOMAIN intervals' : /\ intervals'[i].ops = OpsIn(intervals'[i].per)
                                  /\ intervals'[i].errors = ErrorsIn(intervals'[i].per)

\* The operations and failures of the interval are its entries' sums.
Adds(iv) == iv.ops = OpsIn(iv.per) /\ iv.errors = ErrorsIn(iv.per)

LEMMA IntervalCounts ==
  ASSUME TypeOK
  PROVE  \A i \in DOMAIN intervals : \A op \in Ops :
           intervals[i].per[op].count \in Int /\ intervals[i].per[op].errors \in Int
BY DEF TypeOK, IntervalOp

LEMMA OpsInType ==
  ASSUME NEW m, \A op \in Ops : m[op].count \in Int
  PROVE  OpsIn(m) \in Int
<1>1. OpsIn(m) = SumFunctionOnSet(CountsOf(m), Ops)
  BY DEF OpsIn, SumFunction, CountsOf
<1>2. \A op \in Ops : CountsOf(m)[op] \in Int
  BY DEF CountsOf
<1>3. QED
  BY <1>1, <1>2, SumType, OpsAssumption

LEMMA ErrorsInType ==
  ASSUME NEW m, \A op \in Ops : m[op].errors \in Int
  PROVE  ErrorsIn(m) \in Int
<1>1. ErrorsIn(m) = SumFunctionOnSet(ErrorsOf(m), Ops)
  BY DEF ErrorsIn, SumFunction, ErrorsOf
<1>2. \A op \in Ops : ErrorsOf(m)[op] \in Int
  BY DEF ErrorsOf
<1>3. QED
  BY <1>1, <1>2, SumType, OpsAssumption

\* Windows with the same entries have the same sums.
LEMMA SameEntries ==
  ASSUME NEW a, NEW b,
         \A op \in Ops : /\ a[op].count \in Int /\ a[op].errors \in Int
                         /\ b[op].count = a[op].count /\ b[op].errors = a[op].errors
  PROVE  OpsIn(b) = OpsIn(a) /\ ErrorsIn(b) = ErrorsIn(a)
<1>1. CountsOf(b) = CountsOf(a) /\ ErrorsOf(b) = ErrorsOf(a)
  BY DEF CountsOf, ErrorsOf
<1>2. QED
  BY <1>1 DEF OpsIn, ErrorsIn, CountsOf, ErrorsOf

LEMMA NewGains ==
  ASSUME TypeOK, EachCallHeldOnce, SumsInv,
         intervals' = Append(intervals, NewInterval(lastBoundary, drainNow, merged))
  PROVE  Gains(merged)
<1> DEFINE n == Len(intervals)
           iv == NewInterval(lastBoundary, drainNow, merged)
<1>1. /\ n \in Nat /\ DOMAIN intervals = 1..n /\ DOMAIN intervals' = 1..(n + 1)
      /\ intervals'[n + 1] = iv /\ \A i \in 1..n : intervals'[i] = intervals[i]
  BY AppendOwnRange DEF TypeOK
<1>2. merged \in [Ops -> OpStats] /\ NoPhantoms(merged)
      /\ \A op \in Ops : merged[op].count \in Int /\ merged[op].errors \in Int
  BY HeldNoPhantoms, SMTT(60) DEF TypeOK, OpStats
<1>3. \A op \in Ops : iv.per[op].count = merged[op].count /\ iv.per[op].errors = merged[op].errors
  BY <1>2, NewEntries
<1>4. iv.ops = OpsIn(merged) /\ iv.errors = ErrorsIn(merged)
  BY DEF NewInterval
<1>5. OpsIn(iv.per) = OpsIn(merged) /\ ErrorsIn(iv.per) = ErrorsIn(merged)
  BY <1>2, <1>3, SameEntries
<1>6. OpsIn(merged) \in Int
  BY <1>2, OpsInType
<1> HIDE DEF iv, n
<1>7. ASSUME NEW op \in Ops
      PROVE  /\ SumFunction(SeriesCounts(op)') = SumFunction(SeriesCounts(op)) + merged[op].count
             /\ SumFunction(SeriesErrors(op)') = SumFunction(SeriesErrors(op)) + merged[op].errors
  <2>1. /\ DOMAIN SeriesCounts(op) = 1..n /\ DOMAIN SeriesCounts(op)' = 1..(n + 1)
        /\ \A i \in 1..n : SeriesCounts(op)[i] \in Int /\ SeriesCounts(op)'[i] = SeriesCounts(op)[i]
        /\ SeriesCounts(op)'[n + 1] = merged[op].count
    <3>1. DOMAIN SeriesCounts(op) = 1..n /\ DOMAIN SeriesCounts(op)' = 1..(n + 1)
      BY <1>1 DEF SeriesCounts
    <3>2. ASSUME NEW i \in 1..n
          PROVE  SeriesCounts(op)[i] \in Int /\ SeriesCounts(op)'[i] = SeriesCounts(op)[i]
      <4>1. i \in 1..(n + 1)
        BY <1>1
      <4>2. QED
        BY <4>1, <1>1, IntervalCounts DEF SeriesCounts
    <3>3. SeriesCounts(op)'[n + 1] = merged[op].count
      <4>1. n + 1 \in 1..(n + 1)
        BY <1>1
      <4>2. QED
        BY <4>1, <1>1, <1>3 DEF SeriesCounts
    <3>4. QED
      BY <3>1, <3>2, <3>3
  <2>2. /\ DOMAIN SeriesErrors(op) = 1..n /\ DOMAIN SeriesErrors(op)' = 1..(n + 1)
        /\ \A i \in 1..n : SeriesErrors(op)[i] \in Int /\ SeriesErrors(op)'[i] = SeriesErrors(op)[i]
        /\ SeriesErrors(op)'[n + 1] = merged[op].errors
    <3>1. DOMAIN SeriesErrors(op) = 1..n /\ DOMAIN SeriesErrors(op)' = 1..(n + 1)
      BY <1>1 DEF SeriesErrors
    <3>2. ASSUME NEW i \in 1..n
          PROVE  SeriesErrors(op)[i] \in Int /\ SeriesErrors(op)'[i] = SeriesErrors(op)[i]
      <4>1. i \in 1..(n + 1)
        BY <1>1
      <4>2. QED
        BY <4>1, <1>1, IntervalCounts DEF SeriesErrors
    <3>3. SeriesErrors(op)'[n + 1] = merged[op].errors
      <4>1. n + 1 \in 1..(n + 1)
        BY <1>1
      <4>2. QED
        BY <4>1, <1>1, <1>3 DEF SeriesErrors
    <3>4. QED
      BY <3>1, <3>2, <3>3
  <2>3. SumFunction(SeriesCounts(op)') = SumFunction(SeriesCounts(op)) + merged[op].count
    BY <1>1, <1>2, <2>1, SumAppend, SMTT(60)
  <2>4. SumFunction(SeriesErrors(op)') = SumFunction(SeriesErrors(op)) + merged[op].errors
    BY <1>1, <1>2, <2>2, SumAppend, SMTT(60)
  <2>5. QED
    BY <2>3, <2>4
<1>8. SumFunction(SeriesOps') = SumFunction(SeriesOps) + OpsIn(merged)
  <2>1. \A i \in 1..n : intervals[i].ops \in Int
    BY <1>1, IntervalCounts, OpsInType DEF SumsInv
  <2>2. /\ DOMAIN SeriesOps = 1..n /\ DOMAIN SeriesOps' = 1..(n + 1)
        /\ \A i \in 1..n : SeriesOps[i] \in Int /\ SeriesOps'[i] = SeriesOps[i]
        /\ SeriesOps'[n + 1] = OpsIn(merged)
    BY <1>1, <1>4, <2>1 DEF SeriesOps
  <2>3. QED
    BY <1>1, <1>6, <2>2, SumAppend, ZenonT(60)
<1>9. ASSUME NEW i \in DOMAIN intervals' PROVE Adds(intervals'[i])
  <2>1. CASE i = n + 1
    BY <2>1, <1>1, <1>4, <1>5 DEF Adds
  <2>2. CASE i \in 1..n
    BY <2>2, <1>1 DEF Adds, SumsInv
  <2>3. QED
    BY <2>1, <2>2, <1>1
<1>10. QED
  BY <1>7, <1>8, <1>9 DEF Gains, Adds

LEMMA FoldGains ==
  ASSUME TypeOK, EachCallHeldOnce, SumsInv, Len(intervals) > 0,
         intervals' = [intervals EXCEPT ![Len(intervals)] = FoldInterval(@, drainNow, merged)]
  PROVE  Gains(merged)
<1> DEFINE n == Len(intervals)
           prev == intervals[n]
           iv == FoldInterval(prev, drainNow, merged)
<1>1. /\ n \in Nat /\ n \in 1..n /\ DOMAIN intervals = 1..n /\ DOMAIN intervals' = 1..n
      /\ intervals'[n] = iv /\ \A i \in (1..n) \ {n} : intervals'[i] = intervals[i]
  BY DEF TypeOK
<1>2. merged \in [Ops -> OpStats] /\ NoPhantoms(merged)
      /\ \A op \in Ops : merged[op].count \in Int /\ merged[op].errors \in Int
  BY HeldNoPhantoms DEF TypeOK, OpStats
<1>3. prev.per \in [Ops -> IntervalOp] /\ NoPhantoms(prev.per)
      /\ \A op \in Ops : prev.per[op].count \in Int /\ prev.per[op].errors \in Int
  BY <1>1, HeldNoPhantoms, SMTT(60) DEF TypeOK, IntervalOp
<1> HIDE DEF prev
<1>4. \A op \in Ops : /\ iv.per[op].count = prev.per[op].count + merged[op].count
                      /\ iv.per[op].errors = prev.per[op].errors + merged[op].errors
  BY <1>2, <1>3, FoldEntries
<1>5. iv.ops = prev.ops + OpsIn(merged) /\ iv.errors = prev.errors + ErrorsIn(merged)
  BY DEF FoldInterval
<1>6. prev.ops = OpsIn(prev.per) /\ prev.errors = ErrorsIn(prev.per)
  BY <1>1 DEF SumsInv, prev
<1> HIDE DEF iv
<1>7. OpsIn(iv.per) = OpsIn(prev.per) + OpsIn(merged)
      /\ OpsIn(prev.per) \in Int /\ OpsIn(merged) \in Int
  <2>1. \A op \in Ops : /\ prev.per[op].count \in Int /\ merged[op].count \in Int
                        /\ iv.per[op].count = prev.per[op].count + merged[op].count
    BY <1>2, <1>3, <1>4
  <2>2. QED
    BY <2>1, OpsInAdds, ZenonT(60)
<1>8. ErrorsIn(iv.per) = ErrorsIn(prev.per) + ErrorsIn(merged)
  <2>1. \A op \in Ops : /\ prev.per[op].errors \in Int /\ merged[op].errors \in Int
                        /\ iv.per[op].errors = prev.per[op].errors + merged[op].errors
    BY <1>2, <1>3, <1>4
  <2>2. QED
    BY <2>1, ErrorsInAdds
<1> HIDE DEF n
<1>9. IsFiniteSet(1..n)
  BY <1>1, FS_Interval
<1>10. intervals[n] = prev
  BY DEF prev
<1>11. ASSUME NEW op \in Ops
       PROVE  /\ SumFunction(SeriesCounts(op)') = SumFunction(SeriesCounts(op)) + merged[op].count
              /\ SumFunction(SeriesErrors(op)') = SumFunction(SeriesErrors(op)) + merged[op].errors
  <2>1. /\ DOMAIN SeriesCounts(op) = 1..n /\ DOMAIN SeriesCounts(op)' = 1..n
        /\ \A i \in 1..n : SeriesCounts(op)[i] \in Int
        /\ \A i \in (1..n) \ {n} : SeriesCounts(op)'[i] = SeriesCounts(op)[i]
        /\ SeriesCounts(op)'[n] = SeriesCounts(op)[n] + merged[op].count
    BY <1>1, <1>4, <1>10, IntervalCounts DEF SeriesCounts
  <2>2. /\ DOMAIN SeriesErrors(op) = 1..n /\ DOMAIN SeriesErrors(op)' = 1..n
        /\ \A i \in 1..n : SeriesErrors(op)[i] \in Int
        /\ \A i \in (1..n) \ {n} : SeriesErrors(op)'[i] = SeriesErrors(op)[i]
        /\ SeriesErrors(op)'[n] = SeriesErrors(op)[n] + merged[op].errors
    BY <1>1, <1>4, <1>10, IntervalCounts DEF SeriesErrors
  <2>3. SumFunction(SeriesCounts(op)) \in Int /\ SumFunction(SeriesErrors(op)) \in Int
    BY <1>9, <2>1, <2>2, SumType DEF SumFunction
  <2>4. SeriesCounts(op)[n] \in Int /\ SeriesErrors(op)[n] \in Int
        /\ SeriesCounts(op)'[n] \in Int /\ SeriesErrors(op)'[n] \in Int
    BY <1>1, <1>2, <2>1, <2>2
  <2>5. SumFunction(SeriesCounts(op)') =
          SumFunction(SeriesCounts(op)) + SeriesCounts(op)'[n] - SeriesCounts(op)[n]
    BY <1>1, <1>9, <2>1, <2>4, SumReplace, SMTT(60)
  <2>6. SumFunction(SeriesErrors(op)') =
          SumFunction(SeriesErrors(op)) + SeriesErrors(op)'[n] - SeriesErrors(op)[n]
    BY <1>1, <1>9, <2>2, <2>4, SumReplace, SMTT(60)
  <2>7. SumFunction(SeriesCounts(op)') = SumFunction(SeriesCounts(op)) + merged[op].count
    BY <1>2, <2>1, <2>3, <2>4, <2>5
  <2>8. SumFunction(SeriesErrors(op)') = SumFunction(SeriesErrors(op)) + merged[op].errors
    BY <1>2, <2>2, <2>3, <2>4, <2>6
  <2>9. QED
    BY <2>7, <2>8
<1>12. SumFunction(SeriesOps') = SumFunction(SeriesOps) + OpsIn(merged)
  <2>1. \A i \in 1..n : intervals[i].ops \in Int
    BY <1>1, IntervalCounts, OpsInType DEF SumsInv
  <2>2. /\ DOMAIN SeriesOps = 1..n /\ DOMAIN SeriesOps' = 1..n
        /\ \A i \in 1..n : SeriesOps[i] \in Int
        /\ \A i \in (1..n) \ {n} : SeriesOps'[i] = SeriesOps[i]
        /\ SeriesOps'[n] = SeriesOps[n] + OpsIn(merged)
    BY <1>1, <1>5, <1>10, <2>1 DEF SeriesOps
  <2>3. SumFunction(SeriesOps) \in Int /\ SeriesOps[n] \in Int /\ SeriesOps'[n] \in Int
    BY <1>1, <1>7, <1>9, <2>2, SumType DEF SumFunction
  <2>4. SumFunction(SeriesOps') = SumFunction(SeriesOps) + SeriesOps'[n] - SeriesOps[n]
    BY <1>1, <1>9, <2>2, <2>3, SumReplace
  <2>5. QED
    BY <1>7, <2>2, <2>3, <2>4
<1>13. ASSUME NEW i \in DOMAIN intervals' PROVE Adds(intervals'[i])
  <2>1. CASE i = n
    BY <2>1, <1>1, <1>5, <1>6, <1>7, <1>8 DEF Adds
  <2>2. CASE i \in (1..n) \ {n}
    BY <2>2, <1>1 DEF Adds, SumsInv
  <2>3. QED
    BY <2>1, <2>2, <1>1
<1>14. QED
  BY <1>11, <1>12, <1>13 DEF Gains, Adds

\* A drain adds what it lifted out to the total and to the series alike.
LEMMA NextSums ==
  ASSUME TypeOK, EachCallHeldOnce, SumsInv, [Next]_vars
  PROVE  SumsInv'
<1>1. ASSUME UNCHANGED <<intervals, total>>
      PROVE  SumsInv'
  <2>1. /\ \A op \in Ops : UNCHANGED <<SeriesCounts(op), SeriesErrors(op)>>
        /\ UNCHANGED SeriesOps
    BY <1>1 DEF SeriesCounts, SeriesErrors, SeriesOps
  <2>2. QED
    BY <1>1, <2>1 DEF SumsInv
<1>2. ASSUME NEW d \in Drainers, DrainFold(d)
      PROVE  SumsInv'
  <2>1. /\ total \in [Ops -> OpStats] /\ merged \in [Ops -> OpStats]
        /\ total' = MergeAll(total, merged)
    BY <1>2 DEF TypeOK, DrainFold
  <2>2. \A op \in Ops : /\ total[op].count \in Int /\ merged[op].count \in Int
                        /\ total[op].errors \in Int /\ merged[op].errors \in Int
                        /\ total'[op].count = total[op].count + merged[op].count
                        /\ total'[op].errors = total[op].errors + merged[op].errors
    BY <2>1 DEF MergeAll, MergeInto, OpStats
  <2>3. OpsIn(total') = OpsIn(total) + OpsIn(merged) /\ OpsIn(total) \in Int
    <3>1. \A op \in Ops : /\ total[op].count \in Int /\ merged[op].count \in Int
                          /\ total'[op].count = total[op].count + merged[op].count
      BY <2>2
    <3>2. QED
      BY <3>1, OpsInAdds
  <2>4. CASE NothingIn(merged) /\ UNCHANGED <<intervals, lastBoundary, iobs>>
    <3>1. \A op \in Ops : merged[op].count = 0 /\ merged[op].errors = 0
      BY <2>4, HeldNoPhantoms DEF NothingIn, NoPhantoms
    <3>2. \A op \in Ops : /\ total[op].count \in Int /\ total[op].errors \in Int
                          /\ total'[op].count = total[op].count
                          /\ total'[op].errors = total[op].errors
      BY <2>2, <3>1
    <3>3. OpsIn(total') = OpsIn(total)
      BY <3>2, SameEntries
    <3>4. /\ \A op \in Ops : UNCHANGED <<SeriesCounts(op), SeriesErrors(op)>>
          /\ UNCHANGED SeriesOps
      BY <2>4 DEF SeriesCounts, SeriesErrors, SeriesOps
    <3>5. QED
      BY <2>4, <3>2, <3>3, <3>4 DEF SumsInv
  <2>5. CASE Gains(merged)
    BY <2>2, <2>3, <2>5 DEF SumsInv, Gains
  <2>6. QED
    BY <1>2, <2>4, <2>5, NewGains, FoldGains
       DEF DrainFold, RecordInterval, IsSliver, FoldIntoInterval, AppendInterval
<1>3. CASE ~\E d \in Drainers : DrainFold(d)
  <2>1. UNCHANGED <<intervals, total>>
    BY <1>3 DEF Next, NewWorkerStats, Record, DrainLock, DrainSnapshot, vars, collector
  <2>2. QED
    BY <1>1, <2>1
<1>4. QED
  BY <1>2, <1>3

LEMMA InitSums == Init => SumsInv
<1> SUFFICES ASSUME Init PROVE SumsInv
  OBVIOUS
<1>1. intervals = <<>> /\ DOMAIN intervals = {} /\ total = EmptyWindow
  BY DEF Init
<1>2. \A op \in Ops : total[op].count = 0 /\ total[op].errors = 0
  BY <1>1 DEF EmptyWindow, ZeroStats
<1>3. /\ \A op \in Ops : SumFunction(SeriesCounts(op)) = 0 /\ SumFunction(SeriesErrors(op)) = 0
      /\ SumFunction(SeriesOps) = 0
  BY <1>1, SumEmpty DEF SumFunction, SeriesCounts, SeriesErrors, SeriesOps
<1>4. OpsIn(total) = 0
  <2>1. \A op \in Ops : CountsOf(total)[op] = 0
    BY <1>2 DEF CountsOf
  <2>2. OpsIn(total) = SumFunctionOnSet(CountsOf(total), Ops)
    BY DEF OpsIn, SumFunction, CountsOf
  <2>3. QED
    BY <2>1, <2>2, SumZero, OpsAssumption
<1>5. QED
  BY <1>1, <1>2, <1>3, <1>4 DEF SumsInv

LEMMA SumsHold == Spec => []SumsInv
BY InitSums, NextSums, TypeCorrect, ExactlyOnce, PTL DEF Spec

\* The counts and errors of the series sum to the totals, per operation and inside
\* every interval, however windows were appended and slivers folded.
THEOREM SeriesSums == Spec => []SeriesSumsToTotals
<1>1. SumsInv => SeriesSumsToTotals
  BY DEF SumsInv, SeriesSumsToTotals, SeriesCounts, SeriesErrors
<1> QED
  BY <1>1, SumsHold, PTL
=============================================================================
