------------------------- MODULE StatsPollingProofs -------------------------
(***************************************************************************)
(* Proofs about StatsPolling for any set of relations and wait events and  *)
(* any number of increments, resets, failures and ticks: the exported      *)
(* counters never overcount, lose nothing without a reset and never go     *)
(* down, and the wait event gauges all come from one answer                *)
(* (src/metrics/index_stats.go, src/metrics/pg_stats.go).                  *)
(***************************************************************************)
EXTENDS StatsPolling, TLAPS

\* The counters on both sides, and the trackers.
TypeOK ==
  /\ server \in [Keys -> Nat] /\ truth \in [Keys -> Nat]
  /\ snap \in [Keys -> Nat] /\ snapTruth \in [Keys -> Nat]
  /\ exported \in [Keys -> Nat]
  /\ lastSeen \in [Keys -> Nat \cup {None}] /\ base \in [Keys -> Nat \cup {None}]
  /\ resets \in Nat
  /\ \A k \in Keys : base[k] = None <=> lastSeen[k] = None
  /\ \A k \in Keys : base[k] = None => exported[k] = 0

\* A query has no key in two of its rows.
RowsApart == \A a, b \in rows : a # b => a \cap b = {}

\* The server's counter shows at most what was counted, and has moved by at most
\* that since the current query ran; without a reset it shows all of it.
ServerBehind ==
  /\ \A k \in Keys :
       /\ server[k] <= truth[k] /\ snapTruth[k] <= truth[k]
       /\ server[k] - snap[k] <= truth[k] - snapTruth[k]
  /\ resets = 0 => server = truth /\ snap = snapTruth

\* What would be exported if key k were read as v when n increments had been
\* made: not more than n, whether or not v shows a reset.
Covered(k, v, n) ==
  lastSeen[k] # None =>
    /\ exported[k] <= n - base[k]
    /\ exported[k] + v - lastSeen[k] <= n - base[k]

\* That holds of the server's values, and of those of a row not yet processed.
ExportBehind ==
  /\ \A k \in Keys : Covered(k, server[k], truth[k])
  /\ \A r \in rows : \A k \in Keys \cap r : Covered(k, snap[k], snapTruth[k])

\* The inductive invariant of the counters.
Accounting ==
  TypeOK /\ RowsApart /\ ServerBehind /\ ExportBehind /\ NothingLostWithoutReset

\* Initially nothing has been counted, read or exported.
LEMMA InitAccounting == Init => Accounting
  BY KeysAssumption DEF Init, Accounting, TypeOK, RowsApart, ServerBehind, ExportBehind,
                        Covered, NothingLostWithoutReset, NoValues

\* Steps that touch neither counters nor trackers and at most drop rows.
LEMMA AccountingUnchanged ==
  ASSUME Accounting, rows' \subseteq rows,
         UNCHANGED <<server, truth, exported, lastSeen, base, resets, snap, snapTruth>>
  PROVE  Accounting'
<1>1. TypeOK' /\ RowsApart' /\ ServerBehind' /\ NothingLostWithoutReset'
  BY DEF Accounting, TypeOK, RowsApart, ServerBehind, NothingLostWithoutReset
<1>2. ExportBehind'
  BY DEF Accounting, ExportBehind, Covered
<1> QED
  BY <1>1, <1>2 DEF Accounting

\* The end of a query drops the values it returned.
LEMMA AccountingQueryEnds ==
  ASSUME Accounting, rows' = {}, snap' = NoValues, snapTruth' = NoValues,
         UNCHANGED <<server, truth, exported, lastSeen, base, resets>>
  PROVE  Accounting'
<1>1. TypeOK' /\ RowsApart' /\ NothingLostWithoutReset'
  BY DEF Accounting, TypeOK, RowsApart, NothingLostWithoutReset, NoValues
<1>2. ServerBehind'
  BY DEF Accounting, TypeOK, ServerBehind, NoValues
<1>3. ExportBehind'
  BY DEF Accounting, ExportBehind, Covered
<1> QED
  BY <1>1, <1>2, <1>3 DEF Accounting

\* The server counts one more.
LEMMA AccountingIncrement ==
  ASSUME Accounting, NEW k \in Keys, Increment(k)
  PROVE  Accounting'
<1>1. /\ server' = [server EXCEPT ![k] = @ + 1] /\ truth' = [truth EXCEPT ![k] = @ + 1]
      /\ UNCHANGED <<exported, lastSeen, base, resets, snap, snapTruth, rows>>
  BY DEF Increment, polling
<1>2. TypeOK' /\ RowsApart' /\ NothingLostWithoutReset'
  BY <1>1 DEF Accounting, TypeOK, RowsApart, NothingLostWithoutReset
<1>3. ServerBehind'
  <2>1. resets' = 0 => server' = truth' /\ snap' = snapTruth'
    BY <1>1 DEF Accounting, ServerBehind
  <2>2. \A j \in Keys : \/ server'[j] = server[j] /\ truth'[j] = truth[j]
                        \/ server'[j] = server[j] + 1 /\ truth'[j] = truth[j] + 1
    BY <1>1 DEF Accounting, TypeOK
  <2> QED
    BY <1>1, <2>1, <2>2 DEF Accounting, TypeOK, ServerBehind
<1>4. ExportBehind'
  BY <1>1, KeysAssumption DEF Accounting, TypeOK, ExportBehind, Covered
<1> QED
  BY <1>2, <1>3, <1>4 DEF Accounting

\* A reset makes the server show less, never more.
LEMMA AccountingReset ==
  ASSUME Accounting, StatsReset
  PROVE  Accounting'
<1>1. /\ server' = [j \in Keys |-> 0] /\ resets' = resets + 1
      /\ UNCHANGED <<truth, exported, lastSeen, base, snap, snapTruth, rows>>
  BY DEF StatsReset, polling
<1>2. TypeOK' /\ RowsApart' /\ NothingLostWithoutReset'
  BY <1>1 DEF Accounting, TypeOK, RowsApart, NothingLostWithoutReset
<1>3. ServerBehind'
  BY <1>1 DEF Accounting, TypeOK, ServerBehind
<1>4. ExportBehind'
  BY <1>1, KeysAssumption DEF Accounting, TypeOK, ExportBehind, Covered
<1> QED
  BY <1>2, <1>3, <1>4 DEF Accounting

\* The rows of a query have no key in common.
LEMMA QueryRowsApart ==
  ASSUME NEW q \in Queries, NEW a \in q, NEW b \in q, a # b
  PROVE  a \cap b = {}
  BY DEF Queries, RelationQuery, Bgwriter16, Checkpointer, Bgwriter17, Wal, WaitQuery

\* A query that returns shows the server's counters of this moment.
LEMMA AccountingQueryReturns ==
  ASSUME Accounting, NEW q \in Queries, QueryReturns(q)
  PROVE  Accounting'
<1>1. UNCHANGED <<server, truth, exported, lastSeen, base, resets>>
  BY DEF QueryReturns, database
<1>2. CASE q = WaitQuery
  <2>1. waitSnap' \in SUBSET Waits /\ rows' = {{e} : e \in waitSnap'}
        /\ UNCHANGED <<snap, snapTruth>>
    BY <1>2 DEF QueryReturns
  <2>2. TypeOK' /\ ServerBehind' /\ NothingLostWithoutReset'
    BY <1>1, <2>1 DEF Accounting, TypeOK, ServerBehind, NothingLostWithoutReset
  <2>3. RowsApart'
    BY <2>1, ZenonT(60) DEF RowsApart
  <2>4. ExportBehind'
    BY <1>1, <2>1, KeysAssumption DEF Accounting, ExportBehind, Covered
  <2> QED
    BY <2>2, <2>3, <2>4 DEF Accounting
<1>3. CASE q # WaitQuery
  <2>1. rows' = q /\ snap' = server /\ snapTruth' = truth
    BY <1>3 DEF QueryReturns
  <2>2. TypeOK' /\ ServerBehind' /\ NothingLostWithoutReset'
    BY <1>1, <2>1 DEF Accounting, TypeOK, ServerBehind, NothingLostWithoutReset
  <2>3. RowsApart'
    BY <2>1, QueryRowsApart DEF RowsApart
  <2>4. ExportBehind'
    BY <1>1, <2>1 DEF Accounting, ExportBehind, Covered
  <2> QED
    BY <2>2, <2>3, <2>4 DEF Accounting
<1> QED
  BY <1>2, <1>3

\* delta never adds something negative, and adds nothing to a new key.
LEMMA DeltaFacts ==
  ASSUME TypeOK, NEW k \in Keys
  PROVE  /\ Delta(k, snap[k]) \in Nat
         /\ lastSeen[k] = None => Delta(k, snap[k]) = 0
         /\ lastSeen[k] # None =>
              Delta(k, snap[k]) = IF snap[k] < lastSeen[k] THEN 0 ELSE snap[k] - lastSeen[k]
  BY KeysAssumption DEF TypeOK, Delta

\* A processed row moves its keys to the values of the query.
LEMMA AccountingApplyRow ==
  ASSUME Accounting, NEW r \in rows, ApplyRow(r)
  PROVE  Accounting'
<1>1. UNCHANGED <<server, truth, resets, snap, snapTruth>> /\ rows' = rows \ {r}
  BY DEF ApplyRow, database
<1>2. CASE UNCHANGED <<exported, lastSeen, base>>
  BY <1>1, <1>2, AccountingUnchanged
<1>3. CASE
      /\ exported' = [k \in Keys |-> exported[k] + IF k \in r THEN Delta(k, snap[k]) ELSE 0]
      /\ lastSeen' = [k \in Keys |-> IF k \in r THEN snap[k] ELSE lastSeen[k]]
      /\ base' = [k \in Keys |-> IF k \in r /\ base[k] = None THEN snapTruth[k] ELSE base[k]]
  <2>1. RowsApart' /\ ServerBehind'
    BY <1>1 DEF Accounting, RowsApart, ServerBehind
  <2>2. ASSUME NEW k \in Keys, k \notin r
        PROVE  exported'[k] = exported[k] /\ lastSeen'[k] = lastSeen[k] /\ base'[k] = base[k]
    BY <1>3, <2>2 DEF Accounting, TypeOK
  <2>3. ASSUME NEW k \in Keys, k \in r
        PROVE  /\ exported'[k] = exported[k] + Delta(k, snap[k])
               /\ lastSeen'[k] = snap[k]
               /\ base'[k] = IF base[k] = None THEN snapTruth[k] ELSE base[k]
    BY <1>3, <2>3
  <2>4. TypeOK'
    <3>1. \A k \in Keys : Delta(k, snap[k]) \in Nat
      BY DeltaFacts DEF Accounting
    <3>2. /\ exported' \in [Keys -> Nat]
          /\ lastSeen' \in [Keys -> Nat \cup {None}] /\ base' \in [Keys -> Nat \cup {None}]
      BY <1>3, <3>1 DEF Accounting, TypeOK
    <3>3. ASSUME NEW k \in Keys
          PROVE  /\ base'[k] = None <=> lastSeen'[k] = None
                 /\ base'[k] = None => exported'[k] = 0
      BY <2>2, <2>3, KeysAssumption DEF Accounting, TypeOK
    <3> QED
      BY <1>1, <3>2, <3>3 DEF Accounting, TypeOK
  <2>5. ASSUME NEW k \in Keys, k \in r
        PROVE  /\ exported'[k] <= truth[k] - base'[k]
               /\ exported'[k] + server[k] - lastSeen'[k] <= truth[k] - base'[k]
               /\ resets = 0 => exported'[k] = lastSeen'[k] - base'[k]
    <3>1. /\ server[k] \in Nat /\ truth[k] \in Nat /\ snap[k] \in Nat /\ snapTruth[k] \in Nat
          /\ exported[k] \in Nat
          /\ snapTruth[k] <= truth[k] /\ server[k] - snap[k] <= truth[k] - snapTruth[k]
          /\ resets = 0 => snap[k] = snapTruth[k]
      BY DEF Accounting, TypeOK, ServerBehind
    <3>2. CASE lastSeen[k] = None
      <4>1. exported'[k] = 0 /\ lastSeen'[k] = snap[k] /\ base'[k] = snapTruth[k]
        BY <2>3, <2>5, <3>2, DeltaFacts DEF Accounting, TypeOK
      <4> QED
        BY <3>1, <4>1
    <3>3. CASE lastSeen[k] # None
      <4>1. lastSeen[k] \in Nat /\ base[k] \in Nat /\ base'[k] = base[k] /\ lastSeen'[k] = snap[k]
        BY <2>3, <2>5, <3>3 DEF Accounting, TypeOK
      <4>2. exported'[k] =
              exported[k] + IF snap[k] < lastSeen[k] THEN 0 ELSE snap[k] - lastSeen[k]
        BY <2>3, <2>5, <3>3, DeltaFacts DEF Accounting
      <4>3. /\ exported[k] <= snapTruth[k] - base[k]
            /\ exported[k] + snap[k] - lastSeen[k] <= snapTruth[k] - base[k]
        BY <2>5, <3>3 DEF Accounting, ExportBehind, Covered
      <4>4. resets = 0 => exported[k] = lastSeen[k] - base[k]
        BY <3>3 DEF Accounting, NothingLostWithoutReset
      <4> QED
        BY <3>1, <4>1, <4>2, <4>3, <4>4
    <3> QED
      BY <3>2, <3>3
  <2>6. NothingLostWithoutReset'
    BY <1>1, <2>2, <2>5 DEF Accounting, NothingLostWithoutReset
  <2>7. ExportBehind'
    <3>1. ASSUME NEW k \in Keys PROVE Covered(k, server[k], truth[k])'
      BY <1>1, <2>2, <2>5 DEF Accounting, ExportBehind, Covered
    <3>2. ASSUME NEW s \in rows', NEW k \in Keys \cap s
          PROVE  Covered(k, snap[k], snapTruth[k])'
      <4>1. k \notin r /\ s \in rows
        BY <1>1, <3>2 DEF Accounting, RowsApart
      <4> QED
        BY <1>1, <2>2, <3>2, <4>1 DEF Accounting, ExportBehind, Covered
    <3> QED
      BY <3>1, <3>2 DEF ExportBehind
  <2> QED
    BY <2>1, <2>4, <2>6, <2>7 DEF Accounting
<1> QED
  BY <1>2, <1>3 DEF ApplyRow

\* Every step of the loop and of the server keeps the accounts.
LEMMA NextAccounting == Accounting /\ [Next]_vars => Accounting'
<1> SUFFICES ASSUME Accounting, [Next]_vars PROVE Accounting'
  OBVIOUS
<1>1. CASE Detect \/ Tick \/ Exit \/ Cancel \/ UNCHANGED vars
  BY <1>1, AccountingUnchanged DEF Detect, Tick, Exit, Cancel, vars, polling, database, history
<1>2. CASE QueryFails \/ RowFails
  BY <1>2, AccountingQueryEnds DEF QueryFails, RowFails, NextCollector, database
<1>3. CASE QueryDone
  BY <1>3, AccountingQueryEnds DEF QueryDone, NextCollector, database
<1> QED
  BY <1>1, <1>2, <1>3, AccountingIncrement, AccountingReset, AccountingQueryReturns,
     AccountingApplyRow DEF Next, Loop, Terminated

\* The accounts balance throughout, whatever fails or is reset.
LEMMA AccountsBalance == Spec => []Accounting
  BY InitAccounting, NextAccounting, PTL DEF Spec

\* An exported counter never shows more than really happened since its key was
\* first seen, also when a reset goes unnoticed because the server has counted
\* past the old value again before the next tick.
THEOREM CountersNeverOvercount == Spec => []NeverOvercounts
<1>1. Accounting => NeverOvercounts
  BY DEF Accounting, TypeOK, ExportBehind, Covered, NeverOvercounts
<1> QED
  BY <1>1, AccountsBalance, PTL

\* Without a reset, failed queries and abandoned rows lose nothing.
THEOREM CountersLoseNothing == Spec => []NothingLostWithoutReset
<1>1. Accounting => NothingLostWithoutReset
  BY DEF Accounting
<1> QED
  BY <1>1, AccountsBalance, PTL

\* Nothing negative is ever added to a Prometheus counter, which would panic.
THEOREM AddsAreNatural == Spec => AddsNeverNegative
<1>1. Accounting /\ [Next]_vars => [\A k \in Keys : exported'[k] >= exported[k]]_vars
  <2> SUFFICES ASSUME Accounting, [Next]_vars, NEW k \in Keys
               PROVE  exported'[k] >= exported[k]
    OBVIOUS
  <2>1. exported[k] \in Nat
    BY DEF Accounting, TypeOK
  <2>2. CASE UNCHANGED exported
    BY <2>1, <2>2
  <2>3. ASSUME NEW r \in rows, ApplyRow(r) PROVE exported'[k] >= exported[k]
    <3>1. Delta(k, snap[k]) \in Nat
      BY DeltaFacts DEF Accounting
    <3> QED
      BY <2>1, <2>2, <2>3, <3>1 DEF ApplyRow
  <2>4. ASSUME NEW q \in Queries, QueryReturns(q) PROVE UNCHANGED exported
    BY <2>4 DEF QueryReturns
  <2> QED
    BY <2>2, <2>3, <2>4 DEF Next, Loop, Terminated, Increment, StatsReset, Cancel, Detect, Tick,
       Exit, QueryFails, RowFails, QueryDone, vars, polling
<1> QED
  BY <1>1, AccountsBalance, PTL DEF Spec, AddsNeverNegative

-----------------------------------------------------------------------------
(* Wait events *)

\* The rows of an answer on wait events show only events of that answer.
RowsFromAnswer ==
  pc = "rows" /\ Query = WaitQuery => \A r \in rows : r \subseteq waitSnap

\* No wait event lingers from an earlier tick, also if processing the answer was
\* cut short.
THEOREM GaugesAreCurrent == Spec => []GaugesFromOneAnswer
<1> USE DEF GaugesFromOneAnswer, RowsFromAnswer, Query
<1>1. Init => GaugesFromOneAnswer /\ RowsFromAnswer
  BY DEF Init
<1>2. ASSUME GaugesFromOneAnswer, RowsFromAnswer, [Next]_vars
      PROVE  GaugesFromOneAnswer' /\ RowsFromAnswer'
  <2>1. CASE UNCHANGED <<gauge, waitSnap>> /\ (pc' = "rows" => UNCHANGED <<pc, todo, rows>>)
    BY <1>2, <2>1
  <2>2. ASSUME NEW q \in Queries, QueryReturns(q)
        PROVE  GaugesFromOneAnswer' /\ RowsFromAnswer'
    <3>1. q = Query /\ UNCHANGED todo
      BY <2>2 DEF QueryReturns
    <3>2. CASE q = WaitQuery
      BY <2>2, <3>2 DEF QueryReturns
    <3>3. CASE q # WaitQuery
      BY <1>2, <2>2, <3>1, <3>3 DEF QueryReturns
    <3> QED
      BY <3>2, <3>3
  <2>3. ASSUME NEW r \in rows, ApplyRow(r)
        PROVE  GaugesFromOneAnswer' /\ RowsFromAnswer'
    BY <1>2, <2>3 DEF ApplyRow
  <2>4. CASE QueryFails \/ RowFails \/ QueryDone
    BY <2>1, <2>4 DEF QueryFails, RowFails, QueryDone, NextCollector
  <2>5. CASE Detect \/ Tick \/ Exit \/ Cancel \/ StatsReset \/ Terminated \/ UNCHANGED vars
    BY <2>1, <2>5 DEF Detect, Tick, Exit, Cancel, StatsReset, Terminated, vars, polling, history
  <2>6. ASSUME NEW k \in Keys, Increment(k) PROVE GaugesFromOneAnswer' /\ RowsFromAnswer'
    BY <2>1, <2>6 DEF Increment, polling
  <2> QED
    BY <1>2, <2>2, <2>3, <2>4, <2>5, <2>6 DEF Next, Loop
<1> QED
  BY <1>1, <1>2, PTL DEF Spec
=============================================================================
