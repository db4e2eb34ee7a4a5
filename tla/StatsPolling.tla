---------------------------- MODULE StatsPolling ----------------------------
(***************************************************************************)
(* A polling loop of pgstorm's metrics: cumulative counters of the server  *)
(* are read on a ticker and exported as Prometheus counters by adding what *)
(* they have grown since they were last seen (src/metrics/index_stats.go,  *)
(* src/metrics/pg_stats.go).                                               *)
(*                                                                         *)
(* The loops share nothing, each has its own tracker and metrics, so one   *)
(* behaviour has one of them: "rows" is RunTableStatsLoop and              *)
(* RunIndexStatsLoop, one query of many rows; "pg" is RunPGStatsLoop, a    *)
(* series of collectors of which the first depends on the server's         *)
(* version.  Queries and rows may fail at any point, the server's counters *)
(* move on between any two steps, and they may be reset.                   *)
(***************************************************************************)
EXTENDS Integers, Sequences, FiniteSets, Functions

CONSTANTS
  Relations,        \* rows of pg_stat_user_tables or pg_stat_user_indexes
  Waits,            \* wait events
  None,             \* no entry in lastSeen
  MaxIncrements,    \* bounds on what the server does
  MaxResets

ASSUME BoundsAssumption == MaxIncrements \in Nat /\ MaxResets \in Nat

(* Columns that are read, and change, together are one key: "cp" is the    *)
(* checkpoint columns, "clean" and "backend" the other columns of          *)
(* pg_stat_bgwriter, "wal" those of pg_stat_wal.                           *)
PGKeys == {"cp", "clean", "backend", "wal"}
Keys == Relations \cup PGKeys

ASSUME KeysAssumption ==
  /\ None \notin Nat
  /\ Relations \cap PGKeys = {} /\ Waits \cap Keys = {} /\ Relations # {} /\ Waits # {}

(* A query is the set of its rows, a row the set of the keys it holds.     *)
RelationQuery == {{r} : r \in Relations}
Bgwriter16 == {{"cp", "clean", "backend"}}
Checkpointer == {{"cp"}}
Bgwriter17 == {{"clean"}}
Wal == {{"wal"}}
WaitQuery == {{e} : e \in Waits}
Queries == {RelationQuery, Bgwriter16, Checkpointer, Bgwriter17, Wal, WaitQuery}
Rows == UNION Queries

VARIABLES
  loop,           \* which loop this is
  ctxDone,        \* the run's context is cancelled
  major,          \* pgMajor
  pc,
  todo,           \* collectors left in this tick, each the queries it has left
  rows,           \* rows of the current query not yet processed
  snap,           \* the values that query returned
  lastSeen,       \* the tracker
  exported,       \* the Prometheus counters
  gauge           \* wait events that waitEventsActive shows

VARIABLES serverMajor, server   \* the server's side

(* History: increments ever made; their number when the current query ran, *)
(* and when a key was first seen; resets; the last answer on wait events.  *)
VARIABLES truth, snapTruth, base, resets, waitSnap

polling == <<loop, ctxDone, major, pc, todo, rows, snap, lastSeen, exported, gauge>>
database == <<serverMajor, server>>
history == <<truth, snapTruth, base, resets, waitSnap>>
vars == <<polling, database, history>>

\* What one tick collects: the queries of each collector in turn.
Collectors(m) ==
  IF loop = "rows" THEN << <<RelationQuery>> >>
  ELSE << IF m >= 17 THEN <<Checkpointer, Bgwriter17>> ELSE <<Bgwriter16>>,
          <<Wal>>,
          <<WaitQuery>> >>

NoValues == [k \in Keys |-> 0]

Init ==
  /\ loop \in {"rows", "pg"} /\ ctxDone = FALSE
  /\ serverMajor \in {16, 17} /\ major = 0
  /\ pc = IF loop = "pg" THEN "detect" ELSE "select"
  /\ todo = <<>> /\ rows = {} /\ snap = NoValues /\ snapTruth = NoValues
  /\ server = NoValues /\ truth = NoValues
  /\ lastSeen = [k \in Keys |-> None] /\ base = lastSeen
  /\ exported = [k \in Keys |-> 0]
  /\ gauge = {} /\ waitSnap = {}
  /\ resets = 0

-----------------------------------------------------------------------------
(* The server *)

Increment(k) ==
  /\ SumFunction(truth) < MaxIncrements
  /\ loop = "pg" <=> k \in PGKeys
  /\ server' = [server EXCEPT ![k] = @ + 1]
  /\ truth' = [truth EXCEPT ![k] = @ + 1]
  /\ UNCHANGED <<polling, serverMajor, snapTruth, base, resets, waitSnap>>

\* pg_stat_reset, or a server that lost its statistics in a crash.
StatsReset ==
  /\ resets < MaxResets
  /\ resets' = resets + 1
  /\ server' = [k \in Keys |-> 0]
  /\ UNCHANGED <<polling, serverMajor, truth, snapTruth, base, waitSnap>>

Cancel ==
  /\ ~ctxDone
  /\ ctxDone' = TRUE
  /\ UNCHANGED <<loop, major, pc, todo, rows, snap, lastSeen, exported, gauge, database, history>>

-----------------------------------------------------------------------------
(* The loop *)

\* detectPGMajorVersion, once; on an error the loop assumes 16 for good.
Detect ==
  /\ pc = "detect"
  /\ major' \in {serverMajor, 16}
  /\ pc' = "select"
  /\ UNCHANGED <<loop, ctxDone, todo, rows, snap, lastSeen, exported, gauge, database, history>>

Tick ==
  /\ pc = "select"
  /\ todo' = Collectors(major)
  /\ pc' = "query"
  /\ UNCHANGED <<loop, ctxDone, major, rows, snap, lastSeen, exported, gauge, database, history>>

Exit ==
  /\ pc = "select" /\ ctxDone
  /\ pc' = "gone"
  /\ UNCHANGED <<loop, ctxDone, major, todo, rows, snap, lastSeen, exported, gauge, database,
                 history>>

Query == Head(Head(todo))

\* The checkpoint columns of pg_stat_bgwriter are gone from PG17.
Answers(q) == ~ctxDone /\ ~(serverMajor = 17 /\ q = Bgwriter16)

\* Regression: the gauges of earlier wait events are not reset.
QueryReturns_KeepsGauges(q) ==
  /\ pc = "query" /\ q = Query /\ Answers(q)
  /\ IF q = WaitQuery
     THEN /\ waitSnap' \in SUBSET Waits /\ rows' = {{e} : e \in waitSnap'}
          /\ UNCHANGED <<gauge, snap, snapTruth>>
     ELSE /\ rows' = q /\ snap' = server /\ snapTruth' = truth
          /\ UNCHANGED <<gauge, waitSnap>>
  /\ pc' = "rows"
  /\ UNCHANGED <<loop, ctxDone, major, todo, lastSeen, exported, database, truth, base, resets>>

\* The query's values are those of this moment, and anybody may be waiting for
\* anything; the rows are processed later.
QueryReturns(q) ==
  /\ pc = "query" /\ q = Query /\ Answers(q)
  /\ IF q = WaitQuery
     THEN /\ waitSnap' \in SUBSET Waits /\ rows' = {{e} : e \in waitSnap'}
          /\ gauge' = {}
          /\ UNCHANGED <<snap, snapTruth>>
     ELSE /\ rows' = q /\ snap' = server /\ snapTruth' = truth
          /\ UNCHANGED <<gauge, waitSnap>>
  /\ pc' = "rows"
  /\ UNCHANGED <<loop, ctxDone, major, todo, lastSeen, exported, database, truth, base, resets>>

\* The collector returns, with an error or because its queries are done; the
\* loop goes on with the next one, or to its select.
NextCollector ==
  /\ todo' = Tail(todo)
  /\ pc' = IF Tail(todo) = <<>> THEN "select" ELSE "query"
  /\ rows' = {} /\ snap' = NoValues /\ snapTruth' = NoValues

\* Regression: an error ends the loop.
QueryFails_EndsLoop ==
  /\ pc = "query"
  /\ pc' = "gone" /\ todo' = <<>>
  /\ UNCHANGED <<loop, ctxDone, major, rows, snap, lastSeen, exported, gauge, database, history>>

QueryFails ==
  /\ pc = "query"
  /\ NextCollector
  /\ UNCHANGED <<loop, ctxDone, major, lastSeen, exported, gauge, database, truth, base,
                 resets, waitSnap>>

\* Regression: the reset of a counter is not recognised.
Delta_NoReset(k, current) == IF lastSeen[k] = None THEN 0 ELSE current - lastSeen[k]

\* Regression: the first observation counts as growth.
Delta_FromZero(k, current) ==
  IF lastSeen[k] = None THEN current
  ELSE IF current < lastSeen[k] THEN 0 ELSE current - lastSeen[k]

\* delta of both trackers: nothing for a first observation or after a reset.
Delta(k, current) ==
  IF lastSeen[k] = None \/ current < lastSeen[k] THEN 0 ELSE current - lastSeen[k]

ApplyRow(r) ==
  /\ pc = "rows" /\ r \in rows
  /\ rows' = rows \ {r}
  /\ IF Query = WaitQuery
     THEN /\ gauge' = gauge \cup r
          /\ UNCHANGED <<lastSeen, exported, base>>
     ELSE /\ exported' = [k \in Keys |-> exported[k] + IF k \in r THEN Delta(k, snap[k]) ELSE 0]
          /\ lastSeen' = [k \in Keys |-> IF k \in r THEN snap[k] ELSE lastSeen[k]]
          /\ base' = [k \in Keys |-> IF k \in r /\ base[k] = None THEN snapTruth[k] ELSE base[k]]
          /\ UNCHANGED gauge
  /\ UNCHANGED <<loop, ctxDone, major, pc, todo, snap, database, truth, snapTruth,
                 resets, waitSnap>>

\* Regression: after an error the loop starts over with a new tracker.
RowFails_NewTracker ==
  /\ pc = "rows" /\ rows # {}
  /\ loop = "rows" \/ Query = WaitQuery
  /\ NextCollector
  /\ lastSeen' = [k \in Keys |-> None]
  /\ UNCHANGED <<loop, ctxDone, major, exported, gauge, database, truth, base,
                 resets, waitSnap>>

\* rows.Scan or the connection fails: what has been processed stays.  A query
\* of one row has it complete before it is processed.
RowFails ==
  /\ pc = "rows" /\ rows # {}
  /\ loop = "rows" \/ Query = WaitQuery
  /\ NextCollector
  /\ UNCHANGED <<loop, ctxDone, major, lastSeen, exported, gauge, database, truth, base,
                 resets, waitSnap>>

QueryDone ==
  /\ pc = "rows" /\ rows = {}
  /\ \/ /\ Len(Head(todo)) > 1
        /\ todo' = <<Tail(Head(todo))>> \o Tail(todo)
        /\ pc' = "query" /\ snap' = NoValues /\ snapTruth' = NoValues
        /\ UNCHANGED rows
     \/ /\ Len(Head(todo)) = 1
        /\ NextCollector
  /\ UNCHANGED <<loop, ctxDone, major, lastSeen, exported, gauge, database, truth, base,
                 resets, waitSnap>>

Loop ==
  \/ Detect \/ Tick \/ Exit \/ QueryFails \/ RowFails \/ QueryDone
  \/ \E q \in Queries : QueryReturns(q)
  \/ \E r \in rows : ApplyRow(r)

Terminated == pc = "gone" /\ UNCHANGED vars

Next ==
  \/ \E k \in Keys : Increment(k)
  \/ StatsReset \/ Cancel
  \/ Loop \/ Terminated

Spec == Init /\ [][Next]_vars

\* The loop is scheduled, the ticker ticks, and neither the same query nor the
\* same row fails for ever.
FairSpec ==
  /\ Spec
  /\ WF_vars(Loop)
  /\ \A q \in Queries \ {WaitQuery} : SF_vars(QueryReturns(q))
  /\ \A r \in RelationQuery : SF_vars(ApplyRow(r))
-----------------------------------------------------------------------------
(* Properties *)

\* The keys the loop reads with the version it believes in.
Watched ==
  IF loop = "rows" THEN Relations ELSE IF major >= 17 THEN PGKeys \ {"backend"} ELSE PGKeys

\* A Prometheus counter panics when something negative is added to it, which
\* would end the run: it never happens, resets and stale rows included.
AddsNeverNegative == [][\A k \in Keys : exported'[k] >= exported[k]]_vars

\* An exported counter never shows more than really happened since the key was
\* first seen, whatever was reset or failed in between.
NeverOvercounts ==
  \A k \in Keys : IF base[k] = None THEN exported[k] = 0 ELSE exported[k] <= truth[k] - base[k]

\* Failed queries, abandoned rows and skipped ticks lose nothing: unless the
\* server's statistics are reset, a counter shows all the growth up to the
\* value last seen.
NothingLostWithoutReset ==
  resets = 0 => \A k \in Keys :
    lastSeen[k] # None => exported[k] = lastSeen[k] - base[k]

\* The wait events shown all come from the last answer of the server, also if
\* processing it was cut short: no event of an earlier tick lingers.
GaugesFromOneAnswer == gauge \subseteq waitSnap

\* In a run that goes on, every counter of the queries the loop runs follows
\* the server in spite of failures, provided the version was detected.
CountersFollow ==
  ([]~ctxDone /\ [](major \in {0, serverMajor} \/ loop = "rows")) =>
    <>[](\A k \in Watched : lastSeen[k] = server[k])
=============================================================================
