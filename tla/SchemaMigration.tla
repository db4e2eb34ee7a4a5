-------------------------- MODULE SchemaMigration --------------------------
(***************************************************************************)
(* The start-up migration of several replicas against one database         *)
(* (src/db/schema.go): whoever gets the session-level advisory lock runs   *)
(* the profile's DDL, statement by statement; the others poll the catalog  *)
(* until the tables, and the last index, are there.                        *)
(*                                                                         *)
(* The lock belongs to one connection of the pool, the DDL runs on others, *)
(* and none of it is tied together: the lock's session may be lost while   *)
(* DDL goes on, a statement outlives a client that died, and a client that *)
(* vanished with its node leaves its session, and the lock, behind until   *)
(* the server notices.                                                     *)
(*                                                                         *)
(* Postgres is external: the catalog, the lock and the fate of statements  *)
(* without a client are modelled from how schema.go uses them.             *)
(***************************************************************************)
EXTENDS Integers, FiniteSets

CONSTANTS
  Replicas,
  NT,              \* CREATE TABLE IF NOT EXISTS statements
  NI,              \* CREATE INDEX CONCURRENTLY IF NOT EXISTS statements
  NoOne, Ghost,    \* the lock is free; held by the session of a lost node
  MaxCrashes,      \* bounds on what may go wrong in a behaviour
  MaxNodeLosses,
  MaxLockLosses,
  MaxErrors

ASSUME SizesAssumption == NT \in Nat \ {0} /\ NI \in Nat \ {0}
ASSUME HoldersAssumption == NoOne \notin Replicas /\ Ghost \notin Replicas /\ NoOne # Ghost

VARIABLES
  createIndexes,   \* cfg.CreateIndexes, the same for all replicas
  catalog,         \* catalog[s]: what statement s has created so far
  holder,          \* session that holds the advisory lock
  pc,              \* pc[r]: where replica r is in its start-up
  next,            \* next[r]: the statement replica r is at
  busy,            \* busy[r]: that statement has been sent and not answered
  lost,            \* lost[r]: r's lock connection broke under it
  orphans,         \* statements still executing for a client that is gone
  faults           \* what has gone wrong so far

vars == <<createIndexes, catalog, holder, pc, next, busy, lost, orphans, faults>>

Stmts == 1..(NT + NI)
IsIndex(s) == s > NT

\* The statements the owner runs: Tables always, Indexes on request.
LastStmt == IF createIndexes THEN NT + NI ELSE NT

\* schema.SentinelIndex: the last index in the list.
Sentinel == NT + NI

NoFaults == [crash |-> 0, node |-> 0, lock |-> 0, error |-> 0]

Init ==
  /\ createIndexes \in BOOLEAN
  /\ catalog = [s \in Stmts |-> "absent"]
  /\ holder = NoOne
  /\ pc = [r \in Replicas |-> "start"]
  /\ next = [r \in Replicas |-> 1]
  /\ busy = [r \in Replicas |-> FALSE]
  /\ lost = [r \in Replicas |-> FALSE]
  /\ orphans = {}
  /\ faults = NoFaults

\* Regression: the lock outlives the connection that took it.
Released_Leaks(r) == holder

\* r's lock connection closes: the server frees the lock if r had it.
Released(r) == IF holder = r THEN NoOne ELSE holder

-----------------------------------------------------------------------------
(* The owner *)

\* Regression: the answer of pg_try_advisory_lock is ignored.
TryLock_IgnoresAnswer(r) ==
  /\ pc[r] = "start"
  /\ holder' = IF holder = NoOne THEN r ELSE holder
  /\ pc' = [pc EXCEPT ![r] = "ddl"]
  /\ UNCHANGED <<createIndexes, catalog, next, busy, lost, orphans, faults>>

\* pg_try_advisory_lock never blocks; the loser becomes a follower for good.
TryLock(r) ==
  /\ pc[r] = "start"
  /\ \/ /\ holder = NoOne
        /\ holder' = r
        /\ pc' = [pc EXCEPT ![r] = "ddl"]
     \/ /\ holder # NoOne
        /\ pc' = [pc EXCEPT ![r] = "poll"]
        /\ UNCHANGED holder
  /\ UNCHANGED <<createIndexes, catalog, next, busy, lost, orphans, faults>>

\* IF NOT EXISTS: an object of that name is there, usable or not.  The statement
\* waits for a build under way, which has the table locked against another.
SkipStmt(r) ==
  /\ pc[r] = "ddl" /\ ~busy[r] /\ next[r] <= LastStmt
  /\ catalog[next[r]] \in {"valid", "invalid"}
  /\ next' = [next EXCEPT ![r] = @ + 1]
  /\ UNCHANGED <<createIndexes, catalog, holder, pc, busy, lost, orphans, faults>>

\* A concurrent index build shows its catalog entry at once, not yet valid.
SendStmt(r) ==
  /\ pc[r] = "ddl" /\ ~busy[r] /\ next[r] <= LastStmt
  /\ catalog[next[r]] = "absent"
  /\ busy' = [busy EXCEPT ![r] = TRUE]
  /\ catalog' = IF IsIndex(next[r]) THEN [catalog EXCEPT ![next[r]] = "building"] ELSE catalog
  /\ UNCHANGED <<createIndexes, holder, pc, next, lost, orphans, faults>>

FinishStmt(r) ==
  /\ busy[r]
  /\ catalog[next[r]] # "valid"
  /\ catalog' = [catalog EXCEPT ![next[r]] = "valid"]
  /\ busy' = [busy EXCEPT ![r] = FALSE]
  /\ next' = [next EXCEPT ![r] = @ + 1]
  /\ UNCHANGED <<createIndexes, holder, pc, lost, orphans, faults>>

\* What an unfinished statement leaves: nothing, or an invalid index.
Abandoned(s) == IF IsIndex(s) THEN [catalog EXCEPT ![s] = "invalid"] ELSE catalog

\* The error is returned through MigrateWithLock, whose deferred calls unlock
\* and release the connection, to log.Fatalf.  A table another session has
\* created meanwhile always ends this way.
FailStmt(r) ==
  /\ busy[r]
  /\ \/ /\ faults.error < MaxErrors
        /\ faults' = [faults EXCEPT !.error = @ + 1]
        /\ catalog' = IF catalog[next[r]] = "valid" THEN catalog ELSE Abandoned(next[r])
     \/ /\ catalog[next[r]] = "valid"
        /\ UNCHANGED <<faults, catalog>>
  /\ holder' = Released(r)
  /\ pc' = [pc EXCEPT ![r] = "dead"]
  /\ busy' = [busy EXCEPT ![r] = FALSE]
  /\ UNCHANGED <<createIndexes, next, lost, orphans>>

\* Regression: the last statement is sent but its answer not awaited.
Migrated_Early(r) ==
  /\ pc[r] = "ddl" /\ next[r] >= LastStmt
  /\ holder' = Released(r)
  /\ pc' = [pc EXCEPT ![r] = "run"]
  /\ UNCHANGED <<createIndexes, catalog, next, busy, lost, orphans, faults>>

\* All statements done: the deferred unlock, then the workers start.
Migrated(r) ==
  /\ pc[r] = "ddl" /\ ~busy[r] /\ next[r] > LastStmt
  /\ holder' = Released(r)
  /\ pc' = [pc EXCEPT ![r] = "run"]
  /\ UNCHANGED <<createIndexes, catalog, next, busy, lost, orphans, faults>>

-----------------------------------------------------------------------------
(* Followers: WaitForSchema *)

\* Regression: one table of the list is enough.
TablesSeen_AnyTable(r) ==
  /\ pc[r] = "poll"
  /\ \E s \in 1..NT : catalog[s] = "valid"
  /\ pc' = [pc EXCEPT ![r] = IF createIndexes THEN "pollIndex" ELSE "run"]
  /\ UNCHANGED <<createIndexes, catalog, holder, next, busy, lost, orphans, faults>>

\* checkMissingTables found them all.  A failed query reports them missing,
\* which is another round.
TablesSeen(r) ==
  /\ pc[r] = "poll"
  /\ \A s \in 1..NT : catalog[s] = "valid"
  /\ pc' = [pc EXCEPT ![r] = IF createIndexes THEN "pollIndex" ELSE "run"]
  /\ UNCHANGED <<createIndexes, catalog, holder, next, busy, lost, orphans, faults>>

\* indexExists asks pg_indexes, which lists an index whether valid or not.
IndexSeen(r) ==
  /\ pc[r] = "pollIndex"
  /\ catalog[Sentinel] # "absent"
  /\ pc' = [pc EXCEPT ![r] = "run"]
  /\ UNCHANGED <<createIndexes, catalog, holder, next, busy, lost, orphans, faults>>

\* Not there yet, or the query failed: back to the first query.
IndexNotSeen(r) ==
  /\ pc[r] = "pollIndex"
  /\ pc' = [pc EXCEPT ![r] = "poll"]
  /\ UNCHANGED <<createIndexes, catalog, holder, next, busy, lost, orphans, faults>>

-----------------------------------------------------------------------------
(* Failures *)

\* r is gone; its statement, if any, goes on without a client.
Dies(r) ==
  /\ pc[r] # "dead"
  /\ pc' = [pc EXCEPT ![r] = "dead"]
  /\ busy' = [busy EXCEPT ![r] = FALSE]
  /\ orphans' = IF busy[r] THEN orphans \cup {next[r]} ELSE orphans
  /\ UNCHANGED <<createIndexes, catalog, next, lost>>

\* The process dies and its sockets close.  A signal does this too: no
\* handler is installed during start-up.
Crash(r) ==
  /\ faults.crash < MaxCrashes
  /\ faults' = [faults EXCEPT !.crash = @ + 1]
  /\ holder' = Released(r)
  /\ Dies(r)

\* The node or its network dies: the server keeps the session for now.
LoseNode(r) ==
  /\ faults.node < MaxNodeLosses
  /\ faults' = [faults EXCEPT !.node = @ + 1]
  /\ holder' = IF holder = r THEN Ghost ELSE holder
  /\ Dies(r)

ReapGhost ==
  /\ holder = Ghost
  /\ holder' = NoOne
  /\ UNCHANGED <<createIndexes, catalog, pc, next, busy, lost, orphans, faults>>

\* Only the connection that holds the lock breaks; schema.go does not notice.
LoseLock(r) ==
  /\ pc[r] = "ddl" /\ holder = r
  /\ faults.lock < MaxLockLosses
  /\ faults' = [faults EXCEPT !.lock = @ + 1]
  /\ holder' = NoOne
  /\ lost' = [lost EXCEPT ![r] = TRUE]
  /\ UNCHANGED <<createIndexes, catalog, pc, next, busy, orphans>>

Restart(r) ==
  /\ pc[r] = "dead"
  /\ pc' = [pc EXCEPT ![r] = "start"]
  /\ next' = [next EXCEPT ![r] = 1]
  /\ lost' = [lost EXCEPT ![r] = FALSE]
  /\ UNCHANGED <<createIndexes, catalog, holder, busy, orphans, faults>>

\* The server finishes or gives up a statement nobody waits for.
OrphanEnds(s) ==
  /\ s \in orphans
  /\ orphans' = orphans \ {s}
  /\ \/ catalog' = [catalog EXCEPT ![s] = "valid"]
     \/ catalog' = IF catalog[s] = "valid" THEN catalog ELSE Abandoned(s)
  /\ UNCHANGED <<createIndexes, holder, pc, next, busy, lost, faults>>

-----------------------------------------------------------------------------
Migrate(r) ==
  TryLock(r) \/ SkipStmt(r) \/ SendStmt(r) \/ FinishStmt(r) \/ FailStmt(r) \/ Migrated(r)

Next ==
  \/ \E r \in Replicas :
       \/ Migrate(r)
       \/ TablesSeen(r) \/ IndexSeen(r) \/ IndexNotSeen(r)
       \/ Crash(r) \/ LoseNode(r) \/ LoseLock(r) \/ Restart(r)
  \/ ReapGhost
  \/ \E s \in Stmts : OrphanEnds(s)

Spec == Init /\ [][Next]_vars

\* Replicas keep running, a dead one is started again, the server ends
\* sessions and statements of clients that are gone, and a follower's
\* queries do not fail for ever.
Fairness ==
  /\ \A r \in Replicas : /\ WF_vars(Migrate(r)) /\ WF_vars(TablesSeen(r))
                         /\ SF_vars(IndexSeen(r)) /\ WF_vars(Restart(r))
  /\ WF_vars(ReapGhost)
  /\ \A s \in Stmts : WF_vars(OrphanEnds(s))

FairSpec == Spec /\ Fairness
-----------------------------------------------------------------------------
(* Properties *)

\* Types, and a statement in flight belongs to a replica in its DDL phase.
TypeOK ==
  /\ createIndexes \in BOOLEAN
  /\ catalog \in [Stmts -> {"absent", "building", "valid", "invalid"}]
  /\ holder \in Replicas \cup {NoOne, Ghost}
  /\ pc \in [Replicas -> {"start", "ddl", "poll", "pollIndex", "run", "dead"}]
  /\ next \in [Replicas -> 1..(NT + NI + 1)]
  /\ busy \in [Replicas -> BOOLEAN]
  /\ lost \in [Replicas -> BOOLEAN]
  /\ orphans \in SUBSET Stmts
  /\ faults \in [crash : Nat, node : Nat, lock : Nat, error : Nat]
  /\ \A r \in Replicas : busy[r] => pc[r] = "ddl" /\ next[r] <= LastStmt

\* No worker starts against a missing relation: a replica past the migration,
\* as owner or as follower, finds every table usable and, with CREATE_INDEXES,
\* every index at least in the catalog, whoever crashed, was restarted or lost
\* its lock on the way.
RunningHasSchema ==
  \A r \in Replicas : pc[r] = "run" =>
    /\ \A s \in 1..NT : catalog[s] = "valid"
    /\ createIndexes => \A s \in Stmts : catalog[s] # "absent"

\* The advisory lock keeps DDL to one replica as long as its session lives:
\* a replica that runs DDL holds the lock unless its lock connection broke.
LockProtectsDdl ==
  \A r \in Replicas : (pc[r] = "ddl" /\ ~lost[r]) => holder = r

\* Everybody gets to work in the end (with restarts, as under a Deployment).
EveryReplicaRuns == \A r \in Replicas : <>(pc[r] = "run")

\* schema.go:106 followers "don't start workers while CREATE INDEX still holds
\* locks on the tables".
NoWorkersDuringIndexBuild ==
  (\E r \in Replicas : pc[r] = "run") => \A s \in Stmts : catalog[s] # "building"

\* pg-loadgen-plan.md:368 the DDL is "safe to re-run across restarts": once an
\* owner has completed it and no build is going on, the indexes asked for are
\* usable.
RerunCompletesIndexes ==
  (createIndexes /\ orphans = {} /\ \A r \in Replicas : pc[r] = "run") =>
    \A s \in Stmts : catalog[s] = "valid"
=============================================================================
