------------------------------ MODULE Process -------------------------------
(***************************************************************************)
(* A pgstorm process from its environment to its exit (src/main.go): every *)
(* step of main with its fatal exits, the goroutines it launches, and the  *)
(* connection pool (src/db/pool.go) they share with it.  The migration,    *)
(* the operations, the polling loops and the result have modules of their  *)
(* own; here they are what they hold of the pool, and for how long.        *)
(*                                                                         *)
(* The pool is external (pgxpool).  It has MaxConns slots.  A slot is free, *)
(* with a user, or in the pool's own hands: while a broken or expired      *)
(* connection is destroyed in the background, while an idle one is opened  *)
(* ahead of time, while idle ones are checked.  Who asks when no slot is   *)
(* free queues until one is, or until its context is done; Close waits for *)
(* every slot that is not free.                                            *)
(*                                                                         *)
(* Integers have the machine's width: a conversion or product wraps        *)
(* around, and make panics on a length beyond the address space.  The      *)
(* widths are constants because TLC's own integers are narrow.             *)
(***************************************************************************)
EXTENDS OpMix

CONSTANTS
  Envs,         \* environments the process may be started in
  MaxWorkers,   \* bound on cfg.Workers in Envs
  Registered,   \* names in profileFactories
  BadDSNs,      \* texts pgxpool.ParseConfig rejects
  Limit,        \* int and time.Duration hold -Limit..(Limit - 1); 2^63 in the code
  Limit32,      \* the same of int32; 2^31
  Second,       \* time.Second in nanoseconds; 10^9
  MaxAlloc,     \* bytes make can be asked for; 2^48
  MaxOwn        \* bound on the slots in the pool's own hands

VARIABLES
  env,          \* the environment of the process
  cfg,          \* the configuration, once loaded
  main,         \* program counter of main
  live,         \* goroutines launched that have not returned
  conn,         \* what each user has of the pool: "none", "held", "queued"
  own,          \* number of slots in the pool's own hands
  done          \* runCtx.Done() is closed

poolVars == <<conn, own>>
processVars == <<env, cfg, mix, main, live, poolVars, done>>

\* The users of the pool.  main has two connections of its own: the one that
\* carries the migration lock, and one for the statement it is executing.
Lock == <<"lock", 0>>
Main == <<"main", 0>>
Loops == {<<"table", 0>>, <<"pg", 0>>, <<"index", 0>>}
WorkersUpTo(n) == {<<"worker", i>> : i \in 1..n}
Workers == WorkersUpTo(MaxWorkers)
Users == {Lock, Main} \cup Loops \cup Workers

ASSUME ProcessAssumption == MaxWorkers \in Nat \ {0} /\ MaxOwn \in Nat

\* The defaults are within the machine's limits, and three times what can be
\* allocated is still an int.
ASSUME MachineAssumption ==
  /\ Limit \in Nat /\ Limit32 \in Nat \ {0} /\ Second \in Nat \ {0} /\ MaxAlloc \in Nat
  /\ 160000 <= MaxAlloc /\ 3 * MaxAlloc < Limit
  /\ DefaultWorkers + 5 < Limit32 /\ Limit32 <= Limit

Ints == -Limit..(Limit - 1)

\* What strconv.Atoi accepts is an int.
ASSUME EnvsAssumption ==
  \A e \in Envs :
    /\ \A v \in Numbers : GetEnv(e, v, 0) \in Ints
    /\ \A i \in DOMAIN OpDefs : Weight(e, OpDefs[i]) \in Int

ProcessInit ==
  /\ env \in Envs
  /\ cfg = << >> /\ mix = << >>
  /\ main = "load"
  /\ live = {} /\ done = FALSE
  /\ conn = [u \in Users |-> "none"] /\ own = 0

-----------------------------------------------------------------------------
(* The machine *)

\* A conversion to the integers -limit..(limit - 1).
Wrap(n, limit) == ((n + limit) % (2 * limit)) - limit

\* time.Duration(n) * time.Second
Duration(n) == Wrap(n * Second, Limit)

\* make does not panic: n elements of this many bytes.
Makes(n, size) == 0 <= n /\ n * size <= MaxAlloc

-----------------------------------------------------------------------------
(* The pool *)

Held == {u \in Users : conn[u] = "held"}
Queued == {u \in Users : conn[u] = "queued"}

\* Regression: no buffer for anything but the workers.
MaxConns_NoBuffer == Wrap(cfg.WORKERS, Limit32)

\* int32(cfg.Workers + 5)
MaxConns == Wrap(Wrap(cfg.WORKERS + 5, Limit), Limit32)

SlotFree == Cardinality(Held) + own < MaxConns

Acquire(u) ==
  /\ conn' = [conn EXCEPT ![u] = IF SlotFree THEN "held" ELSE "queued"]
  /\ own' = own

\* A slot that comes free goes to one of those that queue.
Handed(c) ==
  LET queue == {u \in Users : c[u] = "queued"}
  IN  IF queue = {} THEN {c} ELSE {[c EXCEPT ![u] = "held"] : u \in queue}

\* A connection that is broken, busy or expired is destroyed in the background
\* and keeps its slot until that is done.
Release(u) ==
  LET c == [conn EXCEPT ![u] = "none"]
  IN  \/ conn' \in Handed(c) /\ own' = own
      \/ own < MaxOwn /\ conn' = c /\ own' = own + 1

PoolOpen == main \in {"acquire", "migrate", "init", "snapshot", "launch", "select", "wait",
                      "closing", "shutdown"}

\* Acquire finds the idle connection it got expired or dead, leaves it to be
\* destroyed and asks again.
AcquireAgain(u) ==
  /\ PoolOpen /\ conn[u] = "held" /\ own < MaxOwn
  /\ conn' = [conn EXCEPT ![u] = IF SlotFree THEN "held" ELSE "queued"]
  /\ own' = own + 1
  /\ UNCHANGED <<env, cfg, mix, main, live, done>>

\* The health check takes an idle connection, or opens one up to MinConns.
PoolTakes ==
  /\ PoolOpen /\ SlotFree /\ own < MaxOwn
  /\ own' = own + 1
  /\ UNCHANGED <<env, cfg, mix, main, live, conn, done>>

PoolReturns ==
  /\ PoolOpen \/ main = "close"
  /\ own > 0 /\ own' = own - 1
  /\ conn' \in Handed(conn)
  /\ UNCHANGED <<env, cfg, mix, main, live, done>>

-----------------------------------------------------------------------------
(* main, up to the launch.  log.Fatalf exits without running a defer. *)

LoadConfig ==
  /\ main = "load"
  /\ LET c == Load(env) IN
       IF Valid(c) THEN cfg' = c /\ main' = "profile"
                   ELSE cfg' = cfg /\ main' = "fatal"
  /\ UNCHANGED <<env, mix, live, poolVars, done>>

GetProfile ==
  /\ main = "profile"
  /\ main' = IF cfg.PROFILE \in Registered THEN "weights" ELSE "fatal"
  /\ UNCHANGED <<env, cfg, mix, live, poolVars, done>>

ResolveMix ==
  /\ main = "weights"
  /\ mix' = ResolveWeights(env)
  /\ main' = IF mix' = << >> THEN "fatal" ELSE "pool"
  /\ UNCHANGED <<env, cfg, live, poolVars, done>>

\* ParseConfig, NewWithConfig, which wants at least one slot, and the ping;
\* nobody else uses the pool yet.
NewPool ==
  /\ main = "pool"
  /\ main' \in IF cfg.PG_DSN \in BadDSNs \/ MaxConns < 1 THEN {"fatal"} ELSE {"acquire", "fatal"}
  /\ UNCHANGED <<env, cfg, mix, live, poolVars, done>>

\* MigrateWithLock keeps the connection of its lock to the end, whether it is
\* the owner or a follower ...
MigrateBegin ==
  /\ main = "acquire"
  /\ Acquire(Lock)
  /\ main' = "migrate"
  /\ UNCHANGED <<env, cfg, mix, live, done>>

\* ... and sends every statement, or poll of the schema, over another one.
MigrateStatement ==
  /\ main = "migrate" /\ conn[Lock] = "held"
  /\ \/ conn[Main] = "none" /\ Acquire(Main)
     \/ conn[Main] = "held" /\ Release(Main)
  /\ UNCHANGED <<env, cfg, mix, main, live, done>>

\* Regression: conn.Release is not deferred.
MigrateEnd_Leaks ==
  /\ main = "migrate" /\ conn[Lock] = "held" /\ conn[Main] = "none"
  /\ main' \in {"init", "fatal"}
  /\ UNCHANGED <<env, cfg, mix, live, poolVars, done>>

MigrateEnd ==
  /\ main = "migrate" /\ conn[Lock] = "held" /\ conn[Main] = "none"
  /\ Release(Lock)
  /\ main' \in {"init", "fatal"}
  /\ UNCHANGED <<env, cfg, mix, live, done>>

\* buildRequest and buildResponse: so many random bytes, and their base64 text.
BodyBuilds(bodyKB) ==
  LET n == Wrap(Wrap(bodyKB * 1024, Limit) * 3, Limit) \div 4
  IN  Makes(n, 1) /\ Makes(4 * ((n + 2) \div 3), 1)

TemplateBuilds(targetKB) ==
  LET AtLeast1(n) == IF n < 1 THEN 1 ELSE n
      budget == AtLeast1(targetKB - 4)
      req    == AtLeast1(Wrap(budget * 3, Limit) \div 5)
  IN  BodyBuilds(req) /\ BodyBuilds(AtLeast1(budget - req))

\* What OLTPProfile.Init needs not to panic: room for the ids (16 bytes each)
\* and the templates, and an argument of at least 1 for rand.Intn.
StateBuilds(targetKB) ==
  /\ Makes(cfg.RING_SIZE, 16) /\ Makes(cfg.USER_POOL_SIZE, 16) /\ Makes(cfg.ACTOR_POOL_SIZE, 16)
  /\ Wrap(cfg.MAX_PAYLOAD_KB - cfg.MIN_PAYLOAD_KB + 1, Limit) >= 1
  /\ TemplateBuilds(targetKB)

\* OLTPProfile.Init with any size rand.Intn may draw, the registrations and the
\* HTTP server, whose failure is logged and changes nothing.
InitProfile ==
  /\ main = "init"
  /\ \E targetKB \in cfg.MIN_PAYLOAD_KB..cfg.MAX_PAYLOAD_KB :
       main' = IF ~StateBuilds(targetKB) THEN "panicked"
               ELSE IF cfg.RESULT_JSON_PATH # "" THEN "snapshot" ELSE "launch"
  /\ UNCHANGED <<env, cfg, mix, live, poolVars, done>>

\* SnapshotDataset and SnapshotServerInfo before the launch, SnapshotDataset
\* again at the end.  Each query gives its connection back before the next, so
\* one stands for all; a failure, such as no connection within the ten seconds
\* of the closing one, is logged.
SnapshotQuery ==
  /\ main \in {"snapshot", "closing"} /\ conn[Main] = "none"
  /\ Acquire(Main)
  /\ UNCHANGED <<env, cfg, mix, main, live, done>>

SnapshotEnd ==
  /\ main \in {"snapshot", "closing"} /\ conn[Main] = "held"
  /\ Release(Main)
  /\ main' = IF main = "snapshot" THEN "launch" ELSE "shutdown"
  /\ UNCHANGED <<env, cfg, mix, live, done>>

ClosingTimeout ==
  /\ main = "closing" /\ conn[Main] = "queued"
  /\ conn' = [conn EXCEPT ![Main] = "none"]
  /\ main' = "shutdown"
  /\ UNCHANGED <<env, cfg, mix, live, own, done>>

\* time.NewTicker panics unless the interval is positive.
TickersStart ==
  Duration(cfg.SUMMARY_INTERVAL_SECS) > 0 /\ Duration(cfg.INDEX_STATS_INTERVAL_SECS) > 0

\* The loops and the workers, which take their first step in any order; that of
\* a loop is to start its ticker.  The summary loop uses no connection and is
\* left to RunLifecycle.
Launch ==
  /\ main = "launch"
  /\ live' = {u \in Loops : u[1] = "index" => cfg.CREATE_INDEXES} \cup WorkersUpTo(cfg.WORKERS)
  /\ main' = IF TickersStart THEN "select" ELSE "panicked"
  /\ UNCHANGED <<env, cfg, mix, poolVars, done>>

-----------------------------------------------------------------------------
(* The goroutines.  A worker's operation and a loop's query hold one
   connection from their first statement to their last. *)

\* pickUser, pickActor and Push panic on an empty pool or ring.
OperationsRun == cfg.RING_SIZE > 0 /\ cfg.USER_POOL_SIZE > 0 /\ cfg.ACTOR_POOL_SIZE > 0

Running == main \in {"select", "wait", "closing", "shutdown", "close"}

Begin(u) ==
  /\ Running /\ ~done /\ u \in live /\ conn[u] = "none"
  /\ IF u \in Workers /\ ~OperationsRun
     THEN main' = "panicked" /\ UNCHANGED poolVars
     ELSE Acquire(u) /\ UNCHANGED main
  /\ UNCHANGED <<env, cfg, mix, live, done>>

End(u) ==
  /\ Running /\ u \in live /\ conn[u] = "held"
  /\ Release(u)
  /\ UNCHANGED <<env, cfg, mix, main, live, done>>

\* Acquire returns the error of a context that is done.
GiveUp(u) ==
  /\ Running /\ done /\ conn[u] = "queued"
  /\ conn' = [conn EXCEPT ![u] = "none"]
  /\ UNCHANGED <<env, cfg, mix, main, live, own, done>>

Return(u) ==
  /\ Running /\ done /\ u \in live /\ conn[u] = "none"
  /\ live' = live \ {u}
  /\ UNCHANGED <<env, cfg, mix, main, poolVars, done>>

-----------------------------------------------------------------------------
(* main, from the launch to the exit *)

\* The timeout of runCtx, which a run of RUN_DURATION_SECS = 0 does not have.
Expire ==
  /\ Running /\ cfg.RUN_DURATION_SECS > 0 /\ ~done
  /\ done' = TRUE
  /\ UNCHANGED <<env, cfg, mix, main, live, poolVars>>

\* Either arm of the select ends in cancel().  A signal may come at any time.
Select ==
  /\ main = "select"
  /\ done' = TRUE
  /\ main' = "wait"
  /\ UNCHANGED <<env, cfg, mix, live, poolVars>>

\* wg.Wait: the workers only, not the loops.  Without a result path, or a
\* first measurement, there is no closing one.
WorkersGone ==
  /\ main = "wait" /\ live \cap Workers = {}
  /\ main' \in IF cfg.RESULT_JSON_PATH # "" THEN {"closing", "shutdown"} ELSE {"shutdown"}
  /\ UNCHANGED <<env, cfg, mix, live, poolVars, done>>

\* srv.Shutdown returns when SHUTDOWN_TIMEOUT_SECS are over at the latest.
Shutdown ==
  /\ main = "shutdown"
  /\ main' = "close"
  /\ UNCHANGED <<env, cfg, mix, live, poolVars, done>>

\* The deferred pool.Close waits until all connections are destroyed.
ClosePool ==
  /\ main = "close" /\ Held = {} /\ own = 0
  /\ main' = "exited"
  /\ UNCHANGED <<env, cfg, mix, live, poolVars, done>>

MainNext ==
  \/ LoadConfig \/ GetProfile \/ ResolveMix \/ NewPool
  \/ MigrateBegin \/ MigrateStatement \/ MigrateEnd
  \/ InitProfile \/ SnapshotQuery \/ SnapshotEnd \/ ClosingTimeout \/ Launch
  \/ Select \/ WorkersGone \/ Shutdown \/ ClosePool

PoolNext == PoolTakes \/ PoolReturns \/ \E u \in Users : AcquireAgain(u)

ProcessNext ==
  \/ MainNext \/ PoolNext \/ Expire
  \/ \E u \in Loops \cup Workers : Begin(u) \/ End(u) \/ GiveUp(u) \/ Return(u)

\* main runs on after the select; a context that is done ends the query, and
\* the wait for a connection, of every goroutine and makes it return.  A
\* measurement ends because its context has a timeout of ten seconds, and what
\* the pool does in the background has timeouts too.  Nothing else is assumed
\* to progress.
Fairness ==
  /\ WF_processVars(done /\ Select) /\ WF_processVars(WorkersGone) /\ WF_processVars(Shutdown) /\ WF_processVars(ClosePool)
  /\ WF_processVars(main = "closing" /\ (SnapshotQuery \/ SnapshotEnd \/ ClosingTimeout))
  /\ WF_processVars(PoolReturns)
  /\ \A u \in Loops \cup Workers :
       WF_processVars(done /\ (End(u) \/ GiveUp(u))) /\ WF_processVars(Return(u))

ProcessSpec == ProcessInit /\ [][ProcessNext]_processVars /\ Fairness
-----------------------------------------------------------------------------
(* Properties *)

\* The values of a configuration that the machine can make use of: intervals that
\* fit a time.Duration, slices and payloads that fit the address space.
Representable ==
  /\ cfg.SUMMARY_INTERVAL_SECS * Second < Limit /\ cfg.INDEX_STATS_INTERVAL_SECS * Second < Limit
  /\ \A v \in {"RING_SIZE", "USER_POOL_SIZE", "ACTOR_POOL_SIZE"} : cfg[v] * 16 <= MaxAlloc
  /\ cfg.MAX_PAYLOAD_KB * 1024 <= MaxAlloc

\* A process that has loaded its configuration panics, in any goroutine and
\* however late, only over a number too large for the machine: config.Load checks
\* all lower limits that Init, the tickers, the pools and the ring rely on, and a
\* value that cannot be parsed does no harm.  Upper limits it does not check.
AcceptedIsSafe == main = "panicked" => ~Representable

\* Who waits for a connection waits for the pool, never for another user: for each
\* one that queues there is a slot in the pool's own hands, which will be freed
\* without anybody else's help.  The five slots beyond the workers cover the
\* migration, which needs two at once and would otherwise wait for itself, and
\* three polling loops that overlap a measurement.
WaitsOnlyForPool ==
  Queued # {} => \/ Cardinality(Queued) <= own
                 \/ cfg.WORKERS + 5 >= Limit32

\* A process whose context is done exits: every worker returns, and pool.Close
\* finds all connections given back and destroyed, those of the migration and of
\* loops that main does not wait for included.
ExitCompletes == done ~> main = "exited"
=============================================================================
