--------------------------- MODULE Configuration ----------------------------
(***************************************************************************)
(* The environment variables a run is configured by, and what is made of   *)
(* them (src/config/config.go).  An environment is a function on the       *)
(* variables that are set to something other than the empty string;        *)
(* Malformed is any text that strconv cannot parse, and no text at all for *)
(* the variables that are strings.                                         *)
(***************************************************************************)
EXTENDS Integers, Sequences

CONSTANTS
  Malformed,
  DefaultWorkers    \* 20 in the code; smaller to keep instances small

ASSUME DefaultWorkersAssumption == DefaultWorkers \in Nat \ {0}

Default ==
  [PG_DSN |-> "localhost", PROFILE |-> "oltp-jsonb", WORKERS |-> DefaultWorkers,
   CREATE_INDEXES |-> FALSE, READ_PAYLOAD |-> FALSE,
   RING_SIZE |-> 10000, MIN_PAYLOAD_KB |-> 8, MAX_PAYLOAD_KB |-> 16, TOAST_PCT |-> 20,
   DELETE_BATCH_SIZE |-> 50, USER_POOL_SIZE |-> 10000, ACTOR_POOL_SIZE |-> 100,
   THINK_TIME_MS |-> 0, METRICS_PORT |-> 9090, RUN_DURATION_SECS |-> 0,
   SUMMARY_INTERVAL_SECS |-> 30, INDEX_STATS_INTERVAL_SECS |-> 30,
   SHUTDOWN_TIMEOUT_SECS |-> 5, SCHEMA_POLL_MS |-> 500, RESULT_JSON_PATH |-> ""]

\* The variables read with getEnvInt; the others are texts and Booleans.
Numbers ==
  DOMAIN Default \ {"PG_DSN", "PROFILE", "RESULT_JSON_PATH", "CREATE_INDEXES", "READ_PAYLOAD"}

\* getEnv, getEnvInt, getEnvBool: a number or a Boolean that cannot be parsed
\* counts as not set.
GetEnv(env, v, def) ==
  IF v \in DOMAIN env /\ env[v] # Malformed THEN env[v] ELSE def

Load(env) == [v \in DOMAIN Default |-> GetEnv(env, v, Default[v])]

Positive ==
  {"WORKERS", "RING_SIZE", "DELETE_BATCH_SIZE", "USER_POOL_SIZE", "ACTOR_POOL_SIZE",
   "METRICS_PORT", "SUMMARY_INTERVAL_SECS", "INDEX_STATS_INTERVAL_SECS", "SCHEMA_POLL_MS",
   "SHUTDOWN_TIMEOUT_SECS"}

\* Regression: the pools of users and actors are taken for optional.
Valid_EmptyPools(cfg) ==
  /\ 1 <= cfg.MIN_PAYLOAD_KB /\ cfg.MIN_PAYLOAD_KB <= cfg.MAX_PAYLOAD_KB
  /\ cfg.TOAST_PCT \in 0..100
  /\ cfg.RUN_DURATION_SECS >= 0
  /\ \A v \in Positive \ {"USER_POOL_SIZE", "ACTOR_POOL_SIZE"} : cfg[v] >= 1
  /\ cfg.USER_POOL_SIZE >= 0 /\ cfg.ACTOR_POOL_SIZE >= 0

\* Load returns no error.
Valid(cfg) ==
  /\ 1 <= cfg.MIN_PAYLOAD_KB /\ 1 <= cfg.MAX_PAYLOAD_KB
  /\ cfg.MIN_PAYLOAD_KB <= cfg.MAX_PAYLOAD_KB
  /\ cfg.TOAST_PCT \in 0..100
  /\ cfg.RUN_DURATION_SECS >= 0
  /\ \A v \in Positive : cfg[v] >= 1
=============================================================================
