---------------------------- MODULE MCComponents ----------------------------
(***************************************************************************)
(* Five components that share no state, on small instances: the process as *)
(* main sees it, the session ring, the latency summary, the payload        *)
(* templates and the mix of operations.  One of them moves in a behaviour, *)
(* the others rest.                                                        *)
(***************************************************************************)
EXTENDS Process, SessionRing, LatencyReport, PayloadPool, TLC

VARIABLE part

\* Tallies around the ranks of the quantiles.
MCTallies == {1, 9, 10, 49, 50, 98, 99, 449, 450, 950, 998, 999}

OpVars == {OpDefs[i].var : i \in DOMAIN OpDefs}
MixEnvs == [OpVars -> {Malformed, -5, 0, 5, 20, 50, 100}]

(* Environments of a process: the defaults, every variable on its own at
   values below its limit, all at 1, all unparsable, the payload range in both
   orders, runs that bring all users of the pool together, one worker more than
   an int32 allows, and numbers too large for the machine. *)

Around == [WORKERS |-> {-1, 0, MaxWorkers}, TOAST_PCT |-> {-1, 0, 100, 101}]

\* Values at and beyond the machine's limits: the last interval that fits, the
\* first that does not and one that wraps around to a positive number, the same
\* of slices and payloads, and the largest int.
Intervals == (Limit - 1) \div Second
Oversized ==
  {v :> x : v \in {"SUMMARY_INTERVAL_SECS", "INDEX_STATS_INTERVAL_SECS"},
            x \in {Intervals, Intervals + 1, 2 * Intervals + 1, Limit - 1}}
  \cup {v :> x : v \in {"RING_SIZE", "USER_POOL_SIZE", "ACTOR_POOL_SIZE"},
                 x \in {MaxAlloc \div 16, MaxAlloc \div 16 + 1, Limit - 1}}
  \cup {"MIN_PAYLOAD_KB" :> x @@ "MAX_PAYLOAD_KB" :> x
          : x \in {MaxAlloc \div 1024, MaxAlloc \div 512, Limit \div 3072, Limit \div 1024, Limit - 1}}
  \cup {"MAX_PAYLOAD_KB" :> MaxAlloc \div 256}

Payloads == {"MIN_PAYLOAD_KB" :> lo @@ "MAX_PAYLOAD_KB" :> hi : lo, hi \in {1, 2}}

Mixes ==
  {"WRITE_PCT" :> 40 @@ "READ_IP_PCT" :> 0, "WRITE_PCT" :> 40, "DELETE_PCT" :> -10,
   "UPDATE_PCT" :> Malformed}

Run(n, secs) ==
  "WORKERS" :> n @@ "CREATE_INDEXES" :> TRUE @@ "RESULT_JSON_PATH" :> "result.json"
    @@ "RUN_DURATION_SECS" :> secs

Full == {Run(n, 60) : n \in 1..(MaxWorkers - 1)} \cup {Run(1, 0)}

MCEnvs ==
  {<< >>} \cup Payloads \cup Mixes \cup Full \cup Oversized
  \cup {[v \in Numbers |-> 1], [v \in Numbers \cup {"CREATE_INDEXES"} |-> Malformed]}
  \cup UNION {{v :> x : x \in IF v \in DOMAIN Around THEN Around[v] ELSE {-1, 0}} : v \in Numbers}
  \cup {"PROFILE" :> "queue", "PG_DSN" :> "::"}
-----------------------------------------------------------------------------
NoStats == [count |-> 0, errors |-> 0, latencies |-> << >>]

MCInit ==
  /\ part \in {"process", "ring", "report", "payload", "mix"}
  /\ ProcessInit /\ (part # "process" => env = << >>)
  /\ IF part = "report" THEN ReportInit ELSE stats = NoStats
  /\ Init /\ PayloadInit

MCNext ==
  /\ part' = part
  /\ \/ part = "process" /\ ProcessNext /\ UNCHANGED <<vars, stats, payloadVars>>
     \/ part = "ring" /\ Next /\ UNCHANGED <<processVars, stats, payloadVars>>
     \/ part = "report" /\ ReportNext /\ UNCHANGED <<processVars, vars, payloadVars>>
     \/ part = "payload" /\ PayloadNext /\ UNCHANGED <<processVars, vars, stats>>
     \/ /\ part = "mix" /\ mix = << >>
        /\ \E e \in MixEnvs : mix' = ResolveWeights(e)
        /\ UNCHANGED <<env, cfg, main, live, poolVars, done, vars, stats, payloadVars>>

MCSpec ==
  MCInit /\ [][MCNext]_<<part, processVars, vars, stats, payloadVars>> /\ Fairness
=============================================================================
