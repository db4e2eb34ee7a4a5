-------------------------- MODULE ComponentsProofs --------------------------
(***************************************************************************)
(* Proofs about the components that share no state.                        *)
(*                                                                         *)
(* SessionRing, for every size of the ring and every set of ids: its       *)
(* types, and that it implements RecentSessions (src/workload/ring.go).    *)
(*                                                                         *)
(* Process, for every set of environments, any number of workers and any   *)
(* width of the machine's integers: a configuration that is accepted makes *)
(* the process panic only over a number too large for the machine, who     *)
(* waits for a connection waits for the pool and not for another user, and *)
(* every operation gets the share of the rolls that its weight says        *)
(* (src/main.go, src/config/config.go, src/db/pool.go,                     *)
(* src/workload/weights.go).                                               *)
(*                                                                         *)
(* PayloadPool, for any number of writers and every range of sizes: the    *)
(* writers share the templates without disturbing each other               *)
(* (src/workload/payload.go).                                              *)
(*                                                                         *)
(* LatencyReport, for every finite set of latencies and every histogram of *)
(* them: the summary is exact (src/workload/stats.go).                     *)
(***************************************************************************)
EXTENDS Process, SessionRing, LatencyReport, PayloadPool, SumTheorems, FiniteSetTheorems, TLAPS

\* Indices stay below twice the size of the ring.
LEMMA ModSize ==
  \A x \in Nat : x < Size + Size => x % Size = IF x < Size THEN x ELSE x - Size
<1> SUFFICES ASSUME NEW x \in Nat, x < Size + Size
             PROVE  x % Size = IF x < Size THEN x ELSE x - Size
  OBVIOUS
<1>1. CASE x < Size
  BY <1>1, RingAssumption
<1>2. CASE x >= Size
  BY <1>2, RingAssumption
<1> QED
  BY <1>1, <1>2, RingAssumption
-----------------------------------------------------------------------------
(* Types *)

\* The new ring is empty.
LEMMA InitTypeOK == Init => TypeOK
  BY RingAssumption DEF Init, TypeOK, Slots

\* head steps through the slots and wraps at the end.
LEMMA HeadAdvances ==
  ASSUME TypeOK
  PROVE  (head + 1) % Size = IF head + 1 < Size THEN head + 1 ELSE 0
<1>1. PICK x \in Nat : x = head + 1
  BY RingAssumption DEF TypeOK, Slots
<1>2. x <= Size /\ x < Size + Size
  BY <1>1, RingAssumption DEF TypeOK, Slots
<1>3. x % Size = IF x < Size THEN x ELSE x - Size
  BY <1>2, ModSize
<1>4. x % Size = IF x < Size THEN x ELSE 0
  BY <1>2, <1>3, RingAssumption
<1> QED
  BY <1>1, <1>4, Zenon

\* A push fills the next slot and no other.
LEMMA PushTypeOK ==
  ASSUME TypeOK, NEW id \in Ids, Push(id)
  PROVE  TypeOK'
<1>1. head' = IF head + 1 < Size THEN head + 1 ELSE 0
  BY HeadAdvances DEF Push
<1>2. buf' \in [Slots -> Ids \cup {Nil}] /\ head' \in Slots /\ fill' \in 0..Size
  BY <1>1, RingAssumption DEF Push, TypeOK, Slots
<1>3. fill' < Size => head' = fill'
  BY <1>1, RingAssumption DEF Push, TypeOK, Slots
<1>4. ASSUME NEW i \in Slots PROVE buf'[i] = Nil <=> i >= fill'
  BY RingAssumption DEF Push, TypeOK, Slots
<1> QED
  BY <1>2, <1>3, <1>4 DEF Push, TypeOK

\* What a sample returns is an id, or nothing from an empty ring.
LEMMA SampleTypeOK ==
  ASSUME TypeOK, Sample
  PROVE  TypeOK'
<1>1. \A i \in 0..(fill - 1) : buf[i] \in Ids \cup {Nil}
  BY RingAssumption DEF TypeOK, Slots
<1>2. got' \in Ids \cup {Nil}
  BY <1>1 DEF Sample, Samples
<1> QED
  BY <1>2 DEF Sample, TypeOK

\* Slots, head and fill fit together: until the ring is full head counts the
\* slots in use, and the slots in use are exactly the first ones.
THEOREM RingTypeCorrect == Spec => []TypeOK
<1>1. TypeOK /\ [Next]_vars => TypeOK'
  <2> SUFFICES ASSUME TypeOK, [Next]_vars PROVE TypeOK'
    OBVIOUS
  <2>1. CASE UNCHANGED vars
    BY <2>1 DEF vars, TypeOK
  <2> QED
    BY <2>1, PushTypeOK, SampleTypeOK DEF Next
<1> QED
  BY <1>1, InitTypeOK, PTL DEF Spec

-----------------------------------------------------------------------------
(* The refinement of RecentSessions *)

\* The slot of the i-th oldest id.
SlotOf(i) == IF fill < Size THEN i - 1 ELSE (head + i - 1) % Size

\* Every position of Recent has a slot, and no modulo is left in it.
SlotFacts ==
  \A i \in 1..fill :
    /\ SlotOf(i) = IF fill < Size THEN i - 1
                   ELSE IF head + i - 1 < Size THEN head + i - 1 ELSE head + i - 1 - Size
    /\ SlotOf(i) \in 0..(fill - 1)

\* Recent is a sequence of ids of length fill.
RecentFacts ==
  /\ Recent \in Seq(Ids) /\ Len(Recent) = fill
  /\ \A i \in 1..fill : Recent[i] = buf[SlotOf(i)]

\* The slots of a well-formed ring, without the modulo.
LEMMA SlotsKnown == TypeOK => SlotFacts
<1> SUFFICES ASSUME TypeOK, NEW i \in 1..fill
             PROVE  /\ SlotOf(i) = IF fill < Size THEN i - 1
                                   ELSE IF head + i - 1 < Size THEN head + i - 1
                                   ELSE head + i - 1 - Size
                    /\ SlotOf(i) \in 0..(fill - 1)
  BY DEF SlotFacts
<1>1. PICK x \in Nat : x = head + i - 1
  BY RingAssumption DEF TypeOK, Slots
<1>2. x < Size + Size
  BY <1>1, RingAssumption DEF TypeOK, Slots
<1>3. x % Size = IF x < Size THEN x ELSE x - Size
  BY <1>2, ModSize
<1>4. (head + i - 1) % Size = IF x < Size THEN x ELSE x - Size
  BY <1>1, <1>3, Zenon
<1> QED
  BY <1>1, <1>4, RingAssumption DEF SlotOf, TypeOK, Slots

\* A well-formed ring holds a sequence of ids.
LEMMA RecentKnown == TypeOK => RecentFacts
<1> SUFFICES ASSUME TypeOK PROVE RecentFacts
  OBVIOUS
<1>1. Recent = [i \in 1..fill |-> buf[SlotOf(i)]]
  BY DEF Recent, SlotOf
<1>2. \A i \in 1..fill : buf[SlotOf(i)] \in Ids
  BY SlotsKnown, RingAssumption DEF SlotFacts, TypeOK, Slots
<1>3. fill \in Nat
  BY RingAssumption DEF TypeOK
<1> QED
  BY <1>1, <1>2, <1>3 DEF RecentFacts

\* Pushing onto the ring appends to Recent, and drops its oldest id if full.
LEMMA PushRefines ==
  ASSUME TypeOK, NEW id \in Ids, Push(id)
  PROVE  Abstract!Push(id)
<1>0. TypeOK'
  BY PushTypeOK
<1>1. SlotFacts /\ RecentFacts
  BY SlotsKnown, RecentKnown
<1>2. SlotFacts' /\ RecentFacts'
  BY <1>0, SlotsKnown, RecentKnown, PTL
<1> DEFINE more == Append(Recent, id)
<1>3. /\ more \in Seq(Ids) /\ Len(more) = fill + 1
      /\ \A i \in 1..fill : more[i] = buf[SlotOf(i)]
      /\ more[fill + 1] = id
  BY <1>1, RingAssumption DEF RecentFacts, TypeOK
<1>4. head' = IF head + 1 < Size THEN head + 1 ELSE 0
  BY HeadAdvances DEF Push
<1> HIDE DEF more
<1>5. CASE fill < Size
  <2>1. fill' = fill + 1 /\ head = fill
    BY <1>5 DEF Push, TypeOK
  <2>2. ASSUME NEW i \in 1..fill' PROVE Recent'[i] = more[i]
    <3>1. SlotOf(i)' = i - 1
      BY <1>2, <1>4, <1>5, <2>1, RingAssumption DEF SlotFacts, TypeOK
    <3>2. i <= fill => SlotOf(i) = i - 1
      BY <1>1, <1>5, <2>1, RingAssumption DEF SlotFacts, TypeOK
    <3>3. Recent'[i] = buf'[i - 1]
      BY <1>2, <3>1 DEF RecentFacts
    <3>4. CASE i <= fill
      BY <1>3, <1>5, <2>1, <3>2, <3>3, <3>4, RingAssumption DEF Push, TypeOK, Slots
    <3>5. CASE i = fill + 1
      BY <1>3, <1>5, <2>1, <3>3, <3>5, RingAssumption DEF Push, TypeOK, Slots
    <3> QED
      BY <2>1, <3>4, <3>5, RingAssumption DEF TypeOK
  <2>3. Recent' = more
    BY <1>2, <1>3, <2>1, <2>2 DEF RecentFacts
  <2> QED
    BY <1>3, <1>5, <2>3, RingAssumption DEF Abstract!Push, Abstract!LastOf, Push, TypeOK, more
<1>6. CASE fill = Size
  <2>1. fill' = Size
    BY <1>6, RingAssumption DEF Push
  <2> DEFINE last == SubSeq(more, 2, Size + 1)
  <2>2. /\ last \in Seq(Ids) /\ Len(last) = Size
        /\ \A i \in 1..Size : last[i] = more[i + 1]
    BY <1>3, <1>6, RingAssumption
  <2> HIDE DEF last
  <2>3. ASSUME NEW i \in 1..Size PROVE Recent'[i] = last[i]
    <3>1. Recent'[i] = buf'[SlotOf(i)']
      BY <1>2, <2>1 DEF RecentFacts
    <3>2. CASE i < Size
      <4>1. SlotOf(i + 1) = IF head + i < Size THEN head + i ELSE head + i - Size
        BY <1>1, <1>6, <3>2, RingAssumption DEF SlotFacts, TypeOK, Slots
      <4>2. SlotOf(i)' = IF head + i < Size THEN head + i ELSE head + i - Size
        BY <1>2, <1>4, <1>6, <2>1, <3>2, RingAssumption DEF SlotFacts, TypeOK, Slots
      <4>3. SlotOf(i)' \in Slots /\ SlotOf(i)' # head
        BY <4>2, <3>2, RingAssumption DEF TypeOK, Slots
      <4>4. buf'[SlotOf(i)'] = buf[SlotOf(i + 1)]
        BY <4>1, <4>2, <4>3 DEF Push, TypeOK
      <4> QED
        BY <1>3, <1>6, <2>2, <3>1, <3>2, <4>4, RingAssumption
    <3>3. CASE i = Size
      <4>1. SlotOf(i)' = head
        BY <1>2, <1>4, <1>6, <2>1, <3>3, RingAssumption DEF SlotFacts, TypeOK, Slots
      <4> QED
        BY <1>3, <1>6, <2>2, <3>1, <3>3, <4>1, RingAssumption DEF Push, TypeOK
    <3> QED
      BY <3>2, <3>3, RingAssumption
  <2>4. Recent' = last
    BY <1>2, <2>1, <2>2, <2>3 DEF RecentFacts
  <2>5. Len(more) = Size + 1 /\ ~(Len(more) <= Size) /\ Len(more) - Size + 1 = 2
    BY <1>3, <1>6, RingAssumption
  <2>6. Abstract!LastOf(more) = last
    BY <2>5 DEF Abstract!LastOf, last
  <2>7. UNCHANGED got
    BY DEF Push
  <2> QED
    BY <2>4, <2>6, <2>7, Zenon DEF Abstract!Push, more
<1> QED
  BY <1>5, <1>6, RingAssumption DEF TypeOK

\* A sample is one of the ids remembered, or nothing from an empty ring.
LEMMA SampleRefines ==
  ASSUME TypeOK, Sample
  PROVE  Abstract!Sample
<1>1. SlotFacts /\ RecentFacts
  BY SlotsKnown, RecentKnown
<1>2. Recent' = Recent
  BY DEF Sample, Recent
<1>3. CASE fill = 0
  <2>1. Recent = << >>
    BY <1>1, <1>3 DEF RecentFacts
  <2> QED
    BY <1>2, <1>3, <2>1 DEF Sample, Samples, Abstract!Sample
<1>4. CASE fill > 0
  <2>1. Recent # << >>
    BY <1>1, <1>4 DEF RecentFacts
  <2>2. PICK j \in 0..(fill - 1) : got' = buf[j]
    BY <1>4, RingAssumption DEF Sample, Samples, TypeOK
  <2>3. PICK i \in 1..fill : SlotOf(i) = j
    <3>1. CASE fill < Size
      <4>1. j + 1 \in 1..fill /\ SlotOf(j + 1) = j
        BY <1>1, <3>1, RingAssumption DEF SlotFacts, TypeOK
      <4> QED
        BY <4>1
    <3>2. CASE fill = Size /\ j >= head
      <4>1. j - head + 1 \in 1..fill
        BY <3>2, RingAssumption DEF TypeOK, Slots
      <4>2. SlotOf(j - head + 1) = j
        BY <1>1, <3>2, <4>1, RingAssumption DEF SlotFacts, TypeOK, Slots
      <4> QED
        BY <4>1, <4>2
    <3>3. CASE fill = Size /\ j < head
      <4>1. j - head + 1 + Size \in 1..fill
        BY <3>3, RingAssumption DEF TypeOK, Slots
      <4>2. SlotOf(j - head + 1 + Size) = j
        BY <1>1, <3>3, <4>1, RingAssumption DEF SlotFacts, TypeOK, Slots
      <4> QED
        BY <4>1, <4>2
    <3> QED
      BY <3>1, <3>2, <3>3, RingAssumption DEF TypeOK, Slots
  <2>4. got' = Recent[i] /\ i \in DOMAIN Recent
    BY <1>1, <2>2, <2>3 DEF RecentFacts
  <2> QED
    BY <1>2, <2>1, <2>4 DEF Abstract!Sample, Abstract!ToSet
<1> QED
  BY <1>3, <1>4, RingAssumption DEF TypeOK

\* Across every wrap the ring forgets the oldest id and no other, and samples
\* neither an unused slot nor a forgotten id.
THEOREM RingRemembersRecent == Spec => RemembersRecent
<1>1. Init => Abstract!Init
  BY RingAssumption DEF Init, Abstract!Init, Recent
<1>2. TypeOK /\ [Next]_vars => [Abstract!Next]_<<Recent, got>>
  <2> SUFFICES ASSUME TypeOK, [Next]_vars
               PROVE  Abstract!Next \/ UNCHANGED <<Recent, got>>
    OBVIOUS
  <2>1. CASE UNCHANGED vars
    BY <2>1 DEF vars, Recent
  <2> QED
    BY <2>1, PushRefines, SampleRefines DEF Next, Abstract!Next
<1> QED
  BY <1>1, <1>2, RingTypeCorrect, PTL DEF Spec, RemembersRecent, Abstract!Spec

-----------------------------------------------------------------------------
(* The process: the configuration *)

MainSteps ==
  {"load", "profile", "weights", "pool", "acquire", "migrate", "init", "snapshot", "launch",
   "select", "wait", "closing", "shutdown", "close", "exited", "fatal", "panicked"}

\* What every step after config.Load relies on.
Usable ==
  /\ \A v \in Positive : cfg[v] \in 1..(Limit - 1)
  /\ cfg.MIN_PAYLOAD_KB \in 1..(Limit - 1) /\ cfg.MAX_PAYLOAD_KB \in 1..(Limit - 1)
  /\ cfg.MIN_PAYLOAD_KB <= cfg.MAX_PAYLOAD_KB

\* The inductive invariant behind AcceptedIsSafe.
ConfigInv ==
  /\ env \in Envs
  /\ main \in MainSteps
  /\ main \notin {"load", "fatal"} => Usable
  /\ AcceptedIsSafe

\* Every number of a configuration is an int, whatever the environment holds.
LEMMA NumbersLoad ==
  ASSUME NEW e \in Envs, NEW v \in Numbers
  PROVE  Load(e)[v] \in Ints
<1>1. GetEnv(e, v, 0) \in Ints
  BY EnvsAssumption
<1>2. Default[v] \in Ints
  <2>1. DOMAIN Default =
          {"PG_DSN", "PROFILE", "WORKERS", "CREATE_INDEXES", "READ_PAYLOAD", "RING_SIZE",
           "MIN_PAYLOAD_KB", "MAX_PAYLOAD_KB", "TOAST_PCT", "DELETE_BATCH_SIZE",
           "USER_POOL_SIZE", "ACTOR_POOL_SIZE", "THINK_TIME_MS", "METRICS_PORT",
           "RUN_DURATION_SECS", "SUMMARY_INTERVAL_SECS", "INDEX_STATS_INTERVAL_SECS",
           "SHUTDOWN_TIMEOUT_SECS", "SCHEMA_POLL_MS", "RESULT_JSON_PATH"}
    BY DEF Default
  <2>2. v \in Positive \cup {"MIN_PAYLOAD_KB", "MAX_PAYLOAD_KB", "TOAST_PCT", "THINK_TIME_MS",
                              "RUN_DURATION_SECS"}
    BY <2>1 DEF Numbers, Positive
  <2>3. /\ Default.WORKERS = DefaultWorkers /\ Default.RING_SIZE = 10000
        /\ Default.MIN_PAYLOAD_KB = 8 /\ Default.MAX_PAYLOAD_KB = 16 /\ Default.TOAST_PCT = 20
        /\ Default.DELETE_BATCH_SIZE = 50 /\ Default.USER_POOL_SIZE = 10000
        /\ Default.ACTOR_POOL_SIZE = 100 /\ Default.THINK_TIME_MS = 0
        /\ Default.METRICS_PORT = 9090 /\ Default.RUN_DURATION_SECS = 0
        /\ Default.SUMMARY_INTERVAL_SECS = 30 /\ Default.INDEX_STATS_INTERVAL_SECS = 30
        /\ Default.SHUTDOWN_TIMEOUT_SECS = 5 /\ Default.SCHEMA_POLL_MS = 500
    BY DEF Default
  <2> QED
    BY <2>2, <2>3, DefaultWorkersAssumption, MachineAssumption DEF Positive, Ints
<1>3. v \in DOMAIN Default
  BY DEF Numbers
<1>4. GetEnv(e, v, Default[v]) \in Ints
  BY <1>1, <1>2 DEF GetEnv
<1> QED
  BY <1>3, <1>4 DEF Load

\* What config.Load accepts is usable.
LEMMA ValidIsUsable ==
  ASSUME NEW e \in Envs, Valid(Load(e)), cfg' = Load(e)
  PROVE  Usable'
<1>1. Positive \subseteq Numbers /\ {"MIN_PAYLOAD_KB", "MAX_PAYLOAD_KB"} \subseteq Numbers
  BY DEF Positive, Numbers, Default
<1>2. \A v \in Numbers : Load(e)[v] \in Ints
  BY NumbersLoad
<1>3. ASSUME NEW v \in Positive PROVE Load(e)[v] \in 1..(Limit - 1)
  BY <1>1, <1>2, MachineAssumption DEF Valid, Ints
<1>4. /\ Load(e).MIN_PAYLOAD_KB \in 1..(Limit - 1) /\ Load(e).MAX_PAYLOAD_KB \in 1..(Limit - 1)
      /\ Load(e).MIN_PAYLOAD_KB <= Load(e).MAX_PAYLOAD_KB
  BY <1>1, <1>2, MachineAssumption DEF Valid, Ints
<1> QED
  BY <1>3, <1>4 DEF Usable

\* A number within the width is converted to itself.
LEMMA WrapFits ==
  ASSUME NEW limit \in Nat, NEW n \in Int, -limit <= n, n < limit
  PROVE  Wrap(n, limit) = n
<1>1. n + limit \in Nat /\ 2 * limit \in Nat \ {0} /\ n + limit < 2 * limit
  OBVIOUS
<1>2. \A a, b \in Nat : a < b => a % b = a
  OBVIOUS
<1>3. (n + limit) % (2 * limit) = n + limit
  BY <1>1, <1>2
<1> QED
  BY <1>3 DEF Wrap

\* The bodies of a payload that fits the address space are built.
LEMMA BodyFits ==
  ASSUME NEW kb \in Nat, kb * 1024 <= MaxAlloc
  PROVE  BodyBuilds(kb)
<1>1. kb * 1024 < Limit /\ kb * 1024 * 3 < Limit /\ -Limit <= kb * 1024 /\ -Limit <= kb * 1024 * 3
  BY MachineAssumption
<1>2. Wrap(kb * 1024, Limit) = kb * 1024
  BY <1>1, WrapFits, MachineAssumption
<1>3. Wrap(kb * 1024 * 3, Limit) = kb * 1024 * 3
  BY <1>1, WrapFits, MachineAssumption
<1>4. (kb * 1024 * 3) \div 4 = kb * 768 /\ (kb * 768 + 2) \div 3 = kb * 256
  OBVIOUS
<1>5. Makes(kb * 768, 1) /\ Makes(4 * (kb * 256), 1)
  BY MachineAssumption DEF Makes
<1> QED
  BY <1>2, <1>3, <1>4, <1>5 DEF BodyBuilds

LEMMA TemplateFits ==
  ASSUME NEW kb \in Nat \ {0}, kb * 1024 <= MaxAlloc
  PROVE  TemplateBuilds(kb)
<1> DEFINE AtLeast1(n) == IF n < 1 THEN 1 ELSE n
           budget == AtLeast1(kb - 4)
           req == AtLeast1((budget * 3) \div 5)
           resp == AtLeast1(budget - req)
<1>1. budget \in 1..kb /\ budget * 3 < Limit /\ -Limit <= budget * 3
  BY MachineAssumption
<1>2. Wrap(budget * 3, Limit) = budget * 3
  BY <1>1, WrapFits, MachineAssumption
<1>3. req \in 1..kb
  <2>1. (budget * 3) \div 5 \in 0..kb
    BY <1>1
  <2> QED
    BY <2>1
<1>4. resp \in 1..kb
  BY <1>1, <1>3
<1>5. BodyBuilds(req) /\ BodyBuilds(resp)
  <2> HIDE DEF req, resp
  <2>1. \A n \in 1..kb : n \in Nat /\ n * 1024 <= MaxAlloc
    BY MachineAssumption
  <2> QED
    BY <1>3, <1>4, <2>1, BodyFits
<1> QED
  BY <1>2, <1>5 DEF TemplateBuilds

\* No later step finds the configuration wanting, unless a number is too large.
LEMMA UsableSuffices ==
  Usable =>
    /\ OperationsRun
    /\ Representable =>
         TickersStart /\ \A kb \in cfg.MIN_PAYLOAD_KB..cfg.MAX_PAYLOAD_KB : StateBuilds(kb)
<1> SUFFICES ASSUME Usable
             PROVE  /\ OperationsRun
                    /\ Representable =>
                         /\ TickersStart
                         /\ \A kb \in cfg.MIN_PAYLOAD_KB..cfg.MAX_PAYLOAD_KB : StateBuilds(kb)
  OBVIOUS
<1>1. OperationsRun
  BY DEF Usable, Positive, OperationsRun
<1>2. ASSUME Representable PROVE TickersStart
  <2>1. ASSUME NEW n \in 1..(Limit - 1), n * Second < Limit PROVE Duration(n) > 0
    <3>1. n * Second \in Int /\ n * Second > 0 /\ -Limit <= n * Second
      BY MachineAssumption
    <3> QED
      BY <2>1, <3>1, WrapFits, MachineAssumption DEF Duration
  <2> QED
    BY <1>2, <2>1 DEF Representable, TickersStart, Usable, Positive
<1>3. ASSUME Representable, NEW kb \in cfg.MIN_PAYLOAD_KB..cfg.MAX_PAYLOAD_KB
      PROVE  StateBuilds(kb)
  <2>1. \A v \in {"RING_SIZE", "USER_POOL_SIZE", "ACTOR_POOL_SIZE"} : Makes(cfg[v], 16)
    BY <1>3 DEF Representable, Usable, Positive, Makes
  <2>2. Wrap(cfg.MAX_PAYLOAD_KB - cfg.MIN_PAYLOAD_KB + 1, Limit) >= 1
    <3> DEFINE n == cfg.MAX_PAYLOAD_KB - cfg.MIN_PAYLOAD_KB + 1
    <3>1. n \in Int /\ n >= 1 /\ -Limit <= n /\ n < Limit
      BY MachineAssumption DEF Usable
    <3> HIDE DEF n
    <3>2. Wrap(n, Limit) = n
      BY <3>1, WrapFits, MachineAssumption
    <3> QED
      BY <3>1, <3>2 DEF n
  <2>3. kb \in Nat \ {0} /\ kb * 1024 <= MaxAlloc
    BY <1>3, MachineAssumption DEF Usable, Representable
  <2> QED
    BY <2>1, <2>2, <2>3, TemplateFits DEF StateBuilds
<1> QED
  BY <1>1, <1>2, <1>3

\* Every step of the process keeps the configuration usable.
LEMMA NextConfigInv == ConfigInv /\ [ProcessNext]_processVars => ConfigInv'
<1> SUFFICES ASSUME ConfigInv, [ProcessNext]_processVars PROVE ConfigInv'
  OBVIOUS
<1> USE DEF ConfigInv, MainSteps, AcceptedIsSafe
<1>1. CASE LoadConfig
  <2>1. CASE Valid(Load(env))
    BY <1>1, <2>1, ValidIsUsable DEF LoadConfig
  <2>2. CASE ~Valid(Load(env))
    BY <1>1, <2>2 DEF LoadConfig
  <2> QED
    BY <2>1, <2>2
<1>u. ASSUME cfg' = cfg PROVE Usable' = Usable /\ Representable' = Representable
  BY <1>u DEF Usable, Representable
<1>2. CASE GetProfile \/ ResolveMix \/ NewPool \/ MigrateBegin \/ MigrateStatement \/ MigrateEnd
  BY <1>2, <1>u DEF GetProfile, ResolveMix, NewPool, MigrateBegin, MigrateStatement, MigrateEnd
<1>3. CASE InitProfile
  <2>1. main = "init" /\ main' \in {"panicked", "snapshot", "launch"} /\ UNCHANGED <<cfg, env>>
    BY <1>3 DEF InitProfile
  <2>2. ASSUME main' = "panicked" PROVE ~Representable
    <3>1. PICK kb \in cfg.MIN_PAYLOAD_KB..cfg.MAX_PAYLOAD_KB : ~StateBuilds(kb)
      BY <1>3, <2>2 DEF InitProfile
    <3> QED
      BY <2>1, <3>1, UsableSuffices
  <2> QED
    BY <1>u, <2>1, <2>2
<1>4. CASE SnapshotQuery \/ SnapshotEnd \/ ClosingTimeout
  BY <1>4, <1>u DEF SnapshotQuery, SnapshotEnd, ClosingTimeout
<1>5. CASE Launch
  BY <1>5, <1>u, UsableSuffices DEF Launch
<1>6. CASE Select \/ WorkersGone \/ Shutdown \/ ClosePool
  BY <1>6, <1>u DEF Select, WorkersGone, Shutdown, ClosePool
<1>7. CASE Expire \/ PoolNext
  BY <1>7, <1>u DEF Expire, PoolNext, PoolTakes, PoolReturns, AcquireAgain
<1>8. ASSUME NEW u, Begin(u) PROVE ConfigInv'
  BY <1>8, <1>u, UsableSuffices DEF Begin, Running
<1>9. ASSUME NEW u, End(u) \/ GiveUp(u) \/ Return(u) PROVE ConfigInv'
  BY <1>9, <1>u DEF End, GiveUp, Return
<1>10. CASE UNCHANGED processVars
  BY <1>10, <1>u DEF processVars
<1> QED
  BY <1>1, <1>2, <1>3, <1>4, <1>5, <1>6, <1>7, <1>8, <1>9, <1>10 DEF ProcessNext, MainNext

\* The configuration is usable throughout.
LEMMA ConfigHolds == ProcessSpec => []ConfigInv
<1>1. ProcessInit => ConfigInv
  BY DEF ProcessInit, ConfigInv, MainSteps, AcceptedIsSafe
<1> QED
  BY <1>1, NextConfigInv, PTL DEF ProcessSpec

\* Whatever the environment holds, the process refuses to start, or panics only over
\* an interval, a slice or a payload too large for the machine: config.Load checks
\* every lower limit its goroutines rely on (config.go:74-112, main.go:151-154,
\* ring.go:23, actors.go:29, payload.go:133), and no upper one.
THEOREM AcceptedPanicsOnlyOversized == ProcessSpec => []AcceptedIsSafe
<1>1. ConfigInv => AcceptedIsSafe
  BY DEF ConfigInv
<1> QED
  BY <1>1, ConfigHolds, PTL

-----------------------------------------------------------------------------
(* The process: the pool *)

\* Those that may hold a connection of a run with n workers.
Entitled(n) == {Lock, Main} \cup Loops \cup WorkersUpTo(n)

\* Nobody has launched anything or used the pool before the migration, and the
\* pool itself is not there before it is opened.
Early == {"load", "profile", "weights", "pool", "acquire"}
Closed == Early \ {"acquire"}

\* Slots are with users entitled to one or with the pool, never more than there
\* are, and nobody queues while one is free.
SlotsInv ==
  /\ conn \in [Users -> {"none", "held", "queued"}] /\ own \in Nat
  /\ cfg.WORKERS \in 1..(Limit - 1)
  /\ Held \cup Queued \subseteq Entitled(cfg.WORKERS)
  /\ Cardinality(Held) + own <= MaxConns
  /\ Queued # {} => Cardinality(Held) + own = MaxConns

\* The inductive invariant behind WaitsOnlyForPool.
PoolInv ==
  /\ \/ main \in Closed \cup {"fatal"} /\ conn = [u \in Users |-> "none"] /\ own = 0
     \/ main \notin Closed /\ SlotsInv
  /\ main \in Early => live = {} /\ conn = [u \in Users |-> "none"]
  /\ live \subseteq Loops \cup WorkersUpTo(cfg.WORKERS)

\* The pool has a connection for each of them.
LEMMA EntitledCount ==
  ASSUME NEW n \in Nat
  PROVE  IsFiniteSet(Entitled(n)) /\ Cardinality(Entitled(n)) <= n + 5
<1> DEFINE W == WorkersUpTo(n)
           f == [i \in 1..n |-> <<"worker", i>>]
<1>1. f \in Surjection(1..n, W)
  BY DEF Surjection, WorkersUpTo
<1>2. IsFiniteSet(1..n) /\ Cardinality(1..n) = n
  BY FS_Interval
<1>3. IsFiniteSet(W) /\ Cardinality(W) <= n
  BY <1>1, <1>2, FS_Surjection
<1> HIDE DEF W
<1>4. Cardinality(W) \in Nat
  BY <1>3, FS_CardinalityType
<1>5. /\ IsFiniteSet(W \cup {Lock})
      /\ Cardinality(W \cup {Lock}) \in Nat /\ Cardinality(W \cup {Lock}) <= n + 1
  BY <1>3, <1>4, FS_AddElement
<1>6. /\ IsFiniteSet(W \cup {Lock} \cup {Main})
      /\ Cardinality(W \cup {Lock} \cup {Main}) \in Nat
      /\ Cardinality(W \cup {Lock} \cup {Main}) <= n + 2
  BY <1>5, FS_AddElement
<1> DEFINE V == W \cup {Lock} \cup {Main}
<1> HIDE DEF V
<1>7. IsFiniteSet(V) /\ Cardinality(V) \in Nat /\ Cardinality(V) <= n + 2
  BY <1>6 DEF V
<1> DEFINE a == <<"table", 0>>
           b == <<"pg", 0>>
           c == <<"index", 0>>
<1> HIDE DEF a, b, c
<1>8. /\ IsFiniteSet(V \cup {a}) /\ Cardinality(V \cup {a}) \in Nat
      /\ Cardinality(V \cup {a}) <= n + 3
  BY <1>7, FS_AddElement
<1>9. /\ IsFiniteSet(V \cup {a} \cup {b}) /\ Cardinality(V \cup {a} \cup {b}) \in Nat
      /\ Cardinality(V \cup {a} \cup {b}) <= n + 4
  BY <1>8, FS_AddElement
<1>10. /\ IsFiniteSet(V \cup {a} \cup {b} \cup {c})
       /\ Cardinality(V \cup {a} \cup {b} \cup {c}) <= n + 5
  BY <1>9, FS_AddElement
<1>11. Entitled(n) = V \cup {a} \cup {b} \cup {c}
  BY DEF Entitled, Loops, V, W, a, b, c
<1> QED
  BY <1>10, <1>11

\* The size of the pool is a number, if not always the one asked for.
LEMMA PoolHasSize ==
  ASSUME cfg.WORKERS \in 1..(Limit - 1)
  PROVE  MaxConns \in Int
<1>1. ASSUME NEW n \in Int, NEW limit \in Nat \ {0} PROVE Wrap(n, limit) \in Int
  <2>1. \A a \in Int, b \in Nat \ {0} : a % b \in Int
    OBVIOUS
  <2>2. (n + limit) % (2 * limit) \in Int
    BY <2>1
  <2> QED
    BY <2>2 DEF Wrap
<1>2. cfg.WORKERS + 5 \in Int /\ Limit \in Nat \ {0} /\ Limit32 \in Nat \ {0}
  BY MachineAssumption
<1>3. Wrap(cfg.WORKERS + 5, Limit) \in Int
  BY <1>1, <1>2
<1> QED
  BY <1>1, <1>2, <1>3 DEF MaxConns

\* What is held can be counted, and the pool has a size.
LEMMA SlotsCountable ==
  ASSUME SlotsInv
  PROVE  IsFiniteSet(Held) /\ Cardinality(Held) \in Nat /\ own \in Nat /\ MaxConns \in Int
<1>1. cfg.WORKERS \in Nat /\ cfg.WORKERS \in Int
  BY MachineAssumption DEF SlotsInv
<1>2. IsFiniteSet(Entitled(cfg.WORKERS)) /\ Held \subseteq Entitled(cfg.WORKERS)
  BY <1>1, EntitledCount DEF SlotsInv
<1>3. IsFiniteSet(Held) /\ Cardinality(Held) \in Nat
  BY <1>2, FS_Subset, FS_CardinalityType
<1>4. MaxConns \in Int
  BY PoolHasSize DEF SlotsInv
<1> QED
  BY <1>3, <1>4 DEF SlotsInv

\* What a step has to show of the slots it moves.
LEMMA SlotsMove ==
  ASSUME SlotsInv, cfg' = cfg, conn' \in [Users -> {"none", "held", "queued"}], own' \in Nat,
         Held' \cup Queued' \subseteq Entitled(cfg.WORKERS),
         Cardinality(Held') + own' <= MaxConns,
         Queued' # {} => Cardinality(Held') + own' = MaxConns
  PROVE  SlotsInv'
<1>1. MaxConns' = MaxConns /\ Entitled(cfg.WORKERS)' = Entitled(cfg.WORKERS)
  BY DEF MaxConns, Entitled
<1> QED
  BY <1>1 DEF SlotsInv

\* One who is entitled to a slot takes it or queues.
LEMMA SlotsAcquire ==
  ASSUME SlotsInv, cfg' = cfg, NEW u \in Users, u \in Entitled(cfg.WORKERS), conn[u] = "none",
         Acquire(u)
  PROVE  SlotsInv'
<1>1. /\ IsFiniteSet(Held) /\ Cardinality(Held) \in Nat /\ own \in Nat /\ MaxConns \in Int
      /\ conn' \in [Users -> {"none", "held", "queued"}] /\ own' = own
  BY SlotsCountable DEF SlotsInv, Acquire
<1>2. CASE SlotFree
  <2>1. Held' = Held \cup {u} /\ u \notin Held /\ Queued' = Queued /\ Queued = {}
    BY <1>1, <1>2 DEF Acquire, Held, Queued, SlotsInv, SlotFree
  <2>2. Cardinality(Held') = Cardinality(Held) + 1
    BY <1>1, <2>1, FS_AddElement
  <2>3. Cardinality(Held') + own' <= MaxConns
    BY <1>1, <1>2, <2>2 DEF SlotFree
  <2> QED
    BY <1>1, <2>1, <2>3, SlotsMove DEF SlotsInv
<1>3. CASE ~SlotFree
  <2>1. Held' = Held /\ Queued' = Queued \cup {u}
    BY <1>1, <1>3 DEF Acquire, Held, Queued, SlotsInv
  <2>2. Cardinality(Held) + own = MaxConns
    BY <1>1, <1>3 DEF SlotFree, SlotsInv
  <2>3. Held' \cup Queued' \subseteq Entitled(cfg.WORKERS)
    BY <2>1 DEF SlotsInv
  <2> QED
    BY <1>1, <2>1, <2>2, <2>3, SlotsMove
<1> QED
  BY <1>2, <1>3

\* A slot that comes free, of one who had it or of the pool, goes to the queue.
LEMMA SlotsHanded ==
  ASSUME SlotsInv, cfg' = cfg, own' \in Nat,
         NEW c \in [Users -> {"none", "held", "queued"}], conn' \in Handed(c),
         {u \in Users : c[u] = "queued"} = Queued,
         NEW held, held = {u \in Users : c[u] = "held"}, held \subseteq Held,
         Cardinality(held) + own' + 1 = Cardinality(Held) + own
  PROVE  SlotsInv'
<1>1. /\ IsFiniteSet(Held) /\ Cardinality(Held) \in Nat /\ own \in Nat /\ MaxConns \in Int
  BY SlotsCountable
<1>2. IsFiniteSet(held) /\ Cardinality(held) \in Nat
  BY <1>1, FS_Subset, FS_CardinalityType
<1>3. CASE Queued = {}
  <2>1. conn' = c
    BY <1>3 DEF Handed
  <2>2. Held' = held /\ Queued' = {}
    BY <1>3, <2>1 DEF Held, Queued
  <2>3. Held' \cup Queued' \subseteq Entitled(cfg.WORKERS)
    BY <2>2 DEF SlotsInv
  <2>4. Cardinality(Held') + own' <= MaxConns
    BY <1>1, <1>2, <2>2 DEF SlotsInv
  <2> QED
    BY <2>1, <2>2, <2>3, <2>4, SlotsMove
<1>4. CASE Queued # {}
  <2>1. PICK q \in Queued : conn' = [c EXCEPT ![q] = "held"]
    BY <1>4 DEF Handed
  <2>2. q \in Users /\ c[q] = "queued"
    BY DEF Queued
  <2>3. /\ Held' = held \cup {q} /\ q \notin held /\ Queued' \subseteq Queued
        /\ conn' \in [Users -> {"none", "held", "queued"}]
    BY <2>1, <2>2 DEF Held, Queued
  <2>4. Cardinality(Held') = Cardinality(held) + 1
    BY <1>2, <2>3, FS_AddElement
  <2>5. Cardinality(Held') + own' = Cardinality(Held) + own
    BY <1>1, <1>2, <2>4
  <2>6. Cardinality(Held) + own = MaxConns
    BY <1>4 DEF SlotsInv
  <2>7. Held' \cup Queued' \subseteq Entitled(cfg.WORKERS)
    BY <2>3 DEF SlotsInv
  <2>8. Cardinality(Held') + own' <= MaxConns
    BY <1>1, <2>5, <2>6
  <2> QED
    BY <2>3, <2>5, <2>6, <2>7, <2>8, SlotsMove
<1> QED
  BY <1>3, <1>4

\* One user less, with its slot in the pool's hands.
LEMMA SlotsKeptBack ==
  ASSUME SlotsInv, cfg' = cfg, NEW u \in Users, conn[u] = "held", NEW t \in {"none", "queued"},
         conn' = [conn EXCEPT ![u] = t], own' = own + 1,
         t = "queued" => Cardinality(Held) + own = MaxConns
  PROVE  SlotsInv'
<1>1. /\ IsFiniteSet(Held) /\ Cardinality(Held) \in Nat /\ own \in Nat /\ MaxConns \in Int
  BY SlotsCountable
<1>2. /\ Held' = Held \ {u} /\ u \in Held /\ Queued' \subseteq Queued \cup {u}
      /\ t = "none" => Queued' = Queued
      /\ conn' \in [Users -> {"none", "held", "queued"}]
  BY DEF Held, Queued, SlotsInv
<1>3. Cardinality(Held') = Cardinality(Held) - 1
  BY <1>1, <1>2, FS_RemoveElement
<1>4. own' \in Nat /\ Cardinality(Held') + own' = Cardinality(Held) + own
  BY <1>1, <1>3
<1>5. Held' \cup Queued' \subseteq Entitled(cfg.WORKERS)
  BY <1>2 DEF SlotsInv
<1>6. Queued' # {} => Cardinality(Held) + own = MaxConns
  BY <1>2 DEF SlotsInv
<1>7. Cardinality(Held') + own' <= MaxConns
  BY <1>4 DEF SlotsInv
<1> QED
  BY <1>2, <1>4, <1>5, <1>6, <1>7, SlotsMove

LEMMA SlotsRelease ==
  ASSUME SlotsInv, cfg' = cfg, NEW u \in Users, conn[u] = "held", Release(u)
  PROVE  SlotsInv'
<1> DEFINE c == [conn EXCEPT ![u] = "none"]
           held == {v \in Users : c[v] = "held"}
<1>1. /\ IsFiniteSet(Held) /\ Cardinality(Held) \in Nat /\ own \in Nat
  BY SlotsCountable
<1>2. /\ c \in [Users -> {"none", "held", "queued"}] /\ held = Held \ {u} /\ u \in Held
      /\ {v \in Users : c[v] = "queued"} = Queued
  BY DEF Held, Queued, SlotsInv
<1>3. CASE conn' \in Handed(c) /\ own' = own
  <2> HIDE DEF c, held
  <2>1. Cardinality(held) = Cardinality(Held) - 1
    BY <1>1, <1>2, FS_RemoveElement
  <2>2. Cardinality(held) + own' + 1 = Cardinality(Held) + own /\ own' \in Nat /\ held \subseteq Held
    BY <1>1, <1>2, <1>3, <2>1
  <2>3. held = {v \in Users : c[v] = "held"}
    BY DEF held
  <2> QED
    BY <1>2, <1>3, <2>2, <2>3, SlotsHanded
<1>4. CASE conn' = c /\ own' = own + 1
  BY <1>4, SlotsKeptBack
<1> QED
  BY <1>3, <1>4 DEF Release

\* One who queued gives up.
LEMMA SlotsGiveUp ==
  ASSUME SlotsInv, cfg' = cfg, NEW u \in Users, conn[u] = "queued",
         conn' = [conn EXCEPT ![u] = "none"], own' = own
  PROVE  SlotsInv'
<1>1. /\ Held' = Held /\ Queued' \subseteq Queued
      /\ conn' \in [Users -> {"none", "held", "queued"}]
  BY DEF Held, Queued, SlotsInv
<1>2. Held' \cup Queued' \subseteq Entitled(cfg.WORKERS)
  BY <1>1 DEF SlotsInv
<1> QED
  BY <1>1, <1>2, SlotsMove DEF SlotsInv

\* What the pool does of its own accord.
LEMMA SlotsPool ==
  ASSUME SlotsInv, PoolNext
  PROVE  SlotsInv'
<1>1. /\ IsFiniteSet(Held) /\ Cardinality(Held) \in Nat /\ own \in Nat /\ MaxConns \in Int
  BY SlotsCountable
<1>2. CASE PoolTakes
  <2>1. conn' = conn /\ own' = own + 1 /\ cfg' = cfg /\ SlotFree
    BY <1>2 DEF PoolTakes
  <2>2. Held' = Held /\ Queued' = Queued /\ Queued = {}
    BY <1>1, <2>1 DEF Held, Queued, SlotsInv, SlotFree
  <2>3. own' \in Nat /\ Cardinality(Held') + own' <= MaxConns
    BY <1>1, <2>1, <2>2 DEF SlotFree
  <2> QED
    BY <2>1, <2>2, <2>3, SlotsMove DEF SlotsInv
<1>3. CASE PoolReturns
  <2>1. conn' \in Handed(conn) /\ own > 0 /\ own' = own - 1 /\ cfg' = cfg
    BY <1>3 DEF PoolReturns
  <2>2. own' \in Nat /\ Cardinality(Held) + own' + 1 = Cardinality(Held) + own
    BY <1>1, <2>1
  <2>3. /\ conn \in [Users -> {"none", "held", "queued"}]
        /\ {u \in Users : conn[u] = "queued"} = Queued /\ Held = {u \in Users : conn[u] = "held"}
    BY DEF SlotsInv, Held, Queued
  <2> QED
    BY <2>1, <2>2, <2>3, SlotsHanded
<1>4. ASSUME NEW u \in Users, AcquireAgain(u) PROVE SlotsInv'
  <2>1. conn[u] = "held" /\ own' = own + 1 /\ cfg' = cfg
    BY <1>4 DEF AcquireAgain
  <2>2. CASE SlotFree
    <3>1. conn' = conn
      BY <1>4, <2>1, <2>2 DEF AcquireAgain, SlotsInv
    <3>2. Held' = Held /\ Queued' = Queued /\ Queued = {}
      BY <1>1, <2>2, <3>1 DEF Held, Queued, SlotsInv, SlotFree
    <3>3. own' \in Nat /\ Cardinality(Held') + own' <= MaxConns
      BY <1>1, <2>1, <2>2, <3>2 DEF SlotFree
    <3> QED
      BY <2>1, <3>1, <3>2, <3>3, SlotsMove DEF SlotsInv
  <2>3. CASE ~SlotFree
    <3>1. conn' = [conn EXCEPT ![u] = "queued"]
      BY <1>4, <2>3 DEF AcquireAgain
    <3>2. Cardinality(Held) + own = MaxConns
      BY <1>1, <2>3 DEF SlotFree, SlotsInv
    <3> QED
      BY <2>1, <3>1, <3>2, SlotsKeptBack
  <2> QED
    BY <2>2, <2>3
<1> QED
  BY <1>2, <1>3, <1>4 DEF PoolNext

\* A step that launches nothing, with the pool in use.
LEMMA PoolKept ==
  ASSUME PoolInv, cfg' = cfg, live' \subseteq live, main \notin Closed, main' \notin Early,
         SlotsInv'
  PROVE  PoolInv'
<1>1. main' \notin Closed
  BY DEF Closed
<1> QED
  BY <1>1 DEF PoolInv

\* Every step of the process hands slots around as the pool does.
LEMMA NextPoolInv == ConfigInv /\ PoolInv /\ [ProcessNext]_processVars => PoolInv'
<1> SUFFICES ASSUME ConfigInv, PoolInv, [ProcessNext]_processVars PROVE PoolInv'
  OBVIOUS
<1>a. Lock \in Users /\ Main \in Users /\ Loops \subseteq Users
      /\ Lock \in Entitled(cfg.WORKERS) /\ Main \in Entitled(cfg.WORKERS)
  BY DEF Users, Entitled
<1>s. main \notin Closed \cup {"fatal"} => SlotsInv
  BY DEF PoolInv
<1>k. ASSUME SlotsInv, cfg' = cfg, conn' = conn, own' = own PROVE SlotsInv'
  BY <1>k DEF SlotsInv, Held, Queued, MaxConns, Entitled
<1>1. CASE LoadConfig \/ GetProfile \/ ResolveMix
  <2>1. /\ main \in {"load", "profile", "weights"} /\ live' = live /\ conn' = conn /\ own' = own
        /\ main' \in {"profile", "weights", "pool", "fatal"}
    BY <1>1 DEF LoadConfig, GetProfile, ResolveMix, poolVars
  <2> QED
    BY <2>1 DEF PoolInv, Early, Closed
<1>2. CASE NewPool
  <2>1. /\ main = "pool" /\ live' = live /\ conn' = conn /\ own' = own /\ cfg' = cfg
        /\ main' = "fatal" \/ (main' = "acquire" /\ ~(MaxConns < 1))
    BY <1>2 DEF NewPool, poolVars
  <2>2. live = {} /\ conn = [u \in Users |-> "none"] /\ own = 0
    BY <2>1 DEF PoolInv, Early, Closed
  <2>3. CASE main' = "fatal"
    BY <2>1, <2>2, <2>3 DEF PoolInv, Early, Closed
  <2>4. CASE main' = "acquire"
    <3>1. Held' = {} /\ Queued' = {} /\ Cardinality({}) = 0
      BY <2>1, <2>2, FS_EmptySet DEF Held, Queued
    <3>2. cfg'.WORKERS \in 1..(Limit - 1)
      BY <2>1 DEF ConfigInv, Usable, Positive
    <3>3. MaxConns' = MaxConns /\ MaxConns \in Int /\ MaxConns >= 1
      BY <2>1, <2>4, <3>2, PoolHasSize DEF MaxConns
    <3>4. conn' \in [Users -> {"none", "held", "queued"}] /\ own' = 0
      BY <2>1, <2>2
    <3>5. Cardinality(Held') + own' <= MaxConns'
      BY <3>1, <3>3, <3>4
    <3>6. Held' \cup Queued' \subseteq Entitled(cfg'.WORKERS)
      BY <3>1
    <3>7. SlotsInv'
      BY <3>1, <3>2, <3>4, <3>5, <3>6 DEF SlotsInv
    <3> QED
      BY <2>1, <2>2, <2>4, <3>7 DEF PoolInv, Early, Closed
  <2> QED
    BY <2>1, <2>3, <2>4
<1>3. CASE MigrateBegin
  <2>1. main = "acquire" /\ main' = "migrate" /\ Acquire(Lock) /\ cfg' = cfg /\ live' = live
    BY <1>3 DEF MigrateBegin
  <2>2. SlotsInv /\ conn[Lock] = "none"
    BY <1>a, <1>s, <2>1 DEF PoolInv, Early, Closed
  <2> QED
    BY <1>a, <2>1, <2>2, SlotsAcquire, PoolKept DEF Early, Closed
<1>4. CASE MigrateStatement
  <2>1. main = "migrate" /\ main' = main /\ cfg' = cfg /\ live' = live /\ SlotsInv
    BY <1>4, <1>s DEF MigrateStatement, Closed, Early
  <2>2. SlotsInv'
    BY <1>4, <1>a, <2>1, SlotsAcquire, SlotsRelease DEF MigrateStatement
  <2> QED
    BY <2>1, <2>2, PoolKept DEF Early, Closed
<1>5. CASE MigrateEnd
  <2>1. /\ main = "migrate" /\ main' \in {"init", "fatal"} /\ cfg' = cfg /\ live' = live /\ SlotsInv
        /\ conn[Lock] = "held" /\ Release(Lock)
    BY <1>5, <1>s DEF MigrateEnd, Closed, Early
  <2>2. SlotsInv'
    BY <1>a, <2>1, SlotsRelease
  <2> QED
    BY <2>1, <2>2, PoolKept DEF Early, Closed
<1>6. CASE InitProfile
  <2>1. /\ main = "init" /\ main' \in {"panicked", "snapshot", "launch"}
        /\ UNCHANGED <<cfg, live, conn, own>>
    BY <1>6 DEF InitProfile, poolVars
  <2> QED
    BY <1>k, <1>s, <2>1, PoolKept DEF Early, Closed
<1>7. CASE SnapshotQuery \/ SnapshotEnd \/ ClosingTimeout
  <2>1. /\ main \in {"snapshot", "closing"} /\ main' \in {"snapshot", "closing", "launch", "shutdown"}
        /\ cfg' = cfg /\ live' = live /\ SlotsInv
    BY <1>7, <1>s DEF SnapshotQuery, SnapshotEnd, ClosingTimeout, Closed, Early
  <2>2. SlotsInv'
    BY <1>7, <1>a, <2>1, SlotsAcquire, SlotsRelease, SlotsGiveUp
       DEF SnapshotQuery, SnapshotEnd, ClosingTimeout
  <2> QED
    BY <2>1, <2>2, PoolKept DEF Early, Closed
<1>8. CASE Launch
  <2>1. /\ live' \subseteq Loops \cup WorkersUpTo(cfg.WORKERS)
        /\ main' \in {"select", "panicked"} /\ conn' = conn /\ own' = own /\ cfg' = cfg
        /\ main = "launch"
    BY <1>8 DEF Launch, poolVars
  <2>2. SlotsInv'
    BY <1>k, <1>s, <2>1 DEF Early, Closed
  <2> QED
    BY <2>1, <2>2 DEF PoolInv, Early, Closed
<1>9. CASE Select \/ WorkersGone \/ Shutdown \/ ClosePool \/ Expire
  <2>1. /\ main \notin Closed \cup {"fatal"} /\ main' \notin Early
        /\ UNCHANGED <<cfg, live, conn, own>>
    BY <1>9 DEF Select, WorkersGone, Shutdown, ClosePool, Expire, Running, Early, Closed, poolVars
  <2> QED
    BY <1>k, <1>s, <2>1, PoolKept
<1>10. CASE PoolNext
  <2>1. /\ main' = main /\ cfg' = cfg /\ live' = live /\ main \notin Closed \cup {"fatal"}
    BY <1>10 DEF PoolNext, PoolTakes, PoolReturns, AcquireAgain, PoolOpen, Closed, Early
  <2>2. SlotsInv'
    BY <1>10, <1>s, <2>1, SlotsPool
  <2>3. CASE main \in Early
    <3>1. conn = [u \in Users |-> "none"] /\ live = {}
      BY <2>3 DEF PoolInv
    <3>2. conn' = conn
      <4>1. \A u \in Users : conn[u] # "held" /\ conn[u] # "queued"
        BY <3>1
      <4> QED
        BY <1>10, <4>1 DEF PoolNext, PoolTakes, PoolReturns, AcquireAgain, Handed
    <3> QED
      BY <2>1, <2>2, <3>1, <3>2 DEF PoolInv
  <2>4. CASE main \notin Early
    BY <2>1, <2>2, <2>4, PoolKept
  <2> QED
    BY <2>3, <2>4
<1>11. ASSUME NEW u \in Loops \cup Workers, Begin(u) PROVE PoolInv'
  <2>1. /\ main \notin Early /\ main \notin Closed \cup {"fatal"}
        /\ cfg' = cfg /\ live' = live /\ u \in live /\ conn[u] = "none"
    BY <1>11 DEF Begin, Running, Early, Closed
  <2>2. Usable
    BY <1>11 DEF Begin, Running, ConfigInv
  <2>3. u \in Users /\ u \in Entitled(cfg.WORKERS)
    BY <2>1 DEF PoolInv, Entitled, Users
  <2>4. Acquire(u) /\ main' = main
    BY <1>11, <2>2, UsableSuffices DEF Begin
  <2> QED
    BY <1>s, <2>1, <2>3, <2>4, SlotsAcquire, PoolKept
<1>12. ASSUME NEW u \in Loops \cup Workers, End(u) \/ GiveUp(u) \/ Return(u) PROVE PoolInv'
  <2>1. /\ main \notin Closed \cup {"fatal"} /\ main \notin Early /\ main' = main
        /\ cfg' = cfg /\ live' \subseteq live /\ u \in Users
    BY <1>12 DEF End, GiveUp, Return, Running, Early, Closed, Users
  <2>2. SlotsInv'
    BY <1>12, <1>k, <1>s, <2>1, SlotsRelease, SlotsGiveUp DEF End, GiveUp, Return, poolVars
  <2> QED
    BY <2>1, <2>2, PoolKept
<1>13. CASE UNCHANGED processVars
  <2>1. UNCHANGED <<cfg, main, live, conn, own>>
    BY <1>13 DEF processVars, poolVars
  <2>2. SlotsInv => SlotsInv'
    BY <1>k, <2>1
  <2> QED
    BY <2>1, <2>2 DEF PoolInv
<1> QED
  BY <1>1, <1>2, <1>3, <1>4, <1>5, <1>6, <1>7, <1>8, <1>9, <1>10, <1>11, <1>12, <1>13
     DEF ProcessNext, MainNext

\* A user that queues for a connection never waits for another user, at any number
\* of workers whose pool int32 can hold (pool.go:22): each of those that queue has a
\* slot of its own to come, which the pool is destroying, opening or checking.
THEOREM QueueWaitsForPool == ProcessSpec => []WaitsOnlyForPool
<1>1. ProcessInit => PoolInv
  BY DEF ProcessInit, PoolInv, Early, Closed
<1>2. PoolInv => WaitsOnlyForPool
  <2> SUFFICES ASSUME PoolInv, Queued # {}, ~(cfg.WORKERS + 5 >= Limit32)
               PROVE  Cardinality(Queued) <= own
    BY DEF WaitsOnlyForPool
  <2>1. SlotsInv
    BY DEF PoolInv, Queued
  <2>2. cfg.WORKERS \in Nat /\ cfg.WORKERS + 5 < Limit32
    BY <2>1, MachineAssumption DEF SlotsInv
  <2>3. MaxConns = cfg.WORKERS + 5
    <3> DEFINE n == cfg.WORKERS + 5
    <3>1. n \in Int /\ -Limit <= n /\ n < Limit /\ -Limit32 <= n /\ n < Limit32
      BY <2>2, MachineAssumption
    <3> HIDE DEF n
    <3>2. Wrap(n, Limit) = n /\ Wrap(n, Limit32) = n
      BY <3>1, WrapFits, MachineAssumption
    <3> QED
      BY <3>2 DEF MaxConns, n
  <2>4. /\ IsFiniteSet(Entitled(cfg.WORKERS)) /\ Cardinality(Entitled(cfg.WORKERS)) <= cfg.WORKERS + 5
        /\ Cardinality(Entitled(cfg.WORKERS)) \in Nat
    BY <2>2, EntitledCount, FS_CardinalityType
  <2>5. /\ IsFiniteSet(Held) /\ IsFiniteSet(Queued) /\ Held \cap Queued = {}
        /\ Cardinality(Held) \in Nat /\ Cardinality(Queued) \in Nat
    <3>1. Held \subseteq Entitled(cfg.WORKERS) /\ Queued \subseteq Entitled(cfg.WORKERS)
      BY <2>1 DEF SlotsInv
    <3>2. Held \cap Queued = {}
      BY DEF Held, Queued
    <3> QED
      BY <2>4, <3>1, <3>2, FS_Subset, FS_CardinalityType
  <2>6. /\ Cardinality(Held \cup Queued) = Cardinality(Held) + Cardinality(Queued)
        /\ Cardinality(Held \cup Queued) <= Cardinality(Entitled(cfg.WORKERS))
    <3>1. Cardinality(Held \cup Queued) = Cardinality(Held) + Cardinality(Queued) - Cardinality({})
      BY <2>5, FS_Union
    <3>2. Cardinality({}) = 0
      BY FS_EmptySet
    <3>3. Cardinality(Held \cup Queued) <= Cardinality(Entitled(cfg.WORKERS))
      BY <2>1, <2>4, FS_Subset DEF SlotsInv
    <3> QED
      BY <2>5, <3>1, <3>2, <3>3
  <2>7. Cardinality(Held) + own = cfg.WORKERS + 5 /\ own \in Nat
    BY <2>1, <2>3 DEF SlotsInv
  <2> QED
    BY <2>2, <2>4, <2>5, <2>6, <2>7
<1> QED
  BY <1>1, <1>2, ConfigHolds, NextPoolInv, PTL DEF ProcessSpec

-----------------------------------------------------------------------------
(* The process: the exit *)

\* The states of main in which goroutines have been launched, and those after
\* the select and after wg.Wait.
Launched == {"select", "wait", "closing", "shutdown", "close", "exited"}
Ending == Launched \ {"select"}
WorkersOver == Ending \ {"wait"}

Goroutines == Loops \cup Workers

\* Who has a connection or queues for one: main, while it migrates or measures,
\* and goroutines that have not returned.
HolderInv ==
  /\ conn \in [Users -> {"none", "held", "queued"}]
  /\ conn[Lock] # "none" => main = "migrate"
  /\ conn[Main] # "none" => main \in {"migrate", "snapshot", "closing"}
  /\ \A u \in Goroutines : conn[u] # "none" => u \in live
  /\ main \notin Launched => ~done /\ (main # "panicked" => live = {})
  /\ main \in Ending => done
  /\ main \in WorkersOver => live \cap Workers = {}

\* The users of the pool are different ones.
LEMMA UserFacts ==
  /\ Lock \in Users /\ Main \in Users /\ Lock # Main
  /\ Lock \notin Goroutines /\ Main \notin Goroutines
  /\ Goroutines \subseteq Users /\ Loops \cap Workers = {}
<1>1. \A i \in Nat : /\ <<"worker", i>> # Lock /\ <<"worker", i>> # Main
                     /\ <<"worker", i>> \notin Loops
  BY DEF Lock, Main, Loops
<1>2. Lock \notin Workers /\ Main \notin Workers /\ Loops \cap Workers = {}
  BY <1>1, ProcessAssumption DEF Workers, WorkersUpTo
<1>3. Lock \notin Loops /\ Main \notin Loops /\ Lock # Main
  BY DEF Lock, Main, Loops
<1> QED
  BY <1>2, <1>3 DEF Users, Goroutines

\* Only the one who asks for a connection gets involved with the pool; one who
\* gives up or gives back has nothing left.
LEMMA OthersUninvolved ==
  ASSUME conn \in [Users -> {"none", "held", "queued"}], NEW u \in Users
  PROVE  /\ Acquire(u) => \A v \in Users \ {u} : conn'[v] = conn[v]
         /\ Release(u) => /\ conn'[u] = "none"
                          /\ \A v \in Users : conn'[v] # "none" => conn[v] # "none"
         /\ PoolNext => \A v \in Users : conn'[v] # "none" => conn[v] # "none"
<1>1. Acquire(u) => \A v \in Users \ {u} : conn'[v] = conn[v]
  BY DEF Acquire
<1>2. ASSUME NEW c \in [Users -> {"none", "held", "queued"}], NEW d \in Handed(c)
      PROVE  \A v \in Users : d[v] # "none" <=> c[v] # "none"
  <2>1. CASE {w \in Users : c[w] = "queued"} = {}
    BY <2>1 DEF Handed
  <2>2. CASE {w \in Users : c[w] = "queued"} # {}
    <3>1. PICK q \in {w \in Users : c[w] = "queued"} : d = [c EXCEPT ![q] = "held"]
      BY <2>2 DEF Handed
    <3> QED
      BY <3>1
  <2> QED
    BY <2>1, <2>2
<1>3. Release(u) => /\ conn'[u] = "none"
                    /\ \A v \in Users : conn'[v] # "none" => conn[v] # "none"
  <2> DEFINE c == [conn EXCEPT ![u] = "none"]
  <2>1. /\ c \in [Users -> {"none", "held", "queued"}] /\ c[u] = "none"
        /\ \A v \in Users : c[v] # "none" => conn[v] # "none"
    OBVIOUS
  <2>2. Release(u) => conn' = c \/ conn' \in Handed(c)
    BY DEF Release
  <2> HIDE DEF c
  <2> QED
    BY <1>2, <2>1, <2>2
<1>4. PoolNext => \A v \in Users : conn'[v] # "none" => conn[v] # "none"
  <2>1. ASSUME NEW w \in Users, AcquireAgain(w)
        PROVE  \A v \in Users : conn'[v] # "none" => conn[v] # "none"
    BY <2>1 DEF AcquireAgain
  <2>2. PoolTakes => conn' = conn
    BY DEF PoolTakes
  <2>3. PoolReturns => conn' \in Handed(conn)
    BY DEF PoolReturns
  <2> QED
    BY <1>2, <2>1, <2>2, <2>3 DEF PoolNext
<1> QED
  BY <1>1, <1>3, <1>4

\* Every connection that is given out is given back by the one who got it.
LEMMA NextHolderInv ==
  ConfigInv /\ PoolInv' /\ HolderInv /\ [ProcessNext]_processVars => HolderInv'
<1> SUFFICES ASSUME ConfigInv, PoolInv', HolderInv, [ProcessNext]_processVars
             PROVE  HolderInv'
  OBVIOUS
<1>t. /\ conn \in [Users -> {"none", "held", "queued"}]
      /\ conn' \in [Users -> {"none", "held", "queued"}]
  BY DEF HolderInv, PoolInv, SlotsInv
<1>1. CASE LoadConfig \/ GetProfile \/ ResolveMix \/ NewPool
  <2>1. /\ UNCHANGED <<live, conn, done>>
        /\ main \in {"load", "profile", "weights", "pool"}
        /\ main' \in {"profile", "weights", "pool", "acquire", "fatal"}
    BY <1>1 DEF LoadConfig, GetProfile, ResolveMix, NewPool, poolVars
  <2> QED
    BY <2>1 DEF HolderInv, Launched, Ending, WorkersOver
<1>2. CASE MigrateBegin
  <2>1. /\ UNCHANGED <<live, done>> /\ main = "acquire" /\ main' = "migrate"
        /\ \A v \in Users \ {Lock} : conn'[v] = conn[v]
    BY <1>2, <1>t, UserFacts, OthersUninvolved DEF MigrateBegin
  <2> QED
    BY <1>t, <2>1, UserFacts DEF HolderInv, Launched, Ending, WorkersOver
<1>3. CASE MigrateStatement
  <2>1. /\ UNCHANGED <<main, live, done>> /\ main = "migrate"
        /\ \A v \in Users \ {Main} : conn'[v] # "none" => conn[v] # "none"
    BY <1>3, <1>t, UserFacts, OthersUninvolved DEF MigrateStatement
  <2> QED
    BY <1>t, <2>1, UserFacts DEF HolderInv, Launched, Ending, WorkersOver
<1>4. CASE MigrateEnd
  <2>1. /\ UNCHANGED <<live, done>> /\ main = "migrate" /\ main' \in {"init", "fatal"}
        /\ conn'[Lock] = "none" /\ conn[Main] = "none"
        /\ \A v \in Users : conn'[v] # "none" => conn[v] # "none"
    BY <1>4, <1>t, UserFacts, OthersUninvolved DEF MigrateEnd
  <2> QED
    BY <1>t, <2>1, UserFacts DEF HolderInv, Launched, Ending, WorkersOver
<1>5. CASE InitProfile
  <2>1. /\ main = "init" /\ main' \in {"panicked", "snapshot", "launch"}
        /\ UNCHANGED <<live, conn, done>>
    BY <1>5 DEF InitProfile, poolVars
  <2> QED
    BY <2>1 DEF HolderInv, Launched, Ending, WorkersOver
<1>6. CASE SnapshotQuery
  <2>1. /\ UNCHANGED <<main, live, done>> /\ main \in {"snapshot", "closing"}
        /\ \A v \in Users \ {Main} : conn'[v] = conn[v]
    BY <1>6, <1>t, UserFacts, OthersUninvolved DEF SnapshotQuery
  <2> QED
    BY <1>t, <2>1, UserFacts DEF HolderInv
<1>7. CASE SnapshotEnd \/ ClosingTimeout
  <2>1. /\ conn'[Main] = "none" /\ UNCHANGED <<live, done>>
        /\ \A v \in Users : conn'[v] # "none" => conn[v] # "none"
    BY <1>7, <1>t, UserFacts, OthersUninvolved DEF SnapshotEnd, ClosingTimeout
  <2>2. \/ main = "snapshot" /\ main' = "launch"
        \/ main = "closing" /\ main' = "shutdown"
    BY <1>7 DEF SnapshotEnd, ClosingTimeout
  <2> QED
    BY <1>t, <2>1, <2>2, UserFacts DEF HolderInv, Launched, Ending, WorkersOver
<1>8. CASE Launch
  <2>1. main = "launch" /\ main' \in {"select", "panicked"} /\ UNCHANGED <<conn, done>>
    BY <1>8 DEF Launch, poolVars
  <2>2. \A u \in Goroutines : conn'[u] = "none"
    BY <1>t, <2>1, UserFacts DEF HolderInv, Launched
  <2> QED
    BY <1>t, <2>1, <2>2 DEF HolderInv, Launched, Ending, WorkersOver
<1>9. CASE Select \/ Shutdown \/ ClosePool \/ Expire
  BY <1>9 DEF Select, Shutdown, ClosePool, Expire, Running, HolderInv, Launched, Ending,
              WorkersOver, poolVars
<1>10. CASE WorkersGone
  <2>1. /\ main = "wait" /\ main' \in {"closing", "shutdown"} /\ UNCHANGED <<conn, live, done>>
        /\ live \cap Workers = {}
    BY <1>10 DEF WorkersGone, poolVars
  <2> QED
    BY <2>1 DEF HolderInv, Launched, Ending, WorkersOver
<1>11. CASE PoolNext
  <2>1. UNCHANGED <<main, live, done>>
    BY <1>11 DEF PoolNext, PoolTakes, PoolReturns, AcquireAgain
  <2>2. \A v \in Users : conn'[v] # "none" => conn[v] # "none"
    BY <1>11, <1>t, UserFacts, OthersUninvolved
  <2> QED
    BY <1>t, <2>1, <2>2, UserFacts DEF HolderInv
<1>12. ASSUME NEW u \in Loops \cup Workers, Begin(u) PROVE HolderInv'
  <2>1. u \in Users /\ u # Lock /\ u # Main /\ u \in live /\ UNCHANGED <<live, done>>
    BY <1>12, UserFacts DEF Begin, Goroutines
  <2>2. Acquire(u) /\ main' = main
    BY <1>12, UsableSuffices DEF Begin, Running, ConfigInv
  <2>3. \A v \in Users \ {u} : conn'[v] = conn[v]
    BY <1>t, <2>1, <2>2, OthersUninvolved
  <2> QED
    BY <1>t, <2>1, <2>2, <2>3, UserFacts DEF HolderInv
<1>13. ASSUME NEW u \in Loops \cup Workers, End(u) \/ GiveUp(u) PROVE HolderInv'
  <2>1. u \in Users
    BY UserFacts DEF Goroutines
  <2>2. UNCHANGED <<main, live, done>> /\ \A v \in Users : conn'[v] # "none" => conn[v] # "none"
    BY <1>13, <1>t, <2>1, OthersUninvolved DEF End, GiveUp
  <2> QED
    BY <1>t, <2>2, UserFacts DEF HolderInv
<1>14. ASSUME NEW u \in Loops \cup Workers, Return(u) PROVE HolderInv'
  BY <1>14 DEF Return, Running, HolderInv, Launched, Ending, WorkersOver, poolVars
<1>15. CASE UNCHANGED processVars
  BY <1>15 DEF processVars, poolVars, HolderInv
<1> QED
  BY <1>1, <1>2, <1>3, <1>4, <1>5, <1>6, <1>7, <1>8, <1>9, <1>10, <1>11, <1>12, <1>13, <1>14, <1>15
     DEF ProcessNext, MainNext

\* Once the context is done main is past its launch and moves, or waits in
\* wg.Wait for workers, in the closing measurement for its own connection, or in
\* pool.Close for polling loops and the pool: nobody else has a connection, or
\* queues for one, that main would have to wait for.
ExitUnblocked ==
  done =>
    \/ main \in {"select", "shutdown", "exited"}
    \/ main = "closing" /\ Held \cup Queued \subseteq {Main} \cup (live \cap Loops)
    \/ main = "wait" /\ Held \cup Queued \subseteq live
    \/ main = "close" /\ Held \cup Queued \subseteq live \cap Loops

(* The safety half of ExitCompletes: whatever failed or was abandoned on the *)
(* way, the deferred pool.Close (main.go:58) waits only for connections that *)
(* a running polling loop is about to give back and for those the pool is    *)
(* destroying; none of the migration, of a measurement or of a worker is     *)
(* left.                                                                     *)
THEOREM ExitIsUnblocked == ProcessSpec => []ExitUnblocked
<1>1. ProcessInit => PoolInv /\ HolderInv
  BY UserFacts
     DEF ProcessInit, PoolInv, Early, Closed, HolderInv, Launched, Ending, WorkersOver
<1>2. HolderInv => ExitUnblocked
  <2> SUFFICES ASSUME HolderInv, done PROVE ExitUnblocked
    BY DEF ExitUnblocked
  <2>1. main \in Launched /\ conn[Lock] = "none"
    BY UserFacts DEF HolderInv, Launched
  <2>2. ASSUME NEW u \in Held \cup Queued
        PROVE  /\ \/ u = Main /\ main \in {"migrate", "snapshot", "closing"}
                  \/ u \in Goroutines /\ u \in live
               /\ main \in WorkersOver => u \notin live \cap Workers
    <3>1. u \in Users /\ conn[u] # "none"
      BY DEF Held, Queued
    <3>2. u = Main \/ u \in Goroutines
      BY <2>1, <3>1 DEF Users, Goroutines
    <3> QED
      BY <3>1, <3>2, UserFacts DEF HolderInv
  <2>3. CASE main \in {"close", "closing", "wait"}
    BY <2>2, <2>3 DEF ExitUnblocked, Goroutines, Launched, Ending, WorkersOver
  <2>4. CASE main \in {"select", "shutdown", "exited"}
    BY <2>4 DEF ExitUnblocked
  <2> QED
    BY <2>1, <2>3, <2>4 DEF Launched
<1> QED
  BY <1>1, <1>2, ConfigHolds, NextPoolInv, NextHolderInv, PTL DEF ProcessSpec

-----------------------------------------------------------------------------
(* The mix of operations *)

\* Six operations with distinct names, weights that are natural numbers, and
\* running sums that end at 100.
Weighted(ops) ==
  /\ DOMAIN ops = 1..6 /\ Len(ops) = 6 /\ \A i \in 1..6 : ops[i].weight \in Nat
  /\ \A i, j \in 1..6 : ops[i].name = ops[j].name => i = j
  /\ RunningSum(ops)[6] = 100

\* The recursion of RunningSum has a solution: each sum is the one before it
\* and the next weight.
LEMMA RunningSumSteps ==
  ASSUME NEW ops, Weighted(ops)
  PROVE  /\ RunningSum(ops)[0] = 0
         /\ \A i \in 1..6 : RunningSum(ops)[i] = RunningSum(ops)[i - 1] + ops[i].weight
<1> DEFINE w(i) == ops[i].weight
           Step(g) == [i \in 0..Len(ops) |-> IF i = 0 THEN 0 ELSE g[i - 1] + ops[i].weight]
           sum == CHOOSE g : g = Step(g)
           h == [i \in 0..6 |-> IF i = 0 THEN 0 ELSE
                                IF i = 1 THEN w(1) ELSE
                                IF i = 2 THEN w(1) + w(2) ELSE
                                IF i = 3 THEN w(1) + w(2) + w(3) ELSE
                                IF i = 4 THEN w(1) + w(2) + w(3) + w(4) ELSE
                                IF i = 5 THEN w(1) + w(2) + w(3) + w(4) + w(5) ELSE
                                w(1) + w(2) + w(3) + w(4) + w(5) + w(6)]
<1>1. RunningSum(ops) = sum
  BY DEF RunningSum
<1>2. \A i \in 1..6 : w(i) \in Nat
  BY DEF Weighted
<1>3. Len(ops) = 6
  BY DEF Weighted
<1>4. h = Step(h)
  <2>1. ASSUME NEW i \in 0..6 PROVE h[i] = IF i = 0 THEN 0 ELSE h[i - 1] + w(i)
    BY <1>2
  <2> QED
    BY <1>3, <2>1
<1>5. sum = Step(sum)
  <2> HIDE DEF h, Step
  <2> QED
    BY <1>4
<1> HIDE DEF sum
<1>6. ASSUME NEW i \in 0..6 PROVE sum[i] = IF i = 0 THEN 0 ELSE sum[i - 1] + ops[i].weight
  <2>1. Step(sum)[i] = IF i = 0 THEN 0 ELSE sum[i - 1] + ops[i].weight
    BY <1>3
  <2> QED
    BY <1>5, <2>1, Zenon
<1> QED
  BY <1>1, <1>6

\* They never fall, and lie between 0 and 100.
LEMMA RunningSumRises ==
  ASSUME NEW ops, Weighted(ops)
  PROVE  /\ \A i \in 0..6 : RunningSum(ops)[i] \in 0..100
         /\ \A i, j \in 0..6 : i <= j => RunningSum(ops)[i] <= RunningSum(ops)[j]
<1> DEFINE s == RunningSum(ops)
<1>1. \A i \in 1..6 : ops[i].weight \in Nat
  BY DEF Weighted
<1>2. s[0] = 0 /\ (\A i \in 1..6 : s[i] = s[i - 1] + ops[i].weight) /\ s[6] = 100
  BY RunningSumSteps DEF Weighted
<1> HIDE DEF s
<1>3. s[0] \in Nat /\ s[1] \in Nat /\ s[0] <= s[1]
  BY <1>1, <1>2
<1>4. s[2] \in Nat /\ s[1] <= s[2]
  BY <1>1, <1>2, <1>3
<1>5. s[3] \in Nat /\ s[2] <= s[3]
  BY <1>1, <1>2, <1>4
<1>6. s[4] \in Nat /\ s[3] <= s[4]
  BY <1>1, <1>2, <1>5
<1>7. s[5] \in Nat /\ s[4] <= s[5]
  BY <1>1, <1>2, <1>6
<1>8. s[6] \in Nat /\ s[5] <= s[6]
  BY <1>1, <1>2, <1>7
<1>9. \A i \in 0..6 : s[i] \in 0..100
  BY <1>2, <1>3, <1>4, <1>5, <1>6, <1>7, <1>8
<1>10. \A i, j \in 0..6 : i <= j => s[i] <= s[j]
  BY <1>3, <1>4, <1>5, <1>6, <1>7, <1>8
<1> QED
  BY <1>9, <1>10 DEF s

\* The smallest of some of the operations.
LEMMA MinOfOps ==
  ASSUME NEW H \in SUBSET (1..6), H # {}
  PROVE  Min(H) \in H /\ \A y \in H : Min(H) <= y
<1>1. \E x \in H : \A y \in H : x <= y
  <2>1. CASE 1 \in H
    BY <2>1
  <2>2. CASE 2 \in H /\ 1 \notin H
    BY <2>2
  <2>3. CASE 3 \in H /\ 1 \notin H /\ 2 \notin H
    BY <2>3
  <2>4. CASE 4 \in H /\ H \cap {1, 2, 3} = {}
    BY <2>4
  <2>5. CASE 5 \in H /\ H \cap {1, 2, 3, 4} = {}
    BY <2>5
  <2>6. CASE H \cap {1, 2, 3, 4, 5} = {}
    <3>1. \A y \in H : y = 6
      BY <2>6
    <3>2. PICK x \in H : TRUE
      OBVIOUS
    <3> QED
      BY <3>1, <3>2
  <2> QED
    BY <2>1, <2>2, <2>3, <2>4, <2>5, <2>6
<1> QED
  BY <1>1, Zenon DEF Min

\* A roll picks the operation whose share of the running sums it falls into.
LEMMA RollPicks ==
  ASSUME NEW ops, Weighted(ops), NEW i \in 1..6, NEW roll \in 0..99
  PROVE  SelectOp(roll, ops) = ops[i].name
           <=> roll \in RunningSum(ops)[i - 1]..(RunningSum(ops)[i] - 1)
<1> DEFINE s == RunningSum(ops)
           hits == {k \in DOMAIN ops : roll < s[k]}
<1>1. DOMAIN ops = 1..6 /\ s[6] = 100 /\ s[0] = 0
  BY RunningSumSteps DEF Weighted
<1>2. /\ \A k \in 0..6 : s[k] \in 0..100
      /\ \A k, l \in 0..6 : k <= l => s[k] <= s[l]
  BY RunningSumRises
<1> HIDE DEF s
<1>3. hits \in SUBSET (1..6) /\ 6 \in hits
  BY <1>1
<1>4. Min(hits) \in hits /\ \A y \in hits : Min(hits) <= y
  BY <1>3, MinOfOps
<1>5. SelectOp(roll, ops) = ops[Min(hits)].name
  BY <1>3 DEF SelectOp, s
<1> DEFINE m == Min(hits)
<1>6. m \in 1..6 /\ roll < s[m] /\ \A y \in 1..6 : roll < s[y] => m <= y
  BY <1>1, <1>4
<1> HIDE DEF m
<1>7. SelectOp(roll, ops) = ops[i].name <=> m = i
  BY <1>5, <1>6 DEF Weighted, m
<1>8. m = i <=> roll < s[i] /\ s[i - 1] <= roll
  <2>1. ASSUME m = i PROVE roll < s[i] /\ s[i - 1] <= roll
    BY <1>1, <1>2, <1>6, <2>1, SMTT(60)
  <2>2. ASSUME roll < s[i], s[i - 1] <= roll PROVE m = i
    <3>1. m <= i
      BY <1>6, <2>2
    <3>2. ASSUME m < i PROVE FALSE
      <4>1. m <= i - 1 /\ i - 1 \in 0..6 /\ m \in 0..6
        BY <1>6, <3>2
      <4>2. s[m] <= s[i - 1]
        BY <1>2, <4>1
      <4>3. s[m] \in Int /\ s[i - 1] \in Int
        BY <1>2, <4>1
      <4> QED
        BY <1>6, <2>2, <4>2, <4>3
    <3> QED
      BY <1>6, <3>1, <3>2
  <2> QED
    BY <2>1, <2>2
<1>9. s[i] \in Int /\ s[i - 1] \in Int
  BY <1>2
<1>10. roll < s[i] /\ s[i - 1] <= roll <=> roll \in s[i - 1]..(s[i] - 1)
  BY <1>9
<1> QED
  BY <1>7, <1>8, <1>10 DEF s

\* Every operation gets as many of the hundred rolls as its weight says.
LEMMA SharesExact ==
  ASSUME NEW ops, Weighted(ops), NEW i \in 1..6
  PROVE  Cardinality({roll \in 0..99 : SelectOp(roll, ops) = ops[i].name}) = ops[i].weight
<1> DEFINE a == RunningSum(ops)[i - 1]
           b == RunningSum(ops)[i]
<1>1. a \in 0..100 /\ b \in 0..100 /\ ops[i].weight \in Nat
  BY RunningSumRises DEF Weighted
<1> DEFINE w == ops[i].weight
<1>2. b = a + w /\ w \in Nat
  BY <1>1, RunningSumSteps
<1>3. \A roll \in 0..99 : SelectOp(roll, ops) = ops[i].name <=> roll \in a..(b - 1)
  BY RollPicks
<1> HIDE DEF a, b, w
<1>4. {roll \in 0..99 : SelectOp(roll, ops) = ops[i].name} = a..(b - 1)
  BY <1>1, <1>3
<1>5. Cardinality(a..(b - 1)) = IF a > b - 1 THEN 0 ELSE b - 1 - a + 1
  BY <1>1, FS_Interval
<1>6. Cardinality(a..(b - 1)) = w
  BY <1>1, <1>2, <1>5
<1> QED
  BY <1>4, <1>6 DEF w

\* What ResolveWeights accepts is weighted.
LEMMA ResolvedIsWeighted ==
  ASSUME NEW e \in Envs
  PROVE  ResolveWeights(e) = << >> \/ Weighted(ResolveWeights(e))
<1> DEFINE ops == [i \in DOMAIN OpDefs |->
                    [name |-> OpDefs[i].name, weight |-> Weight(e, OpDefs[i])]]
<1>1. DOMAIN OpDefs = 1..6
  BY DEF OpDefs
<1>2. \A i \in 1..6 : Weight(e, OpDefs[i]) \in Int
  BY <1>1, EnvsAssumption
<1>3. \A i, j \in 1..6 : OpDefs[i].name = OpDefs[j].name => i = j
  BY DEF OpDefs
<1>4. Len(ops) = 6 /\ DOMAIN ops = 1..6
  BY <1>1
<1>5. \A i \in 1..6 : ops[i].name = OpDefs[i].name /\ ops[i].weight = Weight(e, OpDefs[i])
  BY <1>1
<1>6. CASE (\A i \in DOMAIN ops : ops[i].weight >= 0) /\ RunningSum(ops)[Len(ops)] = 100
  <2>1. ResolveWeights(e) = ops
    BY <1>6 DEF ResolveWeights
  <2>2. \A i \in 1..6 : ops[i].weight \in Nat
    BY <1>2, <1>4, <1>5, <1>6
  <2>3. \A i, j \in 1..6 : ops[i].name = ops[j].name => i = j
    BY <1>3, <1>5
  <2> HIDE DEF ops
  <2> QED
    BY <1>4, <1>6, <2>1, <2>2, <2>3 DEF Weighted
<1>7. CASE ~((\A i \in DOMAIN ops : ops[i].weight >= 0) /\ RunningSum(ops)[Len(ops)] = 100)
  BY <1>7 DEF ResolveWeights
<1> QED
  BY <1>6, <1>7

\* Whatever weights the environment gives, an accepted mix gives every operation
\* exactly its share of the rolls, none of them at weight 0 and none to the last
\* operation by SelectOp's fall-through.
THEOREM MixIsExact == ProcessSpec => []ExactShares
<1> DEFINE MixInv == mix = << >> \/ Weighted(mix)
<1>1. ProcessInit => MixInv
  BY DEF ProcessInit
<1>2. ConfigInv /\ MixInv /\ [ProcessNext]_processVars => MixInv'
  <2> SUFFICES ASSUME ConfigInv, MixInv, [ProcessNext]_processVars PROVE MixInv'
    OBVIOUS
  <2>1. CASE ResolveMix
    BY <2>1, ResolvedIsWeighted DEF ResolveMix, ConfigInv
  <2>2. CASE mix' = mix
    BY <2>2
  <2>3. ResolveMix \/ mix' = mix
    BY DEF ProcessNext, MainNext, LoadConfig, GetProfile, NewPool, MigrateBegin,
           MigrateStatement, MigrateEnd, InitProfile, SnapshotQuery, SnapshotEnd,
           ClosingTimeout, Launch, Select, WorkersGone, Shutdown, ClosePool, Expire, PoolNext,
           PoolTakes, PoolReturns, AcquireAgain, Begin, End, GiveUp, Return, processVars
  <2> QED
    BY <2>1, <2>2, <2>3
<1>3. MixInv => ExactShares
  <2>1. CASE mix = << >>
    BY <2>1 DEF ExactShares
  <2>2. ASSUME Weighted(mix) PROVE ExactShares
    <3>1. DOMAIN mix = 1..6
      BY <2>2 DEF Weighted
    <3> QED
      BY <2>2, <3>1, SharesExact DEF ExactShares
  <2> QED
    BY <2>1, <2>2
<1> QED
  BY <1>1, <1>2, <1>3, ConfigHolds, PTL DEF ProcessSpec

-----------------------------------------------------------------------------
(* The payloads *)

\* A copy that worker w is rewriting, or has returned.
Copies ==
  [pos : 1..(Width + 1), large : BOOLEAN, pool : Pools, i : Index, bytes : Nat,
   field : [1..Width -> {0} \cup Writers]]

\* On which side of the threshold each pool is; the event pool is empty at first.
TemplateInv ==
  /\ \A p \in Pools, i \in Index :
       template[p][i].field = Pristine /\ template[p][i].bytes \in Nat
  /\ \A p \in {"session", "audit"}, i \in Index : template[p][i].bytes >= ToastThreshold
  /\ \A p \in {"small", "smallAudit"}, i \in Index :
       template[p][i].bytes \in 16..(ToastThreshold - 1)
  /\ \A i \in Index : \/ template["event"][i].bytes >= ToastThreshold
                      \/ template["event"][i].bytes = 0 /\ ~launched

\* The copy of worker w: the part of its field before pos is its own.
Holds(w) ==
  /\ copy[w] \in Copies
  /\ \A k \in 1..Width : k < copy[w].pos => copy[w].field[k] = w
  /\ IF copy[w].large THEN copy[w].bytes >= ToastThreshold
                      ELSE copy[w].bytes \in 1..(ToastThreshold - 1)
  /\ toastPct = 100 => copy[w].large
  /\ toastPct = 0 => ~copy[w].large

\* The inductive invariant behind PayloadsWellFormed.
PayloadInv ==
  /\ TemplateInv
  /\ DOMAIN template = Pools /\ \A p \in Pools : DOMAIN template[p] = Index
  /\ launched \in BOOLEAN /\ toastPct \in 0..100
  /\ DOMAIN copy = Writers
  /\ \A w \in Writers : copy[w].pos = 0 \/ (launched /\ Holds(w))

\* The bodies of a large payload exceed the threshold at every target size.
LEMMA BodiesAreLarge ==
  ASSUME NEW kb \in Nat \ {0}
  PROVE  BodyBytes(kb) \in Nat /\ BodyBytes(kb) >= 2048
<1> DEFINE budget == AtLeastOne(kb - 4)
           req == AtLeastOne((budget * 3) \div 5)
           resp == AtLeastOne(budget - req)
<1>1. budget \in Nat \ {0}
  BY DEF AtLeastOne
<1> HIDE DEF budget
<1>2. (budget * 3) \div 5 \in Int
  BY <1>1
<1>3. req \in Nat \ {0}
  BY <1>2 DEF AtLeastOne
<1> HIDE DEF req
<1>4. resp \in Nat \ {0}
  BY <1>1, <1>3 DEF AtLeastOne
<1> HIDE DEF resp
<1>5. ASSUME NEW n \in Nat \ {0}
      PROVE  Base64((n * 1024 * 3) \div 4) \in Nat /\ Base64((n * 1024 * 3) \div 4) >= 1024
  <2>1. (n * 1024 * 3) \div 4 = n * 768
    OBVIOUS
  <2>2. (n * 768 + 2) \div 3 = n * 256
    OBVIOUS
  <2> QED
    BY <2>1, <2>2 DEF Base64
<1>6. BodyBytes(kb) = Base64((req * 1024 * 3) \div 4) + Base64((resp * 1024 * 3) \div 4)
  BY DEF BodyBytes, budget, req, resp
<1> QED
  BY <1>3, <1>4, <1>5, <1>6

\* What init builds is on the right side of the threshold.
LEMMA StaticSizes ==
  \A i \in Index :
    /\ StaticBytes.session[i] \in Nat /\ StaticBytes.session[i] >= ToastThreshold
    /\ StaticBytes.audit[i] \in Nat /\ StaticBytes.audit[i] >= ToastThreshold
    /\ StaticBytes.small[i] \in 16..(ToastThreshold - 1)
    /\ StaticBytes.smallAudit[i] \in 16..(ToastThreshold - 1)
<1>1. /\ BodyBytes(4) \in Nat /\ BodyBytes(4) >= 2048
      /\ BodyBytes(8) \in Nat /\ BodyBytes(8) >= 2048
  BY BodiesAreLarge
<1>2. AuditBytes(2, 377) = 2046 /\ AuditBytes(4, 577) = 4094
  BY DEF AuditBytes
<1>3. SmallPayloadBytes(128, 31) = 313 /\ SmallPayloadBytes(896, 82) = 1388
  BY DEF SmallPayloadBytes, Base64
<1>4. SmallAuditBytes(128, 100) = 438 /\ SmallAuditBytes(640, 200) = 1222
  BY DEF SmallAuditBytes, Base64
<1>5. /\ StaticBytes.session = <<BodyBytes(4), BodyBytes(8)>>
      /\ StaticBytes.audit = <<2046, 4094>> /\ StaticBytes.small = <<313, 1388>>
      /\ StaticBytes.smallAudit = <<438, 1222>>
  BY <1>2, <1>3, <1>4 DEF StaticBytes
<1> QED
  BY <1>1, <1>5, PayloadAssumption DEF Index

\* Initially the event pool is empty and no worker has a copy.
LEMMA InitPayloadInv == PayloadInit => PayloadInv
<1> SUFFICES ASSUME PayloadInit PROVE PayloadInv
  OBVIOUS
<1>1. ASSUME NEW p \in Pools, NEW i \in Index
      PROVE  /\ template[p][i].field = Pristine
             /\ template[p][i].bytes = IF p = "event" THEN 0 ELSE StaticBytes[p][i]
  BY DEF PayloadInit, Template
<1>2. TemplateInv
  <2>1. \A i \in Index : template["event"][i].bytes = 0 /\ ~launched
    BY <1>1 DEF Pools, Fields, PayloadInit
  <2>2. \A p \in {"session", "audit", "small", "smallAudit"}, i \in Index :
          template[p][i].bytes = StaticBytes[p][i]
    BY <1>1 DEF Pools, Fields
  <2>3. \A p \in {"session", "audit"}, i \in Index :
          template[p][i].bytes \in Nat /\ template[p][i].bytes >= ToastThreshold
    BY <2>2, StaticSizes
  <2>4. \A p \in {"small", "smallAudit"}, i \in Index :
          template[p][i].bytes \in 16..(ToastThreshold - 1)
    BY <2>2, StaticSizes
  <2>5. \A p \in Pools, i \in Index : template[p][i].bytes \in Nat
    BY <2>1, <2>3, <2>4, PayloadAssumption DEF Pools, Fields
  <2> QED
    BY <1>1, <2>1, <2>3, <2>4, <2>5 DEF TemplateInv
<1>3. DOMAIN template = Pools /\ \A p \in Pools : DOMAIN template[p] = Index
  BY DEF PayloadInit
<1>4. DOMAIN copy = Writers /\ \A w \in Writers : copy[w].pos = 0
  BY DEF PayloadInit
<1>5. launched \in BOOLEAN /\ toastPct \in 0..100
  <2>1. launched = FALSE /\ toastPct = 100
    BY DEF PayloadInit
  <2>2. launched \in BOOLEAN
    BY <2>1, Zenon
  <2> QED
    BY <2>1, <2>2
<1> QED
  BY <1>2, <1>3, <1>4, <1>5 DEF PayloadInv

\* A template of the event pool is built.
LEMMA EventBuilt ==
  ASSUME PayloadInv, NEW i \in Index, InitEventPool(i)
  PROVE  PayloadInv'
<1>1. PICK kb \in MinKB..MaxKB :
        template' = [template EXCEPT !["event"][i] = Template(BodyBytes(kb))]
  BY DEF InitEventPool
<1>2. BodyBytes(kb) \in Nat /\ BodyBytes(kb) >= ToastThreshold
  BY BodiesAreLarge, PayloadAssumption
<1>3. /\ ~launched /\ launched' = launched /\ toastPct' = toastPct /\ copy' = copy
  BY PayloadAssumption, SMTT(60) DEF InitEventPool, PayloadInv, TemplateInv
<1>4. "event" \in Pools
  BY DEF Pools, Fields
<1>5. /\ DOMAIN template' = Pools /\ \A p \in Pools : DOMAIN template'[p] = Index
      /\ template'["event"][i].field = Pristine /\ template'["event"][i].bytes = BodyBytes(kb)
      /\ \A p \in Pools, j \in Index :
           p # "event" \/ j # i => template'[p][j] = template[p][j]
  BY <1>1, <1>4 DEF PayloadInv, Template
<1>6. TemplateInv'
  <2>1. \A p \in Pools, j \in Index :
          template'[p][j].field = Pristine /\ template'[p][j].bytes \in Nat
    BY <1>2, <1>5 DEF PayloadInv, TemplateInv
  <2>2. \A p \in {"session", "audit", "small", "smallAudit"}, j \in Index :
          template'[p][j] = template[p][j]
    BY <1>5 DEF Pools, Fields
  <2>3. \A j \in Index : \/ template'["event"][j].bytes >= ToastThreshold
                         \/ template'["event"][j].bytes = 0 /\ ~launched'
    BY <1>2, <1>3, <1>4, <1>5 DEF PayloadInv, TemplateInv
  <2>4. \A p \in {"session", "audit"}, j \in Index : template'[p][j].bytes >= ToastThreshold
    BY <2>2 DEF PayloadInv, TemplateInv
  <2>5. \A p \in {"small", "smallAudit"}, j \in Index :
          template'[p][j].bytes \in 16..(ToastThreshold - 1)
    BY <2>2 DEF PayloadInv, TemplateInv
  <2> QED
    BY <2>1, <2>3, <2>4, <2>5 DEF TemplateInv
<1> QED
  BY <1>3, <1>5, <1>6 DEF PayloadInv

\* A worker copies a template of the pool its roll asks for.
LEMMA PayloadCopied ==
  ASSUME PayloadInv, NEW w \in Writers, GetPayload(w)
  PROVE  PayloadInv'
<1>1. PICK name \in Fields, large \in {IsLarge(roll) : roll \in 0..99}, i \in Index :
        LET p == PoolOf(name, large)
            t == template[p][i]
        IN  copy' = [copy EXCEPT ![w] =
                      [pos |-> IF t.bytes >= Width THEN 1 ELSE Width + 1, large |-> large,
                       pool |-> p, i |-> i, bytes |-> t.bytes, field |-> t.field]]
  BY DEF GetPayload
<1> DEFINE p == PoolOf(name, large)
           t == template[p][i]
           c == [pos |-> IF t.bytes >= Width THEN 1 ELSE Width + 1, large |-> large,
                 pool |-> p, i |-> i, bytes |-> t.bytes, field |-> t.field]
<1>2. launched /\ launched' = launched /\ toastPct' = toastPct /\ template' = template
  BY DEF GetPayload
<1>3. PICK roll \in 0..99 : large = IsLarge(roll)
  BY <1>1
<1>4. /\ large \in BOOLEAN
      /\ toastPct = 100 => large
      /\ toastPct = 0 => ~large
  <2>1. toastPct \in 0..100
    BY DEF PayloadInv
  <2>2. large \in BOOLEAN
    <3>1. CASE roll < toastPct
      <4>1. (roll < toastPct) = TRUE
        BY <3>1
      <4>2. large = TRUE
        BY <1>3, <4>1, Zenon DEF IsLarge
      <4> QED
        BY <4>2, Zenon
    <3>2. CASE ~(roll < toastPct)
      <4>1. (roll < toastPct) = FALSE
        BY <3>2
      <4>2. large = FALSE
        BY <1>3, <4>1, Zenon DEF IsLarge
      <4> QED
        BY <4>2, Zenon
    <3> QED
      BY <3>1, <3>2
  <2>3. (toastPct = 100 => roll < toastPct) /\ (toastPct = 0 => ~(roll < toastPct))
    BY <2>1
  <2>4. large <=> roll < toastPct
    BY <1>3 DEF IsLarge
  <2> QED
    BY <2>2, <2>3, <2>4
<1>5. p \in Pools
  BY DEF PoolOf, Pools, Fields
<1>6. /\ large => t.bytes >= ToastThreshold
      /\ ~large => t.bytes \in 16..(ToastThreshold - 1)
  <2>1. CASE large
    <3>1. p = name
      BY <2>1 DEF PoolOf
    <3>2. CASE name = "event"
      BY <1>2, <2>1, <3>1, <3>2 DEF PayloadInv, TemplateInv
    <3>3. CASE name \in {"session", "audit"}
      BY <2>1, <3>1, <3>3 DEF PayloadInv, TemplateInv
    <3> QED
      BY <3>2, <3>3 DEF Fields
  <2>2. CASE ~large
    <3>1. p \in {"small", "smallAudit"}
      BY <2>2 DEF PoolOf
    <3> QED
      BY <2>2, <3>1 DEF PayloadInv, TemplateInv
  <2> QED
    BY <2>1, <2>2
<1>7. t.field = Pristine /\ t.bytes \in Nat
  BY <1>5 DEF PayloadInv, TemplateInv
<1> HIDE DEF p, t, c
<1>8. t.bytes >= Width
  <2>1. t.bytes >= 16
    <3>1. CASE large
      BY <1>6, <1>7, <3>1, PayloadAssumption
    <3>2. CASE ~large
      BY <1>6, <1>7, <3>2
    <3> QED
      BY <3>1, <3>2
  <2> QED
    BY <1>7, <2>1, PayloadAssumption
<1>9. Pristine \in [1..Width -> {0} \cup Writers]
  BY DEF Pristine
<1>10. c = [pos |-> 1, large |-> large, pool |-> p, i |-> i, bytes |-> t.bytes, field |-> Pristine]
  BY <1>7, <1>8 DEF c
<1>11. 1 \in 1..(Width + 1)
  BY PayloadAssumption
<1>12. c \in Copies
  BY <1>4, <1>5, <1>7, <1>9, <1>10, <1>11 DEF Copies
<1>13. copy' = [copy EXCEPT ![w] = c]
  BY <1>1 DEF p, t, c
<1>14. c.pos = 1 /\ c.large = large /\ c.bytes = t.bytes
  BY <1>10
<1>15. copy'[w] = c /\ DOMAIN copy' = Writers /\ \A v \in Writers : v # w => copy'[v] = copy[v]
  BY <1>13 DEF PayloadInv
<1>16. Holds(w)'
  <2>1. \A k \in 1..Width : ~(k < c.pos)
    BY <1>14, PayloadAssumption
  <2>2. IF c.large THEN c.bytes >= ToastThreshold ELSE c.bytes \in 1..(ToastThreshold - 1)
    BY <1>6, <1>14
  <2> QED
    BY <1>2, <1>4, <1>12, <1>14, <1>15, <2>1, <2>2 DEF Holds
<1>17. ASSUME NEW v \in Writers PROVE copy'[v].pos = 0 \/ (launched' /\ Holds(v)')
  BY <1>2, <1>15, <1>16 DEF PayloadInv, Holds
<1>18. TemplateInv'
  BY <1>2 DEF PayloadInv, TemplateInv
<1> QED
  BY <1>2, <1>15, <1>17, <1>18 DEF PayloadInv

\* One more character of a worker's own copy.
LEMMA CopyMutated ==
  ASSUME PayloadInv, NEW w \in Writers, Mutate(w)
  PROVE  PayloadInv'
<1> DEFINE b == copy[w]
           c == [b EXCEPT !.pos = @ + 1, !.field[b.pos] = w]
<1>1. launched' = launched /\ toastPct' = toastPct /\ template' = template
  BY DEF Mutate
<1>2. b.pos \in 1..Width /\ copy' = [copy EXCEPT ![w] = c]
  BY Zenon DEF Mutate
<1>3. b.pos # 0
  BY <1>2, PayloadAssumption
<1>4. launched /\ Holds(w)
  BY <1>3 DEF PayloadInv
<1>5. b \in Copies
  BY <1>4 DEF Holds
<1>6. /\ b.field \in [1..Width -> {0} \cup Writers]
      /\ [b.field EXCEPT ![b.pos] = w] \in [1..Width -> {0} \cup Writers]
  BY <1>2, <1>5 DEF Copies
<1>7. c.pos = b.pos + 1 /\ c.field = [b.field EXCEPT ![b.pos] = w]
      /\ c.large = b.large /\ c.bytes = b.bytes
  BY <1>5 DEF Copies
<1>8. b.pos + 1 \in 1..(Width + 1)
  BY <1>2, PayloadAssumption
<1>9. c \in Copies
  BY <1>5, <1>6, <1>8 DEF Copies
<1>10. \A k \in 1..Width : k < b.pos + 1 => [b.field EXCEPT ![b.pos] = w][k] = w
  <2>1. \A k \in 1..Width : k < b.pos => b.field[k] = w
    BY <1>4 DEF Holds
  <2>2. ASSUME NEW k \in 1..Width, k < b.pos + 1 PROVE [b.field EXCEPT ![b.pos] = w][k] = w
    <3>1. CASE k = b.pos
      BY <1>6, <3>1
    <3>2. CASE k # b.pos
      <4>1. k < b.pos
        BY <1>2, <2>2, <3>2, PayloadAssumption
      <4> QED
        BY <1>6, <2>1, <3>2, <4>1
    <3> QED
      BY <3>1, <3>2
  <2> QED
    BY <2>2
<1>11. /\ IF b.large THEN b.bytes >= ToastThreshold ELSE b.bytes \in 1..(ToastThreshold - 1)
       /\ toastPct = 100 => b.large
       /\ toastPct = 0 => ~b.large
  BY <1>4 DEF Holds
<1> HIDE DEF c
<1>12. copy'[w] = c /\ DOMAIN copy' = Writers /\ \A v \in Writers : v # w => copy'[v] = copy[v]
  BY <1>2 DEF PayloadInv
<1>13. Holds(w)'
  BY <1>1, <1>7, <1>9, <1>10, <1>11, <1>12 DEF Holds
<1>14. ASSUME NEW v \in Writers PROVE copy'[v].pos = 0 \/ (launched' /\ Holds(v)')
  BY <1>1, <1>4, <1>12, <1>13 DEF PayloadInv, Holds
<1>15. TemplateInv'
  BY <1>1 DEF PayloadInv, TemplateInv
<1> QED
  BY <1>1, <1>12, <1>14, <1>15 DEF PayloadInv

\* Workers share the templates and never disturb each other, and TOAST_PCT decides
\* on which side of the threshold a payload is, at every size of the event payloads.
THEOREM PayloadsHold == PayloadSpec => []PayloadsWellFormed
<1>1. PayloadInv /\ [PayloadNext]_payloadVars => PayloadInv'
  <2> SUFFICES ASSUME PayloadInv, [PayloadNext]_payloadVars PROVE PayloadInv'
    OBVIOUS
  <2>1. CASE SetToastPct
    <3>1. /\ ~launched /\ launched' = TRUE /\ toastPct' \in 0..100
          /\ template' = template /\ copy' = copy
      BY <2>1, PayloadAssumption DEF SetToastPct
    <3>2. TemplateInv'
      <4>1. \A i \in Index : template["event"][i].bytes > 0
        BY <2>1 DEF SetToastPct
      <4>2. \A i \in Index : template["event"][i].bytes >= ToastThreshold
        BY <4>1 DEF PayloadInv, TemplateInv
      <4> QED
        BY <3>1, <4>2 DEF PayloadInv, TemplateInv
    <3>3. \A w \in Writers : copy[w].pos = 0
      BY <3>1 DEF PayloadInv
    <3> QED
      BY <3>1, <3>2, <3>3 DEF PayloadInv
  <2>2. CASE UNCHANGED payloadVars
    BY <2>2 DEF payloadVars, PayloadInv, TemplateInv, Holds
  <2> QED
    BY <2>1, <2>2, EventBuilt, PayloadCopied, CopyMutated DEF PayloadNext
<1>2. PayloadInv => PayloadsWellFormed
  <2> SUFFICES ASSUME PayloadInv PROVE PayloadsWellFormed
    OBVIOUS
  <2>1. \A p \in Pools, i \in Index : template[p][i].field = Pristine
    BY DEF PayloadInv, TemplateInv
  <2>2. ASSUME NEW w \in Writers, copy[w].pos = Width + 1
        PROVE  Holds(w) /\ \A k \in 1..Width : copy[w].field[k] = w
    BY <2>2, PayloadAssumption DEF PayloadInv, Holds
  <2> QED
    BY <2>1, <2>2 DEF PayloadsWellFormed, Holds
<1> QED
  BY <1>1, <1>2, InitPayloadInv, PTL DEF PayloadSpec

-----------------------------------------------------------------------------
(* The latency summary: sorted keys and running sums *)

\* A finite set of integers has a largest and a smallest element.
LEMMA Extremes ==
  ASSUME NEW S, IsFiniteSet(S)
  PROVE  S \subseteq Int /\ S # {} =>
           (\E x \in S : \A y \in S : y <= x) /\ (\E x \in S : \A y \in S : x <= y)
<1> DEFINE Bounded(s) == (\E x \in s : \A y \in s : y <= x) /\ (\E x \in s : \A y \in s : x <= y)
           C == {s \in SUBSET S : s \subseteq Int /\ s # {} /\ ~Bounded(s)}
<1>1. SUFFICES ASSUME C # {} PROVE FALSE
  OBVIOUS
<1>2. PICK s \in C : \A t \in C : t \subseteq s => t = s
  <2>1. C \subseteq SUBSET S
    OBVIOUS
  <2> HIDE DEF C
  <2>2. QED
    BY <1>1, <2>1, MinimalSubset
<1>3. PICK e \in s : TRUE
  OBVIOUS
<1>4. s \ {e} \notin C
  BY <1>2, <1>3
<1>5. CASE s \ {e} = {}
  <2>1. \A y \in s : y = e
    BY <1>5
  <2>2. Bounded(s)
    BY <1>3, <2>1
  <2>3. QED
    BY <2>2
<1>6. CASE s \ {e} # {}
  <2>1. Bounded(s \ {e})
    BY <1>4, <1>6
  <2>2. PICK hi \in s \ {e} : \A y \in s \ {e} : y <= hi
    BY <2>1
  <2>3. PICK lo \in s \ {e} : \A y \in s \ {e} : lo <= y
    BY <2>1
  <2>4. s \subseteq Int
    OBVIOUS
  <2>5. \A y \in s : y <= IF e <= hi THEN hi ELSE e
    BY <2>2, <2>4
  <2>6. \A y \in s : (IF e <= lo THEN e ELSE lo) <= y
    BY <2>3, <2>4
  <2>7. Bounded(s)
    BY <2>5, <2>6
  <2>8. QED
    BY <2>7
<1>7. QED
  BY <1>5, <1>6

\* keys lists the elements of D in ascending order.
Ascending(keys, D) ==
  LET n == Cardinality(D)
  IN  /\ keys \in [1..n -> D]
      /\ \A i, j \in 1..n : i < j => keys[i] < keys[j]

\* Every finite set of integers can be listed in ascending order.
LEMMA AscendingExists ==
  ASSUME NEW S, IsFiniteSet(S)
  PROVE  S \subseteq Int => \E keys : Ascending(keys, S)
<1> DEFINE C == {s \in SUBSET S : s \subseteq Int /\ ~\E keys : Ascending(keys, s)}
<1>1. SUFFICES ASSUME C # {} PROVE FALSE
  OBVIOUS
<1>2. PICK s \in C : \A t \in C : t \subseteq s => t = s
  <2>1. C \subseteq SUBSET S
    OBVIOUS
  <2> HIDE DEF C
  <2>2. QED
    BY <1>1, <2>1, MinimalSubset
<1>3. IsFiniteSet(s) /\ s \subseteq Int /\ ~\E keys : Ascending(keys, s)
  BY <1>2, FS_Subset
<1>4. CASE s = {}
  <2>1. Cardinality({}) = 0
    BY FS_EmptySet
  <2>2. Ascending([i \in 1..0 |-> 0], {})
    BY <2>1 DEF Ascending
  <2>3. QED
    BY <1>3, <1>4, <2>2
<1>5. CASE s # {}
  <2>1. PICK hi \in s : \A y \in s : y <= hi
    BY <1>3, <1>5, Extremes
  <2> DEFINE r == s \ {hi}
             m == Cardinality(r)
  <2>2. r \notin C /\ r \in SUBSET S
    BY <1>2, <2>1
  <2>3. PICK keys : Ascending(keys, r)
    BY <2>2
  <2>4. m \in Nat /\ Cardinality(s) \in Nat /\ Cardinality(s) = m + 1
    <3>1. Cardinality(s) \in Nat /\ IsFiniteSet(r) /\ m = Cardinality(s) - 1
      BY <1>3, <2>1, FS_CardinalityType, FS_RemoveElement
    <3>2. m \in Nat
      BY <3>1, FS_CardinalityType
    <3> HIDE DEF m
    <3>3. QED
      BY <3>1, <3>2
  <2> DEFINE all == [i \in 1..(m + 1) |-> IF i = m + 1 THEN hi ELSE keys[i]]
  <2>5. keys \in [1..m -> r] /\ \A i, j \in 1..m : i < j => keys[i] < keys[j]
    BY <2>3 DEF Ascending
  <2>6. \A i \in 1..m : keys[i] \in r /\ keys[i] \in Int /\ keys[i] < hi
    <3>1. ASSUME NEW i \in 1..m PROVE keys[i] \in r
      BY <2>5
    <3>2. \A x \in r : x \in Int /\ x < hi
      BY <1>3, <2>1
    <3>3. QED
      BY <3>1, <3>2
  <2> HIDE DEF m, r
  <2>7. \A i \in 1..(m + 1) : i = m + 1 \/ i \in 1..m
    BY <2>4
  <2>8. all \in [1..(m + 1) -> s]
    BY <2>6, <2>7, <2>1 DEF r
  <2>9. ASSUME NEW i \in 1..(m + 1), NEW j \in 1..(m + 1), i < j PROVE all[i] < all[j]
    <3>1. i \in 1..m /\ all[i] = keys[i]
      BY <2>4, <2>9
    <3>2. CASE j = m + 1
      BY <3>1, <3>2, <2>6
    <3>3. CASE j \in 1..m
      BY <3>1, <3>3, <2>4, <2>5, <2>9
    <3>4. QED
      BY <3>2, <3>3, <2>7
  <2>10. Ascending(all, s)
    <3> HIDE DEF all
    <3>1. QED
      BY <2>4, <2>8, <2>9 DEF Ascending
  <2>11. QED
    BY <1>3, <2>10
<1>6. QED
  BY <1>4, <1>5

\* Such a list has every element, and compares like its indices.
Listed(keys, D) ==
  /\ Cardinality(D) \in Nat /\ Len(keys) = Cardinality(D)
  /\ \A x \in D : \E i \in 1..Len(keys) : keys[i] = x
  /\ \A i \in 1..Len(keys) : keys[i] \in D /\ keys[i] \in Int
  /\ \A i, j \in 1..Len(keys) : i <= j <=> keys[i] <= keys[j]

\* An ascending list is a bijection between positions and elements.
LEMMA AscendingListed ==
  ASSUME NEW D, IsFiniteSet(D), D \subseteq Int, NEW keys, Ascending(keys, D)
  PROVE  Listed(keys, D)
<1> DEFINE n == Cardinality(D)
<1>1. n \in Nat
  BY FS_CardinalityType
<1>2. keys \in [1..n -> D] /\ \A i, j \in 1..n : i < j => keys[i] < keys[j]
  BY DEF Ascending
<1>3. IsFiniteSet(1..n) /\ Cardinality(1..n) = n
  BY <1>1, FS_Interval
<1> HIDE DEF n
<1>4. Len(keys) = n
  BY <1>1, <1>2
<1>5. \A i \in 1..n : keys[i] \in D /\ keys[i] \in Int
  BY <1>2
<1>6. \A i, j \in 1..n : i <= j <=> keys[i] <= keys[j]
  <2> SUFFICES ASSUME NEW i \in 1..n, NEW j \in 1..n PROVE i <= j <=> keys[i] <= keys[j]
    OBVIOUS
  <2>1. i \in Int /\ j \in Int /\ keys[i] \in Int /\ keys[j] \in Int
    BY <1>1, <1>5
  <2>2. (i < j => keys[i] < keys[j]) /\ (j < i => keys[j] < keys[i]) /\ (i = j => keys[i] = keys[j])
    BY <1>2
  <2>3. QED
    BY <2>1, <2>2
<1>7. \A i, j \in 1..n : keys[i] = keys[j] => i = j
  <2> SUFFICES ASSUME NEW i \in 1..n, NEW j \in 1..n, keys[i] = keys[j] PROVE i = j
    OBVIOUS
  <2>1. i <= j /\ j <= i
    BY <1>5, <1>6
  <2>2. QED
    BY <1>1, <2>1
<1>8. keys \in Injection(1..n, D)
  BY <1>2, <1>7 DEF Injection, IsInjective
<1>9. keys \in Surjection(1..n, D)
  <2>1. Cardinality(1..n) = Cardinality(D)
    BY <1>3 DEF n
  <2>2. QED
    BY <1>3, <1>8, <2>1, FS_Injection
<1>10. \A x \in D : \E i \in 1..n : keys[i] = x
  BY <1>9 DEF Surjection
<1>11. QED
  BY <1>1, <1>4, <1>5, <1>6, <1>10 DEF Listed, n

\* So the keys that SortedKeys chooses are all of the keys, in order.
LEMMA SortedKeysListed ==
  ASSUME NEW l, IsFiniteSet(DOMAIN l), DOMAIN l \subseteq Int
  PROVE  Listed(SortedKeys(l), DOMAIN l)
<1>1. \E keys : Ascending(keys, DOMAIN l)
  BY AscendingExists
<1>2. Ascending(SortedKeys(l), DOMAIN l)
  BY <1>1, Zenon DEF Ascending, SortedKeys
<1>3. QED
  BY <1>2, AscendingListed

\* What the loop of quantileFrom has counted when it has passed i keys.
RunningSums(l, keys) ==
  \A i \in 1..Len(keys) :
    Cumulative(l, keys)[i] = SumFunctionOnSet(l, {x \in DOMAIN l : x <= keys[i]})

\* The recursive running sum is the sum over the keys passed so far.
LEMMA CumulativeSums ==
  ASSUME NEW l, IsFiniteSet(DOMAIN l), \A x \in DOMAIN l : l[x] \in Int,
         NEW keys, Listed(keys, DOMAIN l)
  PROVE  RunningSums(l, keys)
<1> DEFINE D    == DOMAIN l
           n    == Len(keys)
           P(i) == {x \in D : \E j \in 1..i : keys[j] = x}
           w    == [i \in 0..n |-> SumFunctionOnSet(l, P(i))]
           Step(g) == [i \in 0..n |-> IF i = 0 THEN 0 ELSE g[i - 1] + l[keys[i]]]
           cum  == Cumulative(l, keys)
<1>1. n \in Nat /\ \A i \in 1..n : keys[i] \in D /\ keys[i] \in Int
  BY DEF Listed
<1>2. \A i, j \in 1..n : i <= j <=> keys[i] <= keys[j]
  BY DEF Listed
\* The sums over the prefixes solve the recursion.
<1>3. ASSUME NEW i \in 1..n
      PROVE  w[i] = w[i - 1] + l[keys[i]]
  <2>1. P(i) \in SUBSET D /\ keys[i] \in P(i)
    BY <1>1
  <2>2. P(i) \ {keys[i]} = P(i - 1)
    <3>1. \A j \in 1..i : j \in 1..(i - 1) \/ j = i
      BY <1>1
    <3>2. \A j \in 1..(i - 1) : j \in 1..i /\ keys[j] # keys[i]
      <4> SUFFICES ASSUME NEW j \in 1..(i - 1) PROVE j \in 1..i /\ keys[j] # keys[i]
        OBVIOUS
      <4>1. j \in 1..n /\ j \in 1..i /\ ~(i <= j)
        BY <1>1
      <4>2. ~(keys[i] <= keys[j]) /\ keys[i] \in Int
        BY <1>1, <1>2, <4>1
      <4>3. QED
        BY <4>1, <4>2
    <3>3. QED
      BY <3>1, <3>2
  <2>3. IsFiniteSet(P(i)) /\ \A x \in P(i) : l[x] \in Int
    BY <2>1, FS_Subset
  <2>4. SumFunctionOnSet(l, P(i)) = l[keys[i]] + SumFunctionOnSet(l, P(i) \ {keys[i]})
    <3> HIDE DEF P
    <3>1. QED
      BY <2>1, <2>3, SumRemove
  <2>5. SumFunctionOnSet(l, P(i - 1)) \in Int /\ l[keys[i]] \in Int
    <3>1. IsFiniteSet(P(i - 1)) /\ \A x \in P(i - 1) : l[x] \in Int
      BY FS_Subset
    <3> HIDE DEF P
    <3>2. QED
      BY <3>1, <1>1, SumType
  <2>6. i \in 0..n /\ i - 1 \in 0..n
    BY <1>1
  <2>7. w[i] = SumFunctionOnSet(l, P(i)) /\ w[i - 1] = SumFunctionOnSet(l, P(i - 1))
    BY <2>6
  <2>8. \A x, y \in Int : x + y = y + x
    OBVIOUS
  <2> HIDE DEF w, P
  <2>9. QED
    BY <2>2, <2>4, <2>5, <2>7, <2>8, Zenon
<1>4. 0 \in 0..n /\ w[0] = 0
  <2>1. P(0) = {}
    OBVIOUS
  <2>2. 0 \in 0..n
    BY <1>1
  <2>3. QED
    BY <2>1, <2>2, SumEmpty
<1>5. w = Step(w)
  <2> DEFINE v == Step(w)
  <2>1. DOMAIN w = 0..n /\ DOMAIN v = 0..n /\ w = [i \in 0..n |-> w[i]] /\ v = [i \in 0..n |-> v[i]]
    OBVIOUS
  <2>2. ASSUME NEW i \in 0..n PROVE w[i] = v[i]
    <3>1. v[i] = IF i = 0 THEN 0 ELSE w[i - 1] + l[keys[i]]
      OBVIOUS
    <3> HIDE DEF w, v
    <3>2. CASE i = 0
      BY <3>1, <3>2, <1>4
    <3>3. CASE i # 0
      <4>1. i \in 1..n
        BY <3>3, <1>1
      <4>2. QED
        BY <3>1, <3>3, <4>1, <1>3
    <3>4. QED
      BY <3>2, <3>3
  <2> HIDE DEF w, v
  <2>3. QED
    BY <2>1, <2>2
<1>6. cum = Step(cum)
  <2>1. cum = CHOOSE g : g = Step(g)
    BY Zenon DEF Cumulative
  <2> HIDE DEF w, cum
  <2>2. QED
    BY <1>5, <2>1, Zenon
\* The recursion has no other solution.
<1>7. ASSUME NEW i \in 0..n PROVE cum[i] = IF i = 0 THEN 0 ELSE cum[i - 1] + l[keys[i]]
  <2>1. Step(cum)[i] = IF i = 0 THEN 0 ELSE cum[i - 1] + l[keys[i]]
    OBVIOUS
  <2> HIDE DEF cum, Step
  <2>2. QED
    BY <1>6, <2>1, Zenon
<1>8. \A i \in 0..n : cum[i] = w[i]
  <2> HIDE DEF cum, w
  <2> DEFINE B == {i \in 0..n : cum[i] # w[i]}
  <2>1. SUFFICES ASSUME B # {} PROVE FALSE
    OBVIOUS
  <2>2. IsFiniteSet(B) /\ B \subseteq Int
    <3>1. B \in SUBSET (0..n) /\ IsFiniteSet(0..n)
      BY <1>1, FS_Interval
    <3>2. QED
      BY <3>1, <1>1, FS_Subset
  <2>3. PICK i \in B : \A j \in B : i <= j
    <3> HIDE DEF B
    <3>1. QED
      BY <2>1, <2>2, Extremes
  <2>4. i \in 0..n /\ cum[i] # w[i]
    OBVIOUS
  <2>5. i # 0
    BY <1>4, <1>7, <2>4
  <2>6. i \in 1..n /\ i - 1 \in 0..n /\ ~(i <= i - 1)
    BY <1>1, <2>4, <2>5
  <2>7. cum[i - 1] = w[i - 1]
    BY <2>3, <2>6
  <2>8. cum[i] = cum[i - 1] + l[keys[i]]
    BY <1>7, <2>4, <2>5
  <2>9. w[i] = w[i - 1] + l[keys[i]]
    BY <1>3, <2>6
  <2>10. QED
    BY <2>4, <2>7, <2>8, <2>9, Zenon
<1>9. ASSUME NEW i \in 1..n PROVE cum[i] = SumFunctionOnSet(l, {x \in D : x <= keys[i]})
  <2>1. P(i) = {x \in D : x <= keys[i]}
    <3>1. ASSUME NEW x \in D PROVE (\E j \in 1..i : keys[j] = x) <=> x <= keys[i]
      <4>1. PICK k \in 1..n : keys[k] = x
        BY DEF Listed
      <4>2. k <= i <=> x <= keys[i]
        BY <4>1, <1>2
      <4>3. \A j \in 1..i : j \in 1..n /\ j <= i
        BY <1>1
      <4>4. \A j \in 1..i : keys[j] <= keys[i]
        BY <4>3, <1>2
      <4>5. k <= i => k \in 1..i
        BY <1>1
      <4>6. QED
        BY <4>1, <4>2, <4>4, <4>5
    <3>2. QED
      BY <3>1
  <2>2. i \in 0..n
    BY <1>1
  <2>3. w[i] = SumFunctionOnSet(l, P(i))
    BY <2>2
  <2> HIDE DEF w, cum, P
  <2>4. QED
    BY <2>1, <2>2, <2>3, <1>8
<1>10. QED
  BY <1>9 DEF RunningSums

-----------------------------------------------------------------------------
(* The latency summary: quantiles *)

\* A count reaches the rank iff it is at least the share q of the total, and
\* the total does.
ReachesRank(q, total) ==
  /\ \A c \in Nat : c >= Rank(q, total) <=> q[2] * c >= q[1] * total
  /\ total >= Rank(q, total)

\* The clamped ceiling is such a rank, for each of the four quantiles in use.
LEMMA RankReached ==
  ASSUME NEW total \in Nat, total > 0, NEW p \in DOMAIN Quantiles
  PROVE  ReachesRank(Quantiles[p], total)
<1>1. ReachesRank(<<1, 2>>, total)
  <2>1. Rank(<<1, 2>>, total) = (total + 1) \div 2
    BY DEF Rank
  <2>2. QED
    BY <2>1 DEF ReachesRank
<1>2. ReachesRank(<<95, 100>>, total)
  <2>1. Rank(<<95, 100>>, total) = (95 * total + 99) \div 100
    BY DEF Rank
  <2>2. QED
    BY <2>1 DEF ReachesRank
<1>3. ReachesRank(<<99, 100>>, total)
  <2>1. Rank(<<99, 100>>, total) = (99 * total + 99) \div 100
    BY DEF Rank
  <2>2. QED
    BY <2>1 DEF ReachesRank
<1>4. ReachesRank(<<999, 1000>>, total)
  <2>1. Rank(<<999, 1000>>, total) = (999 * total + 999) \div 1000
    BY DEF Rank
  <2>2. QED
    BY <2>1 DEF ReachesRank
<1>5. \/ Quantiles[p] = <<1, 2>>    \/ Quantiles[p] = <<95, 100>>
      \/ Quantiles[p] = <<99, 100>> \/ Quantiles[p] = <<999, 1000>>
  BY DEF Quantiles
<1>6. QED
  BY <1>1, <1>2, <1>3, <1>4, <1>5

\* Some successful operation was observed.
Some(l) ==
  /\ IsFiniteSet(DOMAIN l) /\ DOMAIN l \subseteq Int /\ DOMAIN l # {}
  /\ \A x \in DOMAIN l : l[x] \in Nat \ {0}

\* Then the number of observations is positive.
LEMMA ObservedPositive ==
  ASSUME NEW l, Some(l)
  PROVE  Observed(l) \in Nat /\ Observed(l) > 0
<1>1. PICK x \in DOMAIN l : TRUE
  BY DEF Some
<1>2. SumFunctionOnSet(l, DOMAIN l) \in Nat /\ l[x] <= SumFunctionOnSet(l, DOMAIN l)
  BY SumNat DEF Some
<1>3. l[x] \in Nat /\ l[x] > 0
  BY DEF Some
<1>4. QED
  BY <1>2, <1>3 DEF Observed, SumFunction

\* The walk of quantileFrom over the sorted keys ends at the nearest rank.
LEMMA QuantileIsNearestRank ==
  ASSUME NEW l, Some(l), NEW q, ReachesRank(q, Observed(l))
  PROVE  /\ QuantileFrom(l, SortedKeys(l), Observed(l), q) = NearestRank(l, q)
         /\ QuantileFrom(l, SortedKeys(l), Observed(l), q) \in DOMAIN l
<1> DEFINE D    == DOMAIN l
           keys == SortedKeys(l)
           n    == Len(keys)
           cum  == Cumulative(l, keys)
           rank == Rank(q, Observed(l))
           hits == {i \in 1..(n - 1) : cum[i] >= rank}
           k    == IF hits = {} THEN n ELSE CHOOSE i \in hits : \A j \in hits : i <= j
           UpTo(v) == SumFunction([u \in {x \in D : x <= v} |-> l[u]])
           enough  == {v \in D : q[2] * UpTo(v) >= q[1] * Observed(l)}
<1>1. Listed(keys, D) /\ RunningSums(l, keys)
  BY SortedKeysListed, CumulativeSums DEF Some
<1>2. n \in Nat /\ n >= 1
  <2>1. n \in Nat /\ \A x \in D : \E i \in 1..n : keys[i] = x
    BY <1>1 DEF Listed
  <2>2. \E i \in 1..n : TRUE
    BY <2>1 DEF Some
  <2> HIDE DEF n
  <2>3. QED
    BY <2>1, <2>2
\* The running sum at a key is what NearestRank counts up to it.
<1>3. ASSUME NEW v \in D PROVE UpTo(v) = SumFunctionOnSet(l, {x \in D : x <= v}) /\ UpTo(v) \in Nat
  <2> DEFINE S == {x \in D : x <= v}
             f == [u \in S |-> l[u]]
  <2>1. S \in SUBSET D /\ DOMAIN f = S
    OBVIOUS
  <2>2. IsFiniteSet(S) /\ \A u \in S : l[u] \in Nat /\ l[u] \in Int /\ f[u] = l[u]
    BY <2>1, FS_Subset DEF Some
  <2> HIDE DEF S
  <2>3. SumFunctionOnSet(f, S) = SumFunctionOnSet(l, S) /\ SumFunctionOnSet(l, S) \in Nat
    <3> HIDE DEF f
    <3>1. QED
      BY <2>2, SumEqual, SumNat
  <2>4. UpTo(v) = SumFunctionOnSet(f, S)
    BY <2>1 DEF SumFunction, S
  <2>5. QED
    BY <2>3, <2>4 DEF S
<1>4. ASSUME NEW i \in 1..n PROVE keys[i] \in D /\ cum[i] \in Nat /\ cum[i] = UpTo(keys[i])
  <2>1. keys[i] \in D
    BY <1>1 DEF Listed
  <2>2. cum[i] = SumFunctionOnSet(l, {x \in D : x <= keys[i]})
    BY <1>1 DEF RunningSums
  <2>3. QED
    BY <2>1, <2>2, <1>3
<1>5. ASSUME NEW i \in 1..n PROVE keys[i] \in enough <=> cum[i] >= rank
  <2>1. cum[i] >= rank <=> q[2] * cum[i] >= q[1] * Observed(l)
    BY <1>4 DEF ReachesRank
  <2> HIDE DEF cum, UpTo, keys, rank, n
  <2>2. QED
    BY <2>1, <1>4
\* At the last key everything is counted.
<1>6. cum[n] >= rank
  <2>1. \A x \in D : x <= keys[n]
    <3>1. SUFFICES ASSUME NEW x \in D PROVE x <= keys[n]
      OBVIOUS
    <3>2. PICK i \in 1..n : keys[i] = x
      BY <1>1 DEF Listed
    <3>3. n \in 1..n /\ i <= n
      BY <1>2
    <3>4. keys[i] <= keys[n]
      BY <1>1, <3>3 DEF Listed
    <3>5. QED
      BY <3>2, <3>4
  <2>2. {x \in D : x <= keys[n]} = D
    BY <2>1
  <2>3. n \in 1..n
    BY <1>2
  <2>4. cum[n] = SumFunctionOnSet(l, {x \in D : x <= keys[n]})
    BY <1>1, <2>3 DEF RunningSums
  <2>5. cum[n] = Observed(l)
    BY <2>2, <2>4 DEF Observed, SumFunction
  <2>6. QED
    BY <2>5 DEF ReachesRank
\* So the index the walk stops at is the first one that is enough.
<1>7. hits \subseteq 1..n /\ hits \subseteq Int /\ IsFiniteSet(hits)
  <2>1. hits \in SUBSET (1..n) /\ IsFiniteSet(1..n)
    BY <1>2, FS_Interval
  <2>2. QED
    BY <2>1, <1>2, FS_Subset
<1>8. /\ k \in 1..n /\ cum[k] >= rank
      /\ \A j \in 1..n : cum[j] >= rank => k <= j
  <2>1. CASE hits = {}
    <3>1. k = n /\ n \in 1..n
      BY <2>1, <1>2
    <3>2. \A j \in 1..n : cum[j] >= rank => j \notin 1..(n - 1)
      BY <2>1
    <3>3. \A j \in 1..n : j \notin 1..(n - 1) => n <= j
      BY <1>2
    <3> HIDE DEF k, hits, n, cum, rank
    <3>4. QED
      BY <3>1, <3>2, <3>3, <1>6
  <2>2. CASE hits # {}
    <3>1. \E i \in hits : \A j \in hits : i <= j
      <4> HIDE DEF hits
      <4>1. QED
        BY <2>2, <1>7, Extremes
    <3>2. k \in hits /\ \A j \in hits : k <= j
      <4> HIDE DEF hits
      <4>1. k = CHOOSE i \in hits : \A j \in hits : i <= j
        BY <2>2
      <4> HIDE DEF k
      <4>2. QED
        BY <3>1, <4>1, Zenon
    <3> HIDE DEF k
    <3>3. k \in 1..(n - 1) /\ cum[k] >= rank
      BY <3>2
    <3>4. ASSUME NEW j \in 1..n, cum[j] >= rank PROVE k <= j
      <4>1. j \in 1..(n - 1) \/ j = n
        BY <1>2
      <4>2. CASE j = n
        BY <4>2, <3>3, <1>2
      <4>3. CASE j \in 1..(n - 1)
        BY <4>3, <3>2, <3>4
      <4>4. QED
        BY <4>1, <4>2, <4>3
    <3>5. k \in 1..n
      BY <3>3, <1>2
    <3>6. QED
      BY <3>3, <3>4, <3>5
  <2>3. QED
    BY <2>1, <2>2
<1>9. QuantileFrom(l, keys, Observed(l), q) = keys[k]
  BY DEF QuantileFrom
<1>10. keys[k] \in D /\ keys[k] \in enough /\ \A w \in enough : keys[k] <= w
  <2> HIDE DEF k, cum, enough, rank
  <2>1. keys[k] \in D /\ keys[k] \in enough
    BY <1>4, <1>5, <1>8
  <2>2. ASSUME NEW w \in enough PROVE keys[k] <= w
    <3>1. w \in D
      BY DEF enough
    <3>2. PICK j \in 1..n : keys[j] = w
      BY <1>1, <3>1 DEF Listed
    <3>3. cum[j] >= rank
      BY <1>5, <2>2, <3>2
    <3>4. k <= j /\ k \in 1..n
      BY <1>8, <3>3
    <3>5. keys[k] <= keys[j]
      BY <1>1, <3>4 DEF Listed
    <3>6. QED
      BY <3>2, <3>5
  <2>3. QED
    BY <2>1, <2>2
<1>11. NearestRank(l, q) = CHOOSE v \in enough : \A w \in enough : v <= w
  BY Zenon DEF NearestRank
<1>12. enough \subseteq Int
  BY DEF Some
<1> HIDE DEF k, keys, enough
<1>13. (CHOOSE v \in enough : \A w \in enough : v <= w) = keys[k]
  <2> DEFINE v == CHOOSE v \in enough : \A w \in enough : v <= w
  <2>1. v \in enough /\ \A w \in enough : v <= w
    BY <1>10, Zenon
  <2> HIDE DEF v
  <2>2. v \in Int /\ keys[k] \in Int /\ v <= keys[k] /\ keys[k] <= v
    BY <2>1, <1>10, <1>12
  <2>3. v = keys[k]
    BY <2>2
  <2>4. QED
    BY <2>3 DEF v
<1>14. QED
  BY <1>9, <1>10, <1>11, <1>13 DEF keys

-----------------------------------------------------------------------------
(* The latency summary: the theorem *)

\* The first key is the smallest, the last the largest, and the mean lies
\* between them.
LEMMA SummaryBounds ==
  ASSUME NEW s, Some(s.latencies)
  PROVE  LET l == s.latencies
             r == LatencyStats(s)
         IN  /\ {r.min, r.max} \subseteq DOMAIN l /\ \A u \in DOMAIN l : r.min <= u /\ u <= r.max
             /\ r.mean[1] \in Int /\ r.mean[2] = Observed(l)
             /\ r.min * r.mean[2] <= r.mean[1] /\ r.mean[1] <= r.max * r.mean[2]
<1> DEFINE l    == s.latencies
           D    == DOMAIN l
           keys == SortedKeys(l)
           n    == Len(keys)
           lo   == keys[1]
           hi   == keys[n]
           f    == [u \in D |-> u * l[u]]
           low  == [u \in D |-> lo * l[u]]
           high == [u \in D |-> hi * l[u]]
           r    == LatencyStats(s)
<1>1. Listed(keys, D) /\ IsFiniteSet(D)
  BY SortedKeysListed DEF Some
<1>2. n \in Nat /\ n >= 1
  <2>1. n \in Nat /\ \A x \in D : \E i \in 1..n : keys[i] = x
    BY <1>1 DEF Listed
  <2>2. \E i \in 1..n : TRUE
    BY <2>1 DEF Some
  <2> HIDE DEF n
  <2>3. QED
    BY <2>1, <2>2
<1>3. 1 \in 1..n /\ n \in 1..n
  BY <1>2
<1>4. lo \in D /\ lo \in Int /\ hi \in D /\ hi \in Int
  BY <1>1, <1>3 DEF Listed
<1>5. ASSUME NEW u \in D PROVE lo <= u /\ u <= hi
  <2>1. PICK i \in 1..n : keys[i] = u
    BY <1>1 DEF Listed
  <2>2. 1 <= i /\ i <= n
    BY <1>2
  <2>3. QED
    BY <1>1, <1>3, <2>1, <2>2 DEF Listed
<1>6. /\ r.min = lo /\ r.max = hi /\ r.mean[1] = SumFunctionOnSet(f, D)
      /\ r.mean[2] = Observed(l)
  BY DEF LatencyStats, SumFunction
<1>7. ASSUME NEW u \in D
      PROVE  /\ l[u] \in Int /\ f[u] \in Int /\ low[u] \in Int /\ high[u] \in Int
             /\ low[u] = lo * l[u] /\ high[u] = hi * l[u] /\ low[u] <= f[u] /\ f[u] <= high[u]
  <2>1. u \in Int /\ l[u] \in Nat
    BY DEF Some
  <2>2. \A a, b \in Int : \A c \in Nat : a <= b => a * c \in Int /\ b * c \in Int /\ a * c <= b * c
    OBVIOUS
  <2>3. f[u] = u * l[u] /\ low[u] = lo * l[u] /\ high[u] = hi * l[u]
    OBVIOUS
  <2> HIDE DEF f, low, high, lo, hi, l
  <2>4. lo * l[u] \in Int /\ u * l[u] \in Int /\ lo * l[u] <= u * l[u]
    BY <2>1, <2>2, <1>4, <1>5
  <2>5. hi * l[u] \in Int /\ u * l[u] <= hi * l[u]
    BY <2>1, <2>2, <1>4, <1>5
  <2>6. QED
    BY <2>1, <2>3, <2>4, <2>5
<1>8. SumFunctionOnSet(low, D) = lo * Observed(l) /\ SumFunctionOnSet(high, D) = hi * Observed(l)
  <2> HIDE DEF low, high, lo, hi, l, D
  <2>1. SumFunctionOnSet(low, D) = lo * SumFunctionOnSet(l, D)
    BY <1>1, <1>4, <1>7, SumScale, ZenonT(60)
  <2>2. SumFunctionOnSet(high, D) = hi * SumFunctionOnSet(l, D)
    BY <1>1, <1>4, <1>7, SumScale, ZenonT(60)
  <2>3. QED
    BY <2>1, <2>2 DEF Observed, SumFunction, D
<1>9. /\ SumFunctionOnSet(f, D) \in Int
      /\ SumFunctionOnSet(low, D) <= SumFunctionOnSet(f, D)
      /\ SumFunctionOnSet(f, D) <= SumFunctionOnSet(high, D)
  <2> HIDE DEF f, low, high, lo, hi, l, D
  <2>1. QED
    BY <1>1, <1>7, SumType, SumMonotone
<1> HIDE DEF r, f, low, high, lo, hi
<1>10. QED
  BY <1>4, <1>5, <1>6, <1>8, <1>9 DEF r

\* A summary is never taken for an absent one.
LEMMA SummaryPresent ==
  ASSUME NEW s, Some(s.latencies), DOMAIN s.latencies \subseteq Nat
  PROVE  LatencyStats(s) # Absent
<1> DEFINE l == s.latencies
           r == LatencyStats(s)
           at == [p \in DOMAIN Quantiles |->
                    QuantileFrom(l, SortedKeys(l), Observed(l), Quantiles[p])]
<1>1. /\ r.min \in Nat /\ r.max \in Nat /\ r.mean[1] \in Int /\ r.mean[2] = Observed(l)
      /\ r.min * r.mean[2] <= r.mean[1]
  BY SummaryBounds
<1>2. Observed(l) \in Nat
  BY ObservedPositive
<1>3. r.mean[1] \in Nat /\ r.mean[2] \in Nat
  <2>1. \A a, b \in Nat : a * b \in Nat
    OBVIOUS
  <2> HIDE DEF r, l
  <2>2. r.min * r.mean[2] \in Nat
    BY <1>1, <1>2, <2>1
  <2>3. QED
    BY <1>1, <1>2, <2>2
<1>4. at \in [DOMAIN Quantiles -> Nat]
  <2>1. ASSUME NEW p \in DOMAIN Quantiles
        PROVE  QuantileFrom(l, SortedKeys(l), Observed(l), Quantiles[p]) \in Nat
    <3>1. ReachesRank(Quantiles[p], Observed(l))
      BY RankReached, ObservedPositive
    <3>2. QED
      BY <3>1, QuantileIsNearestRank
  <2>2. QED
    BY <2>1
<1>5. r = [min |-> r.min, mean |-> <<r.mean[1], r.mean[2]>>, at |-> at, max |-> r.max]
  BY DEF LatencyStats
<1>6. r \in Summaries
  <2> HIDE DEF r, at
  <2>1. [min |-> r.min, mean |-> <<r.mean[1], r.mean[2]>>, at |-> at, max |-> r.max] \in Summaries
    BY <1>1, <1>3, <1>4 DEF Summaries
  <2>2. QED
    BY <1>5, <2>1, Zenon
<1>7. QED
  BY <1>6, AbsentAssumption

\* The histogram counts every success once.
ReportInv ==
  /\ stats = [count |-> stats.count, errors |-> stats.errors, latencies |-> stats.latencies]
  /\ DOMAIN stats.latencies \subseteq Latencies
  /\ \A u \in DOMAIN stats.latencies : stats.latencies[u] \in Nat \ {0}
  /\ stats.errors \in Nat
  /\ stats.count = Observed(stats.latencies) + stats.errors

\* Some further facts the invariant implies.
LEMMA HistogramFacts ==
  ReportInv => LET l == stats.latencies
               IN  /\ IsFiniteSet(DOMAIN l) /\ DOMAIN l \subseteq Nat
                   /\ \A u \in DOMAIN l : l[u] \in Nat
                   /\ Observed(l) \in Nat
<1> SUFFICES ASSUME ReportInv
             PROVE  LET l == stats.latencies
                    IN  /\ IsFiniteSet(DOMAIN l) /\ DOMAIN l \subseteq Nat
                        /\ \A u \in DOMAIN l : l[u] \in Nat
                        /\ Observed(l) \in Nat
  OBVIOUS
<1> DEFINE l == stats.latencies
<1>1. IsFiniteSet(DOMAIN l) /\ DOMAIN l \subseteq Nat /\ \A u \in DOMAIN l : l[u] \in Nat
  BY LatencyAssumption, FS_Subset DEF ReportInv
<1> HIDE DEF l
<1>2. SumFunctionOnSet(l, DOMAIN l) \in Nat
  BY <1>1, SumNat
<1>3. QED
  BY <1>1, <1>2 DEF Observed, SumFunction, l

\* A report starts from a consistent histogram.
LEMMA ReportInvInit == ReportInit => ReportInv
<1> SUFFICES ASSUME NEW keys \in SUBSET Latencies, NEW l \in [keys -> Tallies], NEW errors \in 0..1,
                    stats = [count |-> Observed(l) + errors, errors |-> errors, latencies |-> l]
             PROVE  ReportInv
  BY DEF ReportInit
<1>1. /\ stats.latencies = l /\ stats.errors = errors /\ stats.count = Observed(l) + errors
      /\ DOMAIN l = keys
  OBVIOUS
<1>2. \A u \in keys : l[u] \in Nat \ {0}
  BY LatencyAssumption
<1>3. errors \in Nat
  OBVIOUS
<1>4. QED
  BY <1>1, <1>2, <1>3, Zenon DEF ReportInv

\* One more observation of us makes the sum one larger.
LEMMA ObserveKeepsInv ==
  ASSUME ReportInv, NEW us \in Latencies, Observe(us)
  PROVE  ReportInv'
<1> DEFINE l    == stats.latencies
           seen == IF us \in DOMAIN l THEN l[us] ELSE 0
           S    == DOMAIN l \cup {us}
           k    == [u \in S |-> IF u = us THEN seen + 1 ELSE l[u]]
<1>1. /\ IsFiniteSet(DOMAIN l) /\ Observed(l) \in Nat
      /\ \A u \in DOMAIN l : l[u] \in Nat /\ l[u] \in Int
  BY HistogramFacts
<1>2. stats' = [count |-> stats.count + 1, errors |-> stats.errors, latencies |-> k]
  BY DEF Observe, ReportInv
<1>3. seen \in Nat
  BY <1>1
<1>4. \A u \in S : k[u] \in Nat \ {0} /\ k[u] \in Int
  <2> HIDE DEF seen
  <2>1. \A u \in S \ {us} : k[u] = l[u] /\ u \in DOMAIN l
    OBVIOUS
  <2>2. k[us] = seen + 1 /\ us \in S
    OBVIOUS
  <2>3. QED
    BY <1>3, <2>1, <2>2 DEF ReportInv
<1>5. Observed(k) = Observed(l) + 1
  <2> DEFINE R == S \ {us}
  <2>1. IsFiniteSet(S) /\ us \in S /\ DOMAIN k = S
    BY <1>1, FS_AddElement
  <2>2. IsFiniteSet(R) /\ R \subseteq DOMAIN l /\ \A u \in R : l[u] \in Int /\ k[u] = l[u]
    BY <1>1, <2>1, FS_Subset
  <2>3. k[us] = seen + 1
    OBVIOUS
  <2>4. SumFunctionOnSet(l, DOMAIN l) = seen + SumFunctionOnSet(l, R)
    <3>1. CASE us \in DOMAIN l
      <4>1. R = (DOMAIN l) \ {us} /\ seen = l[us]
        BY <3>1
      <4> HIDE DEF l, R, seen
      <4>2. SumFunctionOnSet(l, DOMAIN l) = l[us] + SumFunctionOnSet(l, (DOMAIN l) \ {us})
        BY <1>1, <3>1, SumRemove
      <4>3. QED
        BY <4>1, <4>2, Zenon
    <3>2. CASE us \notin DOMAIN l
      <4>1. R = DOMAIN l /\ seen = 0
        BY <3>2
      <4> HIDE DEF l, R, seen
      <4>2. SumFunctionOnSet(l, R) \in Int
        BY <2>2, SumType
      <4>3. \A x \in Int : x = 0 + x
        OBVIOUS
      <4>4. QED
        BY <4>1, <4>2, <4>3, Zenon
    <3>3. QED
      BY <3>1, <3>2
  <2> HIDE DEF l, R, seen, k, S
  <2>5. SumFunctionOnSet(k, S) = k[us] + SumFunctionOnSet(k, S \ {us})
    BY <2>1, <1>4, SumRemove
  <2>6. SumFunctionOnSet(k, R) = SumFunctionOnSet(l, R) /\ SumFunctionOnSet(l, R) \in Int
    BY <2>2, SumEqual, SumType
  <2>7. SumFunctionOnSet(k, S) = (seen + 1) + SumFunctionOnSet(l, R)
    BY <2>3, <2>5, <2>6, Zenon DEF R
  <2>8. \A x \in Nat, y \in Int : (x + 1) + y = (x + y) + 1
    OBVIOUS
  <2>9. QED
    BY <1>3, <2>1, <2>4, <2>6, <2>7, <2>8, Zenon DEF Observed, SumFunction
<1>6. DOMAIN k = S /\ S \subseteq Latencies
  BY DEF ReportInv
<1>7. stats.errors \in Nat /\ stats.count + 1 = Observed(k) + stats.errors
  <2>1. stats.errors \in Nat /\ stats.count = Observed(l) + stats.errors
    BY DEF ReportInv
  <2> HIDE DEF l, k
  <2>2. QED
    BY <1>1, <1>5, <2>1
<1>8. /\ stats'.count = stats.count + 1 /\ stats'.errors = stats.errors /\ stats'.latencies = k
      /\ stats' = [count |-> stats'.count, errors |-> stats'.errors, latencies |-> stats'.latencies]
  <2> HIDE DEF k
  <2>1. QED
    BY <1>2
<1> HIDE DEF l, k, S, seen
<1>9. QED
  BY <1>4, <1>6, <1>7, <1>8, Zenon DEF ReportInv, Observed

\* A failed operation is counted without a latency.
LEMMA FailKeepsInv ==
  ASSUME ReportInv, Fail
  PROVE  ReportInv'
<1>1. stats' = [count |-> stats.count + 1, errors |-> stats.errors + 1, latencies |-> stats.latencies]
  BY DEF Fail, ReportInv
<1>2. /\ stats'.count = stats.count + 1 /\ stats'.errors = stats.errors + 1
      /\ stats'.latencies = stats.latencies
      /\ stats' = [count |-> stats'.count, errors |-> stats'.errors, latencies |-> stats'.latencies]
  BY <1>1
<1>3. /\ stats.errors + 1 \in Nat
      /\ stats.count + 1 = Observed(stats.latencies) + (stats.errors + 1)
  <2>1. Observed(stats.latencies) \in Nat
    BY HistogramFacts
  <2>2. QED
    BY <2>1 DEF ReportInv
<1>4. QED
  BY <1>2, <1>3, Zenon DEF ReportInv, Observed

\* Nothing is observed: no summary on either path.
LEMMA EmptySummary ==
  ASSUME ReportInv, DOMAIN stats.latencies = {}
  PROVE  SummaryExact
<1>1. SumFunctionOnSet(stats.latencies, {}) = 0
  BY SumEmpty
<1>2. Observed(stats.latencies) = 0
  BY <1>1, Zenon DEF Observed, SumFunction
<1>3. SampleCount(stats) = 0
  BY <1>2 DEF SampleCount
<1>4. LatencyOf(stats) = Absent /\ \A q : LatencyCell(stats, q) = Absent
  BY <1>3 DEF LatencyOf, LatencyCell
<1>5. QED
  BY <1>4, Zenon DEF SummaryExact

\* Something is: the summary of both paths is the reference one.
LEMMA PresentSummary ==
  ASSUME ReportInv, DOMAIN stats.latencies # {}
  PROVE  SummaryExact
<1> DEFINE l == stats.latencies
           r == LatencyStats(stats)
<1>1. DOMAIN l \subseteq Nat /\ Some(l)
  BY HistogramFacts DEF Some, ReportInv
<1>2. Observed(l) \in Nat /\ Observed(l) > 0
  BY <1>1, ObservedPositive
<1>3. SampleCount(stats) > 0 /\ SampleCount(stats) # 0
  <2>1. SampleCount(stats) = Observed(l)
    BY DEF SampleCount
  <2> HIDE DEF l
  <2>2. QED
    BY <1>2, <2>1
<1>4. LatencyOf(stats) = r /\ r # Absent
  BY <1>1, <1>3, SummaryPresent DEF LatencyOf
<1>5. ASSUME NEW p \in DOMAIN Quantiles
      PROVE  r.at[p] = NearestRank(l, Quantiles[p]) /\ LatencyCell(stats, Quantiles[p]) = r.at[p]
  <2>1. r.at[p] = QuantileFrom(l, SortedKeys(l), Observed(l), Quantiles[p])
    BY DEF LatencyStats
  <2>2. LatencyCell(stats, Quantiles[p]) = QuantileFrom(l, SortedKeys(l), Observed(l), Quantiles[p])
    BY <1>3, Zenon DEF LatencyCell
  <2>3. ReachesRank(Quantiles[p], Observed(l))
    BY <1>2, RankReached
  <2>4. QED
    BY <1>1, <2>1, <2>2, <2>3, QuantileIsNearestRank, Zenon
<1>6. /\ {r.min, r.max} \subseteq DOMAIN l /\ \A u \in DOMAIN l : r.min <= u /\ u <= r.max
      /\ r.min * r.mean[2] <= r.mean[1] /\ r.mean[1] <= r.max * r.mean[2]
  BY <1>1, SummaryBounds
<1> HIDE DEF r
<1>7. QED
  BY <1>4, <1>5, <1>6, Zenon DEF SummaryExact

\* The latency summary is exact, for every histogram that any number of
\* observations of any latencies leaves: every percentile that quantileFrom
\* finds on its walk over the sorted keys is the nearest-rank one, in the
\* document and on the console, minimum and maximum bound it and the mean, and
\* it is absent iff nothing succeeded.
THEOREM LatencySummaryExact == ReportSpec => []SummaryExact
<1>1. ReportInv /\ [ReportNext]_stats => ReportInv'
  <2> SUFFICES ASSUME ReportInv, [ReportNext]_stats PROVE ReportInv'
    OBVIOUS
  <2>1. CASE UNCHANGED stats
    BY <2>1 DEF ReportInv, Observed
  <2>2. QED
    BY <2>1, ObserveKeepsInv, FailKeepsInv DEF ReportNext
<1>2. ReportInv => SummaryExact
  BY EmptySummary, PresentSummary
<1>3. QED
  BY <1>1, <1>2, ReportInvInit, PTL DEF ReportSpec
=============================================================================
