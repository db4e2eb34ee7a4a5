----------------------- MODULE SchemaMigrationProofs -----------------------
(***************************************************************************)
(* Proofs about SchemaMigration for every number of replicas, tables and   *)
(* indexes, and any number of crashes, lost nodes, lost locks and errors:  *)
(* its types, that the advisory lock protects the DDL, that no replica     *)
(* starts its workers against a missing relation, and how far the promises *)
(* about indexes and followers that some faults break do hold              *)
(* (src/db/schema.go).                                                     *)
(***************************************************************************)
EXTENDS SchemaMigration, TLAPS

\* Statement numbers, and where tables end and indexes begin.
LEMMA StmtFacts ==
  /\ Stmts \subseteq Nat
  /\ 1 \in Stmts /\ Sentinel \in Stmts
  /\ 1..NT \subseteq Stmts
  /\ \A s \in Stmts : s <= Sentinel /\ (~IsIndex(s) <=> s \in 1..NT)
  /\ TypeOK => LastStmt \in Stmts
  BY SizesAssumption DEF Stmts, Sentinel, IsIndex, LastStmt, TypeOK

-----------------------------------------------------------------------------
(* Types *)

\* The initial state is well typed.
LEMMA InitTypeOK == Init => TypeOK
  BY SizesAssumption DEF Init, TypeOK, NoFaults, Stmts

\* Losing a connection hands the lock to nobody new.
LEMMA ReleasedType ==
  ASSUME TypeOK, NEW r \in Replicas
  PROVE  Released(r) \in Replicas \cup {NoOne, Ghost}
  BY DEF TypeOK, Released

\* An abandoned statement leaves a catalog.
LEMMA AbandonedType ==
  ASSUME TypeOK, NEW s \in Stmts
  PROVE  Abandoned(s) \in [Stmts -> {"absent", "building", "valid", "invalid"}]
  BY DEF TypeOK, Abandoned

\* Every step keeps the types, and a statement in flight with its owner.
LEMMA NextTypeOK == TypeOK /\ [Next]_vars => TypeOK'
<1> SUFFICES ASSUME TypeOK, [Next]_vars PROVE TypeOK'
  OBVIOUS
<1> USE SizesAssumption DEF TypeOK, LastStmt
<1>1. ASSUME NEW r \in Replicas, TryLock(r) PROVE TypeOK'
  BY <1>1 DEF TryLock
<1>2. ASSUME NEW r \in Replicas, SkipStmt(r) PROVE TypeOK'
  BY <1>2 DEF SkipStmt
<1>3. ASSUME NEW r \in Replicas, SendStmt(r) PROVE TypeOK'
  BY <1>3 DEF SendStmt, Stmts
<1>4. ASSUME NEW r \in Replicas, FinishStmt(r) PROVE TypeOK'
  BY <1>4 DEF FinishStmt, Stmts
<1>5. ASSUME NEW r \in Replicas, FailStmt(r) PROVE TypeOK'
  <2>1. next[r] \in Stmts
    BY <1>5 DEF FailStmt, Stmts
  <2>2. Abandoned(next[r]) \in [Stmts -> {"absent", "building", "valid", "invalid"}]
    BY <2>1, AbandonedType
  <2>3. Released(r) \in Replicas \cup {NoOne, Ghost}
    BY ReleasedType
  <2>4. catalog' \in [Stmts -> {"absent", "building", "valid", "invalid"}]
    BY <1>5, <2>2 DEF FailStmt
  <2>5. faults' \in [crash : Nat, node : Nat, lock : Nat, error : Nat]
    BY <1>5 DEF FailStmt
  <2> QED
    BY <1>5, <2>3, <2>4, <2>5 DEF FailStmt
<1>6. ASSUME NEW r \in Replicas, Migrated(r) PROVE TypeOK'
  BY <1>6, ReleasedType DEF Migrated
<1>7. ASSUME NEW r \in Replicas, TablesSeen(r) \/ IndexSeen(r) \/ IndexNotSeen(r)
      PROVE  TypeOK'
  BY <1>7 DEF TablesSeen, IndexSeen, IndexNotSeen
<1>8. ASSUME NEW r \in Replicas, Dies(r),
             holder' \in Replicas \cup {NoOne, Ghost},
             faults' \in [crash : Nat, node : Nat, lock : Nat, error : Nat]
      PROVE  TypeOK'
  <2>1. busy[r] => next[r] \in Stmts
    BY DEF Stmts
  <2>2. orphans' \in SUBSET Stmts
    BY <1>8, <2>1 DEF Dies
  <2>3. \A q \in Replicas : busy'[q] => q # r /\ busy[q]
    BY <1>8 DEF Dies
  <2> QED
    BY <1>8, <2>2, <2>3 DEF Dies
<1>9. ASSUME NEW r \in Replicas, Crash(r) PROVE TypeOK'
  <2>1. faults' \in [crash : Nat, node : Nat, lock : Nat, error : Nat]
    BY <1>9 DEF Crash
  <2> QED
    BY <1>8, <1>9, <2>1, ReleasedType DEF Crash
<1>10. ASSUME NEW r \in Replicas, LoseNode(r) PROVE TypeOK'
  <2>1. faults' \in [crash : Nat, node : Nat, lock : Nat, error : Nat]
    BY <1>10 DEF LoseNode
  <2> QED
    BY <1>8, <1>10, <2>1 DEF LoseNode
<1>11. ASSUME NEW r \in Replicas, LoseLock(r) PROVE TypeOK'
  BY <1>11 DEF LoseLock
<1>12. ASSUME NEW r \in Replicas, Restart(r) PROVE TypeOK'
  BY <1>12 DEF Restart
<1>13. CASE ReapGhost
  BY <1>13 DEF ReapGhost
<1>14. ASSUME NEW s \in Stmts, OrphanEnds(s) PROVE TypeOK'
  <2>1. catalog' \in [Stmts -> {"absent", "building", "valid", "invalid"}]
    BY <1>14, AbandonedType DEF OrphanEnds
  <2> QED
    BY <1>14, <2>1 DEF OrphanEnds
<1>15. CASE UNCHANGED vars
  BY <1>15 DEF vars
<1> QED
  BY <1>1, <1>2, <1>3, <1>4, <1>5, <1>6, <1>7, <1>9, <1>10, <1>11, <1>12, <1>13,
     <1>14, <1>15 DEF Next, Migrate

\* The catalog, the lock, the replicas and the statements in flight always have
\* their types: a statement in flight belongs to a replica in its DDL phase.
THEOREM TypeCorrect == Spec => []TypeOK
  BY InitTypeOK, NextTypeOK, PTL DEF Spec

-----------------------------------------------------------------------------
(* The advisory lock *)

\* A step keeps the lock with the replica that runs DDL, whoever of the others
\* gives it up, dies or is reaped meanwhile.
LEMMA NextLockProtectsDdl ==
  TypeOK /\ LockProtectsDdl /\ [Next]_vars => LockProtectsDdl'
<1> SUFFICES ASSUME TypeOK, LockProtectsDdl, [Next]_vars,
                    NEW q \in Replicas, pc'[q] = "ddl", ~lost'[q]
             PROVE  holder' = q
  BY DEF LockProtectsDdl
<1> USE HoldersAssumption DEF TypeOK, LockProtectsDdl
<1>1. ASSUME NEW r \in Replicas, TryLock(r) PROVE holder' = q
  BY <1>1 DEF TryLock
<1>2. ASSUME NEW r \in Replicas, SkipStmt(r) \/ SendStmt(r) \/ FinishStmt(r)
      PROVE  holder' = q
  BY <1>2 DEF SkipStmt, SendStmt, FinishStmt
<1>3. ASSUME NEW r \in Replicas, FailStmt(r) \/ Migrated(r) PROVE holder' = q
  BY <1>3 DEF FailStmt, Migrated, Released
<1>4. ASSUME NEW r \in Replicas, TablesSeen(r) \/ IndexSeen(r) \/ IndexNotSeen(r)
      PROVE  holder' = q
  BY <1>4 DEF TablesSeen, IndexSeen, IndexNotSeen
<1>5. ASSUME NEW r \in Replicas, Crash(r) \/ LoseNode(r) PROVE holder' = q
  BY <1>5 DEF Crash, LoseNode, Dies, Released
<1>6. ASSUME NEW r \in Replicas, LoseLock(r) PROVE holder' = q
  BY <1>6 DEF LoseLock
<1>7. ASSUME NEW r \in Replicas, Restart(r) PROVE holder' = q
  BY <1>7 DEF Restart
<1>8. CASE ReapGhost
  BY <1>8 DEF ReapGhost
<1>9. ASSUME NEW s \in Stmts, OrphanEnds(s) PROVE holder' = q
  BY <1>9 DEF OrphanEnds
<1>10. CASE UNCHANGED vars
  BY <1>10 DEF vars
<1> QED
  BY <1>1, <1>2, <1>3, <1>4, <1>5, <1>6, <1>7, <1>8, <1>9, <1>10 DEF Next, Migrate

\* pg_try_advisory_lock and the deferred unlock keep the DDL to one replica for
\* as long as the session that took the lock lives.
THEOREM DdlIsLocked == Spec => []LockProtectsDdl
<1>1. Init => LockProtectsDdl
  BY DEF Init, LockProtectsDdl
<1> QED
  BY <1>1, TypeCorrect, NextLockProtectsDdl, PTL DEF Spec

-----------------------------------------------------------------------------
(* The schema a started replica finds *)

\* A table is created at once or not at all: only an index build shows in the
\* catalog before it is done.
TablesWhole == \A s \in 1..NT : catalog[s] \in {"absent", "valid"}

\* A replica starts at the first statement, and an owner has left behind only
\* statements whose object is in the catalog.
PassedExist ==
  \A r \in Replicas :
    /\ pc[r] = "start" => next[r] = 1
    /\ pc[r] = "ddl" => \A s \in Stmts : s < next[r] => catalog[s] # "absent"

\* A build under way shows in the catalog, with its client or without.
BuildsShow ==
  /\ \A r \in Replicas : busy[r] /\ IsIndex(next[r]) => catalog[next[r]] # "absent"
  /\ \A s \in orphans : IsIndex(s) => catalog[s] # "absent"

\* The sentinel, sent last, is seen only with everything before it.
SentinelLast ==
  catalog[Sentinel] # "absent" => \A s \in Stmts : catalog[s] # "absent"

\* What RunningHasSchema rests on.
Ordered == TablesWhole /\ PassedExist /\ BuildsShow /\ SentinelLast

\* Nothing in the catalog goes away; what is new in it was sent by a replica in
\* its DDL phase, at its next statement, or by one that died since.
Grows ==
  /\ \A s \in Stmts : catalog[s] # "absent" => catalog'[s] # "absent"
  /\ \A s \in Stmts : catalog[s] = "absent" /\ catalog'[s] # "absent" =>
       \/ \E r \in Replicas : pc[r] = "ddl" /\ s = next[r]
       \/ s \in orphans

\* Every step keeps tables whole and lets the catalog only grow.
LEMMA CatalogGrows ==
  TypeOK /\ TablesWhole /\ [Next]_vars => TablesWhole' /\ Grows
<1> SUFFICES ASSUME TypeOK, TablesWhole, [Next]_vars PROVE TablesWhole' /\ Grows
  OBVIOUS
<1> USE StmtFacts DEF TablesWhole, Grows
<1>1. CASE UNCHANGED catalog
  BY <1>1
<1>2. ASSUME NEW s \in Stmts, catalog' = [catalog EXCEPT ![s] = "valid"],
             s \in orphans \/ \E r \in Replicas : pc[r] = "ddl" /\ s = next[r]
      PROVE  TablesWhole' /\ Grows
  BY <1>2 DEF TypeOK
<1>3. ASSUME NEW s \in Stmts,
             \/ catalog' = Abandoned(s)
             \/ catalog' = IF IsIndex(s) THEN [catalog EXCEPT ![s] = "building"] ELSE catalog,
             s \in orphans \/ \E r \in Replicas : pc[r] = "ddl" /\ s = next[r]
      PROVE  TablesWhole' /\ Grows
  <2>1. CASE IsIndex(s)
    <3>1. PICK c \in {"invalid", "building"} : catalog' = [catalog EXCEPT ![s] = c]
      BY <1>3, <2>1 DEF Abandoned
    <3>2. s \notin 1..NT
      BY <2>1
    <3> QED
      BY <1>3, <3>1, <3>2 DEF TypeOK
  <2>2. CASE ~IsIndex(s)
    BY <1>1, <1>3, <2>2 DEF Abandoned
  <2> QED
    BY <2>1, <2>2
<1>4. ASSUME NEW r \in Replicas, busy[r] PROVE pc[r] = "ddl" /\ next[r] \in Stmts
  BY <1>4 DEF TypeOK, LastStmt, Stmts
<1>5. ASSUME NEW r \in Replicas, SendStmt(r) PROVE TablesWhole' /\ Grows
  <2>1. pc[r] = "ddl" /\ next[r] \in Stmts
    BY <1>5 DEF SendStmt, TypeOK, LastStmt, Stmts
  <2> QED
    BY <1>3, <1>5, <2>1 DEF SendStmt
<1>6. ASSUME NEW r \in Replicas, FinishStmt(r) PROVE TablesWhole' /\ Grows
  BY <1>2, <1>4, <1>6 DEF FinishStmt
<1>7. ASSUME NEW r \in Replicas, FailStmt(r) PROVE TablesWhole' /\ Grows
  BY <1>1, <1>3, <1>4, <1>7 DEF FailStmt
<1>8. ASSUME NEW s \in Stmts, OrphanEnds(s) PROVE TablesWhole' /\ Grows
  BY <1>1, <1>2, <1>3, <1>8 DEF OrphanEnds
<1>9. ASSUME NEW r \in Replicas,
             \/ TryLock(r) \/ SkipStmt(r) \/ Migrated(r)
             \/ TablesSeen(r) \/ IndexSeen(r) \/ IndexNotSeen(r)
             \/ Crash(r) \/ LoseNode(r) \/ LoseLock(r) \/ Restart(r)
      PROVE  UNCHANGED catalog
  BY <1>9 DEF TryLock, SkipStmt, Migrated, TablesSeen, IndexSeen, IndexNotSeen,
              Crash, LoseNode, LoseLock, Restart, Dies
<1>10. CASE ReapGhost \/ UNCHANGED vars
  BY <1>1, <1>10 DEF ReapGhost, vars
<1> QED
  BY <1>1, <1>5, <1>6, <1>7, <1>8, <1>9, <1>10 DEF Next, Migrate

\* Owners move on only over what exists.
LEMMA NextPassedExist ==
  TypeOK /\ Ordered /\ [Next]_vars => PassedExist'
<1> SUFFICES ASSUME TypeOK, Ordered, [Next]_vars, NEW q \in Replicas
             PROVE  /\ pc'[q] = "start" => next'[q] = 1
                    /\ pc'[q] = "ddl" => \A s \in Stmts : s < next'[q] => catalog'[s] # "absent"
  BY DEF PassedExist
<1> DEFINE Kept == /\ pc'[q] = "start" => next'[q] = 1
                   /\ pc'[q] = "ddl" => \A s \in Stmts : s < next'[q] => catalog'[s] # "absent"
<1>1. Grows
  BY CatalogGrows DEF Ordered
<1>2. ASSUME next'[q] = next[q], pc'[q] \in {"start", "ddl"} => pc[q] = pc'[q] PROVE Kept
  BY <1>1, <1>2 DEF Grows, Ordered, PassedExist
<1> USE DEF TypeOK
<1>3. ASSUME NEW r \in Replicas, TryLock(r) PROVE Kept
  <2>1. CASE q = r
    <3>1. next'[q] = 1
      BY <1>3, <2>1 DEF TryLock, Ordered, PassedExist
    <3> QED
      BY <3>1, StmtFacts, <1>3, <2>1 DEF TryLock, Stmts
  <2>2. CASE q # r
    BY <1>2, <1>3, <2>2 DEF TryLock
  <2> QED
    BY <2>1, <2>2
<1>4. ASSUME NEW r \in Replicas, SkipStmt(r) \/ FinishStmt(r) PROVE Kept
  <2>1. CASE q = r
    <3>1. pc[q] = "ddl" /\ pc'[q] = "ddl" /\ next'[q] = next[q] + 1 /\ next[q] \in Stmts
      BY <1>4, <2>1, SizesAssumption DEF SkipStmt, FinishStmt, LastStmt, Stmts
    <3>2. catalog'[next[q]] # "absent"
      BY <1>4, <2>1, <3>1 DEF SkipStmt, FinishStmt
    <3>3. ASSUME NEW s \in Stmts, s < next'[q] PROVE catalog'[s] # "absent"
      <4>1. s = next[q] \/ s < next[q]
        BY <3>1, <3>3 DEF Stmts
      <4> QED
        BY <1>1, <3>1, <3>2, <4>1 DEF Grows, Ordered, PassedExist
    <3> QED
      BY <3>1, <3>3
  <2>2. CASE q # r
    BY <1>2, <1>4, <2>2 DEF SkipStmt, FinishStmt
  <2> QED
    BY <2>1, <2>2
<1>5. ASSUME NEW r \in Replicas, SendStmt(r) \/ FailStmt(r) \/ Migrated(r) PROVE Kept
  BY <1>2, <1>5 DEF SendStmt, FailStmt, Migrated
<1>6. ASSUME NEW r \in Replicas, TablesSeen(r) \/ IndexSeen(r) \/ IndexNotSeen(r)
      PROVE  Kept
  BY <1>2, <1>6 DEF TablesSeen, IndexSeen, IndexNotSeen
<1>7. ASSUME NEW r \in Replicas, Crash(r) \/ LoseNode(r) \/ LoseLock(r) PROVE Kept
  BY <1>2, <1>7 DEF Crash, LoseNode, LoseLock, Dies
<1>8. ASSUME NEW r \in Replicas, Restart(r) PROVE Kept
  <2>1. CASE q = r
    BY <1>8, <2>1 DEF Restart
  <2>2. CASE q # r
    BY <1>2, <1>8, <2>2 DEF Restart
  <2> QED
    BY <2>1, <2>2
<1>9. ASSUME ReapGhost \/ UNCHANGED vars \/ \E s \in Stmts : OrphanEnds(s) PROVE Kept
  BY <1>2, <1>9 DEF ReapGhost, OrphanEnds, vars
<1> QED
  BY <1>3, <1>4, <1>5, <1>6, <1>7, <1>8, <1>9 DEF Next, Migrate

\* A build shows from the moment it is sent, and passes to the orphans as it is.
LEMMA NextBuildsShow ==
  TypeOK /\ Ordered /\ [Next]_vars => BuildsShow'
<1> SUFFICES ASSUME TypeOK, Ordered, [Next]_vars PROVE BuildsShow'
  OBVIOUS
<1> USE DEF TypeOK
<1>1. Grows
  BY CatalogGrows DEF Ordered
<1>2. ASSUME NEW r \in Replicas, busy[r] PROVE next[r] \in Stmts
  BY <1>2, SizesAssumption DEF LastStmt, Stmts
<1>3. ASSUME \A q \in Replicas : busy'[q] => busy[q] /\ next'[q] = next[q],
             \A s \in orphans' : s \in orphans \/ \E q \in Replicas : busy[q] /\ s = next[q]
      PROVE  BuildsShow'
  BY <1>1, <1>2, <1>3 DEF Grows, Ordered, BuildsShow, IsIndex
<1>4. ASSUME NEW r \in Replicas, SendStmt(r) PROVE BuildsShow'
  <2>1. next[r] \in Stmts /\ next' = next /\ orphans' = orphans
    BY <1>4, SizesAssumption DEF SendStmt, LastStmt, Stmts
  <2>2. IsIndex(next[r]) => catalog'[next[r]] # "absent"
    BY <1>4, <2>1 DEF SendStmt
  <2>3. ASSUME NEW q \in Replicas, q # r, busy'[q], IsIndex(next'[q])
        PROVE  catalog'[next'[q]] # "absent"
    BY <1>1, <1>2, <1>4, <2>1, <2>3 DEF SendStmt, Grows, Ordered, BuildsShow
  <2>4. ASSUME NEW s \in orphans', IsIndex(s) PROVE catalog'[s] # "absent"
    BY <1>1, <2>1, <2>4 DEF Grows, Ordered, BuildsShow
  <2> QED
    BY <2>1, <2>2, <2>3, <2>4 DEF BuildsShow, IsIndex
<1>5. ASSUME NEW r \in Replicas, FinishStmt(r) \/ FailStmt(r) PROVE BuildsShow'
  BY <1>3, <1>5 DEF FinishStmt, FailStmt
<1>6. ASSUME NEW r \in Replicas, SkipStmt(r) PROVE BuildsShow'
  BY <1>3, <1>6 DEF SkipStmt
<1>7. ASSUME NEW r \in Replicas, Crash(r) \/ LoseNode(r) PROVE BuildsShow'
  <2>1. Dies(r)
    BY <1>7 DEF Crash, LoseNode
  <2>2. \A q \in Replicas : busy'[q] => busy[q] /\ next'[q] = next[q]
    BY <2>1 DEF Dies
  <2>3. \A s \in orphans' : s \in orphans \/ \E q \in Replicas : busy[q] /\ s = next[q]
    BY <2>1 DEF Dies
  <2> QED
    BY <1>3, <2>2, <2>3
<1>8. ASSUME NEW r \in Replicas, Restart(r) PROVE BuildsShow'
  <2>1. ~busy[r]
    BY <1>8 DEF Restart
  <2> QED
    BY <1>3, <1>8, <2>1 DEF Restart
<1>9. ASSUME NEW r \in Replicas,
             \/ TryLock(r) \/ Migrated(r) \/ LoseLock(r)
             \/ TablesSeen(r) \/ IndexSeen(r) \/ IndexNotSeen(r)
      PROVE  BuildsShow'
  BY <1>3, <1>9 DEF TryLock, Migrated, LoseLock, TablesSeen, IndexSeen, IndexNotSeen
<1>10. ASSUME ReapGhost \/ UNCHANGED vars \/ \E s \in Stmts : OrphanEnds(s)
       PROVE  BuildsShow'
  BY <1>3, <1>10 DEF ReapGhost, OrphanEnds, vars
<1> QED
  BY <1>4, <1>5, <1>6, <1>7, <1>8, <1>9, <1>10 DEF Next, Migrate

\* The sentinel enters the catalog behind everything else.
LEMMA NextSentinelLast ==
  TypeOK /\ Ordered /\ [Next]_vars => SentinelLast'
<1> SUFFICES ASSUME TypeOK, Ordered, [Next]_vars, catalog'[Sentinel] # "absent",
                    NEW s \in Stmts
             PROVE  catalog'[s] # "absent"
  BY DEF SentinelLast
<1>1. Grows
  BY CatalogGrows DEF Ordered
<1>2. CASE catalog[Sentinel] # "absent"
  BY <1>1, <1>2 DEF Grows, Ordered, SentinelLast
<1>3. CASE catalog[Sentinel] = "absent"
  <2>1. Sentinel \notin orphans
    BY <1>3, SizesAssumption DEF Ordered, BuildsShow, IsIndex, Sentinel
  <2>2. PICK r \in Replicas : pc[r] = "ddl" /\ Sentinel = next[r]
    BY <1>1, <1>3, <2>1, StmtFacts DEF Grows
  <2>3. CASE s = Sentinel
    BY <2>3
  <2>4. CASE s # Sentinel
    <3>1. s < next[r]
      BY <2>2, <2>4, SizesAssumption DEF Stmts, Sentinel
    <3> QED
      BY <1>1, <2>2, <3>1 DEF Grows, Ordered, PassedExist
  <2> QED
    BY <2>3, <2>4
<1> QED
  BY <1>2, <1>3

\* A replica starts its workers as an owner at the end of the list, or as a
\* follower that has seen the tables or the sentinel.
LEMMA NextRunningHasSchema ==
  TypeOK /\ Ordered /\ RunningHasSchema /\ [Next]_vars => RunningHasSchema'
<1> SUFFICES ASSUME TypeOK, Ordered, RunningHasSchema, [Next]_vars,
                    NEW q \in Replicas, pc'[q] = "run"
             PROVE  /\ \A s \in 1..NT : catalog'[s] = "valid"
                    /\ createIndexes' => \A s \in Stmts : catalog'[s] # "absent"
  BY DEF RunningHasSchema
<1>1. TablesWhole' /\ Grows
  BY CatalogGrows DEF Ordered
<1>2. createIndexes' = createIndexes
  BY DEF Next, Migrate, TryLock, SkipStmt, SendStmt, FinishStmt, FailStmt, Migrated,
         TablesSeen, IndexSeen, IndexNotSeen, Crash, LoseNode, LoseLock, Restart, Dies,
         ReapGhost, OrphanEnds, vars
<1> DEFINE Ready == /\ \A s \in 1..NT : catalog[s] # "absent"
                    /\ createIndexes => \A s \in Stmts : catalog[s] # "absent"
<1>3. SUFFICES Ready
  BY <1>1, <1>2, <1>3, StmtFacts DEF TablesWhole, Grows
<1>4. CASE pc[q] = "run"
  BY <1>4 DEF RunningHasSchema
<1>5. CASE pc[q] # "run"
  <2>1. Migrated(q) \/ TablesSeen(q) \/ IndexSeen(q)
    BY <1>5 DEF TypeOK, Next, Migrate, TryLock, SkipStmt, SendStmt, FinishStmt, FailStmt,
                Migrated, TablesSeen, IndexSeen, IndexNotSeen, Crash, LoseNode, LoseLock,
                Restart, Dies, ReapGhost, OrphanEnds, vars
  <2>2. CASE Migrated(q)
    <3>1. \A s \in Stmts : s <= LastStmt => catalog[s] # "absent"
      BY <2>2, SizesAssumption DEF Migrated, TypeOK, Ordered, PassedExist, LastStmt, Stmts
    <3> QED
      BY <3>1, SizesAssumption DEF LastStmt, Stmts
  <2>3. CASE TablesSeen(q)
    <3>1. ~createIndexes
      BY <1>5, <2>3 DEF TablesSeen, TypeOK
    <3> QED
      BY <2>3, <3>1 DEF TablesSeen
  <2>4. CASE IndexSeen(q)
    BY <2>4, StmtFacts DEF IndexSeen, Ordered, SentinelLast
  <2> QED
    BY <2>1, <2>2, <2>3, <2>4
<1> QED
  BY <1>4, <1>5

\* The order of the catalog and the schema of the running replicas together.
LEMMA OrderHolds == Spec => [](TypeOK /\ Ordered /\ RunningHasSchema)
<1>1. Init => Ordered /\ RunningHasSchema
  BY StmtFacts DEF Init, Ordered, TablesWhole, PassedExist, BuildsShow, SentinelLast,
                   RunningHasSchema, Stmts
<1>2. TypeOK /\ Ordered /\ RunningHasSchema /\ [Next]_vars => Ordered' /\ RunningHasSchema'
  BY CatalogGrows, NextPassedExist, NextBuildsShow, NextSentinelLast, NextRunningHasSchema
     DEF Ordered
<1> QED
  BY <1>1, <1>2, TypeCorrect, PTL DEF Spec

\* No replica, as owner or as follower, starts its workers against a missing
\* relation, whoever crashed, was restarted or lost its lock on the way.
THEOREM StartsWithSchema == Spec => []RunningHasSchema
  BY OrderHolds, PTL

-----------------------------------------------------------------------------
(* How far "safe to re-run" carries *)

\* No client died, with its process or its node, and no statement failed.
ClientsHealthy == faults.crash = 0 /\ faults.node = 0 /\ faults.error = 0

\* Whatever is in the catalog is usable, or under construction by its owner.
NothingInvalid ==
  /\ orphans = {}
  /\ \A s \in Stmts : catalog[s] # "invalid"
  /\ \A s \in Stmts : catalog[s] = "building" => \E r \in Replicas : busy[r] /\ next[r] = s

\* With CREATE_INDEXES, once anybody runs, every table and every index is usable
\* or its build is under way at a replica that will see it to its end.
IndexesWhole ==
  (createIndexes /\ \E r \in Replicas : pc[r] = "run") =>
    \A s \in Stmts : catalog[s] = "valid" \/ \E r \in Replicas : busy[r] /\ next[r] = s

\* Without such a fault the statements of two owners, one of which lost its
\* lock, do not spoil each other's indexes.
LEMMA NextNothingInvalid ==
  TypeOK /\ (ClientsHealthy => NothingInvalid) /\ [Next]_vars =>
    (ClientsHealthy' => NothingInvalid')
<1> SUFFICES ASSUME TypeOK, ClientsHealthy => NothingInvalid, [Next]_vars, ClientsHealthy'
             PROVE  NothingInvalid'
  OBVIOUS
<1> USE DEF TypeOK
<1>1. ASSUME faults' = faults PROVE NothingInvalid
  BY <1>1 DEF ClientsHealthy
<1>2. ASSUME NEW r \in Replicas, Crash(r) \/ LoseNode(r) PROVE FALSE
  BY <1>2 DEF Crash, LoseNode, ClientsHealthy
<1>3. ASSUME NEW r \in Replicas, LoseLock(r) PROVE NothingInvalid'
  BY <1>3 DEF LoseLock, ClientsHealthy, NothingInvalid
<1>4. ASSUME NEW r \in Replicas,
             \/ TryLock(r) \/ Migrated(r) \/ TablesSeen(r) \/ IndexSeen(r) \/ IndexNotSeen(r)
      PROVE  NothingInvalid'
  BY <1>1, <1>4 DEF TryLock, Migrated, TablesSeen, IndexSeen, IndexNotSeen, NothingInvalid
<1>5. ASSUME NEW r \in Replicas, SkipStmt(r) \/ Restart(r) PROVE NothingInvalid'
  <2>1. /\ ~busy[r] /\ busy' = busy /\ faults' = faults /\ catalog' = catalog /\ orphans' = orphans
        /\ \A q \in Replicas : q # r => next'[q] = next[q]
    BY <1>5 DEF SkipStmt, Restart
  <2> QED
    BY <1>1, <2>1 DEF NothingInvalid
<1>6. ASSUME NEW r \in Replicas, SendStmt(r) PROVE NothingInvalid'
  <2>1. /\ next[r] \in Stmts /\ next' = next /\ orphans' = orphans /\ faults' = faults
        /\ busy'[r] /\ \A q \in Replicas : busy[q] => busy'[q]
    BY <1>6, SizesAssumption DEF SendStmt, LastStmt, Stmts
  <2>2. \A s \in Stmts : catalog'[s] = catalog[s] \/ (s = next[r] /\ catalog'[s] = "building")
    BY <1>6, <2>1 DEF SendStmt
  <2> QED
    BY <1>1, <2>1, <2>2 DEF NothingInvalid
<1>7. ASSUME NEW r \in Replicas, FinishStmt(r) PROVE NothingInvalid'
  <2>1. /\ next[r] \in Stmts /\ orphans' = orphans /\ faults' = faults
        /\ \A q \in Replicas : q # r => next'[q] = next[q] /\ busy'[q] = busy[q]
    BY <1>7, SizesAssumption DEF FinishStmt, LastStmt, Stmts
  <2>2. catalog'[next[r]] = "valid" /\ \A s \in Stmts : s # next[r] => catalog'[s] = catalog[s]
    BY <1>7, <2>1 DEF FinishStmt
  <2> QED
    BY <1>1, <2>1, <2>2 DEF NothingInvalid
<1>8. ASSUME NEW r \in Replicas, FailStmt(r) PROVE NothingInvalid'
  <2>1. faults' = faults /\ catalog' = catalog /\ catalog[next[r]] = "valid"
    BY <1>8 DEF FailStmt, ClientsHealthy
  <2>2. /\ next' = next /\ orphans' = orphans
        /\ \A q \in Replicas : q # r => busy'[q] = busy[q]
    BY <1>8 DEF FailStmt
  <2> QED
    BY <1>1, <2>1, <2>2 DEF NothingInvalid
<1>9. ASSUME ReapGhost \/ UNCHANGED vars PROVE NothingInvalid'
  BY <1>1, <1>9 DEF ReapGhost, vars, NothingInvalid
<1>10. ASSUME NEW s \in Stmts, OrphanEnds(s) PROVE NothingInvalid'
  BY <1>1, <1>10 DEF OrphanEnds, NothingInvalid
<1> QED
  BY <1>2, <1>3, <1>4, <1>5, <1>6, <1>7, <1>8, <1>9, <1>10 DEF Next, Migrate

\* The DDL is "safe to re-run" (pg-loadgen-plan.md:368) as long as no client dies
\* and no statement fails, even when lock connections break and two owners run it
\* side by side: every index is usable or being built, so RerunCompletesIndexes,
\* which a single crash refutes, holds until then.
THEOREM IndexesWholeWhileHealthy ==
  Spec => [](ClientsHealthy =>
               /\ IndexesWhole
               /\ (Replicas # {} => RerunCompletesIndexes))
<1>1. Init => (ClientsHealthy => NothingInvalid)
  BY DEF Init, NothingInvalid
<1>2. TypeOK /\ RunningHasSchema /\ (ClientsHealthy => NothingInvalid) =>
        (ClientsHealthy => IndexesWhole /\ (Replicas # {} => RerunCompletesIndexes))
  <2> SUFFICES ASSUME TypeOK, RunningHasSchema, NothingInvalid
               PROVE  IndexesWhole /\ (Replicas # {} => RerunCompletesIndexes)
    OBVIOUS
  <2>1. IndexesWhole
    BY DEF TypeOK, RunningHasSchema, NothingInvalid, IndexesWhole
  <2>2. ASSUME Replicas # {}, createIndexes, \A r \in Replicas : pc[r] = "run", NEW s \in Stmts
        PROVE  catalog[s] = "valid"
    BY <2>1, <2>2 DEF IndexesWhole, TypeOK
  <2> QED
    BY <2>1, <2>2 DEF RerunCompletesIndexes
<1> QED
  BY <1>1, <1>2, NextNothingInvalid, OrderHolds, PTL DEF Spec

-----------------------------------------------------------------------------
(* Whom a follower waits for *)

\* The lock is held by a replica that runs DDL, or by the session of a lost node.
HolderRuns ==
  /\ \A r \in Replicas : holder = r => pc[r] = "ddl"
  /\ holder = Ghost => faults.node > 0

\* Who leaves the DDL, dies or is reaped gives up the lock.
LEMMA NextHolderRuns ==
  TypeOK /\ HolderRuns /\ [Next]_vars => HolderRuns'
<1> SUFFICES ASSUME TypeOK, HolderRuns, [Next]_vars PROVE HolderRuns'
  OBVIOUS
<1> USE HoldersAssumption DEF TypeOK, HolderRuns
<1>1. ASSUME NEW r \in Replicas, TryLock(r) PROVE HolderRuns'
  BY <1>1 DEF TryLock
<1>2. ASSUME NEW r \in Replicas, SkipStmt(r) \/ SendStmt(r) \/ FinishStmt(r) PROVE HolderRuns'
  BY <1>2 DEF SkipStmt, SendStmt, FinishStmt
<1>3. ASSUME NEW r \in Replicas, FailStmt(r) PROVE HolderRuns'
  BY <1>3 DEF FailStmt, Released
<1>4. ASSUME NEW r \in Replicas, Migrated(r) PROVE HolderRuns'
  BY <1>4 DEF Migrated, Released
<1>5. ASSUME NEW r \in Replicas, TablesSeen(r) \/ IndexSeen(r) \/ IndexNotSeen(r)
      PROVE  HolderRuns'
  BY <1>5 DEF TablesSeen, IndexSeen, IndexNotSeen
<1>6. ASSUME NEW r \in Replicas, Crash(r) PROVE HolderRuns'
  BY <1>6 DEF Crash, Dies, Released
<1>7. ASSUME NEW r \in Replicas, LoseNode(r) PROVE HolderRuns'
  BY <1>7 DEF LoseNode, Dies
<1>8. ASSUME NEW r \in Replicas, LoseLock(r) \/ Restart(r) PROVE HolderRuns'
  BY <1>8 DEF LoseLock, Restart
<1>9. ASSUME ReapGhost \/ UNCHANGED vars \/ \E s \in Stmts : OrphanEnds(s) PROVE HolderRuns'
  BY <1>9 DEF ReapGhost, OrphanEnds, vars
<1> QED
  BY <1>1, <1>2, <1>3, <1>4, <1>5, <1>6, <1>7, <1>8, <1>9 DEF Next, Migrate

\* What WaitForSchema asks for is in the catalog.
SchemaVisible ==
  /\ \A s \in 1..NT : catalog[s] = "valid"
  /\ createIndexes => catalog[Sentinel] # "absent"

\* Somebody will still try the lock, runs the DDL, or will be restarted.
OwnerToCome == \E r \in Replicas : pc[r] \in {"start", "ddl", "dead"}

FollowersServed ==
  faults.node = 0 =>
    \A r \in Replicas : pc[r] \in {"poll", "pollIndex"} => SchemaVisible \/ OwnerToCome

\* A step that takes away the last prospective owner leaves the schema behind.
LEMMA NextFollowersServed ==
  TypeOK /\ Ordered /\ RunningHasSchema /\ HolderRuns /\ FollowersServed /\ [Next]_vars =>
    FollowersServed'
<1> SUFFICES ASSUME TypeOK, Ordered, RunningHasSchema, HolderRuns, FollowersServed, [Next]_vars,
                    faults'.node = 0, NEW q \in Replicas, pc'[q] \in {"poll", "pollIndex"},
                    ~OwnerToCome'
             PROVE  SchemaVisible'
  BY DEF FollowersServed
<1>1. TablesWhole' /\ Grows
  BY CatalogGrows DEF Ordered
<1>2. createIndexes' = createIndexes
  BY DEF Next, Migrate, TryLock, SkipStmt, SendStmt, FinishStmt, FailStmt, Migrated,
         TablesSeen, IndexSeen, IndexNotSeen, Crash, LoseNode, LoseLock, Restart, Dies,
         ReapGhost, OrphanEnds, vars
<1>3. SUFFICES ASSUME ~SchemaVisible PROVE SchemaVisible'
  BY <1>1, <1>2, StmtFacts DEF SchemaVisible, TablesWhole, Grows, Sentinel
<1>4. \A r \in Replicas : pc'[r] \in {"poll", "pollIndex", "run"}
  <2>1. pc' \in [Replicas -> {"start", "ddl", "poll", "pollIndex", "run", "dead"}]
    BY NextTypeOK DEF TypeOK
  <2> QED
    BY <2>1 DEF OwnerToCome
<1>5. \A r \in Replicas : pc[r] # "run"
  BY <1>3, StmtFacts DEF RunningHasSchema, SchemaVisible
\* The last owner to come is gone in this step, to run.
<1>6. faults.node = 0
  BY DEF TypeOK, Next, Migrate, TryLock, SkipStmt, SendStmt, FinishStmt, FailStmt, Migrated,
         TablesSeen, IndexSeen, IndexNotSeen, Crash, LoseNode, LoseLock, Restart, Dies,
         ReapGhost, OrphanEnds, vars
<1>7. ASSUME UNCHANGED pc PROVE SchemaVisible'
  BY <1>3, <1>4, <1>6, <1>7 DEF FollowersServed, OwnerToCome
<1>8. ASSUME NEW r \in Replicas, TryLock(r) PROVE SchemaVisible'
  <2>1. holder # NoOne /\ pc' = [pc EXCEPT ![r] = "poll"]
    BY <1>4, <1>8 DEF TryLock, TypeOK
  <2>2. PICK o \in Replicas : pc[o] = "ddl"
    BY <1>6, <2>1 DEF HolderRuns, TypeOK
  <2> QED
    BY <1>4, <1>8, <2>1, <2>2 DEF TryLock, TypeOK
<1>9. ASSUME NEW r \in Replicas, Migrated(r) PROVE SchemaVisible'
  <2>1. \A s \in Stmts : s <= LastStmt => catalog[s] # "absent"
    BY <1>9, SizesAssumption DEF Migrated, TypeOK, Ordered, PassedExist, LastStmt, Stmts
  <2>2. \A s \in 1..NT : s \in Stmts /\ s <= LastStmt
    BY SizesAssumption DEF Stmts, LastStmt
  <2>3. createIndexes => Sentinel \in Stmts /\ Sentinel <= LastStmt
    BY SizesAssumption DEF Sentinel, Stmts, LastStmt
  <2> QED
    BY <1>1, <1>2, <2>1, <2>2, <2>3 DEF SchemaVisible, TablesWhole, Grows, Sentinel
<1>10. ASSUME NEW r \in Replicas, FailStmt(r) \/ Crash(r) \/ LoseNode(r) \/ Restart(r) PROVE FALSE
  BY <1>4, <1>10 DEF FailStmt, Crash, LoseNode, Dies, Restart, TypeOK
<1>11. ASSUME NEW r \in Replicas, TablesSeen(r) \/ IndexSeen(r) \/ IndexNotSeen(r)
       PROVE  SchemaVisible'
  <2>1. \A p \in Replicas : p # r => pc'[p] = pc[p]
    BY <1>11 DEF TablesSeen, IndexSeen, IndexNotSeen, TypeOK
  <2>2. pc[r] \in {"poll", "pollIndex"}
    BY <1>11 DEF TablesSeen, IndexSeen, IndexNotSeen
  <2> QED
    BY <1>3, <1>4, <1>6, <2>1, <2>2 DEF FollowersServed, OwnerToCome
<1>12. ASSUME NEW r \in Replicas, SkipStmt(r) \/ SendStmt(r) \/ FinishStmt(r) \/ LoseLock(r)
       PROVE  UNCHANGED pc
  BY <1>12 DEF SkipStmt, SendStmt, FinishStmt, LoseLock
<1>13. ASSUME ReapGhost \/ UNCHANGED vars \/ \E s \in Stmts : OrphanEnds(s) PROVE UNCHANGED pc
  BY <1>13 DEF ReapGhost, OrphanEnds, vars
<1> QED
  BY <1>7, <1>8, <1>9, <1>10, <1>11, <1>12, <1>13 DEF Next, Migrate

\* The safety half of EveryReplicaRuns: as long as no node is lost, a follower in
\* WaitForSchema never waits for nobody.  What it polls for is there, or some
\* replica still has the DDL before it, whoever crashed, failed or lost its lock
\* on the way.  (One lost node is enough to leave followers waiting for ever.)
THEOREM FollowersAreServed == Spec => []FollowersServed
<1>1. Init => HolderRuns /\ FollowersServed
  BY HoldersAssumption DEF Init, HolderRuns, FollowersServed
<1> QED
  BY <1>1, OrderHolds, NextHolderRuns, NextFollowersServed, PTL DEF Spec
=============================================================================
