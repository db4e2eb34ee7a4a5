---------------------------- MODULE OltpWorkload ----------------------------
(***************************************************************************)
(* The operations of the oltp-jsonb profile (src/workload/ops.go), run by  *)
(* concurrent workers against one database and one shared session ring.    *)
(* Each statement is a step of its own and may fail; a commit may also     *)
(* fail after it has taken effect.                                         *)
(*                                                                         *)
(* Postgres is external and modelled from how ops.go uses it, at READ      *)
(* COMMITTED: rows of an open transaction are invisible, row locks last    *)
(* until its end, FOR UPDATE SKIP LOCKED passes over a locked row, a       *)
(* DELETE waits for one, and a cycle of waiters costs one of them its      *)
(* statement.  When an operation fails with its connection, the server     *)
(* keeps the transaction and its locks until it notices.  The three reads  *)
(* differ only in their SQL and are one operation here.                    *)
(***************************************************************************)
EXTENDS Integers, Sequences, FiniteSets, SequencesExt

CONSTANTS
  Workers,
  NoWorker, Lost,       \* a lock is free; held for a client that is gone
  Ids, Size, Nil,       \* as in SessionRing
  MaxEvents,            \* most events one insert creates
  Batch,                \* cfg.DeleteBatchSize
  MaxUpdates            \* bound: committed updates after which none starts

ASSUME WorkersAssumption == NoWorker \notin Workers /\ Lost \notin Workers /\ NoWorker # Lost
ASSUME SizesAssumption ==
  /\ MaxEvents \in Nat \ {0} /\ Batch \in Nat \ {0} /\ MaxUpdates \in Nat
  /\ Size \in Nat \ {0} /\ Nil \notin Ids

VARIABLES
  buf, head, fill,   \* the ring
  status,        \* sessions.status, or "none" where there is no committed row
  events,        \* events[s]: committed events of session s
  audits,        \* audits[s]: committed audit_log rows of s, by action
  rowLock,       \* rowLock[s]: transaction that holds the row of session s
  evLock,        \* evLock[s][e]: transaction that holds event e of s
  pc, sid,       \* where worker w is, and the session it works on
  n,             \* doInsert: numEvents
  sent,          \* doInsert: events inserted so far
  target,        \* doDelete: events of the batch still to be locked, in order
  res            \* res[w]: what the last operation returned; "none" during one

(* History: sessions pushed to the ring, sessions whose commit took effect *)
(* and was reported as failed.                                             *)
VARIABLES pushed, unknown

ring == <<buf, head, fill>>
tables == <<status, events, audits>>
locks == <<rowLock, evLock>>
local == <<pc, sid, n, sent, target, res>>
vars == <<ring, tables, locks, local, pushed, unknown>>

\* A worker keeps what it samples in sid.
SR == INSTANCE SessionRing WITH got <- Nil

Init ==
  /\ SR!Init
  /\ status = [s \in Ids |-> "none"]
  /\ events = [s \in Ids |-> {}]
  /\ audits = [s \in Ids |-> [insert |-> 0, update |-> 0]]
  /\ rowLock = [s \in Ids |-> NoWorker]
  /\ evLock = [s \in Ids |-> [e \in 1..MaxEvents |-> NoWorker]]
  /\ pc = [w \in Workers |-> "idle"] /\ sid = [w \in Workers |-> Nil]
  /\ n = [w \in Workers |-> 0] /\ sent = [w \in Workers |-> 0]
  /\ target = [w \in Workers |-> <<>>]
  /\ res = [w \in Workers |-> "ok"]
  /\ pushed = {} /\ unknown = {}

-----------------------------------------------------------------------------
(* Ends of an operation.  A transaction that ends, either way, gives up    *)
(* its locks; the worker forgets its locals.                               *)

\* What was locked by h is now locked by g.
PassLocks(h, g) ==
  /\ rowLock' = [s \in Ids |-> IF rowLock[s] = h THEN g ELSE rowLock[s]]
  /\ evLock' = [s \in Ids |-> [e \in 1..MaxEvents |->
                  IF evLock[s][e] = h THEN g ELSE evLock[s][e]]]

Unlock(w) == PassLocks(w, NoWorker)

Forget(w, r) ==
  /\ pc' = [pc EXCEPT ![w] = "idle"]
  /\ sid' = [sid EXCEPT ![w] = Nil]
  /\ n' = [n EXCEPT ![w] = 0] /\ sent' = [sent EXCEPT ![w] = 0]
  /\ target' = [target EXCEPT ![w] = <<>>]
  /\ res' = [res EXCEPT ![w] = r]

Goto(w, l) == pc' = [pc EXCEPT ![w] = l]

\* The statements that may fail; a failing Begin is one with the first of them.
InTransaction == {"session", "event", "audit", "commit",
                  "lock", "update", "auditUpdate", "commitUpdate",
                  "query", "select", "delete"}

\* Regression: an operation that fails leaves its transaction open.
Fails_NoRollback(w) ==
  /\ pc[w] \in InTransaction
  /\ Forget(w, "error")
  /\ UNCHANGED <<locks, ring, tables, pushed, unknown>>

HeldByLost ==
  \E s \in Ids : rowLock[s] = Lost \/ \E e \in 1..MaxEvents : evLock[s][e] = Lost

\* Any error is returned at once, and the deferred Rollback runs; if it cannot
\* reach the server the connection is dropped.  Bound: one such transaction at
\* a time.
Fails(w) ==
  /\ pc[w] \in InTransaction
  /\ \E h \in IF HeldByLost THEN {NoWorker} ELSE {NoWorker, Lost} : PassLocks(w, h)
  /\ Forget(w, "error")
  /\ UNCHANGED <<ring, tables, pushed, unknown>>

\* The server notices that the clients are gone.  A DELETE, which needs no
\* commit, may have run to its end meanwhile.
EndLost ==
  /\ HeldByLost
  /\ PassLocks(Lost, NoWorker)
  /\ \/ UNCHANGED events
     \/ events' = [s \in Ids |-> {e \in events[s] : evLock[s][e] # Lost}]
  /\ UNCHANGED <<ring, status, audits, local, pushed, unknown>>

-----------------------------------------------------------------------------
(* doInsert *)

\* uuid.New() is an id that no row and no transaction has.
Fresh(s) == status[s] = "none" /\ \A w \in Workers : sid[w] # s

InsertStart(w, s, k) ==
  /\ pc[w] = "idle" /\ Fresh(s)
  /\ sid' = [sid EXCEPT ![w] = s]
  /\ n' = [n EXCEPT ![w] = k]
  /\ res' = [res EXCEPT ![w] = "none"]
  /\ Goto(w, "session")
  /\ UNCHANGED <<ring, tables, locks, sent, target, pushed, unknown>>

\* Regression: the id is pushed as soon as the row is inserted.
InsertSession_PushesEarly(w) ==
  /\ pc[w] = "session"
  /\ SR!Push(sid[w])
  /\ pushed' = pushed \cup {sid[w]}
  /\ Goto(w, "event")
  /\ UNCHANGED <<tables, locks, sid, n, sent, target, res, unknown>>

InsertSession(w) ==
  /\ pc[w] = "session"
  /\ Goto(w, "event")
  /\ UNCHANGED <<ring, tables, locks, sid, n, sent, target, res, pushed, unknown>>

\* Regression: the loop over the events runs once too often.
InsertEvent_OneMore(w) ==
  /\ pc[w] = "event"
  /\ \/ sent[w] <= n[w] /\ sent' = [sent EXCEPT ![w] = @ + 1] /\ UNCHANGED pc
     \/ sent[w] > n[w] /\ Goto(w, "audit") /\ UNCHANGED sent
  /\ UNCHANGED <<ring, tables, locks, sid, n, target, res, pushed, unknown>>

InsertEvent(w) ==
  /\ pc[w] = "event"
  /\ \/ sent[w] < n[w] /\ sent' = [sent EXCEPT ![w] = @ + 1] /\ UNCHANGED pc
     \/ sent[w] = n[w] /\ Goto(w, "audit") /\ UNCHANGED sent
  /\ UNCHANGED <<ring, tables, locks, sid, n, target, res, pushed, unknown>>

InsertAudit(w) ==
  /\ pc[w] = "audit"
  /\ Goto(w, "commit")
  /\ UNCHANGED <<ring, tables, locks, sid, n, sent, target, res, pushed, unknown>>

\* The rows of the transaction become visible together.  If the answer is
\* lost the operation fails although they have.
InsertCommit(w) ==
  /\ pc[w] = "commit"
  /\ status' = [status EXCEPT ![sid[w]] = "active"]
  /\ events' = [events EXCEPT ![sid[w]] = 1..sent[w]]
  /\ audits' = [audits EXCEPT ![sid[w]].insert = @ + 1]
  /\ Unlock(w)
  /\ \/ /\ Goto(w, "push")
        /\ UNCHANGED <<sid, n, sent, target, res, unknown>>
     \/ /\ Forget(w, "error")
        /\ unknown' = unknown \cup {sid[w]}
  /\ UNCHANGED <<ring, pushed>>

\* Regression: the new session is not remembered.
InsertPush_Missing(w) ==
  /\ pc[w] = "push"
  /\ Forget(w, "ok")
  /\ UNCHANGED <<ring, tables, locks, pushed, unknown>>

InsertPush(w) ==
  /\ pc[w] = "push"
  /\ SR!Push(sid[w])
  /\ pushed' = pushed \cup {sid[w]}
  /\ Forget(w, "ok")
  /\ UNCHANGED <<tables, locks, unknown>>

-----------------------------------------------------------------------------
(* The other operations start from a sampled session, or skip. *)

SampleSession(w, first) ==
  /\ pc[w] = "idle"
  /\ \E id \in SR!Samples :
       \/ /\ id # Nil
          /\ sid' = [sid EXCEPT ![w] = id]
          /\ res' = [res EXCEPT ![w] = "none"]
          /\ Goto(w, first)
          /\ UNCHANGED <<n, sent, target>>
       \/ id = Nil /\ Forget(w, "skip")
  /\ UNCHANGED <<ring, tables, locks, pushed, unknown>>

\* doReadSimple, doReadJoin, doReadByIP
ReadStart(w) == SampleSession(w, "query")

ReadReturns(w) ==
  /\ pc[w] = "query"
  /\ Forget(w, "ok")
  /\ UNCHANGED <<ring, tables, locks, pushed, unknown>>

(* doUpdate *)

Updating == {"lock", "update", "auditUpdate", "commitUpdate"}

UpdateStart(w) ==
  /\ SumFunction([s \in Ids |-> audits[s].update]) < MaxUpdates
  /\ SampleSession(w, "lock")

UpdateLock(w) ==
  /\ pc[w] = "lock"
  /\ \/ /\ status[sid[w]] # "none" /\ rowLock[sid[w]] = NoWorker
        /\ rowLock' = [rowLock EXCEPT ![sid[w]] = w]
        /\ Goto(w, "update")
        /\ UNCHANGED <<evLock, sid, n, sent, target, res>>
     \/ /\ status[sid[w]] = "none" \/ rowLock[sid[w]] # NoWorker
        /\ Unlock(w)
        /\ Forget(w, "skip")
  /\ UNCHANGED <<ring, tables, pushed, unknown>>

UpdateRow(w) ==
  /\ pc[w] = "update"
  /\ Goto(w, "auditUpdate")
  /\ UNCHANGED <<ring, tables, locks, sid, n, sent, target, res, pushed, unknown>>

\* Regression: the audit row is written outside the transaction.
UpdateAudit_OnPool(w) ==
  /\ pc[w] = "auditUpdate"
  /\ audits' = [audits EXCEPT ![sid[w]].update = @ + 1]
  /\ Goto(w, "commitUpdate")
  /\ UNCHANGED <<ring, status, events, locks, sid, n, sent, target, res, pushed, unknown>>

UpdateAudit(w) ==
  /\ pc[w] = "auditUpdate"
  /\ Goto(w, "commitUpdate")
  /\ UNCHANGED <<ring, tables, locks, sid, n, sent, target, res, pushed, unknown>>

UpdateCommit(w) ==
  /\ pc[w] = "commitUpdate"
  /\ status' = [status EXCEPT ![sid[w]] = "closed"]
  /\ audits' = [audits EXCEPT ![sid[w]].update = @ + 1]
  /\ Unlock(w)
  /\ \E r \in {"ok", "error"} : Forget(w, r)
  /\ UNCHANGED <<ring, events, pushed, unknown>>

(* doDelete: one statement, which commits itself *)

DeleteStart(w) == SampleSession(w, "select")

\* The events of one insert have the same occurred_at, now() being that of the
\* transaction, so ORDER BY and LIMIT may pick any of them; the plan decides
\* the order in which the batch is locked.
DeleteSelect(w) ==
  /\ pc[w] = "select"
  /\ \E b \in SUBSET events[sid[w]] :
       /\ Cardinality(b) = Batch \/ (Cardinality(b) < Batch /\ b = events[sid[w]])
       /\ \E order \in SetToSeqs(b) : target' = [target EXCEPT ![w] = order]
  /\ Goto(w, "delete")
  /\ UNCHANGED <<ring, tables, locks, sid, n, sent, res, pushed, unknown>>

\* The next row, once nobody else holds it: locked, or passed over if it was
\* deleted in the meantime.
DeleteLock(w) ==
  /\ pc[w] = "delete" /\ target[w] # <<>>
  /\ LET s == sid[w]
         e == Head(target[w])
     IN  /\ evLock[s][e] = NoWorker
         /\ evLock' = [evLock EXCEPT ![s][e] = IF e \in events[s] THEN w ELSE NoWorker]
  /\ target' = [target EXCEPT ![w] = Tail(@)]
  /\ UNCHANGED <<ring, tables, rowLock, pc, sid, n, sent, res, pushed, unknown>>

Locked(w) == {e \in 1..MaxEvents : evLock[sid[w]][e] = w}

\* Regression: the batch leaves its locks behind.
DeleteCommit_KeepsLocks(w) ==
  /\ pc[w] = "delete" /\ target[w] = <<>>
  /\ events' = [events EXCEPT ![sid[w]] = @ \ Locked(w)]
  /\ \E r \in {"ok", "error"} : Forget(w, r)
  /\ UNCHANGED <<ring, locks, status, audits, pushed, unknown>>

DeleteCommit(w) ==
  /\ pc[w] = "delete" /\ target[w] = <<>>
  /\ events' = [events EXCEPT ![sid[w]] = @ \ Locked(w)]
  /\ Unlock(w)
  /\ \E r \in {"ok", "error"} : Forget(w, r)
  /\ UNCHANGED <<ring, status, audits, pushed, unknown>>

WaitsFor(w, v) ==
  pc[w] = "delete" /\ target[w] # <<>> /\ evLock[sid[w]][Head(target[w])] = v

\* The server's deadlock detector fails one of a cycle of waiting deletes.
Deadlocked(w) ==
  /\ \E C \in SUBSET Workers : w \in C /\ \A v \in C : \E u \in C : WaitsFor(v, u)
  /\ Unlock(w)
  /\ Forget(w, "error")
  /\ UNCHANGED <<ring, tables, pushed, unknown>>

-----------------------------------------------------------------------------
\* What a worker, or the server on its behalf, does next by itself.
Proceed(w) ==
  \/ InsertSession(w) \/ InsertEvent(w) \/ InsertAudit(w) \/ InsertCommit(w) \/ InsertPush(w)
  \/ ReadReturns(w)
  \/ UpdateLock(w) \/ UpdateRow(w) \/ UpdateAudit(w) \/ UpdateCommit(w)
  \/ DeleteSelect(w) \/ DeleteLock(w) \/ DeleteCommit(w)
  \/ Deadlocked(w)

Start(w) ==
  \/ \E s \in Ids, k \in 1..MaxEvents : InsertStart(w, s, k)
  \/ ReadStart(w) \/ UpdateStart(w) \/ DeleteStart(w)

Next ==
  \/ \E w \in Workers : Start(w) \/ Proceed(w) \/ Fails(w)
  \/ EndLost

Spec == Init /\ [][Next]_vars

\* Statements return, the server notices lost clients, and it hands a row to
\* those that wait for it in turn, so newcomers that keep failing cannot keep it
\* from a waiting delete.
FairSpec ==
  /\ Spec
  /\ WF_vars(EndLost)
  /\ \A w \in Workers : WF_vars(Proceed(w)) /\ SF_vars(DeleteLock(w))
-----------------------------------------------------------------------------
(* Properties *)

\* Types, and a worker is idle exactly when it has no session and a result.
TypeOK ==
  /\ SR!TypeOK
  /\ status \in [Ids -> {"none", "active", "closed"}]
  /\ events \in [Ids -> SUBSET (1..MaxEvents)]
  /\ audits \in [Ids -> [insert : Nat, update : Nat]]
  /\ rowLock \in [Ids -> Workers \cup {NoWorker, Lost}]
  /\ evLock \in [Ids -> [1..MaxEvents -> Workers \cup {NoWorker, Lost}]]
  /\ pc \in [Workers -> {"idle", "push"} \cup InTransaction]
  /\ sid \in [Workers -> Ids \cup {Nil}]
  /\ n \in [Workers -> 0..MaxEvents] /\ sent \in [Workers -> 0..MaxEvents]
  /\ target \in [Workers -> Seq(1..MaxEvents)]
  /\ res \in [Workers -> {"none", "ok", "skip", "error"}]
  /\ pushed \subseteq Ids /\ unknown \subseteq Ids
  /\ \A w \in Workers : (pc[w] = "idle" <=> sid[w] = Nil) /\ (pc[w] = "idle" <=> res[w] # "none")

\* Whatever the ring can hand out, and whatever an operation that sampled is
\* working on, is a committed session: no read, update or delete ever chases a
\* row that was rolled back or is not visible yet (ops.go:173).
SampledIsCommitted ==
  /\ \A i \in SR!Slots : buf[i] # Nil => status[buf[i]] # "none"
  /\ \A w \in Workers : pc[w] \in Updating \cup {"query", "select", "delete"} => status[sid[w]] # "none"

\* A session whose insert succeeded is pushed to the ring, and no other ever is
\* (ops.go:169-173).  Only a commit whose answer was lost leaves a session nobody will read.
CommittedIsPushed ==
  \A s \in Ids :
    /\ s \in pushed => status[s] # "none" /\ s \notin unknown
    /\ (status[s] # "none" /\ s \notin unknown) =>
         (s \in pushed \/ \E w \in Workers : pc[w] = "push" /\ sid[w] = s)

\* The audit trail is exact, whatever fails in between: one INSERT row per
\* session, and UPDATE rows for exactly the sessions that were closed.
AuditTrail ==
  \A s \in Ids :
    /\ audits[s].insert = IF status[s] = "none" THEN 0 ELSE 1
    /\ audits[s].update > 0 <=> status[s] = "closed"

\* The comment at ops.go:265: an update that sampled a session and skips it
\* does so because another update, under way or cut off from its client, has
\* the row; never because the row is missing or an ended update kept it.
SkipMeansContention ==
  [][\A w \in Workers : (pc[w] = "lock" /\ pc'[w] = "idle" /\ res'[w] = "skip") =>
       LET h == rowLock[sid[w]]
       IN  /\ h \in (Workers \ {w}) \cup {Lost}
           /\ h # Lost => sid[h] = sid[w] /\ pc[h] \in Updating \ {"lock"}]_vars

\* Operations return although deletes wait for each other's rows.
EveryOpReturns == \A w \in Workers : pc[w] # "idle" ~> pc[w] = "idle"
=============================================================================
